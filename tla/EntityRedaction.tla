--------------------------- MODULE EntityRedaction ---------------------------
(***************************************************************************)
(* The replacement of named entities in a text: NlpEngine::process of      *)
(* src/redaction/nlp.rs, after the model has given a class to every token. *)
(*                                                                         *)
(* A text is its positions 1..length.  A token is where it starts and ends *)
(* in the text, in this order, and the label of its class, if it has one;  *)
(* the tokens the tokenizer adds at the beginning and the end have the     *)
(* offsets 0, 0 and may be given a class as well.                          *)
(***************************************************************************)
EXTENDS Naturals, Sequences

CONSTANTS
    Labels,    \* "<REDACTED_PERSON>", "<REDACTED_ORG>", "<REDACTED_LOC>"
    NoLabel,   \* None
    Texts      \* what there is to redact: [length, tokens]

(* The tokens of the text do not overlap and come in its order. *)
TextOk(t) ==
    /\ t.length \in Nat
    /\ \A i \in DOMAIN t.tokens :
          /\ i \in Nat /\ t.tokens[i].label \in Labels \cup {NoLabel}
          /\ t.tokens[i].start \in 0..t.tokens[i].end /\ t.tokens[i].end \in 0..t.length
          /\ \A j \in DOMAIN t.tokens :
                i < j /\ t.tokens[j].end # 0 => t.tokens[i].end <= t.tokens[j].start

ASSUME TextsAssumption ==
    /\ NoLabel \notin Labels /\ Labels \cap Nat = {}
    /\ \A t \in Texts : TextOk(t)

VARIABLES
    pc,
    text,      \* input and its encoding
    todo,      \* redacted_indices: the tokens the loop has not come to
    lastPos,   \* last_pos
    current,   \* current_redaction
    output     \* new_text: positions of the input and labels

vars == <<pc, text, todo, lastPos, current, output>>

Positions(from, to) == [i \in 1..(to - from) |-> from + i]
WithLabel == {i \in DOMAIN text.tokens : text.tokens[i].label # NoLabel}

(* No slice of the input is out of bounds, which would end the pass in a panic
   (process). *)
TypeOK ==
    /\ pc \in {"redact", "done"}
    /\ text \in Texts
    /\ todo \subseteq WithLabel
    /\ lastPos \in 0..text.length
    /\ current \in Labels \cup {NoLabel}
    /\ output \in Seq((1..text.length) \cup Labels)

Init ==
    /\ pc = "redact" /\ text \in Texts /\ todo = WithLabel
    /\ lastPos = 0 /\ current = NoLabel /\ output = <<>>

(***************************************************************************)
(* Mutated forms of actions below: the plausible bugs the properties are   *)
(* there to catch.  Nothing in the specification uses them.                *)
(***************************************************************************)

(* Special: the added tokens are like any other. *)
SpecialNever(token) == FALSE

(* SameEntity: any entity after the first is taken for a part of it. *)
AnyEntity(token) == current # NoLabel

(* Before: the text between two entities is left out. *)
BeforeNothing(token) == <<>>

(***************************************************************************)
(* The loop over the tokens with a label.                                  *)
(***************************************************************************)

Special(token) == token.start = 0 /\ token.end = 0
Before(token) == Positions(lastPos, token.start)

(* The label before was the same, wherever in the text that was. *)
SameEntity(token) == current = token.label

Take(i) ==
    /\ pc = "redact" /\ i \in todo
    /\ \A j \in todo : i <= j
    /\ todo' = todo \ {i} /\ UNCHANGED text

SkipSpecial(i) ==
    /\ Take(i) /\ Special(text.tokens[i])
    /\ UNCHANGED <<pc, lastPos, current, output>>

Continue(i) ==
    /\ Take(i) /\ ~Special(text.tokens[i]) /\ SameEntity(text.tokens[i])
    /\ UNCHANGED <<pc, lastPos, current, output>>

Replace(i) ==
    LET token == text.tokens[i]
    IN  /\ Take(i) /\ ~Special(token) /\ ~SameEntity(token)
        /\ pc' = IF token.start < lastPos THEN "panic" ELSE pc
        /\ output' = output \o Append(Before(token), token.label)
        /\ lastPos' = token.end /\ current' = token.label

Finish ==
    /\ pc = "redact" /\ todo = {} /\ pc' = "done"
    /\ output' = output \o Positions(lastPos, text.length)
    /\ UNCHANGED <<text, todo, lastPos, current>>

Redacted == pc = "done" /\ UNCHANGED vars

Next ==
    \/ \E i \in todo : SkipSpecial(i) \/ Continue(i) \/ Replace(i)
    \/ Finish \/ Redacted

Spec == Init /\ [][Next]_vars
-----------------------------------------------------------------------------

Covered(token) == (token.start + 1)..token.end
Kept(i) == output[i] \in Nat
Tag(i) == output[i] \in Labels

(* What is not part of an entity is kept, once and in its order, whatever is replaced
   around it (process). *)
OthersKept ==
    pc = "done" =>
        /\ \A i, j \in DOMAIN output : i < j /\ Kept(i) /\ Kept(j) => output[i] < output[j]
        /\ \A p \in 1..text.length :
              \/ \E i \in WithLabel : p \in Covered(text.tokens[i])
              \/ \E i \in DOMAIN output : output[i] = p

(* A token opens an entity when the label before it, if there is any, is another one. *)
Opening(i) ==
    /\ i \in WithLabel /\ ~Special(text.tokens[i])
    /\ \A j \in WithLabel :
          j < i /\ ~Special(text.tokens[j]) /\ text.tokens[j].label = text.tokens[i].label
          => \E k \in WithLabel :
                /\ j < k /\ k < i /\ ~Special(text.tokens[k])
                /\ text.tokens[k].label # text.tokens[i].label

(* The output has the label of a token where the token was: what is kept before it came
   before the token, what is kept after it came after. *)
InPlace(i, j) ==
    /\ output[j] = text.tokens[i].label
    /\ \A k \in DOMAIN output : Kept(k) =>
          IF k < j THEN output[k] <= text.tokens[i].start ELSE output[k] > text.tokens[i].end

(* The tags are those of the tokens whose label is not that of the token labelled before
   them, each in the place of its token, whose own text is gone; no tag is of anything
   else.  Of a token that repeats the label before it nothing is said: EntitiesStripped
   is about those (process). *)
TagsWhereLabelsChange ==
    pc = "done" =>
        /\ \A i \in WithLabel : Opening(i) => \E j \in DOMAIN output : InPlace(i, j)
        /\ \A j \in DOMAIN output : Tag(j) => \E i \in WithLabel : Opening(i) /\ InPlace(i, j)

(***************************************************************************)
(* A statement of the documentation that the code does not keep.           *)
(***************************************************************************)

(* docs/en/telemetry.md:39: "The `redaction/` module strips secrets and PII before any
   payload leaves the host."  But a token with the label of the one labelled before it
   is passed over and its text kept, next to that one or after other text. *)
EntitiesStripped ==
    pc = "done" => \A i \in WithLabel : \A k \in DOMAIN output :
        output[k] \notin Covered(text.tokens[i])
=============================================================================
