------------------------ MODULE EntityRedactionProofs ------------------------
(***************************************************************************)
(* For all texts and labels: the loop of NlpEngine::process slices the     *)
(* input within its bounds, keeps what is no entity, and has a tag exactly *)
(* where a label differs from the one before it.                           *)
(***************************************************************************)
EXTENDS EntityRedaction, TLAPS

Token(i) == text.tokens[i]

(* The tokens still to come are after those taken, and start where the text left begins. *)
AheadInv ==
    /\ \A i \in WithLabel \ todo : \A j \in todo : i < j
    /\ \A j \in todo : Special(Token(j)) \/ lastPos <= Token(j).start

InOrder == \A i, j \in DOMAIN output : i < j /\ Kept(i) /\ Kept(j) => output[i] < output[j]
KeptTo(n) ==
    \A p \in 1..n :
        \/ \E i \in WithLabel : p \in Covered(Token(i))
        \/ \E i \in DOMAIN output : output[i] = p
Taken == WithLabel \ todo

(* The current label is that of the last token taken that is part of the text. *)
CurrentInv ==
    IF current = NoLabel THEN \A o \in Taken : Special(Token(o))
    ELSE \E last \in Taken :
            /\ ~Special(Token(last)) /\ Token(last).label = current
            /\ \A o \in Taken : Special(Token(o)) \/ o <= last

OpeningsTagged ==
    \A o \in Taken : Opening(o) =>
        /\ Token(o).end <= lastPos
        /\ \E j \in DOMAIN output : InPlace(o, j)
TagsOfOpenings ==
    \A j \in DOMAIN output : Tag(j) => \E o \in Taken : Opening(o) /\ InPlace(o, j)

(* What the output is of the tokens taken. *)
OutputInv ==
    /\ \A i \in DOMAIN output : Kept(i) => output[i] <= lastPos
    /\ InOrder /\ KeptTo(lastPos)
    /\ CurrentInv /\ OpeningsTagged /\ TagsOfOpenings

EntitiesInv ==
    /\ TypeOK
    /\ pc = "redact" => AheadInv /\ OutputInv
    /\ pc = "done" => OthersKept /\ TagsWhereLabelsChange

LEMMA TokensOk ==
    ASSUME text \in Texts, NEW i \in DOMAIN text.tokens
    PROVE  /\ i \in Nat /\ text.length \in Nat
           /\ Token(i).start \in Nat /\ Token(i).end \in Nat
           /\ Token(i).start <= Token(i).end /\ Token(i).end <= text.length
           /\ Token(i).label \in Labels \cup {NoLabel}
           /\ ~Special(Token(i)) => Token(i).end # 0
           /\ \A j \in DOMAIN text.tokens :
                 i < j /\ ~Special(Token(j)) => Token(i).end <= Token(j).start
<1>1. /\ text.length \in Nat
      /\ \A j \in DOMAIN text.tokens :
            /\ j \in Nat /\ Token(j).label \in Labels \cup {NoLabel}
            /\ Token(j).start \in 0..Token(j).end /\ Token(j).end \in 0..text.length
            /\ \A k \in DOMAIN text.tokens :
                  j < k /\ Token(k).end # 0 => Token(j).end <= Token(k).start
  BY TextsAssumption DEF TextOk, Token
<1>2. \A j \in DOMAIN text.tokens : ~Special(Token(j)) => Token(j).end # 0
  BY <1>1 DEF Special
<1>3. QED
  BY <1>1, <1>2

Replaced(old, from, to, label) == old \o Append(Positions(from, to), label)
ReplacedSays(old, from, to, label, new) ==
    \E n, m \in Nat :
        /\ n = Len(old) /\ m = to - from
        /\ Len(new) = n + m + 1 /\ DOMAIN new = 1..(n + m + 1) /\ DOMAIN old = 1..n
        /\ \A i \in 1..n : new[i] = old[i]
        /\ \A i \in (n + 1)..(n + m) : new[i] = from + (i - n)
        /\ new[n + m + 1] = label

CompletedSays(old, from, to, new) ==
    \E n, m \in Nat :
        /\ n = Len(old) /\ m = to - from
        /\ DOMAIN new = 1..(n + m) /\ DOMAIN old = 1..n
        /\ \A i \in 1..n : new[i] = old[i]
        /\ \A i \in (n + 1)..(n + m) : new[i] = from + (i - n)

ConcatenatedSays(s, t, new) ==
    /\ DOMAIN new = 1..(Len(s) + Len(t)) /\ Len(new) = Len(s) + Len(t)
    /\ \A i \in 1..Len(s) : new[i] = s[i]
    /\ \A i \in (Len(s) + 1)..(Len(s) + Len(t)) : new[i] = t[i - Len(s)]

LEMMA Concatenated ==
    ASSUME NEW S, NEW T, NEW s \in Seq(S), NEW t \in Seq(T)
    PROVE  ConcatenatedSays(s, t, s \o t)
BY DEF ConcatenatedSays

(* The text kept next and the label are what the output ends with. *)
LEMMA Extended ==
    ASSUME NEW S, NEW old \in Seq(S), NEW from \in Nat, NEW to \in Nat, from <= to, NEW label
    PROVE  ReplacedSays(old, from, to, label, Replaced(old, from, to, label))
<1> DEFINE T == Nat \cup {label}
           next == Append(Positions(from, to), label)
           new == Replaced(old, from, to, label)
<1>1. PICK n \in Nat, m \in Nat : n = Len(old) /\ m = to - from /\ DOMAIN old = 1..n
  OBVIOUS
<1>2. Positions(from, to) \in Seq(Nat) /\ Len(Positions(from, to)) = m
  BY <1>1 DEF Positions
<1>3. /\ next \in Seq(T) /\ Len(next) = m + 1
      /\ \A i \in 1..m : next[i] = from + i
      /\ next[m + 1] = label
  BY <1>1, <1>2 DEF Positions
<1>4. ConcatenatedSays(old, next, new)
  BY <1>3, Concatenated DEF Replaced
<1> HIDE DEF T, next, new
<1>5. /\ DOMAIN new = 1..(n + Len(next)) /\ Len(new) = n + Len(next)
      /\ \A i \in 1..n : new[i] = old[i]
      /\ \A i \in (n + 1)..(n + Len(next)) : new[i] = next[i - n]
  BY <1>1, <1>4 DEF ConcatenatedSays
<1>6. n + Len(next) = n + m + 1
  BY <1>1, <1>3
<1>7. \A i \in (n + 1)..(n + m) : new[i] = from + (i - n)
  <2> TAKE i \in (n + 1)..(n + m)
  <2>1. i - n \in 1..m /\ i \in (n + 1)..(n + m + 1)
    OBVIOUS
  <2>2. new[i] = next[i - n]
    BY <1>5, <1>6, <2>1
  <2>3. QED
    BY <1>3, <2>1, <2>2
<1>8. new[n + m + 1] = label
  <2>1. n + m + 1 \in (n + 1)..(n + m + 1) /\ n + m + 1 - n = m + 1
    OBVIOUS
  <2>2. new[n + m + 1] = next[m + 1]
    BY <1>5, <1>6, <2>1
  <2>3. QED
    BY <1>3, <2>2
<1>9. /\ DOMAIN new = 1..(n + m + 1) /\ Len(new) = n + m + 1
      /\ \A i \in 1..n : new[i] = old[i]
  BY <1>5, <1>6
<1>10. QED
  BY <1>1, <1>7, <1>8, <1>9, Zenon DEF ReplacedSays, new

LEMMA Completed ==
    ASSUME NEW S, NEW old \in Seq(S), NEW from \in Nat, NEW to \in Nat, from <= to
    PROVE  CompletedSays(old, from, to, old \o Positions(from, to))
<1> DEFINE next == Positions(from, to)
           new == old \o next
<1>1. PICK n \in Nat, m \in Nat : n = Len(old) /\ m = to - from /\ DOMAIN old = 1..n
  OBVIOUS
<1>2. /\ next \in Seq(Nat) /\ Len(next) = m
      /\ \A i \in 1..m : next[i] = from + i
  BY <1>1 DEF Positions
<1>3. ConcatenatedSays(old, next, new)
  BY <1>2, Concatenated
<1> HIDE DEF next, new
<1>4. /\ DOMAIN new = 1..(n + m)
      /\ \A i \in 1..n : new[i] = old[i]
      /\ \A i \in (n + 1)..(n + m) : new[i] = next[i - n]
  BY <1>1, <1>2, <1>3 DEF ConcatenatedSays
<1>5. \A i \in (n + 1)..(n + m) : new[i] = from + (i - n)
  <2> TAKE i \in (n + 1)..(n + m)
  <2>1. i - n \in 1..m
    OBVIOUS
  <2>2. new[i] = next[i - n]
    BY <1>4
  <2>3. QED
    BY <1>2, <2>1, <2>2
<1>6. QED
  BY <1>1, <1>4, <1>5, Zenon DEF CompletedSays, new, next

LEMMA PositionsInText ==
    ASSUME NEW from \in Nat, NEW to \in Nat, NEW length \in Nat, from <= to, to <= length
    PROVE  Positions(from, to) \in Seq(1..length)
<1>1. PICK size \in Nat : size = to - from
  OBVIOUS
<1>2. \A i \in 1..size : from + i \in 1..length
  BY <1>1
<1>3. Positions(from, to) = [i \in 1..size |-> from + i]
  BY <1>1 DEF Positions
<1>4. QED
  BY <1>2, <1>3

LEMMA InitOk == Init => EntitiesInv
<1> SUFFICES ASSUME Init PROVE EntitiesInv
  OBVIOUS
<1>1. TypeOK
  <2>1. text \in Texts /\ todo = WithLabel /\ pc = "redact" /\ lastPos = 0 /\ current = NoLabel
    BY DEF Init
  <2>2. text.length \in Nat
    BY <2>1, TextsAssumption DEF TextOk
  <2>3. output \in Seq((1..text.length) \cup Labels)
    BY DEF Init
  <2>4. QED
    BY <2>1, <2>2, <2>3 DEF TypeOK
<1>2. AheadInv
  <2>1. \A j \in todo : 0 <= Token(j).start
    BY TokensOk DEF Init, WithLabel
  <2>2. QED
    BY <2>1 DEF Init, AheadInv
<1>3. OutputInv
  BY DEF Init, OutputInv, InOrder, KeptTo, CurrentInv, OpeningsTagged, TagsOfOpenings, Taken, Kept, Tag
<1>4. QED
  BY <1>1, <1>2, <1>3 DEF Init, EntitiesInv

(* A token taken leaves the tokens that are after it. *)
LEMMA TakeOk ==
    ASSUME EntitiesInv, NEW i \in todo, Take(i)
    PROVE  /\ pc = "redact" /\ i \in WithLabel /\ i \in DOMAIN text.tokens /\ text \in Texts
           /\ text' = text /\ WithLabel' = WithLabel /\ todo' = todo \ {i}
           /\ WithLabel \ todo' = (WithLabel \ todo) \cup {i}
           /\ \A o \in WithLabel \ todo' : \A j \in todo' : o < j
<1>1. /\ pc = "redact" /\ text' = text /\ todo' = todo \ {i} /\ \A j \in todo : i <= j
      /\ todo \subseteq WithLabel /\ text \in Texts
      /\ \A o \in WithLabel \ todo : \A j \in todo : o < j
  BY DEF Take, EntitiesInv, TypeOK, AheadInv
<1>2. \A j \in WithLabel : j \in DOMAIN text.tokens /\ j \in Nat
  BY <1>1, TokensOk DEF WithLabel
<1>3. WithLabel' = WithLabel
  BY <1>1 DEF WithLabel
<1>4. \A j \in todo \ {i} : i < j
  BY <1>1, <1>2
<1>5. QED
  BY <1>1, <1>2, <1>3, <1>4

(* The code's test is that of Opening: the label before, wherever it was, is another. *)
LEMMA OpeningIff ==
    ASSUME EntitiesInv, NEW i \in todo, Take(i), ~Special(Token(i))
    PROVE  Opening(i) <=> current # Token(i).label
<1>1. /\ i \in WithLabel /\ WithLabel \ todo' = Taken \cup {i}
      /\ todo' = todo \ {i} /\ pc = "redact" /\ text \in Texts
  BY TakeOk DEF Taken
<1>2. /\ \A o \in Taken : o < i
      /\ \A j \in todo : i <= j
      /\ CurrentInv /\ Taken \subseteq WithLabel
  BY <1>1 DEF EntitiesInv, AheadInv, OutputInv, Taken, Take
<1>3. \A j \in WithLabel : j \in Nat
  BY <1>1, TokensOk DEF WithLabel
<1>4. \A j \in WithLabel : j < i => j \in Taken
  BY <1>1, <1>2, <1>3 DEF Taken
<1>5. Token(i).label # NoLabel
  BY <1>1 DEF WithLabel, Token
<1>6. ASSUME Opening(i), current = Token(i).label PROVE FALSE
  <2>1. PICK last \in Taken : /\ ~Special(Token(last)) /\ Token(last).label = current
                              /\ \A o \in Taken : Special(Token(o)) \/ o <= last
    BY <1>2, <1>5, <1>6 DEF CurrentInv
  <2>2. PICK k \in WithLabel : last < k /\ k < i /\ ~Special(Token(k))
    BY <1>2, <1>6, <2>1 DEF Opening, Token
  <2>3. k <= last
    BY <1>4, <2>1, <2>2
  <2>4. QED
    BY <1>2, <1>3, <2>1, <2>2, <2>3
<1>7. ASSUME current # Token(i).label PROVE Opening(i)
  <2>1. SUFFICES ASSUME NEW j \in WithLabel, j < i, ~Special(Token(j)), Token(j).label = Token(i).label
                 PROVE  \E k \in WithLabel : /\ j < k /\ k < i /\ ~Special(Token(k))
                                             /\ Token(k).label # Token(i).label
    BY <1>1 DEF Opening, Token
  <2>2. j \in Taken
    BY <1>4, <2>1
  <2>3. current # NoLabel
    BY <1>2, <2>1, <2>2 DEF CurrentInv
  <2>4. PICK last \in Taken : /\ ~Special(Token(last)) /\ Token(last).label = current
                              /\ \A o \in Taken : Special(Token(o)) \/ o <= last
    BY <1>2, <2>3 DEF CurrentInv
  <2>5. j <= last /\ j # last /\ last < i /\ last \in WithLabel
    BY <1>2, <1>7, <2>1, <2>2, <2>4
  <2>6. j < last
    BY <1>3, <2>5
  <2>7. QED
    BY <1>7, <2>4, <2>5, <2>6
<1>8. QED
  BY <1>6, <1>7

(* What a step that leaves the text as it is leaves of the texts of its tokens. *)
LEMMA SameOpenings ==
    ASSUME text' = text
    PROVE  /\ WithLabel' = WithLabel
           /\ \A o : /\ Token(o)' = Token(o) /\ Special(Token(o))' = Special(Token(o))
                     /\ Opening(o)' = Opening(o)
BY DEF WithLabel, Token, Special, Opening

(* A token that is skipped was already tagged, or needs no tag. *)
LEMMA SkipOk ==
    ASSUME EntitiesInv, NEW i \in todo, SkipSpecial(i) \/ Continue(i)
    PROVE  EntitiesInv'
<1>1. Take(i) /\ UNCHANGED <<pc, lastPos, current, output>>
  BY DEF SkipSpecial, Continue
<1>2. /\ pc = "redact" /\ i \in WithLabel /\ i \in DOMAIN text.tokens /\ text \in Texts
      /\ text' = text /\ WithLabel' = WithLabel /\ todo' = todo \ {i}
      /\ WithLabel \ todo' = (WithLabel \ todo) \cup {i}
      /\ \A o \in WithLabel \ todo' : \A j \in todo' : o < j
  BY <1>1, TakeOk
<1>3. TypeOK'
  BY <1>1, <1>2 DEF EntitiesInv, TypeOK
<1>4. \A j : Token(j)' = Token(j)
  BY <1>2 DEF Token
<1>5. AheadInv'
  BY <1>1, <1>2, <1>4 DEF EntitiesInv, AheadInv
<1>6. CurrentInv' /\ ~Opening(i)
  <2>1. /\ Taken' = Taken \cup {i} /\ \A o \in Taken : o < i
        /\ CurrentInv /\ Taken \subseteq WithLabel
    BY <1>2 DEF EntitiesInv, AheadInv, OutputInv, Taken
  <2>2. \A o \in WithLabel : o \in Nat
    BY <1>2, TokensOk DEF WithLabel
  <2>3. current' = current /\ \A o : Special(Token(o))' = Special(Token(o))
    BY <1>1, <1>2, SameOpenings
  <2>4. CASE Special(Token(i))
    <3>1. CurrentInv'
      BY <1>4, <2>1, <2>3, <2>4 DEF CurrentInv
    <3>2. ~Opening(i)
      BY <2>4 DEF Opening, Token
    <3>3. QED
      BY <3>1, <3>2
  <2>5. CASE ~Special(Token(i))
    <3>1. current = Token(i).label
      BY <2>5 DEF SkipSpecial, Continue, SameEntity, Token
    <3>2. ~Opening(i)
      BY <1>1, <2>5, <3>1, OpeningIff
    <3>3. current # NoLabel
      BY <1>2, <3>1 DEF WithLabel, Token
    <3>4. \A o \in Taken' : o <= i
      BY <1>2, <2>1, <2>2
    <3>5. /\ i \in Taken' /\ ~Special(Token(i))' /\ Token(i)'.label = current'
          /\ current' # NoLabel
      BY <1>1, <1>4, <2>1, <2>3, <2>5, <3>1, <3>3
    <3>6. CurrentInv'
      BY <3>4, <3>5 DEF CurrentInv
    <3>7. QED
      BY <3>2, <3>6
  <2>6. QED
    BY <2>4, <2>5
<1>7. OutputInv'
  <2>1. InOrder' /\ KeptTo(lastPos)'
    BY <1>1, <1>2, <1>4 DEF EntitiesInv, OutputInv, InOrder, KeptTo, Kept
  <2>2. /\ Taken' = Taken \cup {i}
        /\ \A o, j : InPlace(o, j)' = InPlace(o, j)
        /\ \A j : Tag(j)' = Tag(j)
        /\ \A o : Opening(o)' = Opening(o) /\ Token(o)' = Token(o)
        /\ OpeningsTagged /\ TagsOfOpenings
    BY <1>1, <1>2, SameOpenings DEF EntitiesInv, OutputInv, Taken, InPlace, Kept, Tag
  <2>3. OpeningsTagged'
    BY <1>1, <1>6, <2>2 DEF OpeningsTagged
  <2>4. TagsOfOpenings'
    BY <1>1, <2>2 DEF TagsOfOpenings
  <2>5. QED
    BY <1>1, <1>2, <1>6, <2>1, <2>3, <2>4 DEF EntitiesInv, OutputInv, Kept
<1>8. QED
  BY <1>1, <1>2, <1>3, <1>5, <1>7 DEF EntitiesInv

(* A token that is replaced: the text up to it is kept, and its label follows. *)
LEMMA ReplaceOk ==
    ASSUME EntitiesInv, NEW i \in todo, Replace(i)
    PROVE  EntitiesInv'
<1> DEFINE V == (1..text.length) \cup Labels
<1>1. PICK token : token = Token(i)
  OBVIOUS
<1>2. /\ Take(i) /\ ~Special(token) /\ current # token.label
      /\ pc' = IF token.start < lastPos THEN "panic" ELSE pc
      /\ output' = output \o Append(Positions(lastPos, token.start), token.label)
      /\ lastPos' = token.end /\ current' = token.label
  BY <1>1 DEF Replace, SameEntity, Before, Token
<1>3. /\ pc = "redact" /\ i \in WithLabel /\ i \in DOMAIN text.tokens /\ text \in Texts
      /\ text' = text /\ WithLabel' = WithLabel /\ todo' = todo \ {i}
      /\ WithLabel \ todo' = (WithLabel \ todo) \cup {i}
      /\ \A o \in WithLabel \ todo' : \A j \in todo' : o < j
  BY <1>2, TakeOk
<1>4. /\ token.start \in Nat /\ token.end \in Nat /\ text.length \in Nat
      /\ token.start <= token.end /\ token.end <= text.length /\ token.label \in Labels
      /\ \A j \in DOMAIN text.tokens : i < j /\ ~Special(Token(j)) => token.end <= Token(j).start
  BY <1>1, <1>2, <1>3, TokensOk DEF WithLabel, Token
<1>5. /\ output \in Seq(V) /\ lastPos \in Nat /\ lastPos <= token.start /\ todo \subseteq WithLabel
      /\ OutputInv
  BY <1>1, <1>2, <1>3, <1>4 DEF EntitiesInv, AheadInv, TypeOK
<1>6. /\ pc' = "redact" /\ text' \in Texts /\ todo' \subseteq WithLabel'
      /\ lastPos' \in 0..text'.length /\ current' \in Labels
  BY <1>2, <1>3, <1>4, <1>5
<1>7. \A j : Token(j)' = Token(j) /\ Special(Token(j))' = Special(Token(j))
  BY <1>3 DEF Token, Special
<1> HIDE DEF V
<1>8. PICK from \in Nat, to \in Nat : from = lastPos /\ to = token.start /\ from <= to
  BY <1>4, <1>5
<1>9. PICK n \in Nat, m \in Nat :
      /\ n = Len(output) /\ m = to - from
      /\ Len(output') = n + m + 1 /\ DOMAIN output' = 1..(n + m + 1) /\ DOMAIN output = 1..n
      /\ \A k \in 1..n : output'[k] = output[k]
      /\ \A k \in (n + 1)..(n + m) : output'[k] = from + (k - n)
      /\ output'[n + m + 1] = token.label
  <2>1. output' = output \o Append(Positions(from, to), token.label) /\ output \in Seq(V)
    BY <1>2, <1>5, <1>8
  <2>2. output' = Replaced(output, from, to, token.label)
    BY <2>1 DEF Replaced
  <2>3. ReplacedSays(output, from, to, token.label, Replaced(output, from, to, token.label))
    BY <1>8, <2>1, Extended
  <2>4. QED
    BY <2>2, <2>3, Zenon DEF ReplacedSays
<1>10. m = to - from
  BY <1>9, Zenon
<1>11. TypeOK'
  <2>1. Positions(lastPos, token.start) \in Seq(1..text.length)
    <3>1. PICK length \in Nat : length = text.length /\ to <= length
      BY <1>4, <1>8
    <3>2. Positions(from, to) \in Seq(1..length)
      BY <1>8, <3>1, PositionsInText, Zenon
    <3>3. QED
      BY <1>8, <3>1, <3>2
  <2>2. output' \in Seq(V)
    <3>1. Positions(lastPos, token.start) \in Seq(V) /\ token.label \in V
      BY <1>4, <2>1 DEF V
    <3>2. QED
      BY <1>2, <1>5, <3>1
  <2>3. output' \in Seq((1..text'.length) \cup Labels)
    BY <1>3, <2>2 DEF V
  <2>4. QED
    BY <1>6, <2>3 DEF TypeOK
<1>12. AheadInv'
  <2>1. \A j \in todo' : i < j /\ j \in DOMAIN text.tokens
    BY <1>3, <1>5 DEF WithLabel
  <2>2. \A j \in todo' : Special(Token(j)) \/ lastPos' <= Token(j).start
    BY <1>2, <1>4, <2>1
  <2>3. QED
    BY <1>3, <1>7, <2>2 DEF AheadInv
<1>13. /\ \A k \in 1..n : Kept(k)' = Kept(k) /\ Tag(k)' = Tag(k) /\ (Kept(k) => output[k] <= lastPos)
       /\ \A k \in 1..n : Kept(k) \/ Tag(k)
       /\ \A k \in (n + 1)..(n + m) : /\ ~Tag(k)' /\ Kept(k)'
                                      /\ lastPos < output'[k] /\ output'[k] <= token.start
       /\ Tag(n + m + 1)' /\ ~Kept(n + m + 1)'
  <2>1. \A k \in 1..n : Kept(k)' = Kept(k) /\ Tag(k)' = Tag(k) /\ (Kept(k) => output[k] <= lastPos)
    BY <1>5, <1>9 DEF OutputInv, Kept, Tag
  <2>2. \A k \in 1..n : Kept(k) \/ Tag(k)
    BY <1>4, <1>5, <1>9 DEF Kept, Tag, V
  <2>3. \A k \in (n + 1)..(n + m) : /\ output'[k] \in Nat
                                    /\ lastPos < output'[k] /\ output'[k] <= token.start
    <3> TAKE k \in (n + 1)..(n + m)
    <3>1. k - n \in 1..m
      OBVIOUS
    <3>2. output'[k] = from + (k - n)
      BY <1>9, Zenon
    <3>3. QED
      BY <1>8, <1>10, <3>1, <3>2
  <2>4. \A k \in (n + 1)..(n + m) : ~Tag(k)' /\ Kept(k)'
    BY <2>3, TextsAssumption DEF Tag, Kept
  <2>5. Tag(n + m + 1)' /\ ~Kept(n + m + 1)'
    <3>1. output'[n + m + 1] = token.label
      BY <1>9, Zenon
    <3>2. QED
      BY <1>4, <3>1, TextsAssumption DEF Tag, Kept
  <2>6. QED
    BY <2>1, <2>2, <2>3, <2>4, <2>5
<1>14. \A k \in DOMAIN output' : k \in 1..n \/ k \in (n + 1)..(n + m) \/ k = n + m + 1
  BY <1>9
<1>15. \A k \in DOMAIN output' : Kept(k)' => output'[k] <= token.start /\ output'[k] <= token.end
  <2> SUFFICES ASSUME NEW k \in DOMAIN output', Kept(k)'
               PROVE  output'[k] <= token.start /\ output'[k] \in Nat
    BY <1>4
  <2>1. CASE k \in 1..n
    BY <1>4, <1>5, <1>9, <1>13, <2>1 DEF Kept
  <2>2. CASE k \in (n + 1)..(n + m)
    BY <1>13, <2>2 DEF Kept
  <2>3. QED
    BY <1>13, <1>14, <2>1, <2>2
<1>16. InOrder'
  <2> SUFFICES ASSUME NEW a \in DOMAIN output', NEW b \in DOMAIN output', a < b, Kept(a)', Kept(b)'
               PROVE  output'[a] < output'[b]
    BY DEF InOrder
  <2>1. a # n + m + 1 /\ b # n + m + 1
    BY <1>13
  <2>2. CASE b \in 1..n
    <3>1. a \in 1..n
      BY <1>9, <2>2
    <3>2. QED
      BY <1>5, <1>9, <1>13, <2>2, <3>1 DEF OutputInv, InOrder
  <2>3. CASE b \in (n + 1)..(n + m) /\ a \in 1..n
    <3>1. output'[a] = output[a] /\ output[a] \in Nat
      BY <1>9, <2>3, Zenon DEF Kept
    <3>2. output[a] <= lastPos /\ lastPos < output'[b] /\ output'[b] \in Nat
      BY <1>13, <2>3, <3>1 DEF Kept
    <3>3. QED
      BY <1>5, <3>1, <3>2
  <2>4. CASE b \in (n + 1)..(n + m) /\ a \in (n + 1)..(n + m)
    <3>1. output'[a] = from + (a - n) /\ output'[b] = from + (b - n)
      BY <1>9, <2>4, Zenon
    <3>2. QED
      BY <2>4, <3>1
  <2>5. QED
    BY <1>14, <2>1, <2>2, <2>3, <2>4
<1>17. KeptTo(lastPos)'
  <2> SUFFICES ASSUME NEW p \in 1..token.end
               PROVE  \/ \E o \in WithLabel : p \in Covered(Token(o))
                      \/ \E k \in DOMAIN output' : output'[k] = p
    BY <1>2, <1>3, <1>7 DEF KeptTo, Covered
  <2>1. CASE p \in 1..lastPos
    <3>1. CASE \E k \in DOMAIN output : output[k] = p
      BY <1>9, <3>1
    <3>2. CASE \E o \in WithLabel : p \in Covered(Token(o))
      BY <3>2
    <3>3. QED
      BY <1>5, <2>1, <3>1, <3>2 DEF OutputInv, KeptTo
  <2>2. CASE p \in (lastPos + 1)..token.start
    <3>1. PICK k \in Nat : k = n + (p - lastPos)
      BY <1>8, <2>2
    <3>2. k \in (n + 1)..(n + m) /\ from + (k - n) = p
      BY <1>8, <1>10, <2>2, <3>1
    <3>3. output'[k] = p
      BY <1>9, <3>2, Zenon
    <3>4. k \in 1..(n + m + 1)
      BY <3>2
    <3>5. QED
      BY <1>9, <3>3, <3>4, Zenon
  <2>3. CASE p \in (token.start + 1)..token.end
    BY <1>1, <1>3, <2>3 DEF Covered
  <2>4. QED
    BY <1>4, <1>5, <2>1, <2>2, <2>3
<1>18. CurrentInv'
  <2>1. /\ Taken' = Taken \cup {i} /\ Taken \subseteq WithLabel /\ \A o \in Taken : o < i
    BY <1>3 DEF EntitiesInv, AheadInv, Taken
  <2>2. \A o \in WithLabel : o \in Nat
    BY <1>3, TokensOk DEF WithLabel
  <2>3. \A o \in Taken' : o <= i
    BY <1>3, <2>1, <2>2
  <2>4. /\ i \in Taken' /\ ~Special(Token(i))' /\ Token(i)'.label = current'
        /\ current' # NoLabel
    BY <1>1, <1>2, <1>4, <1>7, <2>1, TextsAssumption
  <2>5. QED
    BY <2>3, <2>4 DEF CurrentInv
<1>19. OpeningsTagged' /\ TagsOfOpenings'
  <2>1. /\ Taken' = Taken \cup {i}
        /\ \A o : Opening(o)' = Opening(o) /\ Token(o)' = Token(o)
    BY <1>3, SameOpenings DEF Taken
  <2>2. Opening(i)
    BY <1>1, <1>2, OpeningIff
  <2>3. /\ n + m + 1 \in DOMAIN output' /\ InPlace(i, n + m + 1)' /\ Token(i).end <= lastPos'
    <3>1. output'[n + m + 1] = token.label /\ n + m + 1 \in DOMAIN output'
      <4>1. output'[n + m + 1] = token.label
        BY <1>9, Zenon
      <4>2. n + m + 1 \in DOMAIN output'
        BY <1>9
      <4>3. QED
        BY <4>1, <4>2
    <3>2. \A k \in DOMAIN output' : Kept(k)' => k < n + m + 1 /\ output'[k] <= token.start
      BY <1>13, <1>14, <1>15
    <3>3. InPlace(i, n + m + 1)'
      BY <1>1, <1>3, <3>1, <3>2 DEF InPlace, Token
    <3>4. QED
      BY <1>1, <1>2, <1>4, <3>1, <3>3
  <2>4. ASSUME NEW o \in Taken, Opening(o), NEW j \in DOMAIN output, InPlace(o, j)
        PROVE  InPlace(o, j)' /\ Token(o).end <= lastPos'
    <3>1. Token(o).end <= lastPos /\ Token(o).end \in Nat
      BY <1>3, <1>5, <2>4, TokensOk DEF OutputInv, OpeningsTagged, Opening, WithLabel
    <3>2. j \in 1..n /\ output'[j] = Token(o).label
      BY <1>9, <2>4 DEF InPlace, Token
    <3>3. ASSUME NEW k \in DOMAIN output', Kept(k)'
          PROVE  IF k < j THEN output'[k] <= Token(o).start ELSE output'[k] > Token(o).end
      <4>1. CASE k \in 1..n
        BY <1>9, <1>13, <2>4, <3>3, <4>1 DEF InPlace, Token
      <4>2. CASE k \in (n + 1)..(n + m)
        <5>1. ~(k < j)
          BY <3>2, <4>2
        <5>2. lastPos < output'[k] /\ output'[k] \in Nat
          BY <1>13, <3>3, <4>2 DEF Kept
        <5>3. output'[k] > Token(o).end
          BY <1>5, <3>1, <5>2
        <5>4. QED
          BY <5>1, <5>3
      <4>3. QED
        BY <1>13, <1>14, <3>3, <4>1, <4>2
    <3>4. InPlace(o, j)'
      BY <1>3, <3>2, <3>3 DEF InPlace, Token
    <3>5. QED
      BY <1>2, <1>4, <1>5, <3>1, <3>4
  <2>5. DOMAIN output \subseteq DOMAIN output'
    BY <1>9
  <2>6. OpeningsTagged'
    <3> SUFFICES ASSUME NEW o \in Taken', Opening(o)
                 PROVE  Token(o).end <= lastPos' /\ \E j \in DOMAIN output' : InPlace(o, j)'
      BY <2>1 DEF OpeningsTagged
    <3>1. CASE o = i
      BY <2>3, <3>1
    <3>2. CASE o \in Taken
      <4>1. PICK j \in DOMAIN output : InPlace(o, j)
        BY <1>5, <3>2 DEF OutputInv, OpeningsTagged
      <4>2. QED
        BY <2>4, <2>5, <3>2, <4>1
    <3>3. QED
      BY <2>1, <3>1, <3>2
  <2>7. TagsOfOpenings'
    <3> SUFFICES ASSUME NEW j \in DOMAIN output', Tag(j)'
                 PROVE  \E o \in Taken' : Opening(o) /\ InPlace(o, j)'
      BY <2>1 DEF TagsOfOpenings
    <3>1. CASE j = n + m + 1
      BY <2>1, <2>2, <2>3, <3>1
    <3>2. CASE j \in 1..n
      <4>1. j \in DOMAIN output /\ Tag(j)
        BY <1>9, <1>13, <3>2
      <4>2. PICK o \in Taken : Opening(o) /\ InPlace(o, j)
        BY <1>5, <4>1 DEF OutputInv, TagsOfOpenings
      <4>3. QED
        BY <2>1, <2>4, <4>1, <4>2
    <3>3. QED
      BY <1>13, <1>14, <3>1, <3>2
  <2>8. QED
    BY <2>6, <2>7
<1>20. OutputInv'
  BY <1>2, <1>15, <1>16, <1>17, <1>18, <1>19 DEF OutputInv
<1>21. QED
  BY <1>6, <1>11, <1>12, <1>20 DEF EntitiesInv

(* At the end the rest of the text is kept. *)
LEMMA FinishOk ==
    ASSUME EntitiesInv, Finish
    PROVE  EntitiesInv'
<1> DEFINE V == (1..text.length) \cup Labels
<1>1. /\ pc = "redact" /\ todo = {} /\ pc' = "done"
      /\ output' = output \o Positions(lastPos, text.length)
      /\ UNCHANGED <<text, todo, lastPos, current>>
  BY DEF Finish
<1>2. TypeOK /\ OutputInv /\ text \in Texts
  BY <1>1 DEF EntitiesInv, TypeOK
<1>3. PICK from \in Nat, to \in Nat : from = lastPos /\ to = text.length /\ from <= to
  <2>1. text.length \in Nat
    BY <1>2, TextsAssumption DEF TextOk
  <2>2. lastPos \in 0..text.length
    BY <1>2 DEF TypeOK
  <2>3. lastPos \in Nat /\ lastPos <= text.length
    BY <2>1, <2>2
  <2>4. QED
    BY <2>1, <2>3
<1>4. output \in Seq(V)
  BY <1>2 DEF TypeOK
<1> HIDE DEF V
<1>5. PICK n \in Nat, m \in Nat :
      /\ n = Len(output) /\ m = to - from
      /\ DOMAIN output' = 1..(n + m) /\ DOMAIN output = 1..n
      /\ \A k \in 1..n : output'[k] = output[k]
      /\ \A k \in (n + 1)..(n + m) : output'[k] = from + (k - n)
  <2>1. output' = output \o Positions(from, to)
    BY <1>1, <1>3
  <2>2. CompletedSays(output, from, to, output \o Positions(from, to))
    BY <1>3, <1>4, Completed
  <2>3. QED
    BY <2>1, <2>2, Zenon DEF CompletedSays
<1>6. m = to - from
  BY <1>5
<1>7. TypeOK'
  <2>1. Positions(from, to) \in Seq(1..to)
    BY <1>3, PositionsInText
  <2>2. Positions(from, to) \in Seq(V)
    BY <1>3, <2>1 DEF V
  <2>3. output' \in Seq(V)
    BY <1>1, <1>3, <1>4, <2>2
  <2>4. WithLabel' = WithLabel
    BY <1>1 DEF WithLabel
  <2>5. QED
    BY <1>1, <1>2, <2>3, <2>4 DEF TypeOK, V
<1>8. /\ \A k \in 1..n : Kept(k)' = Kept(k) /\ Tag(k)' = Tag(k) /\ (Kept(k) => output[k] <= from)
      /\ \A k \in (n + 1)..(n + m) : output'[k] \in Nat /\ from < output'[k] /\ ~Tag(k)'
  <2>1. \A k \in 1..n : Kept(k)' = Kept(k) /\ Tag(k)' = Tag(k) /\ (Kept(k) => output[k] <= from)
    BY <1>2, <1>3, <1>5 DEF OutputInv, Kept, Tag
  <2>2. \A k \in (n + 1)..(n + m) : output'[k] \in Nat /\ from < output'[k]
    <3> TAKE k \in (n + 1)..(n + m)
    <3>1. k - n \in 1..m
      OBVIOUS
    <3>2. output'[k] = from + (k - n)
      BY <1>5, Zenon
    <3>3. QED
      BY <3>1, <3>2
  <2>3. QED
    BY <2>1, <2>2, TextsAssumption DEF Tag
<1>9. \A k \in DOMAIN output' : k \in 1..n \/ k \in (n + 1)..(n + m)
  BY <1>5
<1>10. InOrder'
  <2> SUFFICES ASSUME NEW a \in DOMAIN output', NEW b \in DOMAIN output', a < b, Kept(a)', Kept(b)'
               PROVE  output'[a] < output'[b]
    BY DEF InOrder
  <2>1. CASE b \in 1..n
    <3>1. a \in 1..n
      BY <1>5, <2>1
    <3>2. QED
      BY <1>2, <1>5, <1>8, <2>1, <3>1 DEF OutputInv, InOrder
  <2>2. CASE b \in (n + 1)..(n + m) /\ a \in 1..n
    <3>1. output'[a] = output[a] /\ output[a] \in Nat
      BY <1>5, <2>2, Zenon DEF Kept
    <3>2. output[a] <= from /\ from < output'[b] /\ output'[b] \in Nat
      BY <1>8, <2>2, <3>1 DEF Kept
    <3>3. QED
      BY <3>1, <3>2
  <2>3. CASE b \in (n + 1)..(n + m) /\ a \in (n + 1)..(n + m)
    <3>1. output'[a] = from + (a - n) /\ output'[b] = from + (b - n)
      BY <1>5, <2>3, Zenon
    <3>2. QED
      BY <2>3, <3>1
  <2>4. CASE b \in 1..n /\ a \in (n + 1)..(n + m)
    BY <2>4
  <2>5. QED
    BY <1>9, <2>1, <2>2, <2>3, <2>4
<1>11. KeptTo(to)'
  <2> SUFFICES ASSUME NEW p \in 1..to
               PROVE  \/ \E o \in WithLabel : p \in Covered(Token(o))
                      \/ \E k \in DOMAIN output' : output'[k] = p
    BY <1>1 DEF KeptTo, Covered, WithLabel, Token
  <2>1. CASE p \in 1..from
    <3>1. CASE \E k \in DOMAIN output : output[k] = p
      BY <1>5, <3>1
    <3>2. CASE \E o \in WithLabel : p \in Covered(Token(o))
      BY <3>2
    <3>3. QED
      BY <1>2, <1>3, <2>1, <3>1, <3>2 DEF OutputInv, KeptTo
  <2>2. CASE p \in (from + 1)..to
    <3>1. PICK k \in Nat : k = n + (p - from)
      BY <2>2
    <3>2. k \in (n + 1)..(n + m) /\ from + (k - n) = p
      BY <1>6, <2>2, <3>1
    <3>3. output'[k] = p
      BY <1>5, <3>2, Zenon
    <3>4. k \in 1..(n + m)
      BY <3>2
    <3>5. QED
      BY <1>5, <3>3, <3>4, Zenon
  <2>3. QED
    BY <2>1, <2>2
<1>12. ASSUME NEW o \in Taken, Opening(o), NEW j \in DOMAIN output, InPlace(o, j)
       PROVE  InPlace(o, j)'
  <2>1. Token(o).end <= from /\ Token(o).end \in Nat
    BY <1>2, <1>3, <1>12, TokensOk DEF OutputInv, OpeningsTagged, Opening, WithLabel
  <2>2. j \in 1..n /\ output'[j] = Token(o).label
    BY <1>5, <1>12 DEF InPlace, Token
  <2>3. ASSUME NEW k \in DOMAIN output', Kept(k)'
        PROVE  IF k < j THEN output'[k] <= Token(o).start ELSE output'[k] > Token(o).end
    <3>1. CASE k \in 1..n
      BY <1>5, <1>8, <1>12, <2>3, <3>1 DEF InPlace, Token
    <3>2. CASE k \in (n + 1)..(n + m)
      <4>1. ~(k < j)
        BY <2>2, <3>2
      <4>2. output'[k] > Token(o).end
        BY <1>3, <1>8, <2>1, <3>2
      <4>3. QED
        BY <4>1, <4>2
    <3>3. QED
      BY <1>9, <3>1, <3>2
  <2>4. QED
    BY <1>1, <2>2, <2>3 DEF InPlace, Token
<1>13. /\ Taken = WithLabel /\ WithLabel' = WithLabel
       /\ \A o : Opening(o)' = Opening(o)
  BY <1>1, SameOpenings DEF Taken
<1>14. OthersKept'
  BY <1>1, <1>3, <1>10, <1>11 DEF OthersKept, InOrder, KeptTo, Token
<1>15. TagsWhereLabelsChange'
  <2>1. \A i \in WithLabel : Opening(i) => \E j \in DOMAIN output' : InPlace(i, j)'
    <3> SUFFICES ASSUME NEW i \in WithLabel, Opening(i)
                 PROVE  \E j \in DOMAIN output' : InPlace(i, j)'
      OBVIOUS
    <3>1. PICK j \in DOMAIN output : InPlace(i, j)
      BY <1>2, <1>13 DEF OutputInv, OpeningsTagged
    <3>2. j \in DOMAIN output'
      BY <1>5, <3>1
    <3>3. QED
      BY <1>12, <1>13, <3>1, <3>2
  <2>2. \A j \in DOMAIN output' : Tag(j)' => \E i \in WithLabel : Opening(i) /\ InPlace(i, j)'
    <3> SUFFICES ASSUME NEW j \in DOMAIN output', Tag(j)'
                 PROVE  \E i \in WithLabel : Opening(i) /\ InPlace(i, j)'
      OBVIOUS
    <3>1. j \in DOMAIN output /\ Tag(j)
      BY <1>5, <1>8, <1>9
    <3>2. PICK o \in Taken : Opening(o) /\ InPlace(o, j)
      BY <1>2, <3>1 DEF OutputInv, TagsOfOpenings
    <3>3. QED
      BY <1>12, <1>13, <3>1, <3>2
  <2>3. QED
    BY <1>13, <2>1, <2>2 DEF TagsWhereLabelsChange
<1>16. QED
  BY <1>1, <1>7, <1>14, <1>15 DEF EntitiesInv

LEMMA EntitiesStep == EntitiesInv /\ [Next]_vars => EntitiesInv'
<1> SUFFICES ASSUME EntitiesInv, [Next]_vars PROVE EntitiesInv'
  OBVIOUS
<1>1. CASE \E i \in todo : SkipSpecial(i) \/ Continue(i) \/ Replace(i)
  BY <1>1, SkipOk, ReplaceOk
<1>2. CASE Finish
  BY <1>2, FinishOk
<1>3. CASE Redacted \/ UNCHANGED vars
  <2>1. UNCHANGED vars
    BY <1>3 DEF Redacted
  <2>2. TypeOK'
    BY <2>1 DEF EntitiesInv, TypeOK, WithLabel, vars
  <2>3. AheadInv' = AheadInv
    BY <2>1 DEF AheadInv, WithLabel, Token, Special, vars
  <2>4. OutputInv' = OutputInv
    BY <2>1 DEF OutputInv, InOrder, KeptTo, CurrentInv, OpeningsTagged, TagsOfOpenings, InPlace,
                Opening, Taken, Kept, Tag, Covered, WithLabel, Token, Special, vars
  <2>5. OthersKept' = OthersKept /\ TagsWhereLabelsChange' = TagsWhereLabelsChange
    BY <2>1 DEF OthersKept, TagsWhereLabelsChange, InPlace, Opening, Kept, Tag, Covered, WithLabel,
                Special, vars
  <2>6. QED
    BY <2>1, <2>2, <2>3, <2>4, <2>5 DEF EntitiesInv, vars
<1>4. QED
  BY <1>1, <1>2, <1>3 DEF Next

LEMMA EntitiesInvariant == Spec => []EntitiesInv
BY InitOk, EntitiesStep, PTL DEF Spec

(* Every slice of the input is within its bounds: no text panics the loop. *)
THEOREM SlicesInBounds == Spec => []TypeOK
<1>1. EntitiesInv => TypeOK
  BY DEF EntitiesInv
<1>2. QED
  BY <1>1, EntitiesInvariant, PTL

(* All of the text that is in no entity is in the output, once and in its order. *)
THEOREM TextIsKept == Spec => []OthersKept
<1>1. EntitiesInv => OthersKept
  BY DEF EntitiesInv, OthersKept
<1>2. QED
  BY <1>1, EntitiesInvariant, PTL

(* The tags are those of the tokens whose label is not the one before, each in its place. *)
THEOREM TagsInPlace == Spec => []TagsWhereLabelsChange
<1>1. EntitiesInv => TagsWhereLabelsChange
  BY DEF EntitiesInv, TagsWhereLabelsChange
<1>2. QED
  BY <1>1, EntitiesInvariant, PTL
=============================================================================
