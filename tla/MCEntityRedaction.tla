-------------------------- MODULE MCEntityRedaction --------------------------
(* EntityRedaction over every labelling of the texts of up to three words, with and
   without the tokens that are added. *)
EXTENDS EntityRedaction

CONSTANTS person, org

Classes == {person, org, NoLabel}
Token3(start, end, label) == [start |-> start, end |-> end, label |-> label]
Words(n, labels) == [i \in 1..n |-> Token3(2 * i - 2, 2 * i - 1, labels[i])]
Added(label) == <<Token3(0, 0, label)>>

MCTexts ==
    {[length |-> 2 * n, tokens |-> Added(first) \o Words(n, labels) \o Added(last)] :
        n \in {3}, labels \in [1..3 -> Classes], first \in Classes, last \in Classes}
    \cup {[length |-> 3, tokens |-> Words(2, labels)] : labels \in [1..2 -> Classes]}
    \cup {[length |-> 0, tokens |-> <<>>]}
=============================================================================
