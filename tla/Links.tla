------------------------------- MODULE Links --------------------------------
(***************************************************************************)
(* Singly linked heap cells, as src/src/wrappers.c and src/src/misc.c keep *)
(* their lists: what a loop from the first cell along the next pointers    *)
(* meets.  A list that goes in circles, or on in freed memory, is one too. *)
(***************************************************************************)
EXTENDS Naturals, Sequences, FiniteSets

\* The cell that the loop is at in each step, null from its end on; one step more than
\* there are cells, which is too many for a list without circles.
Reached(first, next, null) ==
    LET At[i \in 1..Cardinality(DOMAIN next) + 1] ==
            IF i = 1 THEN first
            ELSE LET c == At[i - 1] IN IF c = null THEN null ELSE next[c]
    IN  At

\* The cells in the order in which the loop meets them
Followed(first, next, null) ==
    LET at == Reached(first, next, null)
    IN  [i \in {j \in DOMAIN at : at[j] # null} |-> at[i]]

\* s is the list that starts with first: no cell is in it twice, and the last points nowhere.
IsChain(s, first, next, null) ==
    /\ s \in Seq(DOMAIN next)
    /\ \A i, j \in DOMAIN s : s[i] = s[j] => i = j
    /\ first = IF s = <<>> THEN null ELSE s[1]
    /\ \A i \in DOMAIN s : next[s[i]] = IF i = Len(s) THEN null ELSE s[i + 1]
=============================================================================
