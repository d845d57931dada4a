------------------------------- MODULE Keyval -------------------------------
(***************************************************************************)
(* The key/value list of src/src/misc.c, heap nodes with a head and a tail *)
(* pointer, and parse_keyval of src/src/cliap2.c, which fills it from the  *)
(* argument of --txt, what the speaker announces about itself.  After that *)
(* OwnTone may make any calls on the list.                                 *)
(***************************************************************************)
EXTENDS Integers, SequencesExt, Links

CONSTANTS
    Nodes,      \* what malloc returns; it fails when none is left
    NoNode,     \* NULL
    Names,      \* numbered in the order of strcmp
    Letters,    \* names are equal but for their case when they are so modulo Letters
    Values, NoValue,
    Texts       \* arguments of --txt after the opening quote: for each stretch between
                \* quotes the sequence of the names and values that "=" separates

ASSUME NamesAssumption ==
    /\ NoNode \notin Nodes /\ IsFiniteSet(Nodes) /\ NoValue \notin Values
    /\ Names \subseteq Nat /\ Letters \in Nat \ {0}

\* The first part of a stretch is a name, and the second a value.
ASSUME TextsAssumption ==
    \A t \in Texts :
        /\ t \in Seq(Seq(Names \cup Values))
        /\ \A i \in DOMAIN t : /\ t[i] # <<>> => t[i][1] \in Names
                               /\ Len(t[i]) >= 2 => t[i][2] \in Values

VARIABLES
    head, tail,
    node,       \* what a node holds: name, value, next
    used,       \* nodes allocated and not freed
    got,        \* the result of the last call, 0, -1 or what keyval_get returned
    text,       \* what parse_keyval is given
    token       \* the stretch from which strtok_r goes on, 0 once parse_keyval has returned,
                \* and -1 when it has met too many "="
listVars == <<head, tail, node, used>>
keyvalVars == <<head, tail, node, used, got, text, token>>

Failed == -1

\* What a node holds that is not allocated, which does not matter as long as none is read
Unused == [name |-> 0, value |-> NoValue, next |-> NoNode]

KeyvalInit ==
    /\ head = NoNode /\ tail = NoNode /\ used = {} /\ got = 0
    /\ node = [c \in Nodes |-> Unused]
    /\ text \in Texts /\ token = 1

strcasecmp(a, b) == IF a % Letters = b % Letters THEN 0 ELSE 1

\* The nodes that a loop from the head meets
NextNode == [c \in Nodes |-> node[c].next]
Chain == Followed(head, NextNode, NoNode)

Match(name) == {i \in DOMAIN Chain : strcasecmp(node[Chain[i]].name, name) = 0}
FirstMatch(name) == CHOOSE i \in Match(name) : \A j \in Match(name) : i <= j

-----------------------------------------------------------------------------

Link(c, name, value) ==
    /\ node' = [[node EXCEPT ![c] = [name |-> name, value |-> value, next |-> NoNode]]
                   EXCEPT ![IF tail = NoNode THEN c ELSE tail].next =
                       IF tail = NoNode THEN NoNode ELSE c]
    /\ head' = IF head = NoNode THEN c ELSE head
    /\ tail' = c
    /\ used' = used \cup {c}

\* keyval_add: the same value again is fine, another one is not.
KeyvalAdd(name, value) ==
    \/ /\ Match(name) # {}
       /\ got' = IF node[Chain[FirstMatch(name)]].value = value THEN 0 ELSE Failed
       /\ UNCHANGED listVars
    \/ /\ Match(name) = {}
       /\ \E c \in Nodes \ used : Link(c, name, value)
       /\ got' = 0
    \/ /\ Match(name) = {} /\ Nodes = used
       /\ got' = Failed
       /\ UNCHANGED listVars

\* Mutant of Unlink: the tail is left where it is.
Unlink_TailStays(i) ==
    LET c == Chain[i] IN
    /\ head' = IF c = head THEN node[c].next ELSE head
    /\ node' = [d \in Nodes |-> IF d = c THEN Unused
                               ELSE IF i > 1 /\ d = Chain[i - 1]
                                 THEN [node[d] EXCEPT !.next = node[c].next] ELSE node[d]]
    /\ used' = used \ {c}
    /\ UNCHANGED tail

Unlink(i) ==
    LET c == Chain[i] IN
    /\ head' = IF c = head THEN node[c].next ELSE head
    /\ tail' = IF c # tail THEN tail ELSE IF i = 1 THEN NoNode ELSE Chain[i - 1]
    /\ node' = [d \in Nodes |-> IF d = c THEN Unused
                               ELSE IF i > 1 /\ d = Chain[i - 1]
                                 THEN [node[d] EXCEPT !.next = node[c].next] ELSE node[d]]
    /\ used' = used \ {c}

KeyvalRemove(name) ==
    /\ IF Match(name) = {} THEN UNCHANGED listVars ELSE Unlink(FirstMatch(name))
    /\ UNCHANGED got

KeyvalClear ==
    /\ head' = NoNode /\ tail' = NoNode
    /\ used' = {} /\ node' = [c \in Nodes |-> Unused]
    /\ UNCHANGED got

KeyvalGet(name) ==
    /\ got' = IF Match(name) = {} THEN NoValue ELSE node[Chain[FirstMatch(name)]].value
    /\ UNCHANGED listVars

\* Mutant of Sort: of the greater names the first one met is taken.
Sort_First(c) ==
    LET greater == {i \in DOMAIN Chain : node[Chain[i]].name > node[c].name}
    IN  IF greater = {} THEN NoNode ELSE Chain[CHOOSE i \in greater : \A j \in greater : i <= j]

\* The sort pointer: the least of the greater names, by strcmp
Sort(c) ==
    LET greater == {d \in used : node[d].name > node[c].name}
    IN  IF greater = {} THEN NoNode
        ELSE CHOOSE d \in greater : \A e \in greater : node[d].name <= node[e].name

\* keyval_sort; its last loop leaves the tail at the node without a successor.
KeyvalSort ==
    /\ used # {}
    /\ node' = [c \in Nodes |-> IF c \in used THEN [node[c] EXCEPT !.next = Sort(c)]
                                ELSE node[c]]
    /\ head' = CHOOSE c \in used : \A d \in used : node[c].name <= node[d].name
    /\ tail' = CHOOSE c \in used : Sort(c) = NoNode
    /\ UNCHANGED <<used, got>>

-----------------------------------------------------------------------------
\* parse_keyval

\* The outer token that strtok_r finds: it passes over two quotes in a row.
Found(from) == {i \in from..Len(text) : text[i] # <<>> /\ \A j \in from..i - 1 : text[j] = <<>>}

\* The token after one is passed over as the blank between two pairs, whatever it is.
PassBlank(i) ==
    \/ \E blank \in Found(i + 1) : token' = blank + 1
    \/ Found(i + 1) = {} /\ token' = Len(text) + 1

\* Mutant of ParseToken: a name that is there already ends the loop.
ParseToken_NoDuplicates ==
    /\ token > 0
    /\ \E i \in Found(token) :
          LET pair == text[i] IN
          /\ IF Len(pair) >= 2 THEN KeyvalAdd(pair[1], pair[2]) ELSE UNCHANGED <<listVars, got>>
          /\ IF Len(pair) > 2 \/ Match(pair[1]) # {} THEN token' = Failed ELSE PassBlank(i)
    /\ UNCHANGED text

\* A pair, or a name without a value; the result of keyval_add is not looked at.
ParseToken ==
    /\ token > 0
    /\ \E i \in Found(token) :
          LET pair == text[i] IN
          /\ IF Len(pair) >= 2 THEN KeyvalAdd(pair[1], pair[2]) ELSE UNCHANGED <<listVars, got>>
          /\ IF Len(pair) > 2 THEN token' = Failed ELSE PassBlank(i)
    /\ UNCHANGED text

ParseReturns ==
    /\ token > 0 /\ Found(token) = {}
    /\ token' = 0 /\ got' = 0
    /\ UNCHANGED <<listVars, text>>

\* The pairs before stay in the list, but main goes no further.
ParseFails ==
    /\ token = Failed
    /\ got' = Failed
    /\ UNCHANGED <<listVars, text, token>>

\* A call by OwnTone once parse_keyval has returned; the text plays no part any more.
Call ==
    /\ token = 0
    /\ \/ \E name \in Names, value \in Values : KeyvalAdd(name, value)
       \/ \E name \in Names : KeyvalRemove(name) \/ KeyvalGet(name)
       \/ KeyvalClear \/ KeyvalSort
    /\ text' = <<>> /\ UNCHANGED token

KeyvalNext == ParseToken \/ ParseReturns \/ ParseFails \/ Call
KeyvalSpec == KeyvalInit /\ [][KeyvalNext]_keyvalVars

-----------------------------------------------------------------------------

\* No sequence of calls leaves head, tail or next at a freed node, loses a node that is not
\* freed, or lets two names differ in their case only.
KvIsSound ==
    /\ used = {Chain[i] : i \in DOMAIN Chain} /\ Cardinality(used) = Len(Chain)
    /\ tail = IF Chain = <<>> THEN NoNode ELSE Chain[Len(Chain)]
    /\ \A i, j \in DOMAIN Chain :
          strcasecmp(node[Chain[i]].name, node[Chain[j]].name) = 0 => i = j

\* The pairs in their order, and what is known of a name without regard to its case
Pairs == [i \in DOMAIN Chain |-> <<node[Chain[i]].name, node[Chain[i]].value>>]
PairsOf(name) == {p \in {Pairs[i] : i \in DOMAIN Pairs} : strcasecmp(p[1], name) = 0}

\* Each call does to the pairs what its name says: add appends and never overwrites, remove
\* takes one out, sort puts all of them in the order of their names, get finds every name.
ServesTheMap ==
    /\ \A name \in Names, value \in Values : KeyvalAdd(name, value) =>
          /\ Pairs' \in {Pairs, Append(Pairs, <<name, value>>)}
          /\ got' = 0 => \E p \in PairsOf(name)' : p[2] = value
    /\ \A name \in Names : KeyvalRemove(name) =>
          /\ \/ Pairs' = Pairs
             \/ \E i \in DOMAIN Pairs : /\ strcasecmp(Pairs[i][1], name) = 0
                                        /\ Pairs' = RemoveAt(Pairs, i)
          /\ PairsOf(name)' = {}
    /\ \A name \in Names : KeyvalGet(name) =>
          \/ got' = NoValue /\ PairsOf(name) = {}
          \/ \E p \in PairsOf(name) : got' = p[2]
    /\ KeyvalSort =>
          /\ {Pairs'[i] : i \in DOMAIN Pairs'} = {Pairs[i] : i \in DOMAIN Pairs}
          /\ \A i, j \in DOMAIN Pairs' : i < j => Pairs'[i][1] < Pairs'[j][1]

\* Every step does, whether parse_keyval or OwnTone makes the call.
KvServesTheMap == [][ServesTheMap]_keyvalVars

\* A list of pairs, one or more, with a blank between any two of them
WellFormed ==
    /\ text # <<>>
    /\ \A i \in DOMAIN text : Len(text[i]) = IF i % 2 = 1 THEN 2 ELSE 1

\* The pairs of such a text, whether the name of one is new, and how many of them are
Given(i) == text[2 * i - 1]
Fresh(i) == \A j \in 1..i - 1 : strcasecmp(Given(i)[1], Given(j)[1]) # 0
Count(i) == Cardinality({j \in 1..i : Fresh(j)})

\* Each pair of a well-formed text is in the list when parse_keyval returns, in the order
\* of the text, of several with the same name the first.
TxtIsComplete ==
    WellFormed /\ token \notin DOMAIN text /\ 2 * Cardinality(Nodes) > Len(text) =>
        LET pairs == (Len(text) + 1) \div 2
        IN  /\ Len(Pairs) = Count(pairs)
            /\ \A i \in 1..pairs : Fresh(i) => Pairs[Count(i)] = Given(i)

\* What makes them inductive: the nodes from the head on are a list, and what is allocated;
NodeRecord == [name : Nat, value : Values \cup {NoValue}, next : Nodes \cup {NoNode}]
KeyvalInv ==
    /\ node \in [Nodes -> NodeRecord]
    /\ IsChain(Chain, head, NextNode, NoNode)
    /\ used = {Chain[i] : i \in DOMAIN Chain}
    /\ tail = IF Chain = <<>> THEN NoNode ELSE Chain[Len(Chain)]
    /\ \A c, d \in used : strcasecmp(node[c].name, node[d].name) = 0 => c = d

\* and the list is that of the first p pairs of the text, those that parse_keyval has been at.
ListOf(p) ==
    /\ Len(Chain) = Count(p)
    /\ \A i \in 1..p : Fresh(i) => Pairs[Count(i)] = Given(i)
    /\ \A j \in DOMAIN Chain : \E i \in 1..p : Pairs[j] = Given(i)
    /\ \A i \in 1..p : \E j \in DOMAIN Chain : strcasecmp(Pairs[j][1], Given(i)[1]) = 0
Parsed == IF token \in DOMAIN text THEN (token - 1) \div 2 ELSE (Len(text) + 1) \div 2
TxtInv ==
    WellFormed /\ 2 * Cardinality(Nodes) > Len(text) =>
        /\ token \in DOMAIN text => token = 2 * Parsed + 1
        /\ ListOf(Parsed)
=============================================================================
