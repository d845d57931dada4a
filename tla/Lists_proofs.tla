---------------------------- MODULE Lists_proofs ----------------------------
(***************************************************************************)
(* The queue emulation and the key/value list: their pointers stay those of*)
(* a list whatever calls are made, each call does what its name says, and  *)
(* parse_keyval leaves every pair of its text in the list.  For any number *)
(* of nodes and any texts.                                                 *)
(***************************************************************************)
EXTENDS DbQueue, Keyval, FiniteSetTheorems, SequenceTheorems, TLAPS

-----------------------------------------------------------------------------
(* Lists, and what they are followed to.                                     *)

\* A set of natural numbers that is not empty has a least element.
LEMMA LeastExists ==
    ASSUME NEW T \in SUBSET Nat, T # {}
    PROVE  \E n \in T : \A m \in T : n <= m
<1>1. PICK b \in T : TRUE
  OBVIOUS
<1> DEFINE R == StrictSubsetOrdering(0..b)
           F == {0..x : x \in T \cap (0..b)}
<1>2. IsWellFoundedOn(R, SUBSET (0..b))
  <2>1. IsFiniteSet(0..b)
    BY <1>1, FS_Interval
  <2>2. FiniteSubsetsOf(0..b) = SUBSET (0..b)
    BY <2>1, FS_FiniteSubsetsOfFinite
  <2> QED
    BY <2>2, FS_StrictSubsetOrderingWellFounded
<1>3. F \subseteq SUBSET (0..b) /\ F # {}
  OBVIOUS
<1> HIDE DEF R, F
<1>4. PICK U \in F : \A V \in F : ~(<<V, U>> \in R)
  BY <1>2, <1>3, WFMin
<1> USE DEF F
<1>5. PICK x \in T \cap (0..b) : U = 0..x
  BY <1>4
<1>6. ASSUME NEW m \in T, m < x PROVE FALSE
  <2>1. m \in T \cap (0..b) /\ 0..m \in F
    BY <1>5, <1>6
  <2>2. 0..m \subseteq 0..x /\ 0..m # 0..x
    BY <1>5, <1>6
  <2>3. <<0..m, U>> \in R
    BY <1>5, <2>1, <2>2 DEF R, StrictSubsetOrdering
  <2> QED
    BY <1>4, <2>1, <2>3
<1> QED
  BY <1>5, <1>6

\* A list without circles is no longer than there are cells.
LEMMA ChainFits ==
    ASSUME NEW first, NEW next, NEW null, NEW s,
           IsChain(s, first, next, null), IsFiniteSet(DOMAIN next)
    PROVE  /\ Cardinality(DOMAIN next) \in Nat
           /\ Len(s) \in 0..Cardinality(DOMAIN next)
<1> DEFINE N == Len(s)
<1>1. s \in Seq(DOMAIN next) /\ N \in Nat /\ DOMAIN s = 1..N
  BY DEF IsChain
<1>2. s \in [1..N -> DOMAIN next]
  BY <1>1
<1>3. s \in Injection(1..N, DOMAIN next)
  BY <1>1, <1>2 DEF IsChain, Injection, IsInjective
<1>4. Cardinality(1..N) <= Cardinality(DOMAIN next)
  BY <1>3, FS_Injection
<1>5. Cardinality(1..N) = N
  <2> HIDE DEF N
  <2> QED
    BY <1>1, FS_Interval
<1>6. Cardinality(DOMAIN next) \in Nat
  BY FS_CardinalityType
<1> QED
  BY <1>1, <1>4, <1>5, <1>6

\* Along a list a loop meets its cells, and nothing from its end on: a first step at which
\* it met something else would follow from one at which it did not.
LEMMA ChainReached ==
    ASSUME NEW first, NEW next, NEW null, NEW s,
           IsChain(s, first, next, null), IsFiniteSet(DOMAIN next), null \notin DOMAIN next
    PROVE  Reached(first, next, null) =
               [i \in 1..Cardinality(DOMAIN next) + 1 |-> IF i <= Len(s) THEN s[i] ELSE null]
<1> DEFINE D == 1..Cardinality(DOMAIN next) + 1
           Step(c) == IF c = null THEN null ELSE next[c]
           W == [i \in D |-> IF i <= Len(s) THEN s[i] ELSE null]
           at == Reached(first, next, null)
<1>0. Cardinality(DOMAIN next) \in Nat /\ Len(s) \in 0..Cardinality(DOMAIN next)
  BY ChainFits
<1>1. /\ s \in Seq(DOMAIN next) /\ DOMAIN s = 1..Len(s)
      /\ first = IF s = <<>> THEN null ELSE s[1]
      /\ \A i \in 1..Len(s) : next[s[i]] = IF i = Len(s) THEN null ELSE s[i + 1]
      /\ s = <<>> <=> Len(s) = 0
      /\ \A i \in 1..Len(s) : s[i] \in DOMAIN next
  BY EmptySeq, ElementOfSeq DEF IsChain
<1>2. W = [i \in D |-> IF i = 1 THEN first ELSE Step(W[i - 1])]
  <2>1. ASSUME NEW i \in D PROVE W[i] = IF i = 1 THEN first ELSE Step(W[i - 1])
    <3>1. CASE i = 1
      <4>1. W[i] = IF 1 <= Len(s) THEN s[1] ELSE null
        BY <3>1
      <4>2. first = IF Len(s) = 0 THEN null ELSE s[1]
        BY <1>1
      <4> QED
        BY <1>0, <3>1, <4>1, <4>2
    <3>2. CASE i > 1 /\ i - 1 <= Len(s)
      <4> DEFINE k == i - 1
      <4>1. k \in 1..Len(s) /\ i = k + 1 /\ k \in D
        BY <1>0, <3>2
      <4> HIDE DEF k
      <4>2. s[k] \in DOMAIN next
        BY <1>1, <4>1
      <4>3. W[k] = s[k]
        BY <1>0, <4>1
      <4>4. Step(W[k]) = IF k = Len(s) THEN null ELSE s[k + 1]
        BY <1>1, <4>1, <4>2, <4>3
      <4>5. W[i] = IF k + 1 <= Len(s) THEN s[k + 1] ELSE null
        BY <4>1
      <4>6. k + 1 <= Len(s) <=> k # Len(s)
        BY <1>0, <4>1
      <4>7. W[i] = Step(W[k])
        BY <4>4, <4>5, <4>6
      <4> QED
        BY <3>2, <4>7 DEF k
    <3>3. CASE i > 1 /\ ~(i - 1 <= Len(s))
      BY <1>0, <3>3
    <3> QED
      BY <1>0, <3>1, <3>2, <3>3
  <2> QED
    BY <2>1
<1>3. at = CHOOSE At : At = [i \in D |-> IF i = 1 THEN first ELSE Step(At[i - 1])]
  BY DEF Reached
<1>4. at = [i \in D |-> IF i = 1 THEN first ELSE Step(at[i - 1])]
  <2> HIDE DEF D, Step, W, at
  <2> QED
    BY <1>2, <1>3
<1>5. ASSUME NEW j \in D, at[j] # W[j] PROVE FALSE
  <2> DEFINE T == {i \in D : at[i] # W[i]}
  <2>1. T \in SUBSET Nat /\ T # {}
    BY <1>5
  <2> HIDE DEF at, W, Step
  <2>2. PICK n \in T : \A m \in T : n <= m
    BY <2>1, LeastExists
  <2>3. n # 1
    BY <1>2, <1>4, <2>2
  <2>4. n - 1 \in D /\ n - 1 \notin T
    BY <1>0, <2>2, <2>3
  <2>5. at[n - 1] = W[n - 1]
    BY <2>4
  <2>6. at[n] = Step(at[n - 1]) /\ W[n] = Step(W[n - 1])
    BY <1>2, <1>4, <2>2, <2>3
  <2> QED
    BY <2>2, <2>5, <2>6
<1> HIDE DEF at
<1>6. at = [i \in D |-> at[i]]
  BY <1>4
<1> QED
  BY <1>5, <1>6 DEF at

\* What is followed from the head of a list is the list.
THEOREM ChainFollowed ==
    ASSUME NEW first, NEW next, NEW null, NEW s,
           IsChain(s, first, next, null), IsFiniteSet(DOMAIN next), null \notin DOMAIN next
    PROVE  Followed(first, next, null) = s
<1> DEFINE D == 1..Cardinality(DOMAIN next) + 1
           at == Reached(first, next, null)
<1>1. Cardinality(DOMAIN next) \in Nat /\ Len(s) \in 0..Cardinality(DOMAIN next)
  BY ChainFits
<1>2. s \in Seq(DOMAIN next) /\ DOMAIN s = 1..Len(s)
  BY DEF IsChain
<1>3. at = [i \in D |-> IF i <= Len(s) THEN s[i] ELSE null]
  BY ChainReached
<1> HIDE DEF at
<1>4. {j \in DOMAIN at : at[j] # null} = 1..Len(s)
  BY <1>1, <1>2, <1>3
<1>5. Followed(first, next, null) = [i \in 1..Len(s) |-> at[i]]
  BY <1>4 DEF Followed, at
<1>6. \A i \in 1..Len(s) : at[i] = s[i]
  BY <1>1, <1>3
<1> QED
  BY <1>2, <1>5, <1>6

\* A list to whose last cell another one is linked is a list one cell longer.
LEMMA ChainExtended ==
    ASSUME NEW first, NEW next, NEW null, NEW s, IsChain(s, first, next, null),
           NEW c \in DOMAIN next, \A i \in DOMAIN s : s[i] # c,
           NEW next2, DOMAIN next2 = DOMAIN next,
           next2[c] = null, s # <<>> => next2[s[Len(s)]] = c,
           \A i \in DOMAIN s : i # Len(s) => next2[s[i]] = next[s[i]]
    PROVE  IsChain(Append(s, c), IF s = <<>> THEN c ELSE first, next2, null)
<1> DEFINE t == Append(s, c)
<1>1. /\ s \in Seq(DOMAIN next) /\ DOMAIN s = 1..Len(s) /\ Len(s) \in Nat
      /\ s = <<>> <=> Len(s) = 0
  BY EmptySeq DEF IsChain
<1>2. /\ t \in Seq(DOMAIN next2) /\ Len(t) = Len(s) + 1 /\ DOMAIN t = 1..Len(s) + 1
      /\ \A i \in 1..Len(s) : t[i] = s[i]
      /\ t[Len(s) + 1] = c
  BY <1>1, AppendProperties
<1> HIDE DEF t
<1>3. \A i, j \in DOMAIN t : t[i] = t[j] => i = j
  BY <1>1, <1>2 DEF IsChain
<1>4. t # <<>>
  BY <1>1, <1>2, EmptySeq
<1>5. (IF s = <<>> THEN c ELSE first) = t[1]
  BY <1>1, <1>2 DEF IsChain
<1>6. ASSUME NEW i \in DOMAIN t
      PROVE  next2[t[i]] = IF i = Len(t) THEN null ELSE t[i + 1]
  <2>1. CASE i = Len(s) + 1
    BY <1>2, <2>1
  <2>2. CASE i = Len(s)
    <3>1. Len(s) \in 1..Len(s) /\ s # <<>>
      BY <1>1, <1>2, <2>2
    <3>2. t[i] = s[Len(s)] /\ t[i + 1] = c
      BY <1>2, <2>2, <3>1
    <3>3. i # Len(t)
      BY <1>1, <1>2, <2>2
    <3> QED
      BY <3>1, <3>2, <3>3
  <2>3. CASE i \in 1..Len(s) - 1
    <3>1. next[s[i]] = s[i + 1]
      BY <1>1, <2>3 DEF IsChain
    <3> QED
      BY <1>1, <1>2, <2>3, <3>1
  <2> QED
    BY <1>1, <1>2, <2>1, <2>2, <2>3
<1> QED
  BY <1>2, <1>3, <1>4, <1>5, <1>6 DEF IsChain, t

\* Without what was at i, a sequence has the rest in the same order.
LEMMA RemoveAtValues ==
    ASSUME NEW S, NEW s \in Seq(S), NEW i \in 1..Len(s)
    PROVE  /\ RemoveAt(s, i) \in Seq(S)
           /\ Len(RemoveAt(s, i)) = Len(s) - 1
           /\ \A j \in 1..Len(s) - 1 :
                 RemoveAt(s, i)[j] = IF j < i THEN s[j] ELSE s[j + 1]
<1> DEFINE l == SubSeq(s, 1, i - 1)
           r == SubSeq(s, i + 1, Len(s))
<1>1. Len(s) \in Nat
  OBVIOUS
<1>2. l \in Seq(S) /\ Len(l) = i - 1 /\ \A j \in 1..i - 1 : l[j] = s[j]
  BY <1>1, SubSeqProperties
<1>3. r \in Seq(S) /\ Len(r) = Len(s) - i /\ \A j \in 1..Len(s) - i : r[j] = s[j + i]
  BY <1>1, SubSeqProperties
<1> HIDE DEF l, r
<1>4. /\ l \o r \in Seq(S) /\ Len(l \o r) = Len(s) - 1
      /\ \A j \in 1..Len(s) - 1 : (l \o r)[j] = IF j < i THEN s[j] ELSE s[j + 1]
  <2>1. l \o r \in Seq(S) /\ Len(l \o r) = Len(l) + Len(r)
    BY <1>2, <1>3, ConcatProperties
  <2>2. ASSUME NEW j \in 1..Len(s) - 1
        PROVE  (l \o r)[j] = IF j < i THEN s[j] ELSE s[j + 1]
    <3>0. j \in 1..Len(l) + Len(r)
      BY <1>1, <1>2, <1>3
    <3>1. (l \o r)[j] = IF j <= Len(l) THEN l[j] ELSE r[j - Len(l)]
      BY <1>2, <1>3, <3>0, ConcatProperties
    <3>2. CASE j < i
      BY <1>1, <1>2, <3>1, <3>2
    <3>3. CASE j >= i
      <4> DEFINE k == j - (i - 1)
      <4>1. k \in 1..Len(s) - i /\ k + i = j + 1
        BY <1>1, <3>3
      <4>2. (l \o r)[j] = r[k]
        BY <1>1, <1>2, <3>1, <3>3
      <4> HIDE DEF k
      <4>3. r[k] = s[k + i]
        BY <1>3, <4>1
      <4>4. (l \o r)[j] = s[j + 1]
        BY <4>1, <4>2, <4>3
      <4>5. ~(j < i)
        BY <3>3
      <4> QED
        BY <4>4, <4>5
    <3>4. j < i \/ j >= i
      BY <1>1
    <3> QED
      BY <3>2, <3>3, <3>4
  <2>3. Len(l \o r) = Len(s) - 1
    BY <1>1, <1>2, <1>3, <2>1
  <2> QED
    BY <2>1, <2>2, <2>3
<1> QED
  BY <1>4 DEF RemoveAt, l, r

\* Without what was at i, a sequence has all else that it had, when nothing is in it twice.
LEMMA RemoveAtRange ==
    ASSUME NEW S, NEW s \in Seq(S), NEW i \in 1..Len(s),
           \A j, k \in 1..Len(s) : s[j] = s[k] => j = k
    PROVE  {RemoveAt(s, i)[j] : j \in DOMAIN RemoveAt(s, i)} =
               {s[j] : j \in DOMAIN s} \ {s[i]}
<1> DEFINE t == RemoveAt(s, i)
           n == Len(s)
<1>1. n \in Nat /\ DOMAIN s = 1..n
  OBVIOUS
<1>2. /\ DOMAIN t = 1..n - 1
      /\ \A j \in 1..n - 1 : t[j] = IF j < i THEN s[j] ELSE s[j + 1]
  <2>1. t \in Seq(S) /\ Len(t) = n - 1
        /\ \A j \in 1..n - 1 : t[j] = IF j < i THEN s[j] ELSE s[j + 1]
    BY RemoveAtValues
  <2> HIDE DEF t, n
  <2> QED
    BY <2>1
<1> HIDE DEF t, n
<1>3. ASSUME NEW j \in 1..n - 1 PROVE t[j] \in {s[k] : k \in 1..n} \ {s[i]}
  <2> DEFINE k == IF j < i THEN j ELSE j + 1
  <2>1. k \in 1..n /\ k # i /\ t[j] = s[k]
    BY <1>1, <1>2 DEF n
  <2> HIDE DEF k
  <2> QED
    BY <2>1 DEF n
<1>4. ASSUME NEW k \in 1..n, s[k] # s[i] PROVE \E j \in 1..n - 1 : t[j] = s[k]
  <2> DEFINE j == IF k < i THEN k ELSE k - 1
  <2>1. k # i
    BY <1>4
  <2>2. j \in 1..n - 1 /\ k = IF j < i THEN j ELSE j + 1
    BY <1>1, <2>1 DEF n
  <2> HIDE DEF j
  <2>3. t[j] = s[k]
    BY <1>2, <2>2
  <2> QED
    BY <2>2, <2>3
<1>5. {t[j] : j \in 1..n - 1} = {s[k] : k \in 1..n} \ {s[i]}
  BY <1>3, <1>4
<1> QED
  BY <1>1, <1>2, <1>5 DEF t

\* A list whose cell at i is passed over is a list one cell shorter.
LEMMA ChainShortened ==
    ASSUME NEW first, NEW next, NEW null, NEW s, IsChain(s, first, next, null),
           NEW i \in DOMAIN s,
           NEW next2, DOMAIN next2 = DOMAIN next,
           i > 1 => next2[s[i - 1]] = next[s[i]],
           \A j \in DOMAIN s : j # i /\ j # i - 1 => next2[s[j]] = next[s[j]]
    PROVE  IsChain(RemoveAt(s, i), IF i = 1 THEN next[s[i]] ELSE first, next2, null)
<1> DEFINE t == RemoveAt(s, i)
           n == Len(s)
<1>1. /\ s \in Seq(DOMAIN next) /\ DOMAIN s = 1..n /\ n \in Nat /\ i \in 1..n
      /\ \A j, k \in 1..n : s[j] = s[k] => j = k
      /\ \A j \in 1..n : next[s[j]] = IF j = n THEN null ELSE s[j + 1]
  BY DEF IsChain
<1>2. /\ t \in Seq(DOMAIN next2) /\ Len(t) = n - 1 /\ DOMAIN t = 1..n - 1
      /\ \A j \in 1..n - 1 : t[j] = IF j < i THEN s[j] ELSE s[j + 1]
  <2>1. /\ t \in Seq(DOMAIN next) /\ Len(t) = n - 1
        /\ \A j \in 1..n - 1 : t[j] = IF j < i THEN s[j] ELSE s[j + 1]
    <3>1. s \in Seq(DOMAIN next) /\ i \in 1..Len(s)
      BY <1>1
    <3> QED
      BY <3>1, RemoveAtValues
  <2> HIDE DEF t, n
  <2> QED
    BY <2>1
<1> HIDE DEF t
<1>3. t = <<>> <=> n = 1
  <2>1. t = <<>> <=> Len(t) = 0
    BY <1>2, EmptySeq
  <2> HIDE DEF n
  <2> QED
    BY <1>1, <1>2, <2>1
<1>4. first = s[1]
  <2>1. s \in Seq(DOMAIN next) /\ Len(s) # 0
    <3>1. i \in 1..n /\ n \in Nat
      BY <1>1
    <3>2. n # 0
      BY <3>1
    <3> QED
      BY <1>1, <3>2
  <2>2. s # <<>>
    BY <2>1, EmptySeq
  <2> QED
    BY <2>2 DEF IsChain
<1> HIDE DEF n
<1>5. ASSUME NEW j \in DOMAIN t, NEW k \in DOMAIN t, t[j] = t[k] PROVE j = k
  <2> DEFINE u == IF j < i THEN j ELSE j + 1
             z == IF k < i THEN k ELSE k + 1
  <2>1. u \in 1..n /\ z \in 1..n /\ s[u] = t[j] /\ s[z] = t[k]
    BY <1>1, <1>2
  <2>2. u = z
    BY <1>1, <1>5, <2>1
  <2> QED
    BY <1>1, <1>2, <2>2
<1>6. (IF i = 1 THEN next[s[i]] ELSE first) = IF t = <<>> THEN null ELSE t[1]
  <2>1. CASE i = 1 /\ n = 1
    BY <1>1, <1>3, <2>1
  <2>2. CASE i = 1 /\ n > 1
    BY <1>1, <1>2, <1>3, <2>2
  <2>3. CASE i > 1
    BY <1>1, <1>2, <1>3, <1>4, <2>3
  <2> QED
    BY <1>1, <2>1, <2>2, <2>3
<1>7. ASSUME NEW j \in DOMAIN t
      PROVE  next2[t[j]] = IF j = Len(t) THEN null ELSE t[j + 1]
  <2>1. CASE j < i - 1
    BY <1>1, <1>2, <2>1
  <2>2. CASE j = i - 1
    BY <1>1, <1>2, <2>2
  <2>3. CASE j >= i
    <3> DEFINE k == j + 1
    <3>1. k \in 1..n /\ t[j] = s[k] /\ k # i /\ k # i - 1
      BY <1>1, <1>2, <2>3
    <3>2. next2[s[k]] = IF k = n THEN null ELSE s[k + 1]
      BY <1>1, <3>1
    <3> QED
      BY <1>1, <1>2, <2>3, <3>1, <3>2
  <2> QED
    BY <1>1, <1>2, <2>1, <2>2, <2>3
<1> QED
  BY <1>2, <1>5, <1>6, <1>7 DEF IsChain, t

\* Sequences of the same length that agree place by place are the same.
LEMMA SameSequence ==
    ASSUME NEW S, NEW s \in Seq(S), NEW T, NEW t \in Seq(T), Len(s) = Len(t),
           \A i \in 1..Len(s) : s[i] = t[i]
    PROVE  s = t
  OBVIOUS

-----------------------------------------------------------------------------
(* The queue.                                                                *)

\* When the cells from the head on are a list, the walk is that list,
LEMMA WalkIsChain ==
    ASSUME NEW s, IsChain(s, queue, NextOf, NULL)
    PROVE  Walk = s
<1>1. IsFiniteSet(DOMAIN NextOf) /\ NULL \notin DOMAIN NextOf
  BY CellsAssumption DEF NextOf
<1> QED
  BY <1>1, ChainFollowed DEF Walk

\* and so after a step.
LEMMA WalkIsChainAfter ==
    ASSUME NEW s, IsChain(s, queue', NextOf', NULL)
    PROVE  Walk' = s
<1>1. IsFiniteSet(DOMAIN NextOf') /\ NULL \notin DOMAIN NextOf'
  BY CellsAssumption DEF NextOf
<1>2. ASSUME NEW first, NEW next, IsChain(s, first, next, NULL),
             IsFiniteSet(DOMAIN next), NULL \notin DOMAIN next
      PROVE  Followed(first, next, NULL) = s
  BY <1>2, ChainFollowed
<1>3. Followed(queue', NextOf', NULL) = s
  BY <1>1, <1>2
<1> QED
  BY <1>3 DEF Walk

\* What is known of the walk in a state with the invariant: what its places are,
LEMMA WalkIndex ==
    ASSUME QueueInv
    PROVE  /\ Len(Walk) \in Nat /\ DOMAIN Walk = 1..Len(Walk)
           /\ \A i \in 1..Len(Walk) : Walk[i] \in Cells /\ Walk[i] \in live
<1>1. Walk \in Seq(Cells) /\ live = {Walk[i] : i \in DOMAIN Walk}
  BY DEF QueueInv, IsChain, NextOf
<1>2. \A i \in 1..Len(Walk) : Walk[i] \in Cells
  BY <1>1, ElementOfSeq
<1> QED
  BY <1>1, <1>2

\* that it is a sequence, empty when its length is 0,
LEMMA WalkSequence ==
    ASSUME QueueInv
    PROVE  /\ Walk \in Seq(Cells)
           /\ Walk = <<>> <=> Len(Walk) = 0
<1>1. Walk \in Seq(Cells)
  BY DEF QueueInv, IsChain, NextOf
<1> QED
  BY <1>1, EmptySeq

\* that no cell is in two of them,
LEMMA WalkOnce ==
    ASSUME QueueInv, NEW i \in 1..Len(Walk), NEW j \in 1..Len(Walk), Walk[i] = Walk[j]
    PROVE  i = j
  BY WalkIndex DEF QueueInv, IsChain

\* and that the cells allocated are those in it.
LEMMA WalkIsLive ==
    ASSUME QueueInv
    PROVE  /\ live \subseteq Cells
           /\ \A c \in live : \E i \in 1..Len(Walk) : c = Walk[i]
<1>1. live = {Walk[i] : i \in 1..Len(Walk)}
  BY WalkIndex DEF QueueInv
<1> QED
  BY <1>1, WalkIndex

\* Before the first call there is no list.
LEMMA QueueInitially == QueueInit => QueueInv
<1> SUFFICES ASSUME QueueInit PROVE QueueInv
  OBVIOUS
<1> USE DEF QueueInit
<1>1. IsChain(<<>>, queue, NextOf, NULL)
  BY EmptySeq DEF IsChain
<1>2. Walk = <<>>
  BY <1>1, WalkIsChain
<1>3. cell \in [Cells -> CellRecord]
  BY DEF Blank, CellRecord
<1> QED
  BY <1>1, <1>2, <1>3 DEF QueueInv

\* In a list as in the invariant nothing is lost and no walk goes in circles.
LEMMA QueueSoundness == QueueInv => QueueIsSound
<1> SUFFICES ASSUME QueueInv PROVE QueueIsSound
  OBVIOUS
<1> DEFINE n == Len(Walk)
<1>1. Walk \in Bijection(1..n, live)
  <2>1. Walk \in [1..n -> live]
    BY WalkIndex, WalkSequence
  <2>2. \A i, j \in 1..n : Walk[i] = Walk[j] => i = j
    BY WalkOnce
  <2> QED
    BY <2>1, <2>2, WalkIsLive DEF Bijection, Injection, Surjection, IsInjective
<1>2. ExistsBijection(1..n, live)
  BY <1>1 DEF ExistsBijection
<1>3. n \in Nat
  BY WalkIndex
<1> HIDE DEF n
<1>4. IsFiniteSet(1..n) /\ Cardinality(1..n) = n
  BY <1>3, FS_Interval
<1>5. Cardinality(live) = n
  BY <1>2, <1>4, FS_Bijection
<1> QED
  BY <1>5 DEF QueueIsSound, QueueInv, n

\* With memory for the item and its node the walk gets longer by the new cell.
LEMMA QueueAddStep ==
    ASSUME QueueInv, NEW base \in BaseIds, QueueAdd(base, 2)
    PROVE  \E c \in Cells \ live :
              /\ Walk' = Append(Walk, c)
              /\ cell'[c].id = base + 1 /\ cell'[c].artwork_url = NoUrl
              /\ \A d \in live : cell'[d].id = cell[d].id
                              /\ cell'[d].artwork_url = cell[d].artwork_url
              /\ QueueInv'
<1> DEFINE item == [id |-> base + 1, artwork_url |-> NoUrl, next |-> NULL]
<1>1. PICK c \in Cells \ live : LinkNode(item, c) /\ live' = live \cup {c}
  BY DEF QueueAdd
<1>2. item \in CellRecord
  BY CellsAssumption DEF CellRecord
<1>3. cell \in [Cells -> CellRecord]
  BY DEF QueueInv, CellRecord
<1> DEFINE l == Walk[Len(Walk)]
<1>4. /\ cell' \in [Cells -> CellRecord]
      /\ cell'[c] = item
      /\ \A d \in Cells \ {c} : cell'[d].id = cell[d].id
                               /\ cell'[d].artwork_url = cell[d].artwork_url
      /\ \A d \in Cells \ {c} : (Walk # <<>> => d # l) => cell'[d] = cell[d]
      /\ Walk # <<>> => cell'[l].next = c
      /\ queue' = IF Walk = <<>> THEN c ELSE queue
  <2>1. CASE Walk = <<>>
    <3>1. queue' = c /\ cell' = [cell EXCEPT ![c] = item]
      BY <1>1, <2>1 DEF LinkNode
    <3> QED
      BY <1>2, <1>3, <2>1, <3>1
  <2>2. CASE Walk # <<>>
    <3>1. queue' = queue /\ cell' = [cell EXCEPT ![c] = item, ![l].next = c]
      BY <1>1, <2>2 DEF LinkNode
    <3>2. l \in Cells /\ l # c
      <4>1. Len(Walk) \in 1..Len(Walk)
        BY <2>2, WalkIndex, WalkSequence
      <4> QED
        BY <4>1, WalkIndex
    <3>3. cell' = [d \in Cells |-> IF d = l THEN [cell[l] EXCEPT !.next = c]
                                  ELSE IF d = c THEN item ELSE cell[d]]
      BY <1>3, <3>1, <3>2
    <3>4. [cell[l] EXCEPT !.next = c] \in CellRecord
      BY <1>3, <3>2 DEF CellRecord
    <3> HIDE DEF l, item
    <3>5. cell' \in [Cells -> CellRecord]
      BY <1>2, <1>3, <3>3, <3>4
    <3>6. /\ [cell[l] EXCEPT !.next = c].id = cell[l].id
          /\ [cell[l] EXCEPT !.next = c].artwork_url = cell[l].artwork_url
          /\ [cell[l] EXCEPT !.next = c].next = c
      BY <1>3, <3>2 DEF CellRecord
    <3> QED
      BY <2>2, <3>1, <3>2, <3>3, <3>5, <3>6
  <2> QED
    BY <2>1, <2>2
<1>5. IsChain(Append(Walk, c), queue', NextOf', NULL)
  <2>1. NextOf' = [d \in Cells |-> cell'[d].next]
    BY DEF NextOf
  <2>2. IsChain(Walk, queue, NextOf, NULL) /\ NextOf = [d \in Cells |-> cell[d].next]
    BY DEF QueueInv, NextOf
  <2>3. \A i \in DOMAIN Walk : Walk[i] # c
    BY WalkIndex
  <2>4. NextOf'[c] = NULL
    BY <1>4, <2>1
  <2>5. Walk # <<>> => NextOf'[Walk[Len(Walk)]] = c
    <3>1. ASSUME Walk # <<>> PROVE Len(Walk) \in 1..Len(Walk)
      BY <3>1, WalkIndex, WalkSequence
    <3>2. Walk # <<>> => l \in Cells
      BY <3>1, WalkIndex
    <3> QED
      BY <1>4, <2>1, <3>2
  <2>6. ASSUME NEW i \in DOMAIN Walk, i # Len(Walk)
        PROVE  NextOf'[Walk[i]] = NextOf[Walk[i]]
    <3>1. i \in 1..Len(Walk) /\ Len(Walk) \in 1..Len(Walk)
      BY WalkIndex
    <3>2. Walk[i] \in Cells \ {c} /\ Walk[i] # l
      BY <2>3, <2>6, <3>1, WalkIndex, WalkOnce
    <3> QED
      BY <1>4, <2>1, <2>2, <3>2
  <2> DEFINE after == NextOf'
  <2>7. DOMAIN after = DOMAIN NextOf /\ c \in DOMAIN NextOf
    BY <2>1, <2>2
  <2> HIDE DEF after
  <2>8. after[c] = NULL /\ (Walk # <<>> => after[Walk[Len(Walk)]] = c)
        /\ \A i \in DOMAIN Walk : i # Len(Walk) => after[Walk[i]] = NextOf[Walk[i]]
    BY <2>4, <2>5, <2>6 DEF after
  <2>9. IsChain(Append(Walk, c), IF Walk = <<>> THEN c ELSE queue, after, NULL)
    <3>1. IsChain(Walk, queue, NextOf, NULL)
      BY <2>2
    <3> QED
      BY <3>1, <2>3, <2>7, <2>8, ChainExtended
  <2> QED
    BY <1>4, <2>9 DEF after
<1>6. Walk' = Append(Walk, c)
  BY <1>5, WalkIsChainAfter
<1>7. live' = {Append(Walk, c)[i] : i \in DOMAIN Append(Walk, c)}
  <2> DEFINE t == Append(Walk, c)
  <2>1. /\ DOMAIN t = 1..Len(Walk) + 1 /\ t[Len(Walk) + 1] = c
        /\ \A i \in 1..Len(Walk) : t[i] = Walk[i]
    BY AppendProperties, WalkSequence
  <2> HIDE DEF t
  <2>2. live = {Walk[i] : i \in 1..Len(Walk)} /\ live' = live \cup {c}
    BY <1>1, WalkIndex DEF QueueInv
  <2>3. \A i \in 1..Len(Walk) + 1 : i \in 1..Len(Walk) \/ i = Len(Walk) + 1
    BY WalkIndex
  <2>4. \A i \in 1..Len(Walk) : i \in 1..Len(Walk) + 1
    BY WalkIndex
  <2>5. Len(Walk) + 1 \in 1..Len(Walk) + 1
    BY WalkIndex
  <2>6. live' = {t[i] : i \in 1..Len(Walk) + 1}
    BY <2>1, <2>2, <2>3, <2>4, <2>5
  <2> QED
    BY <2>1, <2>6 DEF t
<1>8. \A d \in live' : cell'[d].id \in Ids
  <2>1. base + 1 \in Ids
    BY DEF Ids
  <2>2. \A d \in live : cell[d].id \in Ids /\ d \in Cells
    BY WalkIsLive DEF QueueInv
  <2> QED
    BY <1>1, <1>4, <2>1, <2>2
<1>9. QueueInv'
  BY <1>4, <1>5, <1>6, <1>7, <1>8 DEF QueueInv, CellRecord
<1>10. live \subseteq Cells \ {c}
  BY WalkIsLive
<1> QED
  BY <1>4, <1>6, <1>9, <1>10

\* db_queue_delete_byitemid takes one cell out of the walk, and its id is the one asked for.
LEMMA QueueDeleteStep ==
    ASSUME QueueInv, NEW id, QueueDelete(id),
           NEW i \in Place(id, 2..Len(Walk) - 1),
           cell' = Free({Walk[i]}, [cell EXCEPT ![Walk[i - 1]].next = cell[Walk[i]].next]),
           live' = live \ {Walk[i]}
    PROVE  /\ i \in 2..Len(Walk) - 1
           /\ Walk' = RemoveAt(Walk, i)
           /\ \A d \in Cells \ {Walk[i]} : cell'[d].id = cell[d].id
                                        /\ cell'[d].artwork_url = cell[d].artwork_url
           /\ QueueInv'
<1>0. i \in 2..Len(Walk) - 1 /\ queue' = queue
  BY DEF Place, QueueDelete
<1> DEFINE c == Walk[i]
           p == Walk[i - 1]
<1>1. c \in Cells /\ p \in Cells /\ p # c /\ i \in 1..Len(Walk) /\ i - 1 \in 1..Len(Walk)
  <2>1. i \in 1..Len(Walk) /\ i - 1 \in 1..Len(Walk) /\ i # i - 1
    BY <1>0, WalkIndex
  <2> QED
    BY <2>1, WalkIndex, WalkOnce
<1>2. cell \in [Cells -> CellRecord]
  BY DEF QueueInv, CellRecord
<1>3. /\ cell' \in [Cells -> CellRecord]
      /\ \A d \in Cells \ {c} : cell'[d].id = cell[d].id
                               /\ cell'[d].artwork_url = cell[d].artwork_url
      /\ \A d \in Cells \ {c, p} : cell'[d] = cell[d]
      /\ cell'[p].next = cell[c].next
  <2> DEFINE q == [cell[p] EXCEPT !.next = cell[c].next]
  <2>1. /\ q \in CellRecord /\ q.id = cell[p].id /\ q.artwork_url = cell[p].artwork_url
        /\ q.next = cell[c].next
    BY <1>1, <1>2 DEF CellRecord
  <2>2. Blank \in CellRecord
    BY DEF Blank, CellRecord
  <2> HIDE DEF c, p
  <2>3. cell' = [d \in Cells |-> IF d = c THEN Blank ELSE IF d = p THEN q ELSE cell[d]]
    BY <1>1, <1>2 DEF Free, c, p
  <2> HIDE DEF q
  <2> QED
    BY <1>1, <1>2, <2>1, <2>2, <2>3
<1> HIDE DEF c, p
<1>4. IsChain(RemoveAt(Walk, i), queue', NextOf', NULL)
  <2> DEFINE after == NextOf'
  <2>1. after = [d \in Cells |-> cell'[d].next]
    BY DEF NextOf
  <2>2. IsChain(Walk, queue, NextOf, NULL) /\ NextOf = [d \in Cells |-> cell[d].next]
    BY DEF QueueInv, NextOf
  <2> HIDE DEF after
  <2>3. DOMAIN after = DOMAIN NextOf /\ i \in DOMAIN Walk
    BY <1>1, <2>1, <2>2, WalkIndex
  <2>4. after[Walk[i - 1]] = NextOf[Walk[i]]
    BY <1>1, <1>3, <2>1, <2>2 DEF c, p
  <2>5. ASSUME NEW j \in DOMAIN Walk, j # i, j # i - 1
        PROVE  after[Walk[j]] = NextOf[Walk[j]]
    <3>1. Walk[j] \in Cells \ {c, p}
      <4>1. j \in 1..Len(Walk)
        BY WalkIndex
      <4> QED
        BY <1>1, <2>5, <4>1, WalkIndex, WalkOnce DEF c, p
    <3> QED
      BY <1>3, <2>1, <2>2, <3>1
  <2>6. IsChain(RemoveAt(Walk, i), IF i = 1 THEN NextOf[Walk[i]] ELSE queue, after, NULL)
    BY <2>2, <2>3, <2>4, <2>5, ChainShortened
  <2>7. i # 1
    BY <1>0
  <2> QED
    BY <1>0, <2>6, <2>7 DEF after
<1>5. Walk' = RemoveAt(Walk, i)
  BY <1>4, WalkIsChainAfter
<1>6. live' = {RemoveAt(Walk, i)[j] : j \in DOMAIN RemoveAt(Walk, i)}
  <2>1. \A j, k \in 1..Len(Walk) : Walk[j] = Walk[k] => j = k
    BY WalkOnce
  <2>2. {RemoveAt(Walk, i)[j] : j \in DOMAIN RemoveAt(Walk, i)} =
            {Walk[j] : j \in DOMAIN Walk} \ {Walk[i]}
    BY <1>1, <2>1, WalkSequence, RemoveAtRange
  <2> QED
    BY <2>2 DEF QueueInv
<1>7. \A d \in live' : cell'[d].id \in Ids
  BY <1>3, WalkIsLive DEF QueueInv, c
<1>8. QueueInv'
  <2>1. live' = {Walk'[j] : j \in DOMAIN Walk'}
    BY <1>5, <1>6
  <2>2. IsChain(Walk', queue', NextOf', NULL)
    BY <1>4, <1>5
  <2> QED
    BY <1>3, <1>7, <2>1, <2>2 DEF QueueInv, CellRecord
<1> QED
  BY <1>0, <1>3, <1>5, <1>8 DEF c

\* db_queue_clear leaves no list when there is nothing to keep.
LEMMA QueueClearStep ==
    ASSUME QueueInv, NEW keep, keep \notin Ids, QueueClear(keep)
    PROVE  Walk' = <<>> /\ QueueInv'
<1>1. \A i \in 1..Len(Walk) : cell[Walk[i]].id # keep
  BY WalkIndex DEF QueueInv
<1>2. {i \in 1..Len(Walk) : cell[Walk[i]].id = keep} = {}
  BY <1>1
<1>3. queue' = NULL /\ live' = live \ {Walk[i] : i \in 1..Len(Walk)}
  BY <1>2 DEF QueueClear
<1>4. live' = {}
  BY <1>3, WalkIsLive
<1>5. cell' \in [Cells -> CellRecord]
  <2>1. Blank \in CellRecord
    BY DEF Blank, CellRecord
  <2>2. cell \in [Cells -> CellRecord]
    BY DEF QueueInv, CellRecord
  <2>3. cell' = Free(live \ live', cell)
    BY DEF QueueClear
  <2> QED
    BY <2>1, <2>2, <2>3 DEF Free
<1>6. IsChain(<<>>, queue', NextOf', NULL)
  BY <1>3, EmptySeq DEF IsChain
<1>7. Walk' = <<>>
  BY <1>6, WalkIsChainAfter
<1> QED
  BY <1>4, <1>5, <1>6, <1>7 DEF QueueInv, CellRecord

\* What changes no next pointer and no id changes no walk.
LEMMA WalkKept ==
    ASSUME QueueInv, UNCHANGED <<queue, live>>, cell' \in [Cells -> CellRecord],
           \A c \in Cells : cell'[c].next = cell[c].next /\ cell'[c].id = cell[c].id
    PROVE  Walk' = Walk /\ QueueInv'
<1>1. NextOf' = NextOf
  BY DEF NextOf
<1>2. IsChain(Walk, queue', NextOf', NULL)
  BY <1>1 DEF QueueInv
<1>3. Walk' = Walk
  BY <1>2, WalkIsChainAfter
<1>4. \A c \in live' : cell'[c].id \in Ids
  BY WalkIsLive DEF QueueInv
<1>5. live' = {Walk'[i] : i \in DOMAIN Walk'} /\ IsChain(Walk', queue', NextOf', NULL)
  BY <1>2, <1>3 DEF QueueInv
<1> QED
  BY <1>3, <1>4, <1>5 DEF QueueInv, CellRecord

\* The item fetched and the node updated are the same one, the first with the id.
LEMMA QueueUpdateStep ==
    ASSUME QueueInv, NEW id, NEW url \in Urls, QueueUpdate(id, url)
    PROVE  /\ Walk' = Walk /\ QueueInv'
           /\ \A i \in 1..Len(Walk) :
                 /\ cell'[Walk[i]].id = cell[Walk[i]].id
                 /\ cell'[Walk[i]].artwork_url =
                       IF i \in Place(id, 1..Len(Walk)) THEN url ELSE cell[Walk[i]].artwork_url
<1> DEFINE P == Place(id, 1..Len(Walk))
           at == {Walk[i] : i \in P}
<1>1. Place(id, 1..Len(Walk) - 1) \subseteq P
  BY WalkIndex DEF Place
<1>2. cell \in [Cells -> CellRecord]
  BY DEF QueueInv, CellRecord
<1>3. ASSUME NEW c \in Cells
      PROVE  cell'[c] = IF c \in at THEN [cell[c] EXCEPT !.artwork_url = url] ELSE cell[c]
  <2> DEFINE last == {Walk[i] : i \in Place(id, 1..Len(Walk) - 1)}
             f == Fetched(id, url)
  <2>1. last \subseteq at
    BY <1>1
  <2>2. f[c] = IF c \in at THEN [cell[c] EXCEPT !.artwork_url = url] ELSE cell[c]
    BY DEF Fetched
  <2>3. cell'[c] = IF c \in last THEN [f[c] EXCEPT !.artwork_url = url] ELSE f[c]
    BY DEF QueueUpdate
  <2> HIDE DEF at, last, f
  <2>4. [[cell[c] EXCEPT !.artwork_url = url] EXCEPT !.artwork_url = url] =
            [cell[c] EXCEPT !.artwork_url = url]
    BY <1>2 DEF CellRecord
  <2> QED
    BY <2>1, <2>2, <2>3, <2>4
<1>4. cell' = [c \in Cells |-> cell'[c]]
  BY DEF QueueUpdate
<1> HIDE DEF at
<1>5. ASSUME NEW c \in Cells
      PROVE  /\ cell'[c] \in CellRecord
             /\ cell'[c].next = cell[c].next /\ cell'[c].id = cell[c].id
             /\ cell'[c].artwork_url = IF c \in at THEN url ELSE cell[c].artwork_url
  BY <1>2, <1>3 DEF CellRecord
<1>6. cell' \in [Cells -> CellRecord]
  BY <1>4, <1>5
<1>7. UNCHANGED <<queue, live>>
  BY DEF QueueUpdate
<1>8. Walk' = Walk /\ QueueInv'
  BY <1>5, <1>6, <1>7, WalkKept
<1>9. ASSUME NEW i \in 1..Len(Walk) PROVE Walk[i] \in at <=> i \in P
  <2>1. P \subseteq 1..Len(Walk)
    BY DEF Place
  <2> HIDE DEF P
  <2> QED
    BY <2>1, WalkOnce DEF at
<1> QED
  BY <1>5, <1>8, <1>9, WalkIndex

\* What is known of the list after every call of OwnTone.
LEMMA QueueStep == QueueInv /\ [QueueNext]_queueVars => QueueInv'
<1> SUFFICES ASSUME QueueInv, [QueueNext]_queueVars PROVE QueueInv'
  OBVIOUS
<1>0. ASSUME UNCHANGED <<queue, cell, live>> PROVE QueueInv'
  <2>1. cell \in [Cells -> CellRecord]
    BY DEF QueueInv, CellRecord
  <2> QED
    BY <1>0, <2>1, WalkKept
<1>1. ASSUME NEW base \in BaseIds, NEW callocs \in 0..2, QueueAdd(base, callocs)
      PROVE  QueueInv'
  <2>1. CASE callocs = 2
    BY <1>1, <2>1, QueueAddStep
  <2>2. CASE callocs \in 0..1
    BY <1>0, <1>1, <2>2 DEF QueueAdd
  <2> QED
    BY <2>1, <2>2
<1>2. ASSUME NEW keep \in KeepIds, QueueClear(keep) PROVE QueueInv'
  <2>1. keep \notin Ids
    BY NothingIsKept DEF Ids
  <2> QED
    BY <1>2, <2>1, QueueClearStep
<1>3. ASSUME NEW id \in Ids, QueueDelete(id) PROVE QueueInv'
  <2>1. CASE Place(id, 2..Len(Walk) - 1) = {}
    BY <1>0, <1>3, <2>1 DEF QueueDelete
  <2>2. CASE Place(id, 2..Len(Walk) - 1) # {}
    BY <1>3, <2>2, QueueDeleteStep DEF QueueDelete
  <2> QED
    BY <2>1, <2>2
<1>4. ASSUME NEW id \in Ids, QueueArtwork(id) PROVE QueueInv'
  BY <1>0, <1>4 DEF QueueArtwork
<1>5. ASSUME NEW id \in Ids, NEW url \in Urls, QueueUpdate(id, url) PROVE QueueInv'
  BY <1>5, QueueUpdateStep
<1>6. CASE UNCHANGED queueVars
  BY <1>0, <1>6 DEF queueVars
<1> QED
  BY <1>1, <1>2, <1>3, <1>4, <1>5, <1>6 DEF QueueNext

\* However the calls of OwnTone follow each other, the list stays one that later calls can
\* walk to its end, and what is allocated is in it (QueueIsSound).
THEOREM QueueStaysSound == QueueSpec => []QueueIsSound
<1>1. QueueSpec => []QueueInv
  BY QueueInitially, QueueStep, PTL DEF QueueSpec
<1> QED
  BY <1>1, QueueSoundness, PTL

-----------------------------------------------------------------------------
(* What the calls do to the table of items.                                  *)

\* What a node says
Row == [id : Nat, artwork_url : Urls \cup {NoUrl}]

\* What the nodes of a list say is a sequence as long as the list.
LEMMA ViewIsSequence ==
    ASSUME QueueInv
    PROVE  /\ View \in Seq(Row) /\ Len(View) = Len(Walk) /\ DOMAIN View = 1..Len(Walk)
           /\ \A i \in 1..Len(Walk) : View[i] = [id |-> cell[Walk[i]].id,
                                                 artwork_url |-> cell[Walk[i]].artwork_url]
<1> DEFINE n == Len(Walk)
           row(i) == [id |-> cell[Walk[i]].id, artwork_url |-> cell[Walk[i]].artwork_url]
<1>1. View = [i \in 1..n |-> row(i)] /\ n \in Nat
  BY WalkIndex DEF View
<1>2. \A i \in 1..n : row(i) \in Row
  BY WalkIndex DEF QueueInv, CellRecord, Row
<1> HIDE DEF n, row
<1>3. View \in Seq(Row) /\ Len(View) = n /\ DOMAIN View = 1..n
  BY <1>1, <1>2
<1> QED
  BY <1>1, <1>3 DEF n, row

\* And so after a step.
LEMMA ViewAfter ==
    ASSUME QueueInv'
    PROVE  /\ View' \in Seq(Row) /\ Len(View') = Len(Walk') /\ DOMAIN View' = 1..Len(Walk')
           /\ \A i \in 1..Len(Walk') : View'[i] = [id |-> cell'[Walk'[i]].id,
                                                 artwork_url |-> cell'[Walk'[i]].artwork_url]
<1>1. (QueueInv => /\ View \in Seq(Row) /\ Len(View) = Len(Walk) /\ DOMAIN View = 1..Len(Walk)
                   /\ \A i \in 1..Len(Walk) : View[i] = [id |-> cell[Walk[i]].id,
                                                 artwork_url |-> cell[Walk[i]].artwork_url])'
  BY ViewIsSequence, PTL
<1> QED
  BY <1>1

\* With memory for both, adding puts a row at the end.
LEMMA AddServes ==
    ASSUME QueueInv, NEW base \in BaseIds, QueueAdd(base, 2)
    PROVE  Table!TableAdd(base + 1)
<1> DEFINE row == [id |-> base + 1, artwork_url |-> NoUrl]
           n == Len(Walk)
<1>1. PICK c \in Cells \ live :
         /\ Walk' = Append(Walk, c)
         /\ cell'[c].id = base + 1 /\ cell'[c].artwork_url = NoUrl
         /\ \A d \in live : cell'[d].id = cell[d].id /\ cell'[d].artwork_url = cell[d].artwork_url
         /\ QueueInv'
  BY QueueAddStep
<1>2. row \in Row
  BY CellsAssumption DEF Row
<1> HIDE DEF row
<1>3. /\ Append(View, row) \in Seq(Row) /\ Len(Append(View, row)) = n + 1
      /\ Append(View, row)[n + 1] = row
      /\ \A i \in 1..n : Append(View, row)[i] = View[i]
  BY <1>2, ViewIsSequence, AppendProperties
<1>4. /\ Len(Walk') = n + 1 /\ Walk'[n + 1] = c
      /\ \A i \in 1..n : Walk'[i] = Walk[i]
  BY <1>1, WalkSequence, AppendProperties
<1>5. n \in Nat
  BY WalkIndex
<1>6. View' \in Seq(Row) /\ Len(View') = n + 1
  BY <1>1, <1>4, ViewAfter
<1>7. View'[n + 1] = row
  BY <1>1, <1>4, <1>5, ViewAfter DEF row
<1>8. ASSUME NEW i \in 1..n PROVE View'[i] = View[i]
  <2>1. i \in 1..Len(Walk')
    BY <1>4, <1>5
  <2>2. Walk[i] \in live
    BY WalkIndex
  <2>3. View'[i] = [id |-> cell'[Walk[i]].id, artwork_url |-> cell'[Walk[i]].artwork_url]
    BY <1>1, <1>4, <2>1, ViewAfter
  <2>4. View[i] = [id |-> cell[Walk[i]].id, artwork_url |-> cell[Walk[i]].artwork_url]
    BY ViewIsSequence
  <2> QED
    BY <1>1, <2>2, <2>3, <2>4
<1>9. ASSUME NEW i \in 1..n + 1 PROVE View'[i] = Append(View, row)[i]
  BY <1>3, <1>5, <1>7, <1>8
<1> HIDE DEF n
<1>10. View' = Append(View, row)
  BY <1>3, <1>5, <1>6, <1>9, SameSequence
<1>11. ret' = "0"
  BY DEF QueueAdd
<1> QED
  BY <1>10, <1>11 DEF Table!TableAdd, row

\* Without it the table stays as it was, and the caller is told, except when there was
\* memory for the item and the list is not empty.
LEMMA AddRefused ==
    ASSUME QueueInv, NEW base, NEW callocs \in 0..1, QueueAdd(base, callocs)
    PROVE  IF callocs = 1 /\ View # <<>> THEN UNCHANGED View /\ ret' = "0" ELSE Table!TableRefuse
<1>1. UNCHANGED <<queue, cell>>
  BY DEF QueueAdd
<1>2. View' = View
  BY <1>1 DEF View, Walk, NextOf
<1>3. View = <<>> <=> queue = NULL
  <2>1. View = <<>> <=> Len(View) = 0
    BY ViewIsSequence, EmptySeq
  <2>2. View = <<>> <=> Walk = <<>>
    BY <2>1, ViewIsSequence, WalkSequence
  <2>3. queue = IF Walk = <<>> THEN NULL ELSE Walk[1]
    BY DEF QueueInv, IsChain
  <2>4. Walk # <<>> => Walk[1] \in Cells
    BY WalkIndex, WalkSequence
  <2> QED
    BY <2>2, <2>3, <2>4, CellsAssumption
<1>4. callocs = 0 => ret' = "-1"
  BY DEF QueueAdd
<1>5. callocs = 1 => ret' = IF queue = NULL THEN "-1" ELSE "0"
  BY DEF QueueAdd
<1> QED
  BY <1>2, <1>3, <1>4, <1>5 DEF Table!TableRefuse

\* Deleting takes out the row of the first node between the ends with the id, if there is
\* one.
LEMMA DeleteTakesOut ==
    ASSUME QueueInv, NEW id, QueueDelete(id)
    PROVE  /\ ret' = "0"
           /\ Place(id, 2..Len(Walk) - 1) = {} => View' = View
           /\ Place(id, 2..Len(Walk) - 1) # {} =>
                 \E i \in Place(id, 2..Len(Walk) - 1) :
                    View[i].id = id /\ View' = RemoveAt(View, i)
<1>0. queue' = queue /\ ret' = "0"
  BY DEF QueueDelete
<1>1. ASSUME Place(id, 2..Len(Walk) - 1) = {} PROVE View' = View
  <2>1. UNCHANGED <<queue, cell>>
    BY <1>0, <1>1 DEF QueueDelete
  <2> QED
    BY <2>1 DEF View, Walk, NextOf
<1>2. ASSUME Place(id, 2..Len(Walk) - 1) # {}
      PROVE  \E i \in Place(id, 2..Len(Walk) - 1) :
                View[i].id = id /\ View' = RemoveAt(View, i)
  <2> DEFINE n == Len(Walk)
  <2>1. PICK i \in Place(id, 2..Len(Walk) - 1) :
           /\ cell' = Free({Walk[i]}, [cell EXCEPT ![Walk[i - 1]].next = cell[Walk[i]].next])
           /\ live' = live \ {Walk[i]}
    BY <1>2 DEF QueueDelete
  <2>2. /\ i \in 2..Len(Walk) - 1 /\ Walk' = RemoveAt(Walk, i) /\ QueueInv'
        /\ \A d \in Cells \ {Walk[i]} : cell'[d].id = cell[d].id
                                     /\ cell'[d].artwork_url = cell[d].artwork_url
    BY <2>1, QueueDeleteStep
  <2>3. cell[Walk[i]].id = id
    BY DEF Place
  <2>4. n \in Nat /\ i \in 1..n
    BY <2>2, WalkIndex
  <2>5. /\ Len(Walk') = n - 1
        /\ \A j \in 1..n - 1 : Walk'[j] = IF j < i THEN Walk[j] ELSE Walk[j + 1]
    BY <2>2, <2>4, WalkSequence, RemoveAtValues
  <2>6. /\ RemoveAt(View, i) \in Seq(Row) /\ Len(RemoveAt(View, i)) = n - 1
        /\ \A j \in 1..n - 1 : RemoveAt(View, i)[j] = IF j < i THEN View[j] ELSE View[j + 1]
    <3>1. View \in Seq(Row) /\ Len(View) = n /\ i \in 1..Len(View)
      BY <2>4, ViewIsSequence
    <3> QED
      BY <3>1, RemoveAtValues
  <2>7. View' \in Seq(Row) /\ Len(View') = n - 1
    BY <2>2, <2>5, ViewAfter
  <2>8. ASSUME NEW j \in 1..n - 1 PROVE View'[j] = RemoveAt(View, i)[j]
    <3> DEFINE k == IF j < i THEN j ELSE j + 1
    <3>1. k \in 1..n /\ k # i
      BY <2>4
    <3>2. RemoveAt(View, i)[j] = View[k] /\ Walk'[j] = Walk[k]
      BY <2>5, <2>6
    <3> HIDE DEF k, n
    <3>3. Walk[k] \in Cells \ {Walk[i]}
      BY <2>4, <3>1, WalkIndex, WalkOnce DEF n
    <3>4. View'[j] = [id |-> cell'[Walk[k]].id, artwork_url |-> cell'[Walk[k]].artwork_url]
      BY <2>2, <2>5, <3>2, ViewAfter
    <3>5. View[k] = [id |-> cell[Walk[k]].id, artwork_url |-> cell[Walk[k]].artwork_url]
      BY <3>1, ViewIsSequence DEF n
    <3> QED
      BY <2>2, <3>2, <3>3, <3>4, <3>5
  <2>9. n - 1 \in Nat
    BY <2>4
  <2> HIDE DEF n
  <2>10. View' = RemoveAt(View, i)
    BY <2>6, <2>7, <2>8, <2>9, SameSequence
  <2>11. View[i].id = id
    BY <2>3, <2>4, ViewIsSequence DEF n
  <2> QED
    BY <2>10, <2>11
<1> QED
  BY <1>0, <1>1, <1>2

\* Clearing leaves no row.
LEMMA ClearServes ==
    ASSUME QueueInv, QueueClear(0)
    PROVE  Table!TableClear
<1>1. 0 \notin Ids
  BY CellsAssumption DEF Ids
<1>2. Walk' = <<>> /\ QueueInv'
  BY <1>1, QueueClearStep
<1>3. View' \in Seq(Row) /\ Len(View') = 0
  BY <1>2, ViewAfter
<1>4. View' = <<>>
  BY <1>3, EmptySeq
<1> QED
  BY <1>4 DEF Table!TableClear, QueueClear

\* The first row with an id is that of the first node with it.
LEMMA FirstIsPlace ==
    ASSUME QueueInv, NEW id
    PROVE  Table!First(id) = Place(id, 1..Len(Walk))
<1>1. /\ DOMAIN View = 1..Len(Walk) /\ Len(Walk) \in Nat
      /\ \A i \in 1..Len(Walk) : View[i].id = cell[Walk[i]].id
  BY ViewIsSequence, WalkIndex
<1>2. ASSUME NEW i \in 1..Len(Walk)
      PROVE  /\ \A j \in 1..i - 1 : j \in 1..Len(Walk) /\ j < i
             /\ \A j \in 1..Len(Walk) : j < i => j \in 1..i - 1
  BY <1>1
<1> QED
  BY <1>1, <1>2 DEF Table!First, Place

\* Deleting takes out the first row with the id, unless that is at an end.
LEMMA DeleteServes ==
    ASSUME QueueInv, NEW id, QueueDelete(id)
    PROVE  IF Table!First(id) \cap {1, Len(View)} = {} THEN Table!TableDelete(id)
           ELSE StaysAtTheEnd(id)
<1> DEFINE n == Len(Walk)
           M == Place(id, 2..n - 1)
<1>1. n \in Nat /\ Len(View) = n /\ Table!First(id) = Place(id, 1..n)
  BY WalkIndex, ViewIsSequence, FirstIsPlace
<1>2. M \subseteq 2..n - 1
  BY DEF Place
<1>3. /\ ret' = "0"
      /\ M = {} => View' = View
      /\ M # {} => \E i \in M : View[i].id = id /\ View' = RemoveAt(View, i)
  BY DeleteTakesOut
<1>4. ASSUME Table!First(id) \cap {1, n} = {} PROVE M = Table!First(id)
  <2> DEFINE at(i) == cell[Walk[i]].id = id
  <2>1. \A i \in 1..n : i \in Place(id, 1..n) <=> at(i) /\ \A j \in 1..n : j < i => ~at(j)
    BY DEF Place
  <2>2. \A i \in 2..n - 1 : i \in M <=> at(i) /\ \A j \in 2..n - 1 : j < i => ~at(j)
    BY DEF Place
  <2>3. Place(id, 1..n) \subseteq 1..n
    BY DEF Place
  <2> HIDE DEF at, M
  <2>4. n >= 1 => ~at(1)
    <3>1. ASSUME n >= 1, at(1) PROVE FALSE
      <4>1. 1 \in 1..n /\ \A j \in 1..n : ~(j < 1)
        BY <1>1, <3>1
      <4>2. 1 \in Place(id, 1..n)
        BY <2>1, <3>1, <4>1
      <4> QED
        BY <1>1, <1>4, <4>2
    <3> QED
      BY <3>1
  <2>5. ASSUME NEW i \in Place(id, 1..n) PROVE i \in M
    <3>1. i \in 1..n /\ i # 1 /\ i # n
      BY <1>1, <1>4, <2>3, <2>5
    <3>2. i \in 2..n - 1 /\ \A j \in 2..n - 1 : j \in 1..n
      BY <1>1, <3>1
    <3> QED
      BY <2>1, <2>2, <2>5, <3>1, <3>2
  <2>6. ASSUME NEW i \in M PROVE i \in Place(id, 1..n)
    <3>1. i \in 2..n - 1 /\ i \in 1..n /\ n >= 1
      BY <1>1, <1>2, <2>6
    <3>2. ASSUME NEW j \in 1..n, j < i PROVE ~at(j)
      <4>1. j = 1 \/ j \in 2..n - 1
        BY <1>1, <3>1, <3>2
      <4> QED
        BY <2>2, <2>4, <2>6, <3>1, <3>2, <4>1
    <3> QED
      BY <2>1, <2>2, <2>6, <3>1, <3>2
  <2> QED
    BY <1>1, <2>5, <2>6
<1> HIDE DEF M, n
<1>5. ASSUME Table!First(id) \cap {1, n} = {} PROVE Table!TableDelete(id)
  BY <1>3, <1>4, <1>5 DEF Table!TableDelete, Table!RemoveAt, RemoveAt
<1>6. StaysAtTheEnd(id)
  BY <1>1, <1>2, <1>3 DEF StaysAtTheEnd
<1> QED
  BY <1>1, <1>5, <1>6

\* What is changed is the first row with the id.
LEMMA UpdateServes ==
    ASSUME QueueInv, NEW id, NEW url \in Urls, QueueUpdate(id, url)
    PROVE  Table!TableSet(id, url)
<1> DEFINE P == Place(id, 1..Len(Walk))
<1>1. /\ Walk' = Walk /\ QueueInv'
      /\ \A i \in 1..Len(Walk) :
            /\ cell'[Walk[i]].id = cell[Walk[i]].id
            /\ cell'[Walk[i]].artwork_url = IF i \in P THEN url ELSE cell[Walk[i]].artwork_url
  BY QueueUpdateStep
<1> HIDE DEF P
<1>2. ASSUME NEW i \in 1..Len(Walk)
      PROVE  View'[i] = IF i \in P THEN [View[i] EXCEPT !.artwork_url = url] ELSE View[i]
  <2>1. View'[i] = [id |-> cell'[Walk[i]].id, artwork_url |-> cell'[Walk[i]].artwork_url]
    BY <1>1, ViewAfter
  <2>2. View[i] = [id |-> cell[Walk[i]].id, artwork_url |-> cell[Walk[i]].artwork_url]
    BY ViewIsSequence
  <2> QED
    BY <1>1, <2>1, <2>2
<1>3. View' = [i \in 1..Len(Walk) |-> View'[i]]
  <2>1. DOMAIN View' = 1..Len(Walk) /\ View' \in Seq(Row)
    BY <1>1, ViewAfter
  <2> QED
    BY <2>1
<1>4. DOMAIN View = 1..Len(Walk)
  BY ViewIsSequence
<1>5. View' = [i \in DOMAIN View |-> IF i \in P THEN [View[i] EXCEPT !.artwork_url = url]
                                   ELSE View[i]]
  BY <1>2, <1>3, <1>4
<1>6. Table!First(id) = P
  BY FirstIsPlace DEF P
<1> QED
  BY <1>5, <1>6 DEF Table!TableSet, QueueUpdate

\* The answer is the format of the first row with the id, or that there is none.
LEMMA ArtworkServes ==
    ASSUME QueueInv, NEW id, QueueArtwork(id)
    PROVE  Table!TableRead(id)
<1>1. View' = View
  BY DEF QueueArtwork, View, Walk, NextOf
<1>2. ASSUME NEW i \in Place(id, 1..Len(Walk))
      PROVE  i \in Table!First(id) /\ View[i].artwork_url = cell[Walk[i]].artwork_url
  <2>1. i \in 1..Len(Walk)
    BY DEF Place
  <2> QED
    BY <2>1, FirstIsPlace, ViewIsSequence
<1> QED
  BY <1>1, <1>2 DEF Table!TableRead, QueueArtwork

\* Each call does what it promises of the table, apart from the two exceptions that
\* ServesTheTable makes, for any number of cells and any calls before it
\* (CallsServeTheTable).
THEOREM TableIsServed == QueueSpec => CallsServeTheTable
<1>1. QueueSpec => []QueueInv
  BY QueueInitially, QueueStep, PTL DEF QueueSpec
<1>2. ASSUME QueueInv, NEW base \in BaseIds, NEW callocs \in 0..2, QueueAdd(base, callocs)
      PROVE  CASE callocs = 2 -> Table!TableAdd(base + 1)
               [] callocs = 1 /\ View # <<>> -> UNCHANGED View /\ ret' = "0"
               [] OTHER -> Table!TableRefuse
  <2>1. CASE callocs = 2
    BY <1>2, <2>1, AddServes
  <2>2. CASE callocs \in 0..1
    BY <1>2, <2>2, AddRefused
  <2> QED
    BY <2>1, <2>2
<1>3. QueueInv => [ServesTheTable]_queueVars
  BY <1>2, ClearServes, DeleteServes, ArtworkServes, UpdateServes DEF ServesTheTable
<1> QED
  BY <1>1, <1>3, PTL DEF CallsServeTheTable

-----------------------------------------------------------------------------
(* The key/value list.                                                       *)

\* When the nodes from the head on are a list, the chain is that list,
LEMMA ChainIsChain ==
    ASSUME NEW s, IsChain(s, head, NextNode, NoNode)
    PROVE  Chain = s
<1>1. IsFiniteSet(DOMAIN NextNode) /\ NoNode \notin DOMAIN NextNode
  BY NamesAssumption DEF NextNode
<1> QED
  BY <1>1, ChainFollowed DEF Chain

\* and so after a step.
LEMMA ChainIsChainAfter ==
    ASSUME NEW s, IsChain(s, head', NextNode', NoNode)
    PROVE  Chain' = s
<1>1. IsFiniteSet(DOMAIN NextNode') /\ NoNode \notin DOMAIN NextNode'
  BY NamesAssumption DEF NextNode
<1>2. ASSUME NEW first, NEW next, IsChain(s, first, next, NoNode),
             IsFiniteSet(DOMAIN next), NoNode \notin DOMAIN next
      PROVE  Followed(first, next, NoNode) = s
  BY <1>2, ChainFollowed
<1>3. Followed(head', NextNode', NoNode) = s
  BY <1>1, <1>2
<1> QED
  BY <1>3 DEF Chain

\* What is known of the chain in a state with the invariant: what its places are,
LEMMA ChainIndex ==
    ASSUME KeyvalInv
    PROVE  /\ Len(Chain) \in Nat /\ DOMAIN Chain = 1..Len(Chain)
           /\ \A i \in 1..Len(Chain) : Chain[i] \in Nodes /\ Chain[i] \in used
<1>1. Chain \in Seq(Nodes) /\ used = {Chain[i] : i \in DOMAIN Chain}
  BY DEF KeyvalInv, IsChain, NextNode
<1>2. \A i \in 1..Len(Chain) : Chain[i] \in Nodes
  BY <1>1, ElementOfSeq
<1> QED
  BY <1>1, <1>2

\* that it is a sequence, empty when its length is 0,
LEMMA ChainSequence ==
    ASSUME KeyvalInv
    PROVE  /\ Chain \in Seq(Nodes)
           /\ Chain = <<>> <=> Len(Chain) = 0
<1>1. Chain \in Seq(Nodes)
  BY DEF KeyvalInv, IsChain, NextNode
<1> QED
  BY <1>1, EmptySeq

\* that no node is in two of them,
LEMMA ChainOnce ==
    ASSUME KeyvalInv, NEW i \in 1..Len(Chain), NEW j \in 1..Len(Chain), Chain[i] = Chain[j]
    PROVE  i = j
  BY ChainIndex DEF KeyvalInv, IsChain

\* that the nodes allocated are those in it,
LEMMA ChainIsUsed ==
    ASSUME KeyvalInv
    PROVE  /\ used \subseteq Nodes
           /\ \A c \in used : \E i \in 1..Len(Chain) : c = Chain[i]
<1>1. used = {Chain[i] : i \in 1..Len(Chain)}
  BY ChainIndex DEF KeyvalInv
<1> QED
  BY <1>1, ChainIndex

\* and where head and tail are.
LEMMA ChainEnds ==
    ASSUME KeyvalInv
    PROVE  /\ Chain = <<>> => head = NoNode /\ tail = NoNode
           /\ Chain # <<>> =>
                 /\ Len(Chain) \in 1..Len(Chain) /\ 1 \in 1..Len(Chain)
                 /\ head = Chain[1] /\ tail = Chain[Len(Chain)]
                 /\ head \in Nodes /\ tail \in Nodes /\ head # NoNode /\ tail # NoNode
<1>1. head = (IF Chain = <<>> THEN NoNode ELSE Chain[1])
      /\ tail = (IF Chain = <<>> THEN NoNode ELSE Chain[Len(Chain)])
  BY DEF KeyvalInv, IsChain
<1>2. Chain # <<>> => Len(Chain) \in 1..Len(Chain) /\ 1 \in 1..Len(Chain)
  BY ChainIndex, ChainSequence
<1>3. Chain # <<>> => Chain[1] \in Nodes /\ Chain[Len(Chain)] \in Nodes
  BY <1>2, ChainIndex
<1> QED
  BY <1>1, <1>2, <1>3, NamesAssumption

\* Before the first call there is no list.
LEMMA KeyvalInitially == KeyvalInit => KeyvalInv
<1> SUFFICES ASSUME KeyvalInit PROVE KeyvalInv
  OBVIOUS
<1> USE DEF KeyvalInit
<1>1. IsChain(<<>>, head, NextNode, NoNode)
  BY EmptySeq DEF IsChain
<1>2. Chain = <<>>
  BY <1>1, ChainIsChain
<1>3. node \in [Nodes -> NodeRecord]
  BY DEF Unused, NodeRecord
<1> QED
  BY <1>1, <1>2, <1>3 DEF KeyvalInv, NodeRecord

\* What makes the invariant hold again: a list of what is allocated, with its tail.
LEMMA KeyvalInvFrom ==
    ASSUME NEW s, IsChain(s, head', NextNode', NoNode), node' \in [Nodes -> NodeRecord],
           used' = {s[i] : i \in DOMAIN s},
           tail' = IF s = <<>> THEN NoNode ELSE s[Len(s)],
           \A c, d \in used' : strcasecmp(node'[c].name, node'[d].name) = 0 => c = d
    PROVE  Chain' = s /\ KeyvalInv'
<1>1. Chain' = s
  BY ChainIsChainAfter
<1> QED
  BY <1>1 DEF KeyvalInv, NodeRecord

\* There are no two nodes with names that match, and FirstMatch is the place of the one.
LEMMA MatchIsSingle ==
    ASSUME KeyvalInv, NEW name \in Nat, Match(name) # {}
    PROVE  /\ FirstMatch(name) \in Match(name)
           /\ FirstMatch(name) \in 1..Len(Chain)
           /\ Match(name) = {FirstMatch(name)}
<1>1. ASSUME NEW i \in Match(name), NEW j \in Match(name) PROVE i = j
  <2>1. i \in 1..Len(Chain) /\ j \in 1..Len(Chain)
    BY ChainIndex DEF Match
  <2>2. strcasecmp(node[Chain[i]].name, node[Chain[j]].name) = 0
    BY DEF Match, strcasecmp
  <2>3. Chain[i] = Chain[j]
    BY <2>1, <2>2, ChainIndex DEF KeyvalInv
  <2> QED
    BY <2>1, <2>3, ChainOnce
<1>2. \A i \in Match(name) : i \in 1..Len(Chain) /\ i \in Nat
  BY ChainIndex DEF Match
<1>3. \E i \in Match(name) : \A j \in Match(name) : i <= j
  BY <1>1, <1>2
<1>4. FirstMatch(name) \in Match(name)
  BY <1>3 DEF FirstMatch
<1> QED
  BY <1>1, <1>2, <1>4

\* keyval_add puts the pair at the end of the list.
LEMMA LinkStep ==
    ASSUME KeyvalInv, NEW name \in Nat, NEW value \in Values, Match(name) = {},
           NEW c \in Nodes \ used, Link(c, name, value)
    PROVE  /\ Chain' = Append(Chain, c)
           /\ node'[c].name = name /\ node'[c].value = value
           /\ \A d \in used : node'[d].name = node[d].name /\ node'[d].value = node[d].value
           /\ KeyvalInv'
<1> DEFINE l == Chain[Len(Chain)]
           new == [name |-> name, value |-> value, next |-> NoNode]
<1>1. node \in [Nodes -> NodeRecord] /\ new \in NodeRecord
  BY DEF KeyvalInv, NodeRecord
<1>2. /\ node' \in [Nodes -> NodeRecord]
      /\ node'[c] = new
      /\ \A d \in Nodes \ {c} : node'[d].name = node[d].name /\ node'[d].value = node[d].value
      /\ \A d \in Nodes \ {c} : (Chain # <<>> => d # l) => node'[d] = node[d]
      /\ Chain # <<>> => node'[l].next = c
      /\ head' = IF Chain = <<>> THEN c ELSE head
  <2>1. CASE Chain = <<>>
    <3>1. node' = [[node EXCEPT ![c] = new] EXCEPT ![c].next = NoNode] /\ head' = c
      BY <2>1, ChainEnds DEF Link
    <3>2. node' = [node EXCEPT ![c] = [new EXCEPT !.next = NoNode]]
      BY <1>1, <3>1
    <3>3. [new EXCEPT !.next = NoNode] = new
      OBVIOUS
    <3> HIDE DEF new
    <3>4. node' = [node EXCEPT ![c] = new]
      BY <3>2, <3>3
    <3> QED
      BY <1>1, <2>1, <3>1, <3>4
  <2>2. CASE Chain # <<>>
    <3>1. node' = [[node EXCEPT ![c] = new] EXCEPT ![l].next = c] /\ head' = head
      BY <2>2, ChainEnds DEF Link
    <3>2. l \in Nodes /\ l # c
      BY <2>2, ChainEnds, ChainIndex
    <3>3. node' = [d \in Nodes |-> IF d = l THEN [node[l] EXCEPT !.next = c]
                                  ELSE IF d = c THEN new ELSE node[d]]
      BY <1>1, <3>1, <3>2
    <3>4. /\ [node[l] EXCEPT !.next = c] \in NodeRecord
          /\ [node[l] EXCEPT !.next = c].name = node[l].name
          /\ [node[l] EXCEPT !.next = c].value = node[l].value
          /\ [node[l] EXCEPT !.next = c].next = c
      BY <1>1, <3>2 DEF NodeRecord
    <3> HIDE DEF l, new
    <3>5. node' \in [Nodes -> NodeRecord]
      BY <1>1, <3>3, <3>4
    <3> QED
      BY <2>2, <3>1, <3>2, <3>3, <3>4, <3>5
  <2> QED
    BY <2>1, <2>2
<1>3. IsChain(Append(Chain, c), head', NextNode', NoNode)
  <2> DEFINE after == NextNode'
  <2>1. after = [d \in Nodes |-> node'[d].next]
    BY DEF NextNode
  <2>2. IsChain(Chain, head, NextNode, NoNode) /\ NextNode = [d \in Nodes |-> node[d].next]
    BY DEF KeyvalInv, NextNode
  <2> HIDE DEF after
  <2>3. \A i \in DOMAIN Chain : Chain[i] # c
    BY ChainIndex
  <2>4. after[c] = NoNode
    BY <1>2, <2>1
  <2>5. Chain # <<>> => after[Chain[Len(Chain)]] = c
    BY <1>2, <2>1, ChainEnds, ChainIndex
  <2>6. ASSUME NEW i \in DOMAIN Chain, i # Len(Chain)
        PROVE  after[Chain[i]] = NextNode[Chain[i]]
    <3>1. i \in 1..Len(Chain) /\ Len(Chain) \in 1..Len(Chain)
      BY ChainIndex
    <3>2. Chain[i] \in Nodes \ {c} /\ Chain[i] # l
      BY <2>3, <2>6, <3>1, ChainIndex, ChainOnce
    <3> QED
      BY <1>2, <2>1, <2>2, <3>2
  <2>7. DOMAIN after = DOMAIN NextNode /\ c \in DOMAIN NextNode
    BY <2>1, <2>2
  <2>8. IsChain(Append(Chain, c), IF Chain = <<>> THEN c ELSE head, after, NoNode)
    <3>1. IsChain(Chain, head, NextNode, NoNode)
      BY <2>2
    <3> QED
      BY <3>1, <2>3, <2>4, <2>5, <2>6, <2>7, ChainExtended
  <2> QED
    BY <1>2, <2>8 DEF after
<1> DEFINE t == Append(Chain, c)
           n == Len(Chain)
<1>4. /\ DOMAIN t = 1..n + 1 /\ t[n + 1] = c /\ Len(t) = n + 1 /\ t # <<>>
      /\ \A i \in 1..n : t[i] = Chain[i]
  BY AppendProperties, ChainSequence
<1>5. used' = used \cup {c} /\ tail' = c
  BY DEF Link
<1>6. used' = {t[i] : i \in DOMAIN t}
  <2>1. used = {Chain[i] : i \in 1..n} /\ n \in Nat
    BY ChainIndex DEF KeyvalInv
  <2> HIDE DEF t, n
  <2>2. \A i \in 1..n + 1 : i \in 1..n \/ i = n + 1
    BY <2>1
  <2>3. \A i \in 1..n : i \in 1..n + 1
    BY <2>1
  <2>4. n + 1 \in 1..n + 1
    BY <2>1
  <2>5. {t[i] : i \in 1..n + 1} = {Chain[i] : i \in 1..n} \cup {c}
    BY <1>4, <2>2, <2>3, <2>4
  <2> QED
    BY <1>4, <1>5, <2>1, <2>5
<1>7. ASSUME NEW d \in used', NEW e \in used',
             strcasecmp(node'[d].name, node'[e].name) = 0
      PROVE  d = e
  <2>1. \A f \in used : f \in Nodes \ {c} /\ node'[f].name = node[f].name
    BY <1>2, ChainIsUsed
  <2>2. node'[c].name = name
    BY <1>2
  <2>3. \A f \in used : strcasecmp(node[f].name, name) # 0
    <3>1. \A i \in 1..Len(Chain) : strcasecmp(node[Chain[i]].name, name) # 0
      BY ChainIndex DEF Match
    <3> QED
      BY <3>1, ChainIsUsed
  <2>4. strcasecmp(node'[e].name, node'[d].name) = 0
    BY <1>7 DEF strcasecmp
  <2>5. CASE d \in used /\ e \in used
    BY <1>7, <2>1, <2>5 DEF KeyvalInv
  <2>6. CASE d = c /\ e \in used
    BY <2>1, <2>2, <2>3, <2>4, <2>6
  <2>7. CASE d \in used /\ e = c
    BY <1>7, <2>1, <2>2, <2>3, <2>7
  <2> QED
    BY <1>5, <2>5, <2>6, <2>7
<1>8. Chain' = t /\ KeyvalInv'
  <2>1. tail' = IF t = <<>> THEN NoNode ELSE t[Len(t)]
    BY <1>4, <1>5
  <2> HIDE DEF t, n, l, new
  <2> QED
    BY <1>2, <1>3, <1>6, <1>7, <2>1, KeyvalInvFrom DEF t
<1> QED
  BY <1>2, <1>8, ChainIsUsed

\* keyval_remove takes the node out of the list, and moves the tail with it.
LEMMA UnlinkStep ==
    ASSUME KeyvalInv, NEW i \in 1..Len(Chain), Unlink(i)
    PROVE  /\ Chain' = RemoveAt(Chain, i)
           /\ \A d \in used \ {Chain[i]} : node'[d].name = node[d].name
                                        /\ node'[d].value = node[d].value
           /\ used' = used \ {Chain[i]}
           /\ KeyvalInv'
<1> DEFINE c == Chain[i]
           n == Len(Chain)
           t == RemoveAt(Chain, i)
<1>0. /\ n \in Nat /\ i \in 1..n /\ DOMAIN Chain = 1..n /\ n \in 1..n
      /\ c \in Nodes /\ c \in used /\ Chain # <<>>
  BY ChainIndex, ChainSequence
<1>1. \A j \in 1..n : Chain[j] \in Nodes /\ (Chain[j] = c => j = i)
  BY ChainIndex, ChainOnce
<1>2. node \in [Nodes -> NodeRecord]
  BY DEF KeyvalInv, NodeRecord
<1>3. /\ head' = IF c = head THEN node[c].next ELSE head
      /\ tail' = IF c # tail THEN tail ELSE IF i = 1 THEN NoNode ELSE Chain[i - 1]
      /\ used' = used \ {c}
      /\ node' = [d \in Nodes |-> IF d = c THEN Unused
                                  ELSE IF i > 1 /\ d = Chain[i - 1]
                                    THEN [node[d] EXCEPT !.next = node[c].next] ELSE node[d]]
  BY DEF Unlink
<1>4. /\ DOMAIN t = 1..n - 1 /\ Len(t) = n - 1 /\ t \in Seq(Nodes)
      /\ t = <<>> <=> n = 1
      /\ \A j \in 1..n - 1 : t[j] = IF j < i THEN Chain[j] ELSE Chain[j + 1]
  <2>1. t \in Seq(Nodes) /\ Len(t) = n - 1
        /\ \A j \in 1..n - 1 : t[j] = IF j < i THEN Chain[j] ELSE Chain[j + 1]
    BY ChainSequence, RemoveAtValues
  <2>2. t = <<>> <=> Len(t) = 0
    BY <2>1, EmptySeq
  <2> HIDE DEF t, n
  <2> QED
    BY <1>0, <2>1, <2>2
<1>5. used' = {t[j] : j \in DOMAIN t}
  <2>1. \A j, k \in 1..Len(Chain) : Chain[j] = Chain[k] => j = k
    BY ChainOnce
  <2>2. {t[j] : j \in DOMAIN t} = {Chain[j] : j \in DOMAIN Chain} \ {Chain[i]}
    BY <2>1, ChainSequence, RemoveAtRange
  <2> QED
    BY <1>3, <2>2 DEF KeyvalInv
<1> HIDE DEF c, n, t
<1>6. /\ node' \in [Nodes -> NodeRecord]
      /\ \A d \in Nodes \ {c} : node'[d].name = node[d].name /\ node'[d].value = node[d].value
      /\ \A d \in Nodes \ {c} : (i > 1 => d # Chain[i - 1]) => node'[d] = node[d]
      /\ i > 1 => node'[Chain[i - 1]].next = node[c].next
  <2>1. Unused \in NodeRecord
    BY DEF Unused, NodeRecord
  <2>2. ASSUME NEW d \in Nodes
        PROVE  LET m == [node[d] EXCEPT !.next = node[c].next] IN
               /\ m \in NodeRecord /\ m.name = node[d].name /\ m.value = node[d].value
               /\ m.next = node[c].next
    BY <1>0, <1>2 DEF NodeRecord
  <2>3. i > 1 => Chain[i - 1] \in Nodes \ {c}
    <3>1. i > 1 => i - 1 \in 1..n /\ i - 1 # i
      BY <1>0
    <3> QED
      BY <1>1, <3>1
  <2>4. ASSUME NEW d \in Nodes \ {c}
        PROVE  /\ node'[d].name = node[d].name /\ node'[d].value = node[d].value
               /\ node'[d] \in NodeRecord
               /\ (i > 1 => d # Chain[i - 1]) => node'[d] = node[d]
    BY <1>2, <1>3, <2>2
  <2>5. node'[c] \in NodeRecord
    BY <1>0, <1>3, <2>1
  <2>6. node' \in [Nodes -> NodeRecord]
    BY <1>3, <2>4, <2>5
  <2>7. i > 1 => node'[Chain[i - 1]].next = node[c].next
    BY <1>3, <2>2, <2>3
  <2> QED
    BY <2>4, <2>6, <2>7
<1>7. head' = IF i = 1 THEN node[c].next ELSE head
  <2>1. 1 \in 1..n /\ head = Chain[1]
    BY <1>0, ChainEnds
  <2>2. c = head <=> i = 1
    BY <1>1, <2>1 DEF c
  <2> QED
    BY <1>3, <2>2
<1>8. IsChain(t, head', NextNode', NoNode)
  <2> DEFINE after == NextNode'
  <2>1. after = [d \in Nodes |-> node'[d].next]
    BY DEF NextNode
  <2>2. IsChain(Chain, head, NextNode, NoNode) /\ NextNode = [d \in Nodes |-> node[d].next]
    BY DEF KeyvalInv, NextNode
  <2> HIDE DEF after
  <2>3. DOMAIN after = DOMAIN NextNode /\ i \in DOMAIN Chain
    BY <1>0, <2>1, <2>2
  <2>4. i > 1 => after[Chain[i - 1]] = NextNode[Chain[i]]
    <3>1. i > 1 => i - 1 \in 1..n
      BY <1>0
    <3> QED
      BY <1>0, <1>1, <1>6, <2>1, <2>2, <3>1 DEF c
  <2>5. ASSUME NEW j \in DOMAIN Chain, j # i, j # i - 1
        PROVE  after[Chain[j]] = NextNode[Chain[j]]
    <3>1. Chain[j] \in Nodes \ {c}
      BY <1>0, <1>1, <2>5
    <3>2. i > 1 => Chain[j] # Chain[i - 1]
      <4>1. i > 1 => i - 1 \in 1..Len(Chain)
        BY <1>0 DEF n
      <4>2. j \in 1..Len(Chain)
        BY <1>0 DEF n
      <4> QED
        BY <2>5, <4>1, <4>2, ChainOnce
    <3> QED
      BY <1>6, <2>1, <2>2, <3>1, <3>2
  <2>6. IsChain(t, IF i = 1 THEN NextNode[Chain[i]] ELSE head, after, NoNode)
    <3>1. IsChain(Chain, head, NextNode, NoNode)
      BY <2>2
    <3> QED
      BY <3>1, <2>3, <2>4, <2>5, ChainShortened DEF t
  <2>7. NextNode[Chain[i]] = node[c].next
    BY <1>0, <2>2 DEF c
  <2> QED
    BY <1>7, <2>6, <2>7 DEF after
<1>9. tail' = IF t = <<>> THEN NoNode ELSE t[Len(t)]
  <2>1. tail = Chain[n] /\ (c = tail <=> i = n)
    BY <1>0, <1>1, ChainEnds DEF n, c
  <2>2. CASE n = 1
    BY <1>0, <1>3, <1>4, <2>1, <2>2
  <2>3. CASE n # 1 /\ i = n
    <3>1. n - 1 \in 1..n - 1 /\ n - 1 < i /\ i # 1
      BY <1>0, <2>3
    <3>2. t[n - 1] = Chain[n - 1]
      BY <1>4, <3>1
    <3> QED
      BY <1>3, <1>4, <2>1, <2>3, <3>1, <3>2
  <2>4. CASE n # 1 /\ i # n
    <3>1. n - 1 \in 1..n - 1 /\ ~(n - 1 < i) /\ n - 1 + 1 = n
      BY <1>0, <2>4
    <3>2. t[n - 1] = Chain[n]
      BY <1>4, <3>1
    <3> QED
      BY <1>3, <1>4, <2>1, <2>4, <3>2
  <2> QED
    BY <2>2, <2>3, <2>4
<1>10. \A d \in used' : d \in used /\ d \in Nodes \ {c}
  BY <1>3, ChainIsUsed
<1>11. \A d, e \in used' : strcasecmp(node'[d].name, node'[e].name) = 0 => d = e
  BY <1>6, <1>10 DEF KeyvalInv
<1>12. Chain' = t /\ KeyvalInv'
  BY <1>5, <1>6, <1>8, <1>9, <1>11, KeyvalInvFrom
<1> QED
  BY <1>3, <1>6, <1>12, ChainIsUsed DEF c, t

\* keyval_clear leaves no list.
LEMMA ClearStep ==
    ASSUME KeyvalClear
    PROVE  Chain' = <<>> /\ KeyvalInv'
<1>1. IsChain(<<>>, head', NextNode', NoNode)
  BY EmptySeq DEF IsChain, KeyvalClear
<1>2. node' \in [Nodes -> NodeRecord]
  BY DEF Unused, NodeRecord, KeyvalClear
<1> QED
  BY <1>1, <1>2, KeyvalInvFrom DEF KeyvalClear

\* What leaves the nodes alone leaves the list.
LEMMA ListKept ==
    ASSUME KeyvalInv, UNCHANGED listVars
    PROVE  Chain' = Chain /\ Pairs' = Pairs /\ KeyvalInv'
  BY DEF listVars, KeyvalInv, Chain, NextNode, Pairs

\* Of the names in a set of nodes that is not empty one is the least,
LEMMA LeastName ==
    ASSUME NEW U, U # {}, \A c \in U : node[c].name \in Nat
    PROVE  \E c \in U : \A d \in U : node[c].name <= node[d].name
<1> DEFINE T == {node[c].name : c \in U}
<1>1. T \in SUBSET Nat /\ T # {}
  OBVIOUS
<1> HIDE DEF T
<1>2. PICK n \in T : \A m \in T : n <= m
  BY <1>1, LeastExists
<1> QED
  BY <1>2 DEF T

\* s is a list of the nodes in U in the order of their names, all of which differ.
InNameOrder(s, U) ==
    /\ s \in Seq(U) /\ U = {s[i] : i \in 1..Len(s)}
    /\ \A i, j \in 1..Len(s) : i < j => node[s[i]].name < node[s[j]].name

\* A finite set of nodes with different names can be sorted: a least set that cannot be
\* would have a least name, which goes before what sorts the rest.
LEMMA SortedExists ==
    ASSUME NEW V, IsFiniteSet(V), \A c \in V : node[c].name \in Nat,
           \A c, d \in V : node[c].name = node[d].name => c = d
    PROVE  \E s : InNameOrder(s, V)
<1> DEFINE Bad == {U \in SUBSET V : ~\E s : InNameOrder(s, U)}
           R == StrictSubsetOrdering(V)
<1> SUFFICES ASSUME Bad # {} PROVE FALSE
  OBVIOUS
<1>1. IsWellFoundedOn(R, SUBSET V)
  BY FS_FiniteSubsetsOfFinite, FS_StrictSubsetOrderingWellFounded
<1> HIDE DEF R
<1>2. PICK U \in Bad : \A W \in Bad : ~(<<W, U>> \in R)
  BY <1>1, WFMin
<1>3. U # {}
  <2>1. InNameOrder(<<>>, {})
    BY EmptySeq DEF InNameOrder
  <2> QED
    BY <1>2, <2>1
<1>4. U \subseteq V
  BY <1>2
<1>5. PICK c \in U : \A d \in U : node[c].name <= node[d].name
  BY <1>3, <1>4, LeastName
<1> DEFINE W == U \ {c}
<1>6. PICK s : InNameOrder(s, W)
  <2>1. W \subseteq V /\ W \subseteq U /\ W # U
    BY <1>4
  <2>2. <<W, U>> \in R
    BY <1>4, <2>1 DEF R, StrictSubsetOrdering
  <2> HIDE DEF W
  <2> QED
    BY <1>2, <2>1, <2>2
<1> HIDE DEF W
<1> DEFINE t == <<c>> \o s
           n == Len(s)
<1>7. /\ s \in Seq(U) /\ n \in Nat /\ W = {s[i] : i \in 1..n}
      /\ \A i, j \in 1..n : i < j => node[s[i]].name < node[s[j]].name
      /\ \A i \in 1..n : s[i] \in W
  <2>1. s \in Seq(W)
    BY <1>6 DEF InNameOrder
  <2>2. \A i \in 1..Len(s) : s[i] \in W
    BY <2>1, ElementOfSeq
  <2> QED
    BY <1>6, <2>1, <2>2 DEF InNameOrder, W
<1>8. /\ t \in Seq(U) /\ Len(t) = n + 1 /\ t[1] = c
      /\ \A i \in 1..n : t[i + 1] = s[i]
  <2>1. <<c>> \in Seq(U) /\ Len(<<c>>) = 1 /\ <<c>>[1] = c
    OBVIOUS
  <2>2. /\ t \in Seq(U) /\ Len(t) = 1 + n
        /\ \A i \in 1..1 + n : t[i] = IF i <= 1 THEN <<c>>[i] ELSE s[i - 1]
    BY <1>7, <2>1, ConcatProperties
  <2> HIDE DEF t, n
  <2> QED
    BY <1>7, <2>1, <2>2
<1> HIDE DEF t, n
<1>9. \A d \in W : node[c].name < node[d].name
  <2>1. ASSUME NEW d \in W PROVE node[c].name < node[d].name
    <3>1. d \in U /\ d # c
      BY DEF W
    <3>2. node[c].name <= node[d].name /\ node[c].name # node[d].name
      BY <1>4, <1>5, <3>1
    <3>3. node[c].name \in Nat /\ node[d].name \in Nat
      BY <1>4, <3>1
    <3> QED
      BY <3>2, <3>3
  <2> QED
    BY <2>1
<1>10. ASSUME NEW i \in 1..n + 1, NEW j \in 1..n + 1, i < j
       PROVE  node[t[i]].name < node[t[j]].name
  <2>1. PICK l \in 1..n : j = l + 1
    <3>1. j - 1 \in 1..n /\ j = (j - 1) + 1
      BY <1>7, <1>10
    <3> QED
      BY <3>1
  <2>2. CASE i = 1
    BY <1>7, <1>8, <1>9, <2>1, <2>2
  <2>3. CASE i # 1
    <3>1. PICK k \in 1..n : i = k + 1
      <4>1. i - 1 \in 1..n /\ i = (i - 1) + 1
        BY <1>7, <2>3
      <4> QED
        BY <4>1
    <3>2. k < l
      BY <1>7, <1>10, <2>1, <3>1
    <3> QED
      BY <1>7, <1>8, <2>1, <3>1, <3>2
  <2> QED
    BY <2>2, <2>3
<1>11. U = {t[i] : i \in 1..n + 1}
  <2>1. \A i \in 1..n + 1 : t[i] \in U
    BY <1>8, ElementOfSeq
  <2>2. 1 \in 1..n + 1
    BY <1>7
  <2>3. \A i \in 1..n : i + 1 \in 1..n + 1
    BY <1>7
  <2>4. ASSUME NEW d \in U PROVE \E i \in 1..n + 1 : d = t[i]
    <3>1. CASE d = c
      BY <1>8, <2>2, <3>1
    <3>2. CASE d # c
      <4>1. PICK i \in 1..n : d = s[i]
        BY <1>7, <3>2 DEF W
      <4> QED
        BY <1>8, <2>3, <4>1
    <3> QED
      BY <3>1, <3>2
  <2> QED
    BY <2>1, <2>4
<1>12. InNameOrder(t, U)
  BY <1>8, <1>10, <1>11 DEF InNameOrder
<1> QED
  BY <1>2, <1>12

\* Nodes in the list have different names.
LEMMA NamesDiffer ==
    ASSUME KeyvalInv, NEW c \in used, NEW d \in used, node[c].name = node[d].name
    PROVE  c = d
<1>1. strcasecmp(node[c].name, node[d].name) = 0
  BY DEF strcasecmp
<1> QED
  BY <1>1 DEF KeyvalInv

\* keyval_sort: the sort pointers lead from each name to the next one.
LEMMA SortStep ==
    ASSUME KeyvalInv, KeyvalSort
    PROVE  /\ InNameOrder(Chain', used) /\ used' = used /\ KeyvalInv'
           /\ \A c \in used : node'[c].name = node[c].name /\ node'[c].value = node[c].value
<1>1. node \in [Nodes -> NodeRecord] /\ used \subseteq Nodes
  BY ChainIsUsed DEF KeyvalInv, NodeRecord
<1>2. \A c \in used : c \in Nodes /\ node[c].name \in Nat
  BY <1>1 DEF NodeRecord
<1>3. PICK s : InNameOrder(s, used)
  <2>1. IsFiniteSet(used)
    BY <1>1, NamesAssumption, FS_Subset
  <2>2. \A c, d \in used : node[c].name = node[d].name => c = d
    BY NamesDiffer
  <2> QED
    BY <1>2, <2>1, <2>2, SortedExists
<1> DEFINE n == Len(s)
<1>4. /\ s \in Seq(used) /\ n \in Nat /\ DOMAIN s = 1..n /\ used = {s[i] : i \in 1..n}
      /\ \A i, j \in 1..n : i < j => node[s[i]].name < node[s[j]].name
      /\ \A i \in 1..n : s[i] \in used
  <2>1. s \in Seq(used)
    BY <1>3 DEF InNameOrder
  <2>2. \A i \in 1..Len(s) : s[i] \in used
    BY <2>1, ElementOfSeq
  <2> QED
    BY <1>3, <2>1, <2>2 DEF InNameOrder
<1>5. s # <<>> /\ n # 0 /\ n \in 1..n /\ 1 \in 1..n
  <2>1. used # {}
    BY DEF KeyvalSort
  <2>2. n # 0
    BY <1>4, <2>1
  <2>3. s # <<>>
    BY <1>4, <2>2, EmptySeq
  <2> HIDE DEF n
  <2> QED
    BY <1>4, <2>2, <2>3
<1> HIDE DEF n
<1>6. ASSUME NEW i \in 1..n
      PROVE  Sort(s[i]) = IF i = n THEN NoNode ELSE s[i + 1]
  <2> DEFINE greater == {d \in used : node[d].name > node[s[i]].name}
  <2>1. ASSUME NEW j \in 1..n PROVE s[j] \in greater <=> i < j
    <3> DEFINE a == node[s[i]].name
               b == node[s[j]].name
    <3>1. a \in Nat /\ b \in Nat /\ s[j] \in used /\ i \in Nat /\ j \in Nat
      BY <1>2, <1>4
    <3>2. (i < j => a < b) /\ (j < i => b < a)
      BY <1>4
    <3>3. i = j => a = b
      OBVIOUS
    <3>4. s[j] \in greater <=> b > a
      BY <3>1
    <3> HIDE DEF a, b, greater
    <3>5. b > a <=> i < j
      BY <3>1, <3>2, <3>3
    <3> QED
      BY <3>4, <3>5
  <2>2. CASE i = n
    <3>1. greater = {}
      <4>1. \A j \in 1..n : ~(i < j)
        BY <1>4, <2>2
      <4> QED
        BY <1>4, <2>1, <4>1
    <3> QED
      BY <2>2, <3>1 DEF Sort
  <2>3. CASE i # n
    <3>1. i + 1 \in 1..n /\ i < i + 1
      BY <1>4, <2>3
    <3>2. s[i + 1] \in greater
      BY <2>1, <3>1
    <3>3. \A e \in greater : node[s[i + 1]].name <= node[e].name
      <4>1. ASSUME NEW j \in 1..n, i < j PROVE node[s[i + 1]].name <= node[s[j]].name
        <5>1. node[s[i + 1]].name \in Nat /\ node[s[j]].name \in Nat
          BY <1>2, <1>4, <3>1
        <5>2. j = i + 1 \/ i + 1 < j
          BY <1>4, <4>1
        <5>3. CASE j = i + 1
          BY <5>1, <5>3
        <5>4. CASE i + 1 < j
          <6>1. node[s[i + 1]].name < node[s[j]].name
            BY <1>4, <3>1, <5>4
          <6> QED
            BY <5>1, <6>1
        <5> QED
          BY <5>2, <5>3, <5>4
      <4>2. \A e \in greater : \E j \in 1..n : e = s[j]
        BY <1>4
      <4> HIDE DEF greater
      <4> QED
        BY <2>1, <4>1, <4>2
    <3> DEFINE m == CHOOSE d \in greater : \A e \in greater : node[d].name <= node[e].name
    <3>4. Sort(s[i]) = m
      BY <3>2 DEF Sort
    <3>5. greater \subseteq used
      OBVIOUS
    <3> HIDE DEF greater
    <3>6. m \in greater /\ \A e \in greater : node[m].name <= node[e].name
      BY <3>2, <3>3
    <3> HIDE DEF m
    <3>7. node[m].name = node[s[i + 1]].name
      <4>1. node[m].name <= node[s[i + 1]].name /\ node[s[i + 1]].name <= node[m].name
        BY <3>2, <3>3, <3>6
      <4>2. node[m].name \in Nat /\ node[s[i + 1]].name \in Nat
        BY <1>2, <3>2, <3>5, <3>6
      <4> QED
        BY <4>1, <4>2
    <3>8. m = s[i + 1]
      BY <3>2, <3>5, <3>6, <3>7, NamesDiffer
    <3> QED
      BY <2>3, <3>4, <3>8
  <2> QED
    BY <2>2, <2>3
<1>7. head' = s[1]
  <2> DEFINE m == CHOOSE c \in used : \A d \in used : node[c].name <= node[d].name
  <2>1. head' = m
    BY DEF KeyvalSort
  <2>2. m \in used /\ \A d \in used : node[m].name <= node[d].name
    <3>1. used # {}
      BY DEF KeyvalSort
    <3> QED
      BY <1>2, <3>1, LeastName
  <2> HIDE DEF m
  <2>3. PICK k \in 1..n : m = s[k]
    BY <1>4, <2>2
  <2>4. CASE k # 1
    <3>1. 1 < k
      BY <1>4, <2>4
    <3>2. node[s[1]].name < node[s[k]].name
      BY <1>4, <1>5, <3>1
    <3>3. node[s[k]].name <= node[s[1]].name
      BY <1>4, <1>5, <2>2, <2>3
    <3>4. node[s[1]].name \in Nat /\ node[s[k]].name \in Nat
      BY <1>2, <1>4, <1>5
    <3> QED
      BY <3>2, <3>3, <3>4
  <2> QED
    BY <2>1, <2>3, <2>4
<1>8. tail' = s[n]
  <2> DEFINE m == CHOOSE c \in used : Sort(c) = NoNode
  <2>1. tail' = m
    BY DEF KeyvalSort
  <2>2. s[n] \in used /\ Sort(s[n]) = NoNode
    BY <1>4, <1>5, <1>6
  <2>3. m \in used /\ Sort(m) = NoNode
    BY <2>2
  <2> HIDE DEF m
  <2>4. PICK k \in 1..n : m = s[k]
    BY <1>4, <2>3
  <2>5. CASE k # n
    <3>1. k + 1 \in 1..n
      BY <1>4, <2>5
    <3>2. s[k + 1] \in Nodes
      BY <1>1, <1>4, <3>1
    <3>3. s[k + 1] = NoNode
      BY <1>6, <2>3, <2>4, <2>5
    <3> QED
      BY <3>2, <3>3, NamesAssumption
  <2> QED
    BY <2>1, <2>4, <2>5
<1>9. /\ node' = [c \in Nodes |-> IF c \in used THEN [node[c] EXCEPT !.next = Sort(c)] ELSE node[c]]
      /\ used' = used
  BY DEF KeyvalSort
<1>10. ASSUME NEW i \in 1..n
       PROVE  node'[s[i]].next = IF i = n THEN NoNode ELSE s[i + 1]
  <2>1. s[i] \in used /\ s[i] \in Nodes
    BY <1>1, <1>4
  <2>2. node'[s[i]].next = Sort(s[i])
    BY <1>1, <1>9, <2>1 DEF NodeRecord
  <2> QED
    BY <1>6, <2>2
<1>11. \A c \in used : Sort(c) \in Nodes \cup {NoNode}
  <2>1. ASSUME NEW i \in 1..n PROVE Sort(s[i]) \in Nodes \cup {NoNode}
    <3>1. i # n => i + 1 \in 1..n
      BY <1>4
    <3> QED
      BY <1>1, <1>4, <1>6, <3>1
  <2> QED
    BY <1>4, <2>1
<1>12. ASSUME NEW c \in Nodes
       PROVE  /\ node'[c] \in NodeRecord
              /\ node'[c].name = node[c].name /\ node'[c].value = node[c].value
  <2>1. CASE c \in used
    <3>1. node'[c] = [node[c] EXCEPT !.next = Sort(c)] /\ node[c] \in NodeRecord
          /\ Sort(c) \in Nodes \cup {NoNode}
      BY <1>1, <1>9, <1>11, <2>1
    <3> QED
      BY <3>1 DEF NodeRecord
  <2>2. CASE c \notin used
    BY <1>1, <1>9, <2>2
  <2> QED
    BY <2>1, <2>2
<1>13. node' \in [Nodes -> NodeRecord]
  BY <1>9, <1>12
<1>14. IsChain(s, head', NextNode', NoNode)
  <2> DEFINE after == NextNode'
  <2>1. after = [c \in Nodes |-> node'[c].next]
    BY DEF NextNode
  <2> HIDE DEF after
  <2>2. s \in Seq(DOMAIN after)
    BY <1>1, <1>4, <2>1
  <2>3. ASSUME NEW i \in 1..n, NEW j \in 1..n, s[i] = s[j] PROVE i = j
    <3>1. node[s[i]].name \in Nat /\ node[s[j]].name \in Nat
      BY <1>2, <1>4
    <3>2. node[s[i]].name = node[s[j]].name
      BY <2>3
    <3>3. ~(i < j)
      <4>1. ~(node[s[i]].name < node[s[j]].name)
        BY <3>1, <3>2
      <4> QED
        BY <1>4, <4>1
    <3>4. ~(j < i)
      <4>1. ~(node[s[j]].name < node[s[i]].name)
        BY <3>1, <3>2
      <4> QED
        BY <1>4, <4>1
    <3> QED
      BY <1>4, <3>3, <3>4
  <2>4. \A i \in 1..n : after[s[i]] = IF i = n THEN NoNode ELSE s[i + 1]
    BY <1>1, <1>4, <1>10, <2>1
  <2>5. IsChain(s, head', after, NoNode)
    BY <1>4, <1>5, <1>7, <2>2, <2>3, <2>4 DEF IsChain, n
  <2> QED
    BY <2>5 DEF after
<1>15. ASSUME NEW c \in used', NEW d \in used',
              strcasecmp(node'[c].name, node'[d].name) = 0
       PROVE  c = d
  BY <1>1, <1>9, <1>12, <1>15 DEF KeyvalInv
<1>16. Chain' = s /\ KeyvalInv'
  <2>1. used' = {s[i] : i \in DOMAIN s}
    BY <1>4, <1>9
  <2>2. tail' = IF s = <<>> THEN NoNode ELSE s[Len(s)]
    BY <1>5, <1>8 DEF n
  <2> QED
    BY <1>13, <1>14, <1>15, <2>1, <2>2, KeyvalInvFrom
<1> QED
  BY <1>1, <1>3, <1>9, <1>12, <1>16

\* A list as in the invariant is what KvIsSound says it is.
LEMMA KeyvalSoundness == KeyvalInv => KvIsSound
<1> SUFFICES ASSUME KeyvalInv PROVE KvIsSound
  OBVIOUS
<1> DEFINE n == Len(Chain)
<1>1. Chain \in Bijection(1..n, used)
  <2>1. Chain \in [1..n -> used]
    BY ChainIndex, ChainSequence
  <2>2. \A i, j \in 1..n : Chain[i] = Chain[j] => i = j
    BY ChainOnce
  <2> QED
    BY <2>1, <2>2, ChainIsUsed DEF Bijection, Injection, Surjection, IsInjective
<1>2. ExistsBijection(1..n, used)
  BY <1>1 DEF ExistsBijection
<1>3. n \in Nat
  BY ChainIndex
<1> HIDE DEF n
<1>4. IsFiniteSet(1..n) /\ Cardinality(1..n) = n
  BY <1>3, FS_Interval
<1>5. Cardinality(used) = n
  BY <1>2, <1>4, FS_Bijection
<1>6. ASSUME NEW i \in DOMAIN Chain, NEW j \in DOMAIN Chain,
             strcasecmp(node[Chain[i]].name, node[Chain[j]].name) = 0
      PROVE  i = j
  <2>1. i \in 1..Len(Chain) /\ j \in 1..Len(Chain)
    BY ChainIndex
  <2>2. Chain[i] \in used /\ Chain[j] \in used
    BY <2>1, ChainIndex
  <2>3. Chain[i] = Chain[j]
    BY <1>6, <2>2 DEF KeyvalInv
  <2> QED
    BY <2>1, <2>3, ChainOnce
<1> QED
  BY <1>5, <1>6 DEF KvIsSound, KeyvalInv, n

\* What parse_keyval is given, and where it is
TextTyped == text \in Texts \cup {<<>>} /\ token \in Nat \cup {-1}

\* parse_keyval makes its calls with a name and a value.
LEMMA PairGiven ==
    ASSUME TextTyped, token > 0, NEW i \in Found(token), Len(text[i]) >= 2
    PROVE  text[i][1] \in Names /\ text[i][1] \in Nat /\ text[i][2] \in Values
<1>1. i \in token..Len(text) /\ text[i] # <<>> /\ token \in Nat
  BY DEF Found, TextTyped
<1>2. text # <<>>
  <2>1. text = <<>> => token..Len(text) = {}
    BY <1>1
  <2> QED
    BY <1>1, <2>1
<1>3. text \in Texts
  BY <1>2 DEF TextTyped
<1>4. i \in DOMAIN text
  <2>1. text \in Seq(Seq(Names \cup Values))
    BY <1>3, TextsAssumption
  <2> QED
    BY <1>1, <2>1
<1>5. text[i][1] \in Names /\ text[i][2] \in Values
  BY <1>1, <1>3, <1>4, TextsAssumption
<1> QED
  BY <1>5, NamesAssumption

\* keyval_add keeps the invariant, whether it links a node, finds the name or fails,
LEMMA AddKeeps ==
    ASSUME KeyvalInv, NEW name \in Nat, NEW value \in Values, KeyvalAdd(name, value)
    PROVE  KeyvalInv'
<1>1. CASE UNCHANGED listVars
  BY <1>1, ListKept
<1>2. ASSUME Match(name) = {}, NEW c \in Nodes \ used, Link(c, name, value)
      PROVE  KeyvalInv'
  BY <1>2, LinkStep
<1> QED
  BY <1>1, <1>2 DEF KeyvalAdd

\* and so does keyval_remove, whether it finds the name or not.
LEMMA RemoveKeeps ==
    ASSUME KeyvalInv, NEW name \in Nat, KeyvalRemove(name)
    PROVE  KeyvalInv'
<1>1. CASE Match(name) = {}
  BY <1>1, ListKept DEF KeyvalRemove
<1>2. CASE Match(name) # {}
  <2>1. FirstMatch(name) \in 1..Len(Chain)
    BY <1>2, MatchIsSingle
  <2>2. Unlink(FirstMatch(name))
    BY <1>2 DEF KeyvalRemove
  <2> QED
    BY <2>1, <2>2, UnlinkStep
<1> QED
  BY <1>1, <1>2

KeyvalTyped == KeyvalInv /\ TextTyped

\* Every step keeps the invariant.
LEMMA KeyvalStep == KeyvalTyped /\ [KeyvalNext]_keyvalVars => KeyvalTyped'
<1> SUFFICES ASSUME KeyvalTyped, [KeyvalNext]_keyvalVars PROVE KeyvalTyped'
  OBVIOUS
<1>0. KeyvalInv /\ TextTyped
  BY DEF KeyvalTyped
<1>1. CASE ParseToken
  <2>1. PICK i \in Found(token) :
          /\ IF Len(text[i]) >= 2 THEN KeyvalAdd(text[i][1], text[i][2])
                                  ELSE UNCHANGED <<listVars, got>>
          /\ IF Len(text[i]) > 2 THEN token' = Failed ELSE PassBlank(i)
    BY <1>1 DEF ParseToken
  <2>2. token > 0 /\ text' = text
    BY <1>1 DEF ParseToken
  <2>3. KeyvalInv'
    <3>1. CASE Len(text[i]) >= 2
      <4>1. text[i][1] \in Nat /\ text[i][2] \in Values
        BY <1>0, <2>2, <3>1, PairGiven
      <4> QED
        BY <1>0, <2>1, <3>1, <4>1, AddKeeps
    <3>2. CASE ~(Len(text[i]) >= 2)
      BY <1>0, <2>1, <3>2, ListKept
    <3> QED
      BY <3>1, <3>2
  <2>4. token' \in Nat \cup {-1}
    <3>1. Len(text) \in Nat
      BY <1>0, TextsAssumption DEF TextTyped
    <3>2. PassBlank(i) => token' \in Nat
      <4>1. token \in Nat /\ i \in Nat
        BY <1>0, <2>1, <2>2, <3>1 DEF Found, TextTyped
      <4>2. \A blank \in Found(i + 1) : blank \in Nat
        BY <3>1, <4>1 DEF Found
      <4> QED
        BY <3>1, <4>2 DEF PassBlank
    <3> QED
      BY <2>1, <3>2 DEF Failed
  <2> QED
    BY <1>0, <2>2, <2>3, <2>4 DEF KeyvalTyped, TextTyped
<1>2. CASE ParseReturns
  BY <1>0, <1>2, ListKept DEF ParseReturns, KeyvalTyped, TextTyped
<1>3. CASE Call
  <2>1. TextTyped'
    BY <1>0, <1>3 DEF Call, TextTyped
  <2>2. ASSUME NEW name \in Names, NEW value \in Values, KeyvalAdd(name, value) PROVE KeyvalInv'
    BY <1>0, <2>2, AddKeeps, NamesAssumption
  <2>3. ASSUME NEW name \in Names, KeyvalRemove(name) PROVE KeyvalInv'
    BY <1>0, <2>3, RemoveKeeps, NamesAssumption
  <2>4. ASSUME NEW name \in Names, KeyvalGet(name) PROVE KeyvalInv'
    BY <1>0, <2>4, ListKept DEF KeyvalGet
  <2>5. KeyvalClear \/ KeyvalSort => KeyvalInv'
    BY <1>0, ClearStep, SortStep
  <2> QED
    BY <1>3, <2>1, <2>2, <2>3, <2>4, <2>5 DEF Call, KeyvalTyped
<1>4. CASE ParseFails \/ UNCHANGED keyvalVars
  <2>1. UNCHANGED listVars /\ UNCHANGED <<text, token>>
    BY <1>4 DEF ParseFails, keyvalVars, listVars
  <2> QED
    BY <1>0, <2>1, ListKept DEF KeyvalTyped, TextTyped
<1> QED
  BY <1>1, <1>2, <1>3, <1>4 DEF KeyvalNext

\* KvIsSound, for any number of nodes, any texts and any calls.
THEOREM KvStaysSound == KeyvalSpec => []KvIsSound
<1>1. KeyvalInit => KeyvalTyped
  BY KeyvalInitially DEF KeyvalTyped, TextTyped, KeyvalInit
<1>2. KeyvalTyped => KvIsSound
  BY KeyvalSoundness DEF KeyvalTyped
<1> QED
  BY <1>1, <1>2, KeyvalStep, PTL DEF KeyvalSpec

-----------------------------------------------------------------------------
(* What the calls do to the pairs.                                           *)

\* A name and a value
Pair == Nat \X (Values \cup {NoValue})

\* What the nodes of a list hold is a sequence of pairs as long as the list,
LEMMA PairsIsSequence ==
    ASSUME KeyvalInv
    PROVE  /\ Pairs \in Seq(Pair) /\ Len(Pairs) = Len(Chain) /\ DOMAIN Pairs = 1..Len(Chain)
           /\ \A i \in 1..Len(Chain) : Pairs[i] = <<node[Chain[i]].name, node[Chain[i]].value>>
<1> DEFINE n == Len(Chain)
           pair(i) == <<node[Chain[i]].name, node[Chain[i]].value>>
<1>1. Pairs = [i \in 1..n |-> pair(i)] /\ n \in Nat
  BY ChainIndex DEF Pairs
<1>2. \A i \in 1..n : pair(i) \in Pair
  BY ChainIndex DEF KeyvalInv, NodeRecord, Pair
<1> HIDE DEF n, pair
<1>3. Pairs \in Seq(Pair) /\ Len(Pairs) = n /\ DOMAIN Pairs = 1..n
  BY <1>1, <1>2
<1> QED
  BY <1>1, <1>3 DEF n, pair

\* before a step and after it.
LEMMA PairsAfter ==
    ASSUME KeyvalInv'
    PROVE  /\ Pairs' \in Seq(Pair) /\ Len(Pairs') = Len(Chain') /\ DOMAIN Pairs' = 1..Len(Chain')
           /\ \A i \in 1..Len(Chain') :
                 Pairs'[i] = <<node'[Chain'[i]].name, node'[Chain'[i]].value>>
<1>1. (KeyvalInv =>
         /\ Pairs \in Seq(Pair) /\ Len(Pairs) = Len(Chain) /\ DOMAIN Pairs = 1..Len(Chain)
         /\ \A i \in 1..Len(Chain) :
               Pairs[i] = <<node[Chain[i]].name, node[Chain[i]].value>>)'
  BY PairsIsSequence, PTL
<1> QED
  BY <1>1

\* A place matches a name when the pair there has it, but for case.
LEMMA MatchOfPairs ==
    ASSUME KeyvalInv, NEW name \in Nat
    PROVE  /\ Match(name) = {i \in 1..Len(Chain) : strcasecmp(Pairs[i][1], name) = 0}
           /\ PairsOf(name) = {Pairs[i] : i \in Match(name)}
<1>1. Match(name) = {i \in 1..Len(Chain) : strcasecmp(Pairs[i][1], name) = 0}
  BY ChainIndex, PairsIsSequence DEF Match
<1>2. DOMAIN Pairs = 1..Len(Chain)
  BY PairsIsSequence
<1> QED
  BY <1>1, <1>2 DEF PairsOf

\* And so after a step.
LEMMA PairsOfAfter ==
    ASSUME KeyvalInv', NEW name \in Nat
    PROVE  /\ Match(name)' = {i \in 1..Len(Chain') : strcasecmp(Pairs'[i][1], name) = 0}
           /\ PairsOf(name)' = {Pairs'[i] : i \in Match(name)'}
<1>1. (KeyvalInv => /\ Match(name) = {i \in 1..Len(Chain) : strcasecmp(Pairs[i][1], name) = 0}
                   /\ PairsOf(name) = {Pairs[i] : i \in Match(name)})'
  BY MatchOfPairs, PTL
<1> QED
  BY <1>1 DEF strcasecmp

\* Linking a node in puts its pair at the end.
LEMMA LinkAppends ==
    ASSUME KeyvalInv, NEW name \in Nat, NEW value \in Values, Match(name) = {},
           NEW c \in Nodes \ used, Link(c, name, value)
    PROVE  Pairs' = Append(Pairs, <<name, value>>)
<1> DEFINE n == Len(Chain)
           pair == <<name, value>>
<1>1. /\ Chain' = Append(Chain, c)
      /\ node'[c].name = name /\ node'[c].value = value
      /\ \A d \in used : node'[d].name = node[d].name /\ node'[d].value = node[d].value
      /\ KeyvalInv'
  BY LinkStep
<1>2. pair \in Pair
  BY DEF Pair
<1> HIDE DEF pair
<1>3. /\ Append(Pairs, pair) \in Seq(Pair) /\ Len(Append(Pairs, pair)) = n + 1
      /\ Append(Pairs, pair)[n + 1] = pair
      /\ \A i \in 1..n : Append(Pairs, pair)[i] = Pairs[i]
  BY <1>2, PairsIsSequence, AppendProperties
<1>4. /\ Len(Chain') = n + 1 /\ Chain'[n + 1] = c
      /\ \A i \in 1..n : Chain'[i] = Chain[i]
  BY <1>1, ChainSequence, AppendProperties
<1>5. n \in Nat
  BY ChainIndex
<1>6. Pairs' \in Seq(Pair) /\ Len(Pairs') = n + 1
  BY <1>1, <1>4, PairsAfter
<1>7. Pairs'[n + 1] = pair
  BY <1>1, <1>4, <1>5, PairsAfter DEF pair
<1>8. ASSUME NEW i \in 1..n PROVE Pairs'[i] = Pairs[i]
  <2>1. i \in 1..Len(Chain')
    BY <1>4, <1>5
  <2>2. Chain[i] \in used
    BY ChainIndex
  <2>3. Pairs'[i] = <<node'[Chain[i]].name, node'[Chain[i]].value>>
    BY <1>1, <1>4, <2>1, PairsAfter
  <2>4. Pairs[i] = <<node[Chain[i]].name, node[Chain[i]].value>>
    BY PairsIsSequence
  <2> QED
    BY <1>1, <2>2, <2>3, <2>4
<1>9. ASSUME NEW i \in 1..n + 1 PROVE Pairs'[i] = Append(Pairs, pair)[i]
  BY <1>3, <1>5, <1>7, <1>8
<1> HIDE DEF n
<1>10. Pairs' = Append(Pairs, pair)
  BY <1>3, <1>5, <1>6, <1>9, SameSequence
<1> QED
  BY <1>10 DEF pair

\* keyval_add keeps all pairs, appends at most one, and returns 0 only with the pair there.
LEMMA AddServesTheMap ==
    ASSUME KeyvalInv, NEW name \in Nat, NEW value \in Values, KeyvalAdd(name, value)
    PROVE  /\ Pairs' \in {Pairs, Append(Pairs, <<name, value>>)}
           /\ got' = 0 => \E p \in PairsOf(name)' : p[2] = value
<1>1. CASE /\ Match(name) # {}
           /\ got' = IF node[Chain[FirstMatch(name)]].value = value THEN 0 ELSE Failed
           /\ UNCHANGED listVars
  <2>1. Chain' = Chain /\ Pairs' = Pairs /\ KeyvalInv'
    BY <1>1, ListKept
  <2> DEFINE i == FirstMatch(name)
  <2>2. i \in Match(name) /\ i \in 1..Len(Chain)
    BY <1>1, MatchIsSingle
  <2>3. strcasecmp(Pairs[i][1], name) = 0 /\ Pairs[i][2] = node[Chain[i]].value
    <3>1. Pairs[i] = <<node[Chain[i]].name, node[Chain[i]].value>>
      BY <2>2, PairsIsSequence
    <3>2. strcasecmp(node[Chain[i]].name, name) = 0
      BY <2>2 DEF Match
    <3> QED
      BY <3>1, <3>2
  <2>4. got' = 0 => node[Chain[i]].value = value
    BY <1>1 DEF Failed
  <2> HIDE DEF i
  <2>5. Pairs'[i] \in PairsOf(name)'
    BY <2>1, <2>2, <2>3, PairsOfAfter
  <2> QED
    BY <2>1, <2>3, <2>4, <2>5
<1>2. ASSUME Match(name) = {}, NEW c \in Nodes \ used, Link(c, name, value)
      PROVE  /\ Pairs' \in {Pairs, Append(Pairs, <<name, value>>)}
             /\ got' = 0 => \E p \in PairsOf(name)' : p[2] = value
  <2>1. Pairs' = Append(Pairs, <<name, value>>)
    BY <1>2, LinkAppends
  <2>2. KeyvalInv' /\ Chain' = Append(Chain, c)
    BY <1>2, LinkStep
  <2> DEFINE k == Len(Chain) + 1
  <2>3. k \in 1..Len(Chain')
    BY <2>2, ChainIndex, ChainSequence, AppendProperties
  <2>4. Pairs'[k] = <<name, value>>
    <3>1. Pairs \in Seq(Pair) /\ Len(Pairs) = Len(Chain)
      BY PairsIsSequence
    <3> QED
      BY <2>1, <3>1, AppendProperties
  <2>5. strcasecmp(name, name) = 0
    BY DEF strcasecmp
  <2> HIDE DEF k
  <2>6. Pairs'[k] \in PairsOf(name)'
    BY <2>2, <2>3, <2>4, <2>5, PairsOfAfter
  <2>7. Pairs'[k][2] = value
    BY <2>4
  <2>8. \E p \in PairsOf(name)' : p[2] = value
    BY <2>6, <2>7
  <2> QED
    BY <2>1, <2>8
<1>3. CASE got' = Failed /\ UNCHANGED listVars
  BY <1>3, ListKept DEF Failed
<1> QED
  BY <1>1, <1>2, <1>3 DEF KeyvalAdd

\* keyval_remove takes out one pair, and leaves none with the name.
LEMMA RemoveServesTheMap ==
    ASSUME KeyvalInv, NEW name \in Nat, KeyvalRemove(name)
    PROVE  /\ \/ Pairs' = Pairs
              \/ \E i \in DOMAIN Pairs : /\ strcasecmp(Pairs[i][1], name) = 0
                                         /\ Pairs' = RemoveAt(Pairs, i)
           /\ PairsOf(name)' = {}
<1>1. CASE Match(name) = {}
  <2>1. Chain' = Chain /\ Pairs' = Pairs /\ KeyvalInv'
    BY <1>1, ListKept DEF KeyvalRemove
  <2>2. PairsOf(name) = {}
    BY <1>1, MatchOfPairs
  <2>3. PairsOf(name)' = {p \in {Pairs'[i] : i \in DOMAIN Pairs'} : strcasecmp(p[1], name) = 0}
    BY DEF PairsOf, strcasecmp
  <2>4. PairsOf(name) = {p \in {Pairs[i] : i \in DOMAIN Pairs} : strcasecmp(p[1], name) = 0}
    BY DEF PairsOf
  <2> QED
    BY <2>1, <2>2, <2>3, <2>4
<1>2. CASE Match(name) # {}
  <2> DEFINE i == FirstMatch(name)
             n == Len(Chain)
  <2>1. i \in 1..n /\ Match(name) = {i} /\ n \in Nat
    BY <1>2, MatchIsSingle, ChainIndex
  <2>2. Unlink(i)
    BY <1>2 DEF KeyvalRemove
  <2> HIDE DEF i
  <2>3. /\ Chain' = RemoveAt(Chain, i)
        /\ \A d \in used \ {Chain[i]} : node'[d].name = node[d].name
                                     /\ node'[d].value = node[d].value
        /\ KeyvalInv'
    BY <2>1, <2>2, UnlinkStep
  <2>4. /\ Len(Chain') = n - 1
        /\ \A j \in 1..n - 1 : Chain'[j] = IF j < i THEN Chain[j] ELSE Chain[j + 1]
    BY <2>1, <2>3, ChainSequence, RemoveAtValues
  <2>5. /\ RemoveAt(Pairs, i) \in Seq(Pair) /\ Len(RemoveAt(Pairs, i)) = n - 1
        /\ \A j \in 1..n - 1 : RemoveAt(Pairs, i)[j] = IF j < i THEN Pairs[j] ELSE Pairs[j + 1]
    <3>1. Pairs \in Seq(Pair) /\ Len(Pairs) = n /\ i \in 1..Len(Pairs)
      BY <2>1, PairsIsSequence
    <3> QED
      BY <3>1, RemoveAtValues
  <2>6. Pairs' \in Seq(Pair) /\ Len(Pairs') = n - 1
    BY <2>3, <2>4, PairsAfter
  <2>7. ASSUME NEW j \in 1..n - 1
        PROVE  \E k \in 1..n : /\ k # i /\ RemoveAt(Pairs, i)[j] = Pairs[k]
                               /\ Pairs'[j] = Pairs[k]
    <3> DEFINE k == IF j < i THEN j ELSE j + 1
    <3>1. k \in 1..n /\ k # i
      BY <2>1
    <3>2. RemoveAt(Pairs, i)[j] = Pairs[k] /\ Chain'[j] = Chain[k]
      BY <2>4, <2>5
    <3> HIDE DEF k, n
    <3>3. Chain[k] \in used \ {Chain[i]}
      BY <2>1, <3>1, ChainIndex, ChainOnce DEF n
    <3>4. Pairs'[j] = <<node'[Chain[k]].name, node'[Chain[k]].value>>
      BY <2>3, <2>4, <3>2, PairsAfter
    <3>5. Pairs[k] = <<node[Chain[k]].name, node[Chain[k]].value>>
      BY <3>1, PairsIsSequence DEF n
    <3> QED
      BY <2>3, <3>1, <3>2, <3>3, <3>4, <3>5
  <2>8. n - 1 \in Nat
    BY <2>1
  <2> HIDE DEF n
  <2>9. Pairs' = RemoveAt(Pairs, i)
    BY <2>5, <2>6, <2>7, <2>8, SameSequence
  <2>10. i \in DOMAIN Pairs /\ strcasecmp(Pairs[i][1], name) = 0
    BY <2>1, PairsIsSequence, MatchOfPairs DEF n
  <2>11. PairsOf(name)' = {}
    <3>1. ASSUME NEW j \in 1..n - 1 PROVE strcasecmp(Pairs'[j][1], name) # 0
      <4>1. PICK k \in 1..n : k # i /\ Pairs'[j] = Pairs[k]
        BY <2>7
      <4>2. k \notin Match(name)
        BY <2>1, <4>1
      <4> QED
        BY <4>1, <4>2, MatchOfPairs DEF n
    <3>2. Match(name)' = {}
      BY <2>3, <2>4, <3>1, PairsOfAfter
    <3> QED
      BY <2>3, <3>2, PairsOfAfter
  <2> QED
    BY <2>9, <2>10, <2>11
<1> QED
  BY <1>1, <1>2

\* keyval_get returns the value with the name, or NULL when there is none.
LEMMA GetServesTheMap ==
    ASSUME KeyvalInv, NEW name \in Nat, KeyvalGet(name)
    PROVE  \/ got' = NoValue /\ PairsOf(name) = {}
           \/ \E p \in PairsOf(name) : got' = p[2]
<1>1. CASE Match(name) = {}
  BY <1>1, MatchOfPairs DEF KeyvalGet
<1>2. CASE Match(name) # {}
  <2> DEFINE i == FirstMatch(name)
  <2>1. i \in Match(name) /\ i \in 1..Len(Chain) /\ got' = node[Chain[i]].value
    BY <1>2, MatchIsSingle DEF KeyvalGet
  <2> HIDE DEF i
  <2>2. Pairs[i] \in PairsOf(name)
    BY <2>1, MatchOfPairs
  <2>3. Pairs[i][2] = node[Chain[i]].value
    BY <2>1, PairsIsSequence
  <2> QED
    BY <2>1, <2>2, <2>3
<1> QED
  BY <1>1, <1>2

\* keyval_sort keeps all pairs, and puts them in the order of their names.
LEMMA SortServesTheMap ==
    ASSUME KeyvalInv, KeyvalSort
    PROVE  /\ {Pairs'[i] : i \in DOMAIN Pairs'} = {Pairs[i] : i \in DOMAIN Pairs}
           /\ \A i, j \in DOMAIN Pairs' : i < j => Pairs'[i][1] < Pairs'[j][1]
<1>1. /\ InNameOrder(Chain', used) /\ used' = used /\ KeyvalInv'
      /\ \A c \in used : node'[c].name = node[c].name /\ node'[c].value = node[c].value
  BY SortStep
<1> DEFINE pair(c) == <<node[c].name, node[c].value>>
           n == Len(Chain')
<1>2. /\ DOMAIN Pairs' = 1..n /\ used = {Chain'[i] : i \in 1..n}
      /\ \A i \in 1..n : Chain'[i] \in used
  <2>1. DOMAIN Pairs' = 1..n
    BY <1>1, PairsAfter
  <2>2. used = {Chain'[i] : i \in 1..n}
    BY <1>1 DEF InNameOrder
  <2> QED
    BY <2>1, <2>2
<1>3. \A i \in 1..n : Pairs'[i] = pair(Chain'[i])
  BY <1>1, <1>2, PairsAfter
<1>4. {Pairs[i] : i \in DOMAIN Pairs} = {pair(c) : c \in used}
  <2>1. DOMAIN Pairs = 1..Len(Chain) /\ \A i \in 1..Len(Chain) : Pairs[i] = pair(Chain[i])
    BY PairsIsSequence
  <2>2. used = {Chain[i] : i \in 1..Len(Chain)}
    BY ChainIsUsed, ChainIndex
  <2> HIDE DEF pair
  <2> QED
    BY <2>1, <2>2
<1>5. {Pairs'[i] : i \in DOMAIN Pairs'} = {pair(c) : c \in used}
  <2> HIDE DEF pair, n
  <2> QED
    BY <1>2, <1>3
<1>6. \A i, j \in 1..n : i < j => node[Chain'[i]].name < node[Chain'[j]].name
  BY <1>1 DEF InNameOrder
<1>7. ASSUME NEW i \in 1..n, NEW j \in 1..n, i < j
      PROVE  Pairs'[i][1] < Pairs'[j][1]
  <2>1. Pairs'[i][1] = node[Chain'[i]].name /\ Pairs'[j][1] = node[Chain'[j]].name
    BY <1>3
  <2> QED
    BY <1>6, <1>7, <2>1
<1> HIDE DEF n, pair
<1>8. {Pairs'[i] : i \in DOMAIN Pairs'} = {Pairs[i] : i \in DOMAIN Pairs}
  BY <1>4, <1>5
<1> QED
  BY <1>2, <1>7, <1>8

\* Each call does to the pairs what its name says (KvServesTheMap), for any number of nodes
\* and any calls before it.
THEOREM MapIsServed == KeyvalSpec => KvServesTheMap
<1>1. KeyvalInit => KeyvalTyped
  BY KeyvalInitially DEF KeyvalTyped, TextTyped, KeyvalInit
<1>2. ASSUME KeyvalTyped PROVE ServesTheMap
  <2>1. KeyvalInv /\ Names \subseteq Nat
    BY <1>2, NamesAssumption DEF KeyvalTyped
  <2>2. ASSUME NEW name \in Names, NEW value \in Values, KeyvalAdd(name, value)
        PROVE  /\ Pairs' \in {Pairs, Append(Pairs, <<name, value>>)}
               /\ got' = 0 => \E p \in PairsOf(name)' : p[2] = value
    BY <2>1, <2>2, AddServesTheMap
  <2>3. ASSUME NEW name \in Names, KeyvalRemove(name)
        PROVE  /\ \/ Pairs' = Pairs
                  \/ \E i \in DOMAIN Pairs : /\ strcasecmp(Pairs[i][1], name) = 0
                                             /\ Pairs' = RemoveAt(Pairs, i)
               /\ PairsOf(name)' = {}
    BY <2>1, <2>3, RemoveServesTheMap
  <2>4. ASSUME NEW name \in Names, KeyvalGet(name)
        PROVE  \/ got' = NoValue /\ PairsOf(name) = {}
               \/ \E p \in PairsOf(name) : got' = p[2]
    BY <2>1, <2>4, GetServesTheMap
  <2> QED
    BY <2>1, <2>2, <2>3, <2>4, SortServesTheMap DEF ServesTheMap
<1>3. KeyvalTyped => [ServesTheMap]_keyvalVars
  BY <1>2
<1> QED
  BY <1>1, <1>3, KeyvalStep, PTL DEF KeyvalSpec, KvServesTheMap

-----------------------------------------------------------------------------
(* What parse_keyval makes of a text.                                        *)

\* What a well-formed text is made of: stretches that are not empty, and a name and a value
\* in each one that is not a blank.
LEMMA WellFormedText ==
    ASSUME TextTyped, WellFormed
    PROVE  /\ Len(text) \in Nat \ {0} /\ DOMAIN text = 1..Len(text)
           /\ \A i \in 1..Len(text) : text[i] # <<>>
           /\ \A i \in 1..Len(text) : i % 2 = 1 =>
                 /\ Len(text[i]) = 2 /\ text[i] = <<text[i][1], text[i][2]>>
                 /\ text[i][1] \in Nat /\ text[i][2] \in Values
<1>1. text \in Seq(Seq(Names \cup Values)) /\ text \in Texts /\ text # <<>>
  BY TextsAssumption DEF TextTyped, WellFormed
<1>2. Len(text) \in Nat \ {0} /\ DOMAIN text = 1..Len(text)
  BY <1>1, EmptySeq
<1>3. ASSUME NEW i \in 1..Len(text)
      PROVE  text[i] # <<>> /\ text[i] \in Seq(Names \cup Values)
  <2>1. text[i] \in Seq(Names \cup Values)
    BY <1>1, <1>3, ElementOfSeq
  <2>2. Len(text[i]) = IF i % 2 = 1 THEN 2 ELSE 1
    BY <1>2 DEF WellFormed
  <2>3. Len(text[i]) # 0
    BY <2>2
  <2> QED
    BY <2>1, <2>3, EmptySeq
<1>4. ASSUME NEW i \in 1..Len(text), i % 2 = 1
      PROVE  /\ Len(text[i]) = 2 /\ text[i] = <<text[i][1], text[i][2]>>
             /\ text[i][1] \in Nat /\ text[i][2] \in Values
  <2>1. Len(text[i]) = 2
    BY <1>2, <1>4 DEF WellFormed
  <2>2. text[i][1] \in Nat /\ text[i][2] \in Values
    <3>1. i \in DOMAIN text /\ text[i] # <<>> /\ Len(text[i]) >= 2
      BY <1>2, <1>3, <2>1
    <3>2. text[i][1] \in Names /\ text[i][2] \in Values
      BY <1>1, <3>1, TextsAssumption
    <3> QED
      BY <3>2, NamesAssumption
  <2>3. text[i] = <<text[i][1], text[i][2]>>
    BY <1>3, <2>1
  <2> QED
    BY <2>1, <2>2, <2>3
<1> QED
  BY <1>2, <1>3, <1>4

\* How many names are new among the first ones,
LEMMA CountIsNat ==
    ASSUME NEW p \in Nat
    PROVE  /\ Count(p) \in Nat /\ Count(p) <= p
           /\ \A i \in 1..p : Fresh(i) => Count(i) \in 1..Count(p)
<1> DEFINE T(i) == {j \in 1..i : Fresh(j)}
<1>1. ASSUME NEW i \in Nat PROVE IsFiniteSet(T(i)) /\ Cardinality(T(i)) \in Nat
  <2>1. IsFiniteSet(1..i)
    BY FS_Interval
  <2>2. IsFiniteSet(T(i))
    BY <2>1, FS_Subset
  <2> QED
    BY <2>2, FS_CardinalityType
<1>2. Cardinality(T(p)) <= p
  <2>1. IsFiniteSet(1..p) /\ Cardinality(1..p) = p
    BY FS_Interval
  <2>2. T(p) \subseteq 1..p
    OBVIOUS
  <2> HIDE DEF T
  <2> QED
    BY <2>1, <2>2, FS_Subset
<1>3. ASSUME NEW i \in 1..p, Fresh(i) PROVE Cardinality(T(i)) \in 1..Cardinality(T(p))
  <2>1. T(i) \subseteq T(p) /\ i \in T(i) /\ i \in Nat
    BY <1>3
  <2> HIDE DEF T
  <2>2. Cardinality(T(i)) <= Cardinality(T(p))
    BY <1>1, <2>1, FS_Subset
  <2>3. Cardinality(T(i)) # 0
    BY <1>1, <2>1, FS_EmptySet
  <2> QED
    BY <1>1, <2>1, <2>2, <2>3
<1>4. \A i : Count(i) = Cardinality(T(i))
  BY DEF Count
<1> HIDE DEF T
<1> QED
  BY <1>1, <1>2, <1>3, <1>4

\* and one name further.
LEMMA CountNext ==
    ASSUME NEW p \in Nat
    PROVE  Count(p + 1) = IF Fresh(p + 1) THEN Count(p) + 1 ELSE Count(p)
<1> DEFINE T == {j \in 1..p : Fresh(j)}
<1>1. IsFiniteSet(T)
  <2>1. IsFiniteSet(1..p) /\ T \subseteq 1..p
    BY FS_Interval
  <2> QED
    BY <2>1, FS_Subset
<1>2. 1..p + 1 = 1..p \cup {p + 1} /\ p + 1 \notin 1..p
  OBVIOUS
<1>3. {j \in 1..p + 1 : Fresh(j)} = IF Fresh(p + 1) THEN T \cup {p + 1} ELSE T
  BY <1>2
<1>4. p + 1 \notin T
  OBVIOUS
<1> HIDE DEF T
<1>5. Cardinality(T \cup {p + 1}) = Cardinality(T) + 1
  BY <1>1, <1>4, FS_AddElement
<1> QED
  BY <1>3, <1>5 DEF Count, T

\* The token of a pair, and what parse_keyval goes on with: the pair after the blank.
LEMMA NextPair ==
    ASSUME TextTyped, WellFormed, token \in DOMAIN text, token = 2 * Parsed + 1,
           NEW i \in Found(token), PassBlank(i), text' = text
    PROVE  /\ i = token /\ Parsed \in Nat /\ 2 * Parsed + 1 <= Len(text)
           /\ Parsed' = Parsed + 1
           /\ token' \in DOMAIN text => token' = 2 * (Parsed + 1) + 1
<1> DEFINE n == Len(text)
           p == Parsed
<1>1. n \in Nat \ {0} /\ DOMAIN text = 1..n /\ \A k \in 1..n : text[k] # <<>>
  BY WellFormedText
<1>2. token \in 1..n
  BY <1>1
<1>3. p \in Nat
  BY <1>1, <1>2 DEF Parsed
<1> HIDE DEF p
<1>4. token = 2 * p + 1
  BY DEF p
<1>5. ASSUME NEW k \in 1..n PROVE Found(k) = {k}
  BY <1>1 DEF Found
<1>6. i = token
  BY <1>2, <1>5
<1>7. (i # n => token' = i + 2) /\ (i = n => token' = n + 1)
  <2>1. CASE i # n
    <3>1. i + 1 \in 1..n /\ i + 1 + 1 = i + 2
      BY <1>2, <1>6, <2>1
    <3>2. Found(i + 1) = {i + 1}
      BY <1>5, <3>1
    <3> QED
      BY <2>1, <3>1, <3>2 DEF PassBlank
  <2>2. CASE i = n
    <3>1. Found(i + 1) = {}
      BY <1>1, <2>2 DEF Found
    <3> QED
      BY <2>2, <3>1 DEF PassBlank
  <2> QED
    BY <2>1, <2>2
<1>8. Parsed' = p + 1
  <2>1. Parsed' = IF token' \in 1..n THEN (token' - 1) \div 2 ELSE (n + 1) \div 2
    BY <1>1 DEF Parsed
  <2> HIDE DEF n
  <2>2. CASE token' \in 1..n
    <3>1. token' - 1 = 2 * p + 2
      <4>1. n + 1 \notin 1..n
        BY <1>1
      <4>2. token' = i + 2
        BY <1>7, <2>2, <4>1
      <4> QED
        BY <1>3, <1>4, <1>6, <4>2
    <3>2. (2 * p + 2) \div 2 = p + 1
      BY <1>3
    <3>3. Parsed' = (token' - 1) \div 2
      BY <2>1, <2>2
    <3> QED
      BY <3>1, <3>2, <3>3
  <2>3. CASE token' \notin 1..n
    <3>1. n = 2 * p + 1 \/ n = 2 * p + 2
      BY <1>1, <1>2, <1>3, <1>4, <1>6, <1>7, <2>3
    <3>2. (2 * p + 1 + 1) \div 2 = p + 1 /\ (2 * p + 2 + 1) \div 2 = p + 1
      BY <1>3
    <3> QED
      BY <2>1, <2>3, <3>1, <3>2
  <2> QED
    BY <2>2, <2>3
<1>9. token' \in 1..n => token' = 2 * (p + 1) + 1
  <2> HIDE DEF n
  <2> QED
    BY <1>1, <1>3, <1>4, <1>6, <1>7
<1> QED
  BY <1>1, <1>2, <1>3, <1>4, <1>6, <1>8, <1>9 DEF p

\* There is a node for each pair.
LEMMA NodeIsFree ==
    ASSUME KeyvalInv, NEW p \in Nat, ListOf(p), WellFormed, TextTyped,
           2 * Cardinality(Nodes) > Len(text), 2 * p + 1 <= Len(text)
    PROVE  Nodes # used
<1>1. Cardinality(used) = Len(Chain)
  BY KeyvalSoundness DEF KvIsSound
<1>2. Cardinality(used) <= p
  BY <1>1, CountIsNat DEF ListOf
<1>3. Cardinality(Nodes) \in Nat
  BY NamesAssumption, FS_CardinalityType
<1>4. Len(text) \in Nat
  BY WellFormedText
<1>5. Cardinality(Nodes) > p
  BY <1>3, <1>4
<1>6. Cardinality(used) \in Nat
  BY <1>1, ChainIndex
<1>7. Cardinality(Nodes) # Cardinality(used)
  BY <1>2, <1>3, <1>5, <1>6
<1> QED
  BY <1>7

\* keyval_add with the next pair of the text.
LEMMA NextPairIsAdded ==
    ASSUME KeyvalInv, TextTyped, WellFormed, NEW p \in Nat, ListOf(p),
           2 * Cardinality(Nodes) > Len(text), 2 * p + 1 <= Len(text),
           KeyvalAdd(Given(p + 1)[1], Given(p + 1)[2]), text' = text
    PROVE  ListOf(p + 1)'
<1> DEFINE pair == Given(p + 1)
           n == Len(Chain)
<1>1. pair = <<pair[1], pair[2]>> /\ pair[1] \in Nat /\ pair[2] \in Values
  <2>1. 2 * (p + 1) - 1 = 2 * p + 1
    OBVIOUS
  <2>2. 2 * p + 1 \in 1..Len(text) /\ (2 * p + 1) % 2 = 1
    BY WellFormedText
  <2>3. pair = text[2 * p + 1]
    BY <2>1 DEF Given
  <2> HIDE DEF pair
  <2> QED
    BY <2>2, <2>3, WellFormedText
<1> HIDE DEF pair
<1>2. /\ n = Count(p) /\ n \in Nat /\ DOMAIN Chain = 1..n
      /\ \A i \in 1..p : Fresh(i) => Count(i) \in 1..n /\ Pairs[Count(i)] = Given(i)
      /\ \A j \in 1..n : \E i \in 1..p : Pairs[j] = Given(i)
      /\ \A i \in 1..p : \E j \in 1..n : strcasecmp(Pairs[j][1], Given(i)[1]) = 0
  BY ChainIndex, CountIsNat DEF ListOf
<1>3. Match(pair[1]) = {i \in 1..n : strcasecmp(Pairs[i][1], pair[1]) = 0}
  BY <1>1, MatchOfPairs
<1>4. Fresh(p + 1) <=> \A j \in 1..p : strcasecmp(pair[1], Given(j)[1]) # 0
  <2>1. 1..p + 1 - 1 = 1..p
    OBVIOUS
  <2> QED
    BY <2>1 DEF Fresh, pair
<1>5. \A a, b : strcasecmp(a, b) = strcasecmp(b, a)
  BY DEF strcasecmp
<1>6. \A a, b, c : strcasecmp(a, b) = 0 /\ strcasecmp(b, c) = 0 => strcasecmp(a, c) = 0
  BY DEF strcasecmp
<1>7. Match(pair[1]) = {} <=> Fresh(p + 1)
  <2>1. ASSUME Fresh(p + 1), NEW j \in 1..n PROVE strcasecmp(Pairs[j][1], pair[1]) # 0
    <3>1. PICK i \in 1..p : Pairs[j] = Given(i)
      BY <1>2
    <3>2. strcasecmp(pair[1], Given(i)[1]) # 0
      BY <1>4, <2>1
    <3> QED
      BY <1>5, <3>1, <3>2
  <2>2. ASSUME ~Fresh(p + 1) PROVE \E j \in 1..n : strcasecmp(Pairs[j][1], pair[1]) = 0
    <3>1. PICK i \in 1..p : strcasecmp(pair[1], Given(i)[1]) = 0
      BY <1>4, <2>2
    <3>2. PICK j \in 1..n : strcasecmp(Pairs[j][1], Given(i)[1]) = 0
      BY <1>2
    <3>3. strcasecmp(Given(i)[1], pair[1]) = 0
      BY <1>5, <3>1
    <3> QED
      BY <1>6, <3>2, <3>3
  <2> QED
    BY <1>3, <2>1, <2>2
<1>8. Count(p + 1) = IF Fresh(p + 1) THEN n + 1 ELSE n
  BY <1>2, CountNext
<1>9. \A i \in 1..p + 1 : i \in 1..p \/ i = p + 1
  OBVIOUS
<1>10. /\ \A i : Count(i)' = Count(i) /\ Given(i)' = Given(i)
       /\ \A i : Fresh(i)' <=> Fresh(i)
  BY DEF Count, Given, Fresh, strcasecmp
<1> SUFFICES
        /\ Len(Chain') = Count(p + 1)
        /\ \A i \in 1..p + 1 : Fresh(i) => Pairs'[Count(i)] = Given(i)
        /\ \A j \in DOMAIN Chain' : \E i \in 1..p + 1 : Pairs'[j] = Given(i)
        /\ \A i \in 1..p + 1 : \E j \in DOMAIN Chain' :
              strcasecmp(Pairs'[j][1], Given(i)[1]) = 0
  BY <1>10 DEF ListOf, strcasecmp
<1>11. CASE Fresh(p + 1)
  <2>1. PICK c \in Nodes \ used : Link(c, pair[1], pair[2])
    <3>1. Nodes # used /\ Match(pair[1]) = {}
      BY <1>7, <1>11, NodeIsFree
    <3> QED
      BY <3>1 DEF KeyvalAdd, pair
  <2>2. Pairs' = Append(Pairs, pair) /\ Chain' = Append(Chain, c)
    <3> DEFINE a == pair[1]
               b == pair[2]
    <3>1. a \in Nat /\ b \in Values /\ Match(a) = {} /\ Link(c, a, b)
      BY <1>1, <1>7, <1>11, <2>1
    <3>2. pair = <<a, b>>
      BY <1>1
    <3> HIDE DEF a, b
    <3>3. Pairs' = Append(Pairs, <<a, b>>) /\ Chain' = Append(Chain, c)
      BY <3>1, LinkAppends, LinkStep
    <3> QED
      BY <3>2, <3>3
  <2>3. /\ Len(Chain') = n + 1 /\ DOMAIN Chain' = 1..n + 1
        /\ Pairs'[n + 1] = pair
        /\ \A i \in 1..n : Pairs'[i] = Pairs[i]
    <3>1. Pairs \in Seq(Pair) /\ Len(Pairs) = n
      BY PairsIsSequence
    <3> QED
      BY <2>2, <3>1, ChainSequence, AppendProperties
  <2> HIDE DEF n
  <2>4. Count(p + 1) = n + 1
    BY <1>8, <1>11
  <2>5. ASSUME NEW i \in 1..p + 1, Fresh(i) PROVE Pairs'[Count(i)] = Given(i)
    <3>1. CASE i \in 1..p
      BY <1>2, <2>3, <2>5, <3>1
    <3>2. CASE i = p + 1
      BY <2>3, <2>4, <3>2 DEF pair
    <3> QED
      BY <3>1, <3>2
  <2>6. ASSUME NEW j \in 1..n + 1 PROVE \E i \in 1..p + 1 : Pairs'[j] = Given(i)
    <3>1. CASE j \in 1..n
      <4>1. PICK i \in 1..p : Pairs[j] = Given(i)
        BY <1>2, <3>1
      <4>2. i \in 1..p + 1
        OBVIOUS
      <4> QED
        BY <2>3, <3>1, <4>1, <4>2
    <3>2. CASE j = n + 1
      <4>1. p + 1 \in 1..p + 1
        OBVIOUS
      <4> QED
        BY <2>3, <3>2, <4>1 DEF pair
    <3>3. j \in 1..n \/ j = n + 1
      <4>1. n \in Nat
        BY <1>2
      <4> QED
        BY <4>1
    <3> QED
      BY <3>1, <3>2, <3>3
  <2>7. ASSUME NEW i \in 1..p + 1
        PROVE  \E j \in 1..n + 1 : strcasecmp(Pairs'[j][1], Given(i)[1]) = 0
    <3>1. CASE i \in 1..p
      <4>1. PICK j \in 1..n : strcasecmp(Pairs[j][1], Given(i)[1]) = 0
        BY <1>2, <3>1
      <4>2. j \in 1..n + 1
        BY <1>2
      <4> QED
        BY <2>3, <4>1, <4>2
    <3>2. CASE i = p + 1
      <4>1. n + 1 \in 1..n + 1
        BY <1>2
      <4>2. strcasecmp(pair[1], pair[1]) = 0
        BY DEF strcasecmp
      <4> QED
        BY <2>3, <3>2, <4>1, <4>2 DEF pair
    <3> QED
      BY <3>1, <3>2
  <2> QED
    BY <2>3, <2>4, <2>5, <2>6, <2>7
<1>12. CASE ~Fresh(p + 1)
  <2>1. UNCHANGED listVars
    <3>1. Match(pair[1]) # {}
      BY <1>7, <1>12
    <3> QED
      BY <3>1 DEF KeyvalAdd, pair
  <2>2. Chain' = Chain /\ Pairs' = Pairs
    BY <2>1, ListKept
  <2> HIDE DEF n
  <2>3. Count(p + 1) = n
    BY <1>8, <1>12
  <2>4. \A i \in 1..p + 1 : Fresh(i) => i \in 1..p
    BY <1>9, <1>12
  <2>5. ASSUME NEW j \in 1..n PROVE \E i \in 1..p + 1 : Pairs[j] = Given(i)
    <3>1. PICK i \in 1..p : Pairs[j] = Given(i)
      BY <1>2
    <3>2. i \in 1..p + 1
      OBVIOUS
    <3> QED
      BY <3>1, <3>2
  <2>6. ASSUME NEW i \in 1..p + 1
        PROVE  \E j \in 1..n : strcasecmp(Pairs[j][1], Given(i)[1]) = 0
    <3>1. CASE i \in 1..p
      BY <1>2, <3>1
    <3>2. CASE i = p + 1
      BY <1>3, <1>7, <1>12, <3>2 DEF pair
    <3> QED
      BY <3>1, <3>2
  <2> QED
    BY <1>2, <2>2, <2>3, <2>4, <2>5, <2>6 DEF n
<1> QED
  BY <1>11, <1>12

\* Whatever the step, what is known of the list holds as far as the text has been read.
LEMMA TxtStep == KeyvalTyped /\ TxtInv /\ [KeyvalNext]_keyvalVars => TxtInv'
<1> DEFINE Fits == WellFormed /\ 2 * Cardinality(Nodes) > Len(text)
<1>0. /\ TxtInv <=> (Fits => /\ token \in DOMAIN text => token = 2 * Parsed + 1
                             /\ ListOf(Parsed))
      /\ TxtInv' <=> (Fits' => /\ token' \in DOMAIN text' => token' = 2 * Parsed' + 1
                               /\ ListOf(Parsed)')
  BY DEF TxtInv
<1> SUFFICES ASSUME KeyvalTyped, TxtInv, [KeyvalNext]_keyvalVars, Fits'
             PROVE  /\ token' \in DOMAIN text' => token' = 2 * Parsed' + 1
                    /\ ListOf(Parsed)'
  BY <1>0
<1>1. KeyvalInv /\ TextTyped
  BY DEF KeyvalTyped
<1>2. CASE ParseToken
  <2>1. PICK i \in Found(token) :
          /\ IF Len(text[i]) >= 2 THEN KeyvalAdd(text[i][1], text[i][2])
                                  ELSE UNCHANGED <<listVars, got>>
          /\ IF Len(text[i]) > 2 THEN token' = Failed ELSE PassBlank(i)
    BY <1>2 DEF ParseToken
  <2>2. token > 0 /\ text' = text
    BY <1>2 DEF ParseToken
  <2>3. Fits
    BY <2>2 DEF WellFormed
  <2>4. (token \in DOMAIN text => token = 2 * Parsed + 1) /\ ListOf(Parsed)
    BY <1>0, <2>3
  <2>5. token \in DOMAIN text
    <3>1. i \in token..Len(text)
      BY DEF Found
    <3> QED
      BY <1>1, <2>2, <2>3, <3>1, WellFormedText DEF TextTyped
  <2>6. token \in 1..Len(text) /\ i \in Found(token) /\ i = token
    <3>1. \A k \in 1..Len(text) : text[k] # <<>>
      BY <1>1, <2>3, WellFormedText
    <3>2. token \in 1..Len(text)
      BY <1>1, <2>3, <2>5, WellFormedText
    <3>3. Found(token) = {token}
      BY <3>1, <3>2 DEF Found
    <3> QED
      BY <3>2, <3>3
  <2>7. PICK p \in Nat : p = Parsed /\ token = 2 * p + 1
    <3>1. Len(text) \in Nat
      BY <1>1, <2>3, WellFormedText
    <3>2. Parsed \in Nat
      BY <2>5, <2>6, <3>1 DEF Parsed
    <3> QED
      BY <2>4, <2>5, <3>2
  <2>8. Len(text[i]) = 2
    <3>1. i % 2 = 1
      BY <2>6, <2>7
    <3> QED
      BY <1>1, <2>3, <2>6, <3>1, WellFormedText
  <2>9. PassBlank(i) /\ KeyvalAdd(text[i][1], text[i][2])
    BY <2>1, <2>8
  <2>10. /\ 2 * p + 1 <= Len(text) /\ Parsed' = p + 1
         /\ token' \in DOMAIN text => token' = 2 * (p + 1) + 1
    BY <1>1, <2>2, <2>3, <2>4, <2>5, <2>7, <2>9, NextPair
  <2>11. Given(p + 1) = text[i]
    <3>1. 2 * (p + 1) - 1 = i
      BY <2>6, <2>7
    <3> QED
      BY <3>1 DEF Given
  <2>12. ListOf(p + 1)'
    <3>1. ListOf(p)
      BY <2>4, <2>7
    <3>2. KeyvalAdd(Given(p + 1)[1], Given(p + 1)[2])
      BY <2>9, <2>11
    <3> QED
      BY <1>1, <2>2, <2>3, <2>10, <3>1, <3>2, NextPairIsAdded
  <2>13. ListOf(Parsed)'
    BY <2>10, <2>12 DEF ListOf, Count, Given, Fresh
  <2> QED
    BY <2>2, <2>10, <2>13
<1>3. CASE ParseReturns
  <2>1. token > 0 /\ Found(token) = {} /\ token' = 0 /\ text' = text /\ UNCHANGED listVars
    BY <1>3 DEF ParseReturns
  <2>2. Fits
    BY <2>1 DEF WellFormed
  <2>3. Len(text) \in Nat /\ DOMAIN text = 1..Len(text) /\ \A k \in 1..Len(text) : text[k] # <<>>
    BY <1>1, <2>2, WellFormedText
  <2>4. token \notin DOMAIN text
    <3>1. token \in 1..Len(text) => token \in Found(token)
      BY <2>3 DEF Found
    <3> QED
      BY <2>1, <2>3, <3>1
  <2>5. token' \notin DOMAIN text'
    BY <2>1, <2>3
  <2>6. Parsed' = Parsed
    BY <2>1, <2>4, <2>5 DEF Parsed
  <2>7. PICK p : p = Parsed
    OBVIOUS
  <2>8. Chain' = Chain /\ Pairs' = Pairs
    BY <1>1, <2>1, ListKept
  <2>9. ListOf(Parsed)'
    <3>1. ListOf(p)
      BY <1>0, <2>2, <2>7
    <3>2. ListOf(p)'
      BY <2>1, <2>8, <3>1 DEF ListOf, Count, Given, Fresh, strcasecmp
    <3>3. Parsed' = p
      BY <2>6, <2>7
    <3> QED
      BY <3>2, <3>3 DEF ListOf, Count, Given, Fresh
  <2> QED
    BY <2>5, <2>9
<1>4. CASE Call
  <2>1. ~WellFormed'
    BY <1>4 DEF Call, WellFormed
  <2> QED
    BY <2>1
<1>5. CASE ParseFails \/ UNCHANGED keyvalVars
  <2>1. Chain' = Chain /\ Pairs' = Pairs /\ text' = text /\ token' = token
    <3>1. UNCHANGED listVars /\ UNCHANGED <<text, token>>
      BY <1>5 DEF ParseFails, keyvalVars, listVars
    <3> QED
      BY <1>1, <3>1, ListKept
  <2>2. Fits
    BY <2>1 DEF WellFormed
  <2>3. Parsed' = Parsed
    BY <2>1 DEF Parsed
  <2>4. (token \in DOMAIN text => token = 2 * Parsed + 1) /\ ListOf(Parsed)
    BY <1>0, <2>2
  <2>5. ListOf(Parsed)'
    BY <2>1, <2>3, <2>4 DEF ListOf, Count, Given, Fresh, strcasecmp
  <2> QED
    BY <2>1, <2>3, <2>4, <2>5
<1> QED
  BY <1>2, <1>3, <1>4, <1>5 DEF KeyvalNext

\* Before the first step nothing has been read, and the list is empty.
LEMMA TxtInitially == KeyvalInit => TxtInv
<1> SUFFICES ASSUME KeyvalInit, WellFormed
             PROVE  /\ token \in DOMAIN text => token = 2 * Parsed + 1
                    /\ ListOf(Parsed)
  BY DEF TxtInv, ListOf
<1>1. TextTyped /\ token = 1 /\ KeyvalInv
  BY KeyvalInitially DEF KeyvalInit, TextTyped
<1>2. Len(text) \in Nat \ {0} /\ DOMAIN text = 1..Len(text)
  BY <1>1, WellFormedText
<1>3. Parsed = 0
  BY <1>1, <1>2 DEF Parsed
<1>4. Chain = <<>>
  <2>1. \A i \in 1..Len(Chain) : Chain[i] \in {}
    BY <1>1, ChainIndex DEF KeyvalInit
  <2> QED
    BY <1>1, <2>1, ChainIndex, ChainSequence
<1>5. Count(0) = 0
  <2>1. {j \in 1..0 : Fresh(j)} = {}
    OBVIOUS
  <2> QED
    BY <2>1, FS_EmptySet DEF Count
<1>6. ListOf(0)
  BY <1>4, <1>5 DEF ListOf
<1> QED
  BY <1>1, <1>3, <1>6

\* When no more of the text is left, what is known of the list is that all pairs are in it.
LEMMA TxtAtTheEnd == KeyvalTyped /\ TxtInv => TxtIsComplete
<1> SUFFICES ASSUME KeyvalTyped, TxtInv, WellFormed, token \notin DOMAIN text,
                    2 * Cardinality(Nodes) > Len(text)
             PROVE  LET pairs == (Len(text) + 1) \div 2
                    IN  /\ Len(Pairs) = Count(pairs)
                        /\ \A i \in 1..pairs : Fresh(i) => Pairs[Count(i)] = Given(i)
  BY DEF TxtIsComplete
<1>1. KeyvalInv
  BY DEF KeyvalTyped
<1>2. Parsed = (Len(text) + 1) \div 2
  BY DEF Parsed
<1>3. Len(Pairs) = Len(Chain)
  BY <1>1, PairsIsSequence
<1>4. Len(Chain) = Count(Parsed) /\ \A i \in 1..Parsed : Fresh(i) => Pairs[Count(i)] = Given(i)
  BY DEF TxtInv, ListOf
<1> QED
  BY <1>2, <1>3, <1>4

\* Every pair of a well-formed text is in the list when parse_keyval is through with it
\* (TxtIsComplete), for any number of pairs and of nodes that are enough for them.
THEOREM TxtEndsComplete == KeyvalSpec => []TxtIsComplete
<1>1. KeyvalInit => KeyvalTyped /\ TxtInv
  BY KeyvalInitially, TxtInitially DEF KeyvalTyped, TextTyped, KeyvalInit
<1>2. KeyvalTyped /\ TxtInv /\ [KeyvalNext]_keyvalVars => KeyvalTyped' /\ TxtInv'
  BY KeyvalStep, TxtStep
<1> QED
  BY <1>1, <1>2, TxtAtTheEnd, PTL DEF KeyvalSpec
=============================================================================
