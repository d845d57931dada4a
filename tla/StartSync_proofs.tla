--------------------------- MODULE StartSync_proofs ---------------------------
(***************************************************************************)
(* Proofs about StartSync, for all latencies, start times and read sizes.   *)
(***************************************************************************)
EXTENDS StartSync, TimespecOps_proofs

USE DEF stdin, estimate, history

\* What a conversion to uint64_t does to a number of either sign.
LEMMA Unsigned ==
  ASSUME NEW x \in Int, -Wrap <= x, x < Wrap
  PROVE  U(x) = IF x < 0 THEN x + Wrap ELSE x
<1>1. Wrap \in Nat
  BY WrapAssumption
<1>2. CASE x < 0
  BY <1>1, <1>2 DEF U
<1>3. CASE x >= 0
  BY <1>1, <1>3 DEF U
<1>4. QED
  BY <1>2, <1>3

\* evbuffer_read returns no more than there is.
LEMMA TakenType == TypeOK => Taken \in Nat /\ avail - Taken \in Nat
  BY SizeAssumption DEF TypeOK, Taken

\* The time asked for is one of the start times.
LEMMA AskedType == TypeOK => asked \in Nat
  BY StartAssumption DEF TypeOK

\* A start time that is not TooEarly is no further away than the margin, but for what is
\* cut off of a millisecond.
LEMMA NotTooEarly ==
  ASSUME NEW d \in Int, d < Wrap, d >= -MaxTime,
         LatencyMs + InputWriteMs >= 0,
         ~ (U(DeltaMs(FromNs(d))) > U(LatencyMs + InputWriteMs))
  PROVE  d < (LatencyMs + InputWriteMs + 1) * NsPerMs
<1> DEFINE m == LatencyMs + InputWriteMs
           ms == DeltaMs(FromNs(d))
           n == NsPerMs
<1>1. /\ m \in Nat /\ Wrap \in Nat /\ MaxTime \in Nat /\ MaxTime + m < Wrap
      /\ n \in Nat \ {0}
  BY LatencyAssumption, SizeAssumption, WrapAssumption, UnitsAssumption
<1>2. FromNs(d) \in Times /\ ToNs(FromNs(d)) = d
  BY FromNsExact
<1>3. /\ ms \in Int
      /\ IF d >= 0 THEN 0 <= d - ms * n /\ d - ms * n < n
                   ELSE -n < d - ms * n /\ d - ms * n <= 0
  BY <1>2, DeltaMsTowardZero
<1>4. ~ (U(ms) > U(m))
  OBVIOUS
<1> HIDE DEF m, ms, n
<1>5. CASE d < 0
  <2>1. (m + 1) * n >= 0
    BY <1>1
  <2>2. QED
    BY <1>1, <1>5, <2>1 DEF m, n
<1>6. CASE d >= 0
  <2>1. ms * n \in Int
    BY <1>1, <1>3
  <2>2. ms >= 0
    <3>1. SUFFICES ASSUME ms <= -1 PROVE FALSE
      BY <1>3
    <3>2. ms * n <= -n
      BY <1>1, <1>3, <3>1
    <3>3. QED
      BY <1>1, <1>3, <1>6, <2>1, <3>2
  <2>3. ms <= ms * n
    BY <1>1, <1>3, <2>2
  <2>4. ms < Wrap
    BY <1>1, <1>3, <1>6, <2>1, <2>3
  <2>5. U(ms) = ms /\ U(m) = m
    BY <1>1, <1>3, <2>2, <2>4, Unsigned
  <2>6. ms + 1 <= m + 1
    BY <1>1, <1>3, <1>4, <2>5
  <2>7. (ms + 1) * n <= (m + 1) * n
    BY <1>1, <1>3, <2>6
  <2>8. (ms + 1) * n = ms * n + n /\ (m + 1) * n \in Int
    BY <1>1, <1>3
  <2>9. d < (m + 1) * n
    BY <1>1, <1>3, <1>6, <2>1, <2>7, <2>8
  <2>10. QED
    BY <2>9 DEF m, n
<1>7. QED
  BY <1>5, <1>6

\* The variables keep their types.
LEMMA TypeStep == TypeOK /\ StartInv /\ [Next]_vars => TypeOK'
<1> SUFFICES ASSUME TypeOK, StartInv, [Next]_vars PROVE TypeOK'
  OBVIOUS
<1> USE LatencyAssumption
<1>1. CASE Tick
  BY <1>1 DEF Tick, TypeOK
<1>2. CASE Feed
  BY <1>2 DEF Feed, TypeOK
<1>3. CASE End
  BY <1>3 DEF End, TypeOK
<1>4. CASE PrimeRead
  BY <1>4, TakenType DEF PrimeRead, Read, TypeOK
<1>5. CASE PrimeEnd
  BY <1>5 DEF PrimeEnd, TypeOK
<1>6. CASE PrimeError
  BY <1>6 DEF PrimeError, TypeOK
<1>7. CASE Play
  <2>1. CASE PlayRead
    BY <2>1, TakenType DEF PlayRead, Read, TypeOK
  <2>2. CASE PlayEof
    BY <2>2 DEF PlayEof, WriteFirst, TypeOK
  <2>3. CASE PlayReadError
    BY <2>3 DEF PlayReadError, TypeOK
  <2>4. CASE PlayFails
    BY <2>4 DEF PlayFails, TypeOK
  <2>5. CASE Estimate
    BY <2>5 DEF Estimate, TypeOK
  <2>6. CASE DrainAll
    BY <2>6 DEF DrainAll, SyncStep, TypeOK
  <2>7. CASE DrainExact
    BY <2>7 DEF DrainExact, SyncStep, TypeOK
  <2>8. CASE DrainRest
    BY <2>8 DEF DrainRest, SyncStep, Old, TypeOK
  <2>9. CASE Hold
    BY <2>9 DEF Hold, SyncStep, TypeOK
  <2>10. CASE Check
    BY <2>10 DEF Check, SyncStep, TypeOK
  <2>11. CASE Write
    BY <2>11 DEF Write, WriteFirst, TypeOK
  <2>12. QED
    BY <1>7, <2>1, <2>2, <2>3, <2>4, <2>5, <2>6, <2>7, <2>8, <2>9, <2>10, <2>11 DEF Play
<1>8. CASE Over
  BY <1>8 DEF Over, vars, TypeOK
<1>9. CASE UNCHANGED vars
  BY <1>9 DEF vars, TypeOK
<1>10. QED
  BY <1>1, <1>2, <1>3, <1>4, <1>5, <1>6, <1>7, <1>8, <1>9 DEF Next

\* Time only brings a start nearer.
LEMMA TickStep == TypeOK /\ StartInv /\ Tick => StartInv'
<1> DEFINE bound == (LatencyMs + InputWriteMs + 1) * NsPerMs
<1> SUFFICES ASSUME TypeOK, StartInv, Tick PROVE StartInv'
  OBVIOUS
<1>1. bound \in Int
  BY LatencyAssumption, SizeAssumption, UnitsAssumption
<1> HIDE DEF bound
<1>2. start - now < bound => start' - now' < bound
  BY <1>1 DEF Tick, TypeOK
<1>3. earliest' <= now' + PairingLatency + OutputBuffer
  BY LatencyAssumption DEF Tick, TypeOK, StartInv
<1>4. UNCHANGED <<asked, start, pc, removed, toRemove, earliest, reads, emptied, first>>
  BY DEF Tick
<1>5. QED
  BY <1>2, <1>3, <1>4 DEF StartInv, bound

\* What was found to be in time is.
LEMMA CheckStep == TypeOK /\ StartInv /\ Check => StartInv'
<1> DEFINE bound == (LatencyMs + InputWriteMs + 1) * NsPerMs
<1> SUFFICES ASSUME TypeOK, StartInv, Check PROVE StartInv'
  OBVIOUS
<1>1. pc = "sync" /\ pc' = "checked" /\ removed = toRemove
  BY DEF Check, SyncStep, Old, TypeOK, StartInv
<1>2. UNCHANGED <<asked, now, start, removed, toRemove, earliest, reads, emptied, first>>
  BY DEF Check, SyncStep
<1>3. LatencyMs + InputWriteMs >= 0 => start - now < bound
  <2>1. start - now \in Int /\ start - now < Wrap /\ start - now >= -MaxTime
    BY <1>1, StartAssumption, LatencyAssumption, WrapAssumption DEF TypeOK, StartInv
  <2>2. ~ (U(DeltaMs(FromNs(start - now))) > U(LatencyMs + InputWriteMs))
    BY DEF Check, TooEarly
  <2>3. QED
    BY <2>1, <2>2, NotTooEarly
<1> HIDE DEF bound
<1>4. LatencyMs + InputWriteMs >= 0 => start' - now' < bound
  BY <1>2, <1>3
<1>5. QED
  BY <1>1, <1>2, <1>4 DEF StartInv, bound

\* The estimate is made once, before anything is dropped.
LEMMA EstimateStep == TypeOK /\ StartInv /\ Estimate => StartInv'
<1> SUFFICES ASSUME TypeOK, StartInv, Estimate PROVE StartInv'
  OBVIOUS
<1>1. /\ pc = "estimate" /\ pc' = "sync" /\ start = asked /\ removed = 0 /\ reads # 0
      /\ first = NoWrite
      /\ UNCHANGED <<now, asked, start, removed, reads, emptied, first>>
  BY DEF Estimate, StartInv
<1>2. /\ earliest' <= now + PairingLatency + OutputBuffer
      /\ toRemove' = IF earliest' > start THEN earliest' - start ELSE 0
      /\ earliest' \in Nat
  BY LatencyAssumption DEF Estimate, TypeOK
<1>3. asked \in Nat
  BY AskedType
<1>4. toRemove' \in Nat /\ (toRemove' > 0 => earliest' = asked + toRemove')
  <2>1. toRemove' = IF earliest' > asked THEN earliest' - asked ELSE 0
    BY <1>1, <1>2
  <2>2. earliest' \in Nat
    BY <1>2
  <2>3. ASSUME NEW e \in Nat, NEW r, NEW a \in Nat, r = IF e > a THEN e - a ELSE 0
        PROVE  r \in Nat /\ (r > 0 => e = a + r)
    BY <2>3
  <2>4. QED
    BY <1>3, <2>1, <2>2, <2>3
<1>5. QED
  BY <1>1, <1>2, <1>4 DEF StartInv

\* What is dropped is what is too old, and the start time moves once all of it is.
LEMMA StartStep == TypeOK /\ StartInv /\ [Next]_vars => StartInv'
<1> SUFFICES ASSUME TypeOK, StartInv, [Next]_vars PROVE StartInv'
  OBVIOUS
<1>1. CASE Tick
  BY <1>1, TickStep
<1>2. CASE Feed
  BY <1>2 DEF Feed, StartInv
<1>3. CASE End
  BY <1>3 DEF End, StartInv
<1>4. CASE PrimeRead
  BY <1>4 DEF PrimeRead, Read, StartInv
<1>5. CASE PrimeEnd
  BY <1>5 DEF PrimeEnd, StartInv
<1>6. CASE PrimeError
  BY <1>6 DEF PrimeError, StartInv
<1>7. CASE Play
  <2>1. CASE PlayRead
    BY <2>1 DEF PlayRead, Read, StartInv
  <2>2. CASE PlayEof
    BY <2>2 DEF PlayEof, StartInv
  <2>3. CASE PlayReadError
    BY <2>3 DEF PlayReadError, StartInv
  <2>4. CASE PlayFails
    BY <2>4 DEF PlayFails, StartInv
  <2>5. CASE Estimate
    BY <2>5, EstimateStep
  <2>6. CASE DrainAll
    BY <2>6 DEF DrainAll, SyncStep, Old, TypeOK, StartInv
  <2>7. CASE DrainExact
    BY <2>7 DEF DrainExact, SyncStep, Old, TypeOK, StartInv
  <2>8. CASE DrainRest
    BY <2>8 DEF DrainRest, SyncStep, Old, TypeOK, StartInv
  <2>9. CASE Hold
    BY <2>9 DEF Hold, SyncStep, StartInv
  <2>10. CASE Check
    BY <2>10, CheckStep
  <2>11. CASE Write
    BY <2>11 DEF Write, StartInv
  <2>12. QED
    BY <1>7, <2>1, <2>2, <2>3, <2>4, <2>5, <2>6, <2>7, <2>8, <2>9, <2>10, <2>11 DEF Play
<1>8. CASE Over
  BY <1>8 DEF Over, vars, StartInv
<1>9. CASE UNCHANGED vars
  BY <1>9 DEF vars, StartInv
<1>10. QED
  BY <1>1, <1>2, <1>3, <1>4, <1>5, <1>6, <1>7, <1>8, <1>9 DEF Next

\* Only three steps concern the first write, or what happened before it.
LEMMA WriteFrame ==
  ASSUME [Next]_vars
  PROVE  \/ Write \/ PlayEof
         \/ DrainExact
         \/ UNCHANGED <<asked, emptied, first>>
  BY DEF Next, Play, Tick, Feed, End, PrimeRead, PrimeEnd, PrimeError, PlayRead, Read,
         PlayReadError, PlayFails, Estimate, DrainAll, DrainRest, Hold, Check, SyncStep,
         Over, vars

\* The start time stays aligned with the audio that is left.
LEMMA AlignedStep ==
  TypeOK /\ StartInv /\ AlignedUnlessEmptied /\ [Next]_vars => AlignedUnlessEmptied'
<1> SUFFICES ASSUME TypeOK, StartInv, AlignedUnlessEmptied, [Next]_vars
             PROVE  AlignedUnlessEmptied'
  OBVIOUS
<1>1. CASE Write
  BY <1>1, AskedType DEF Write, WriteFirst, TypeOK, StartInv, AlignedUnlessEmptied
<1>2. CASE PlayEof
  BY <1>2 DEF PlayEof, WriteFirst, AlignedUnlessEmptied
<1>3. CASE DrainExact
  BY <1>3 DEF DrainExact, AlignedUnlessEmptied
<1>4. CASE UNCHANGED <<asked, emptied, first>>
  BY <1>4 DEF AlignedUnlessEmptied
<1>5. QED
  BY <1>1, <1>2, <1>3, <1>4, WriteFrame

\* A write keeps to what the clock showed, or to the estimate.
LEMMA EarlyStep ==
  TypeOK /\ StartInv /\ NeverTooEarly /\ [Next]_vars => NeverTooEarly'
<1> SUFFICES ASSUME TypeOK, StartInv, NeverTooEarly, [Next]_vars
             PROVE  NeverTooEarly'
  OBVIOUS
<1>1. CASE Write
  <2>1. CASE pc = "checked"
    BY <1>1, <2>1 DEF Write, WriteFirst, StartInv, NeverTooEarly
  <2>2. CASE pc = "adjusted"
    BY <1>1, <2>2, LatencyAssumption DEF Write, WriteFirst, TypeOK, StartInv, NeverTooEarly
  <2>3. QED
    BY <1>1, <2>1, <2>2 DEF Write
<1>2. CASE PlayEof
  BY <1>2 DEF PlayEof, WriteFirst, NeverTooEarly
<1>3. CASE UNCHANGED first
  BY <1>3 DEF NeverTooEarly
<1>4. QED
  BY <1>1, <1>2, <1>3, WriteFrame DEF DrainExact, SyncStep

\* Every reachable state is well typed; bytes_to_remove - bytes_removed, unsigned in the
\* code, is never negative.
THEOREM StartTypes == Spec => [](TypeOK /\ StartInv)
<1>1. Init => TypeOK /\ StartInv
  <2> SUFFICES ASSUME Init PROVE TypeOK /\ StartInv
    OBVIOUS
  <2>1. asked \in Nat /\ MaxTime \in Nat /\ MaxAudio \in Nat
        /\ PairingLatency \in Nat /\ OutputBuffer \in Nat
    BY StartAssumption, LatencyAssumption DEF Init
  <2>2. ended \in BOOLEAN /\ emptied \in BOOLEAN
    BY Zenon DEF Init
  <2>3. TypeOK
    BY <2>1, <2>2 DEF Init, TypeOK, NoWrite
  <2>4. StartInv
    BY <2>1 DEF Init, StartInv, NoWrite
  <2>5. QED
    BY <2>3, <2>4
<1>2. QED
  BY <1>1, TypeStep, StartStep, PTL DEF Spec

\* Nothing is dropped that could be played on time, for any arrival of the audio.
THEOREM OnlyOldIsDropped == Spec => []DropsOnlyOld
<1>1. TypeOK /\ StartInv => DropsOnlyOld
  BY AskedType DEF TypeOK, StartInv, DropsOnlyOld
<1>2. QED
  BY <1>1, StartTypes, PTL

\* Dropping audio in any number of calls moves the start time by as much, unless the last
\* drop took all that was held.
THEOREM DrainingAligns == Spec => []AlignedUnlessEmptied
<1>1. Init => AlignedUnlessEmptied
  BY DEF Init, NoWrite, AlignedUnlessEmptied
<1>2. QED
  BY <1>1, StartTypes, AlignedStep, PTL DEF Spec

\* Nothing is first written earlier than the clock or the estimate allow, whatever time
\* passes on the way.
THEOREM WriteIsNotEarly == Spec => []NeverTooEarly
<1>1. Init => NeverTooEarly
  BY DEF Init, NoWrite, NeverTooEarly
<1>2. QED
  BY <1>1, StartTypes, EarlyStep, PTL DEF Spec
=============================================================================
