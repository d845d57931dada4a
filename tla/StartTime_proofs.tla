-------------------------- MODULE StartTime_proofs --------------------------
(***************************************************************************)
(* The start time is the one asked for, for every length of a second, of   *)
(* the NTP era and of its fractions.                                       *)
(***************************************************************************)
EXTENDS StartTime, TimespecOps_proofs

\* Seconds of the era survive the shift to the NTP epoch and back, across the wrap.
LEMMA EraRoundTrip ==
  ASSUME NEW W \in Nat \ {0}, NEW s \in 0..W - 1, NEW e \in 0..W - 1
  PROVE  (((s + e) % W) - e) % W = s
<1>1. CASE s + e < W
  <2>1. (s + e) % W = s + e
    BY <1>1
  <2>2. QED
    BY <2>1
<1>2. CASE s + e >= W
  <2>1. (s + e) % W = s + e - W
    BY <1>2
  <2>2. (s - W) % W = s
    OBVIOUS
  <2>3. QED
    BY <2>1, <2>2
<1>3. QED
  BY <1>1, <1>2

\* Adding to a remainder is adding to the number.
LEMMA ModPlus ==
  ASSUME NEW W \in Nat \ {0}, NEW a \in Nat, NEW b \in Nat
  PROVE  ((a % W) + b) % W = (a + b) % W
<1> DEFINE q == a \div W
           r == a % W
           p == (r + b) \div W
           t == (r + b) % W
<1>1. q \in Nat /\ r \in 0..W - 1 /\ a = q * W + r
  OBVIOUS
<1> HIDE DEF q, r
<1>2. p \in Nat /\ t \in 0..W - 1 /\ r + b = p * W + t
  BY <1>1
<1> HIDE DEF p, t
<1>3. a + b = (q + p) * W + t
  BY <1>1, <1>2
<1>4. ASSUME NEW k \in Nat, NEW u \in 0..W - 1 PROVE (k * W + u) % W = u
  BY <1>4
<1>5. q + p \in Nat
  BY <1>1, <1>2
<1>6. ((q + p) * W + t) % W = t
  BY <1>2, <1>4, <1>5
<1>7. (a + b) % W = t
  BY <1>3, <1>6
<1>8. ((a % W) + b) % W = t
  BY DEF t, r
<1>9. QED
  BY <1>7, <1>8

\* A fraction of a second loses at most a nanosecond, also when the division of doubles
\* falls short of an integral quotient.
LEMMA FractionRoundTrip ==
  ASSUME NEW n \in Nat \ {0}, NEW f \in Nat, n <= f, NEW r \in 0..n - 1
  PROVE  LET q == (r * f) \div n
             m == (q * n) \div f
         IN  /\ q \in 0..f - 1
             /\ m = r \/ (m = r - 1 /\ (q * n) % f # 0)
             /\ m \in Nat
<1> DEFINE q == (r * f) \div n
           u == (r * f) % n
           m == (q * n) \div f
           v == (q * n) % f
<1>1. r * f \in Nat
  OBVIOUS
<1>2. q \in Nat /\ u \in 0..n - 1 /\ r * f = q * n + u
  BY <1>1
<1> HIDE DEF q, u
<1>3. q * n \in Nat
  BY <1>2
<1>4. m \in Nat /\ v \in 0..f - 1 /\ q * n = m * f + v
  BY <1>3
<1> HIDE DEF m, v
<1>5. \A i, j \in Nat : i < j => i * f + f <= j * f
  <2> SUFFICES ASSUME NEW i \in Nat, NEW j \in Nat, i < j PROVE i * f + f <= j * f
    OBVIOUS
  <2>1. PICK k \in Nat : j = i + 1 + k
    <3>1. j - i - 1 \in Nat /\ j = i + 1 + (j - i - 1)
      OBVIOUS
    <3>2. QED
      BY <3>1
  <2>2. j * f = i * f + f + k * f /\ k * f \in Nat /\ i * f \in Nat
    BY <2>1
  <2>3. QED
    BY <2>2
<1>6. r * f = m * f + v + u /\ m * f \in Nat
  BY <1>2, <1>4
<1>7. m <= r
  <2>1. ASSUME r < m PROVE FALSE
    <3>1. r * f + f <= m * f
      BY <1>4, <1>5, <2>1
    <3>2. QED
      BY <1>1, <1>2, <1>4, <1>6, <3>1
  <2>2. QED
    BY <1>4, <2>1
<1>8. m < r => m = r - 1 /\ v # 0
  <2> SUFFICES ASSUME m < r PROVE m = r - 1 /\ v # 0
    OBVIOUS
  <2>1. ASSUME m + 1 < r PROVE FALSE
    <3>1. (m + 1) * f + f <= r * f
      BY <1>4, <1>5, <2>1
    <3>2. (m + 1) * f = m * f + f
      BY <1>4
    <3>3. QED
      BY <1>2, <1>4, <1>6, <3>1, <3>2
  <2>2. m * f + f <= r * f
    BY <1>4, <1>5
  <2>3. v # 0
    BY <1>1, <1>2, <1>4, <1>6, <2>2
  <2>4. QED
    BY <1>4, <2>1, <2>3
<1>9. q \in 0..f - 1
  <2>1. ASSUME f <= q PROVE FALSE
    <3>1. PICK k \in Nat : q = f + k
      <4>1. q - f \in Nat /\ q = f + (q - f)
        BY <1>2, <2>1
      <4>2. QED
        BY <4>1
    <3>2. q * n = f * n + k * n /\ k * n \in Nat
      BY <3>1
    <3>3. PICK j \in Nat : n = r + 1 + j
      <4>1. n - r - 1 \in Nat /\ n = r + 1 + (n - r - 1)
        OBVIOUS
      <4>2. QED
        BY <4>1
    <3>4. f * n = r * f + f + j * f /\ j * f \in Nat
      BY <3>3
    <3>5. QED
      BY <1>1, <1>2, <3>2, <3>4
  <2>2. QED
    BY <1>2, <2>1
<1>10. QED
  BY <1>4, <1>7, <1>8, <1>9 DEF q, m, v

\* A timestamp has the type of the history it stands for.
LEMMA StampType ==
  ASSUME NEW x \in Nat
  PROVE  timespec_to_ntp(FromNs(x)) \in [sec : 0..Word - 1, frac : 0..Frac - 1]
<1> DEFINE n == NsPerSec
           s == x \div n
           r == x % n
<1>1. n \in Nat \ {0}
  BY SecondsApart
<1>2. n <= Frac /\ Frac \in Nat /\ Word \in Nat \ {0} /\ EpochDelta \in 0..Word - 1
  BY NtpAssumption
<1> HIDE DEF n
<1>3. s \in Nat /\ r \in 0..n - 1
  BY <1>1
<1>4. timespec_to_ntp(FromNs(x)) =
        [sec |-> (s + EpochDelta) % Word, frac |-> (r * Frac) \div n]
  BY DEF timespec_to_ntp, FromNs, n
<1> HIDE DEF s, r
<1>5. (s + EpochDelta) % Word \in 0..Word - 1
  BY <1>2, <1>3
<1>6. (r * Frac) \div n \in 0..Frac - 1
  BY <1>1, <1>2, <1>3, FractionRoundTrip
<1>7. QED
  BY <1>4, <1>5, <1>6

\* A time that went through timespec_to_ntp and ntp_to_timespec comes out as it went in, to
\* a nanosecond, if its seconds fit into 32 bits.
LEMMA RoundTrip ==
  ASSUME NEW x \in Nat, x < Word * NsPerSec,
         NEW t \in ntp_to_timespec(timespec_to_ntp(FromNs(x)))
  PROVE  t \in Times /\ ToNs(t) \in {x - 1, x}
<1> DEFINE n == NsPerSec
           s == x \div n
           r == x % n
           f == (r * Frac) \div n
           m == (f * n) \div Frac
<1>1. n \in Nat \ {0} /\ (\A i, j \in Int : i < j => i * n + n <= j * n)
  BY SecondsApart
<1>2. n <= Frac /\ Frac \in Nat /\ Word \in Nat \ {0} /\ EpochDelta \in 0..Word - 1
  BY NtpAssumption
<1>3. x < Word * n
  OBVIOUS
<1> HIDE DEF n
<1>4. s \in Nat /\ r \in 0..n - 1 /\ x = s * n + r
  BY <1>1
<1>5. timespec_to_ntp(FromNs(x)) = [sec |-> (s + EpochDelta) % Word, frac |-> f]
  BY DEF timespec_to_ntp, FromNs, n
<1> HIDE DEF s, r
<1>6. s \in 0..Word - 1
  <2>1. ASSUME Word <= s PROVE FALSE
    <3>1. Word * n <= s * n
      <4>1. CASE Word = s
        BY <4>1, <1>1, <1>4
      <4>2. CASE Word < s
        <5>1. Word * n + n <= s * n
          BY <1>1, <1>2, <1>4, <4>2
        <5>2. Word * n \in Nat /\ s * n \in Nat
          BY <1>1, <1>2, <1>4
        <5>3. QED
          BY <1>1, <5>1, <5>2
      <4>3. QED
        BY <1>2, <1>4, <2>1, <4>1, <4>2
    <3>2. Word * n \in Nat /\ s * n \in Nat
      BY <1>1, <1>2, <1>4
    <3>3. QED
      BY <1>3, <1>4, <3>1, <3>2
  <2>2. QED
    BY <1>2, <1>4, <2>1
<1>7. (((s + EpochDelta) % Word) - EpochDelta) % Word = s
  BY <1>2, <1>6, EraRoundTrip
<1>8. /\ m = r \/ (m = r - 1 /\ (f * n) % Frac # 0)
      /\ m \in Nat
  BY <1>1, <1>2, <1>4, FractionRoundTrip
<1>9. t.sec = s /\ t = [sec |-> t.sec, nsec |-> t.nsec] /\ t.nsec \in Nanoseconds(f)
  BY <1>5, <1>7 DEF ntp_to_timespec
<1>10. t.nsec \in {m} \cup {k \in {m - 1} : m > 0 /\ (f * n) % Frac = 0}
  BY <1>9 DEF Nanoseconds, n
<1> HIDE DEF f, m
<1>11. t.nsec \in 0..n - 1 /\ t.nsec \in {r, r - 1}
  BY <1>1, <1>4, <1>8, <1>10
<1>12. t \in [sec : Int, nsec : 0..n - 1]
  BY <1>4, <1>9, <1>11
<1>13. t \in Times
  BY <1>12 DEF Times, n
<1>14. ToNs(t) = s * n + t.nsec
  BY <1>9 DEF ToNs, n
<1>15. QED
  BY <1>1, <1>4, <1>11, <1>13, <1>14

\* Adding whole seconds to a timestamp adds them to what it stands for.
LEMMA StampPlus ==
  ASSUME NEW x \in Nat, NEW l \in Nat
  PROVE  timespec_to_ntp(FromNs(x + l * NsPerSec)) =
           [timespec_to_ntp(FromNs(x)) EXCEPT !.sec = (@ + l) % Word]
<1> DEFINE n == NsPerSec
           s == x \div n
           r == x % n
<1>1. n \in Nat \ {0}
  BY SecondsApart
<1>2. Word \in Nat \ {0} /\ EpochDelta \in Nat
  BY NtpAssumption
<1> HIDE DEF n
<1>3. s \in Nat /\ r \in 0..n - 1 /\ x = s * n + r
  BY <1>1
<1>4. FromNs(x) = [sec |-> s, nsec |-> r]
  BY DEF FromNs, n
<1> HIDE DEF s, r
<1>5. x + l * n = (s + l) * n + r
  BY <1>1, <1>3
<1>6. ASSUME NEW k \in Nat PROVE (k * n + r) \div n = k /\ (k * n + r) % n = r
  BY <1>1, <1>3
<1>7. s + l \in Nat
  BY <1>3
<1>8. (x + l * n) \div n = s + l /\ (x + l * n) % n = r
  BY <1>5, <1>6, <1>7
<1>9. FromNs(x + l * n) = [sec |-> s + l, nsec |-> r]
  BY <1>8 DEF FromNs, n
<1>10. (((s + EpochDelta) % Word) + l) % Word = ((s + EpochDelta) + l) % Word
  <2>1. s + EpochDelta \in Nat
    BY <1>2, <1>3
  <2>2. QED
    BY <1>2, <2>1, ModPlus
<1>11. s + l + EpochDelta = s + EpochDelta + l
  BY <1>2, <1>3
<1>12. QED
  BY <1>4, <1>9, <1>10, <1>11 DEF timespec_to_ntp, n

IInv == TimeTypeOK /\ TimeInv

\* Launch: the timestamp with the lead stands for the time with the lead, within the era.
LEMMA LaunchKeeps ==
  ASSUME IInv, NEW lead \in Leads, Launch(lead)
  PROVE  IInv'
<1>1. /\ lead \in Nat /\ boot \in Nat /\ MaxClock \in Nat
      /\ boot + MaxClock + lead * NsPerSec < Word * NsPerSec
  BY ClockAssumption DEF IInv, TimeTypeOK
<1>2. NsPerSec \in Nat \ {0} /\ Word \in Nat
  BY SecondsApart, NtpAssumption
<1>3. lead * NsPerSec \in Nat /\ Word * NsPerSec \in Nat
  BY <1>1, <1>2
<1>4. meant \in Nat /\ meant <= boot + clock /\ clock \in 0..MaxClock
      /\ stamp = timespec_to_ntp(FromNs(meant))
  BY DEF IInv, TimeTypeOK, TimeInv, Carries, Launch
<1>5. meant' = meant + lead * NsPerSec /\ stage' = "delta"
  BY DEF Launch
<1>6. meant' \in Nat /\ meant' < Word * NsPerSec
  BY <1>1, <1>3, <1>4, <1>5
<1>7. stamp' = timespec_to_ntp(FromNs(meant'))
  BY <1>1, <1>4, <1>5, StampPlus DEF Launch
<1>8. stamp' \in [sec : 0..Word - 1, frac : 0..Frac - 1]
  BY <1>6, <1>7, StampType
<1>9. TimeTypeOK'
  BY <1>5, <1>6, <1>8 DEF IInv, TimeTypeOK, Launch
<1>10. Carries' /\ StartIsAsAsked'
  BY <1>5, <1>6, <1>7 DEF Carries, StartIsAsAsked
<1>11. QED
  BY <1>9, <1>10 DEF IInv, TimeInv

\* ReadRealtime: the start time is exact but for the nanosecond of the conversion and for
\* the time between the readings.
LEMMA ReadRealtimeKeeps ==
  ASSUME IInv, ReadRealtime
  PROVE  IInv'
<1> DEFINE delta_ts == timespec_subtract(FromNs(boot + clock), FromNs(ot_now))
<1>1. boot \in Nat /\ clock \in Nat /\ ot_now \in Nat /\ ot_now <= clock /\ StartBufferMs \in Nat
  BY ClockAssumption DEF IInv, TimeTypeOK, TimeInv, Carries, ReadRealtime
<1>2. meant \in Nat /\ meant < Word * NsPerSec /\ stamp = timespec_to_ntp(FromNs(meant))
  BY DEF IInv, TimeTypeOK, TimeInv, Carries, ReadRealtime
<1>3. PICK ntp_ts \in ntp_to_timespec(stamp) :
        start_ts' = timespec_subtract(timespec_subtract(ntp_ts, delta_ts), FromMs(StartBufferMs))
  BY DEF ReadRealtime
<1>4. ntp_ts \in Times /\ ToNs(ntp_ts) \in {meant - 1, meant}
  BY <1>2, <1>3, RoundTrip
<1>5. /\ FromNs(boot + clock) \in Times /\ ToNs(FromNs(boot + clock)) = boot + clock
      /\ FromNs(ot_now) \in Times /\ ToNs(FromNs(ot_now)) = ot_now
  BY <1>1, FromNsExact
<1>6. delta_ts \in Times /\ ToNs(delta_ts) = boot + clock - ot_now
  <2>1. /\ delta_ts \in Times
        /\ ToNs(delta_ts) = ToNs(FromNs(boot + clock)) - ToNs(FromNs(ot_now))
    BY <1>5, SubtractExact
  <2>2. QED
    BY <1>1, <1>5, <2>1
<1> HIDE DEF delta_ts
<1>7. /\ timespec_subtract(ntp_ts, delta_ts) \in Times
      /\ ToNs(timespec_subtract(ntp_ts, delta_ts)) = ToNs(ntp_ts) - (boot + clock - ot_now)
  BY <1>4, <1>6, SubtractExact
<1>8. FromMs(StartBufferMs) \in Times /\ ToNs(FromMs(StartBufferMs)) = StartBufferMs * NsPerMs
  BY <1>1, FromMsExact
<1>9. /\ start_ts' \in Times
      /\ ToNs(start_ts') = ToNs(ntp_ts) - (boot + clock - ot_now) - StartBufferMs * NsPerMs
  BY <1>3, <1>7, <1>8, SubtractExact
<1>10. slip' = clock - ot_now /\ slip' \in Nat
  BY <1>1 DEF ReadRealtime
<1>11. TimeTypeOK'
  BY <1>9, <1>10 DEF IInv, TimeTypeOK, ReadRealtime
<1>12. Carries'
  BY DEF IInv, TimeInv, Carries, ReadRealtime
<1>13. StartIsAsAsked'
  <2>1. meant' = meant /\ boot' = boot
    BY DEF ReadRealtime
  <2>2. StartBufferMs * NsPerMs \in Nat
    BY <1>1, UnitsAssumption
  <2>3. ToNs(start_ts') - (meant - boot - StartBufferMs * NsPerMs) \in {-slip', -slip' - 1}
    BY <1>1, <1>2, <1>4, <1>9, <1>10, <2>2
  <2>4. /\ -slip' - 1 <= ToNs(start_ts') - (meant - boot - StartBufferMs * NsPerMs)
        /\ ToNs(start_ts') - (meant - boot - StartBufferMs * NsPerMs) <= -slip'
    BY <1>10, <2>3
  <2>5. ToNs(start_ts)' = ToNs(start_ts')
    BY DEF ToNs
  <2>6. QED
    BY <2>1, <2>4, <2>5 DEF StartIsAsAsked
<1>14. QED
  BY <1>11, <1>12, <1>13 DEF IInv, TimeInv

\* Initially there is no timestamp.
LEMMA InitHolds == TimeInit => IInv
<1> SUFFICES ASSUME TimeInit PROVE IInv
  OBVIOUS
<1>1. Word \in Nat \ {0} /\ Frac \in Nat \ {0}
  BY NtpAssumption, SecondsApart
<1>2. Zero \in Times
  BY SecondsApart DEF Times, Zero
<1>3. boot \in Nat /\ MaxClock \in Nat
  BY ClockAssumption DEF TimeInit
<1>4. TimeTypeOK
  BY <1>1, <1>2, <1>3 DEF TimeTypeOK, TimeInit
<1>5. Carries /\ StartIsAsAsked
  BY <1>3 DEF Carries, StartIsAsAsked, TimeInit
<1>6. QED
  BY <1>4, <1>5 DEF IInv, TimeInv

\* Every step keeps the invariant.
LEMMA StepKeeps == IInv /\ [TimeNext]_timeVars => IInv'
<1> SUFFICES ASSUME IInv, [TimeNext]_timeVars PROVE IInv'
  OBVIOUS
<1>1. boot \in Nat /\ clock \in Nat /\ MaxClock \in Nat
  BY ClockAssumption DEF IInv, TimeTypeOK
<1>2. ASSUME ClockTick PROVE IInv'
  <2>1. clock' = clock + 1 /\ clock' \in 0..MaxClock
    BY <1>1, <1>2 DEF ClockTick
  <2>2. TimeTypeOK'
    BY <1>2, <2>1 DEF IInv, TimeTypeOK, ClockTick
  <2>3. Carries'
    <3>1. ot_now \in Nat /\ meant \in Nat
      BY DEF IInv, TimeTypeOK
    <3>2. QED
      BY <1>1, <1>2, <2>1, <3>1 DEF IInv, TimeInv, Carries, ClockTick
  <2>4. StartIsAsAsked'
    BY <1>2 DEF StartIsAsAsked, ClockTick
  <2>5. QED
    BY <2>2, <2>3, <2>4 DEF IInv, TimeInv
<1>3. ASSUME NtpTime PROVE IInv'
  <2>1. /\ meant' = boot + clock /\ meant' \in Nat /\ stage' = "stamped"
        /\ boot' = boot /\ clock' = clock
    BY <1>1, <1>3 DEF NtpTime
  <2>2. stamp' = timespec_to_ntp(FromNs(meant'))
    BY <1>3, <2>1 DEF NtpTime
  <2>3. stamp' \in [sec : 0..Word - 1, frac : 0..Frac - 1]
    BY <2>1, <2>2, StampType
  <2>4. TimeTypeOK'
    BY <1>3, <2>1, <2>3 DEF IInv, TimeTypeOK, NtpTime
  <2>5. meant' < Word * NsPerSec
    <3>1. clock <= MaxClock /\ boot \in Boots
      BY DEF IInv, TimeTypeOK
    <3>2. Word * NsPerSec \in Nat
      BY NtpAssumption, SecondsApart
    <3>3. boot + MaxClock + 0 * NsPerSec < Word * NsPerSec
      BY <3>1, ClockAssumption
    <3>4. boot + MaxClock < Word * NsPerSec
      BY <3>3, <1>1, SecondsApart
    <3>5. QED
      BY <1>1, <2>1, <3>1, <3>2, <3>4
  <2>6. Carries' /\ StartIsAsAsked'
    BY <1>1, <2>1, <2>2, <2>5 DEF Carries, StartIsAsAsked
  <2>7. QED
    BY <2>4, <2>6 DEF IInv, TimeInv
<1>4. ASSUME ReadMonotonic PROVE IInv'
  <2>1. TimeTypeOK'
    BY <1>1, <1>4 DEF IInv, TimeTypeOK, ReadMonotonic
  <2>2. Carries' /\ StartIsAsAsked'
    BY <1>1, <1>4 DEF IInv, TimeInv, Carries, StartIsAsAsked, ReadMonotonic
  <2>3. QED
    BY <2>1, <2>2 DEF IInv, TimeInv
<1>5. ASSUME UNCHANGED timeVars PROVE IInv'
  BY <1>5 DEF timeVars, IInv, TimeTypeOK, TimeInv, Carries, StartIsAsAsked, ToNs
<1>6. QED
  BY <1>2, <1>3, <1>4, <1>5, LaunchKeeps, ReadRealtimeKeeps DEF TimeNext, Settled

\* What start_ts is computed from and start_ts itself keep their types; start_ts is
\* normalised.
THEOREM StartTypes == TimeSpec => []TimeTypeOK
<1>1. TimeInit => IInv
  BY InitHolds
<1>2. IInv /\ [TimeNext]_timeVars => IInv'
  BY StepKeeps
<1>3. IInv => TimeTypeOK
  BY DEF IInv
<1>4. QED
  BY <1>1, <1>2, <1>3, PTL DEF TimeSpec

\* play() goes by the time asked for, to a nanosecond, but for the time between the two
\* readings of ts_delta: for every clock, lead and latency.
THEOREM StartIsExact == TimeSpec => []StartIsAsAsked
<1>1. TimeInit => IInv
  BY InitHolds
<1>2. IInv /\ [TimeNext]_timeVars => IInv'
  BY StepKeeps
<1>3. IInv => StartIsAsAsked
  BY DEF IInv, TimeInv
<1>4. QED
  BY <1>1, <1>2, <1>3, PTL DEF TimeSpec
=============================================================================
