------------------------- MODULE TimespecOps_proofs -------------------------
(***************************************************************************)
(* The timespec operations of the code compute exactly, for every length   *)
(* of a second.                                                            *)
(***************************************************************************)
EXTENDS TimespecOps, TLAPS

\* A second is a positive number of nanoseconds, so distinct seconds are at least that
\* far apart.
LEMMA SecondsApart ==
  /\ NsPerSec \in Nat \ {0}
  /\ \A i, j \in Int : i < j => i * NsPerSec + NsPerSec <= j * NsPerSec
<1>1. NsPerSec \in Nat \ {0}
  BY UnitsAssumption DEF NsPerSec
<1>2. ASSUME NEW n \in Nat \ {0}, NEW i \in Int, NEW j \in Int, i < j
      PROVE  i * n + n <= j * n
  <2>1. PICK k \in Nat : j = i + 1 + k
    <3>1. j - i - 1 \in Nat /\ j = i + 1 + (j - i - 1)
      BY <1>2
    <3>2. QED
      BY <3>1
  <2>2. j * n = i * n + n + k * n
    BY <2>1
  <2>3. k * n \in Nat
    BY <2>1
  <2>4. QED
    BY <2>2, <2>3
<1>3. QED
  BY <1>1, <1>2

\* timespec_add: the sum is normalised and exact.
LEMMA AddExact ==
  ASSUME NEW a \in Times, NEW b \in Times
  PROVE  timespec_add(a, b) \in Times /\ ToNs(timespec_add(a, b)) = ToNs(a) + ToNs(b)
<1> DEFINE n == NsPerSec
<1>1. n \in Nat \ {0}
  BY SecondsApart
<1>2. a.sec \in Int /\ b.sec \in Int /\ a.nsec \in 0..n - 1 /\ b.nsec \in 0..n - 1
  BY DEF Times
<1>3. CASE a.nsec + b.nsec >= n
  BY <1>1, <1>2, <1>3 DEF timespec_add, Times, ToNs
<1>4. CASE a.nsec + b.nsec < n
  BY <1>1, <1>2, <1>4 DEF timespec_add, Times, ToNs
<1>5. QED
  BY <1>1, <1>2, <1>3, <1>4

\* timespec_subtract: the difference is normalised and exact, also when it is negative.
LEMMA SubtractExact ==
  ASSUME NEW a \in Times, NEW b \in Times
  PROVE  /\ timespec_subtract(a, b) \in Times
         /\ ToNs(timespec_subtract(a, b)) = ToNs(a) - ToNs(b)
<1> DEFINE n == NsPerSec
<1>1. n \in Nat \ {0}
  BY SecondsApart
<1>2. a.sec \in Int /\ b.sec \in Int /\ a.nsec \in 0..n - 1 /\ b.nsec \in 0..n - 1
  BY DEF Times
<1>3. CASE a.nsec < b.nsec
  BY <1>1, <1>2, <1>3 DEF timespec_subtract, Times, ToNs
<1>4. CASE a.nsec >= b.nsec
  BY <1>1, <1>2, <1>4 DEF timespec_subtract, Times, ToNs
<1>5. QED
  BY <1>1, <1>2, <1>3, <1>4

\* timespec_cmp: the order of the timespecs is that of their nanoseconds.
LEMMA CmpExact ==
  ASSUME NEW a \in Times, NEW b \in Times
  PROVE  timespec_cmp(a, b) = IF ToNs(a) < ToNs(b) THEN -1
                              ELSE IF ToNs(a) > ToNs(b) THEN 1 ELSE 0
<1> DEFINE n == NsPerSec
<1>1. n \in Nat \ {0} /\ (\A i, j \in Int : i < j => i * n + n <= j * n)
  BY SecondsApart
<1>2. a.sec \in Int /\ b.sec \in Int /\ a.nsec \in 0..n - 1 /\ b.nsec \in 0..n - 1
  BY DEF Times
<1>3. a.sec * n \in Int /\ b.sec * n \in Int
  BY <1>1, <1>2
<1>4. ToNs(a) = a.sec * n + a.nsec /\ ToNs(b) = b.sec * n + b.nsec
  BY DEF ToNs
<1> HIDE DEF n
<1>5. CASE a.sec < b.sec
  <2>0. a.sec * n + n <= b.sec * n
    BY <1>1, <1>2, <1>5
  <2>1. ToNs(a) < ToNs(b)
    BY <1>1, <1>2, <1>3, <1>4, <2>0
  <2>2. QED
    BY <1>2, <1>5, <2>1 DEF timespec_cmp
<1>6. CASE a.sec > b.sec
  <2>0. b.sec * n + n <= a.sec * n
    BY <1>1, <1>2, <1>6
  <2>1. ToNs(a) > ToNs(b)
    BY <1>1, <1>2, <1>3, <1>4, <2>0
  <2>2. ToNs(a) \in Int /\ ToNs(b) \in Int
    BY <1>1, <1>2, <1>3, <1>4
  <2>3. QED
    BY <1>2, <1>6, <2>1, <2>2 DEF timespec_cmp
<1>7. CASE a.sec = b.sec
  BY <1>1, <1>2, <1>3, <1>4, <1>7 DEF timespec_cmp
<1>8. QED
  BY <1>2, <1>5, <1>6, <1>7

\* The conversion from milliseconds is normalised and exact.
LEMMA FromMsExact ==
  ASSUME NEW ms \in Nat
  PROVE  FromMs(ms) \in Times /\ ToNs(FromMs(ms)) = ms * NsPerMs
<1> DEFINE q == ms \div MsPerSec
           r == ms % MsPerSec
<1>1. q \in Nat /\ r \in 0..MsPerSec - 1 /\ ms = q * MsPerSec + r
  BY UnitsAssumption
<1>2. FromMs(ms) = [sec |-> q, nsec |-> r * NsPerMs]
  BY DEF FromMs
<1> HIDE DEF q, r
<1>3. r * NsPerMs \in Nat /\ r * NsPerMs + NsPerMs <= MsPerSec * NsPerMs
  <2>1. PICK k \in Nat : MsPerSec = r + 1 + k
    <3>1. MsPerSec - r - 1 \in Nat /\ MsPerSec = r + 1 + (MsPerSec - r - 1)
      BY <1>1, UnitsAssumption
    <3>2. QED
      BY <3>1
  <2>2. MsPerSec * NsPerMs = r * NsPerMs + NsPerMs + k * NsPerMs
    BY <1>1, <2>1, UnitsAssumption
  <2>3. k * NsPerMs \in Nat /\ r * NsPerMs \in Nat
    BY <1>1, <2>1, UnitsAssumption
  <2>4. QED
    BY <2>2, <2>3, UnitsAssumption
<1>4. r * NsPerMs \in 0..NsPerSec - 1
  BY <1>3, UnitsAssumption, SecondsApart DEF NsPerSec
<1>5. q * (MsPerSec * NsPerMs) + r * NsPerMs = (q * MsPerSec + r) * NsPerMs
  BY <1>1, UnitsAssumption
<1>6. QED
  BY <1>1, <1>2, <1>4, <1>5 DEF Times, ToNs, NsPerSec

\* The conversion to milliseconds truncates toward zero.
LEMMA DeltaMsTowardZero ==
  ASSUME NEW a \in Times
  PROVE  /\ DeltaMs(a) \in Int
         /\ LET rest == ToNs(a) - DeltaMs(a) * NsPerMs
            IN  IF ToNs(a) >= 0 THEN 0 <= rest /\ rest < NsPerMs
                               ELSE -NsPerMs < rest /\ rest <= 0
<1> DEFINE m == NsPerMs
           up == IF a.sec < 0 THEN m - 1 ELSE 0
           q == (a.nsec + up) \div m
           r == (a.nsec + up) % m
           p == a.sec * MsPerSec + q
<1>1. a.sec \in Int /\ a.nsec \in Nat /\ a.nsec < NsPerSec
  BY SecondsApart DEF Times
<1>2. m \in Nat \ {0} /\ up \in 0..m - 1
  BY UnitsAssumption
<1>3. q \in Int /\ r \in 0..m - 1 /\ a.nsec + up = q * m + r
  <2> HIDE DEF m, up
  <2>1. QED
    BY <1>1, <1>2
<1>4. DeltaMs(a) = p
  BY <1>1, UnitsAssumption DEF DeltaMs
<1>5. p \in Int
  BY <1>1, <1>3, UnitsAssumption
<1>6. ToNs(a) = p * m + (r - up)
  <2>1. ToNs(a) = a.sec * (MsPerSec * m) + a.nsec
    BY DEF ToNs, NsPerSec
  <2> DEFINE e == a.sec * MsPerSec
  <2>2. e \in Int /\ p = e + q
    BY <1>1, UnitsAssumption
  <2>3. a.sec * (MsPerSec * m) = e * m
    BY <1>1, UnitsAssumption
  <2>4. a.nsec = q * m + (r - up)
    <3> HIDE DEF q, r, up, m
    <3>1. q * m \in Int
      BY <1>2, <1>3
    <3>2. QED
      BY <1>1, <1>2, <1>3, <3>1
  <2> HIDE DEF q, r, up, m, e, p
  <2>5. p * m = e * m + q * m /\ e * m \in Int /\ q * m \in Int
    BY <1>2, <1>3, <2>2
  <2>6. QED
    BY <1>2, <1>3, <2>1, <2>3, <2>4, <2>5
<1>7. ToNs(a) >= 0 <=> a.sec >= 0
  <2>1. NsPerSec \in Nat \ {0}
    BY SecondsApart
  <2>2. ToNs(a) = a.sec * NsPerSec + a.nsec
    BY DEF ToNs
  <2>3. CASE a.sec >= 0
    <3>1. a.sec * NsPerSec >= 0
      BY <1>1, <2>1, <2>3
    <3>2. QED
      BY <1>1, <2>1, <2>2, <2>3, <3>1
  <2>4. CASE a.sec < 0
    <3>1. a.sec * NsPerSec + NsPerSec <= 0 * NsPerSec
      BY <1>1, <2>4, SecondsApart
    <3>2. a.sec * NsPerSec \in Int
      BY <1>1, <2>1
    <3>3. QED
      BY <1>1, <2>1, <2>2, <2>4, <3>1, <3>2
  <2>5. QED
    BY <1>1, <2>3, <2>4
<1>8. p * m \in Int
  BY <1>2, <1>5
<1>9. ToNs(a) - p * m = r - up
  <2> HIDE DEF p, q, r, up, m
  <2>1. QED
    BY <1>2, <1>3, <1>6, <1>8
<1>10. CASE a.sec < 0
  <2>1. up = m - 1
    BY <1>10
  <2> HIDE DEF p, q, r, up
  <2>2. QED
    BY <1>1, <1>2, <1>3, <1>4, <1>5, <1>7, <1>9, <1>10, <2>1
<1>11. CASE a.sec >= 0
  <2>1. up = 0
    BY <1>1, <1>11
  <2> HIDE DEF p, q, r, up
  <2>2. QED
    BY <1>1, <1>2, <1>3, <1>4, <1>5, <1>7, <1>9, <1>11, <2>1
<1>12. QED
  BY <1>1, <1>10, <1>11

\* The clocks are read as normalised timespecs.
LEMMA FromNsExact ==
  ASSUME NEW x \in Int
  PROVE  FromNs(x) \in Times /\ ToNs(FromNs(x)) = x
<1> DEFINE n == NsPerSec
           q == x \div n
           r == x % n
<1>1. n \in Nat \ {0}
  BY SecondsApart
<1> HIDE DEF n
<1>2. q \in Int /\ r \in 0..n - 1 /\ x = q * n + r
  BY <1>1
<1>3. FromNs(x) = [sec |-> q, nsec |-> r]
  BY DEF FromNs, n
<1> HIDE DEF q, r
<1>4. QED
  BY <1>2, <1>3 DEF Times, ToNs, n
=============================================================================
