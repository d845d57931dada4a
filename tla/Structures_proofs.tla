------------------------- MODULE Structures_proofs -------------------------
(***************************************************************************)
(* Every sequence of timespec operations computes exactly, every sequence  *)
(* of reads and writes of the ring buffer serves as a queue, and every     *)
(* command line is taken as it is meant.                                   *)
(***************************************************************************)
EXTENDS Timespec, RingBuffer, Settings, TimespecOps_proofs

\* Every sequence of additions, subtractions and conversions computes exactly.
THEOREM TimespecExact == Spec => []Exact
<1>1. Init => Exact
  BY SecondsApart DEF Init, Exact, Times, ToNs
<1>2. Exact /\ [Next]_vars => Exact'
  <2> SUFFICES ASSUME Exact, [Next]_vars PROVE Exact'
    OBVIOUS
  <2>1. CASE \E b \in Operands : Add(b)
    BY <2>1, AddExact, OperandsAssumption DEF Add, Exact
  <2>2. CASE \E b \in Operands : Subtract(b)
    BY <2>2, SubtractExact, OperandsAssumption DEF Subtract, Exact
  <2>3. CASE \E ms \in Millis : AddMs(ms)
    <3>1. PICK ms \in Millis : AddMs(ms)
      BY <2>3
    <3>2. FromMs(ms) \in Times /\ ToNs(FromMs(ms)) = ms * NsPerMs
      BY FromMsExact, OperandsAssumption
    <3>3. QED
      BY <3>1, <3>2, AddExact DEF AddMs, Exact
  <2>4. CASE UNCHANGED vars
    BY <2>4 DEF vars, Exact
  <2>5. QED
    BY <2>1, <2>2, <2>3, <2>4 DEF Next
<1>3. QED
  BY <1>1, <1>2, PTL DEF Spec

\* The comparison of a computed start time with another time is that of the exact times.
THEOREM ComparisonExact == Spec => []Ordered
<1>1. Exact => Ordered
  BY CmpExact, OperandsAssumption DEF Exact, Ordered
<1>2. QED
  BY <1>1, TimespecExact, PTL

\* The milliseconds that play() bases its decision on are within one of the exact time,
\* toward zero, for times that have passed as well as for those to come.
THEOREM MillisExact == Spec => []MillisTowardZero
<1>1. Exact => MillisTowardZero
  BY DeltaMsTowardZero DEF Exact, MillisTowardZero
<1>2. QED
  BY <1>1, TimespecExact, PTL

-----------------------------------------------------------------------------
(* The ring buffer.                                                          *)

\* A position moves on by at most the size of the buffer.
LEMMA Around ==
  ASSUME NEW p \in Positions, NEW n \in 0..Size
  PROVE  (p + n) % Size = (IF p + n < Size THEN p + n ELSE p + n - Size)
<1>1. Size \in Nat \ {0} /\ p \in 0..Size - 1
  BY SizeAssumption DEF Positions
<1>2. CASE p + n < Size
  BY <1>1, <1>2
<1>3. CASE p + n >= Size
  <2>1. p + n - Size \in 0..Size - 1
    BY <1>1, <1>3
  <2>2. ASSUME NEW u \in 0..Size - 1 PROVE (u + Size) % Size = u
    BY <1>1
  <2>3. (p + n - Size + Size) % Size = p + n - Size
    BY <2>1, <2>2
  <2>4. p + n - Size + Size = p + n
    BY <1>1
  <2>5. QED
    BY <1>3, <2>3, <2>4, <1>1
<1>4. QED
  BY <1>1, <1>2, <1>3

\* It is a position again.
LEMMA AroundIn ==
  ASSUME NEW p \in Positions, NEW n \in 0..Size
  PROVE  (p + n) % Size \in Positions
<1>1. Size \in Nat \ {0} /\ p \in 0..Size - 1
  BY SizeAssumption DEF Positions
<1>2. (p + n) % Size = (IF p + n < Size THEN p + n ELSE p + n - Size)
  BY Around
<1>3. QED
  BY <1>1, <1>2 DEF Positions

\* Moving on twice is moving on once by the sum.
LEMMA AroundTwice ==
  ASSUME NEW p \in Positions, NEW m \in 0..Size, NEW n \in 0..Size, m + n <= Size
  PROVE  (((p + m) % Size) + n) % Size = (p + (m + n)) % Size
<1>1. Size \in Nat \ {0} /\ p \in 0..Size - 1
  BY SizeAssumption DEF Positions
<1> DEFINE r == (p + m) % Size
<1>2. r = IF p + m < Size THEN p + m ELSE p + m - Size
  BY Around
<1> HIDE DEF r
<1>3. r \in Positions
  BY <1>1, <1>2 DEF Positions
<1>4. (r + n) % Size = (IF r + n < Size THEN r + n ELSE r + n - Size)
  BY <1>3, Around
<1>5. (p + (m + n)) % Size = (IF p + (m + n) < Size THEN p + (m + n) ELSE p + (m + n) - Size)
  BY <1>1, Around
<1>6. (r + n) % Size = (p + (m + n)) % Size
  BY <1>1, <1>2, <1>4, <1>5
<1>7. QED
  BY <1>6 DEF r

\* What is at each place of two sequences put together.
LEMMA Concatenated ==
  ASSUME NEW S, NEW s \in Seq(S), NEW u \in Seq(S)
  PROVE  /\ s \o u \in Seq(S) /\ Len(s \o u) = Len(s) + Len(u)
         /\ \A i \in 1..Len(s) + Len(u) :
               (s \o u)[i] = IF i <= Len(s) THEN s[i] ELSE u[i - Len(s)]
OBVIOUS

\* A copy puts each byte at its distance from write_pos and leaves the others alone.
LEMMA CopiedAt ==
  ASSUME RingInv, NEW len \in 0..Size, NEW n \in Nat, len <= n, NEW src \in [1..n -> Bytes],
         NEW i \in 0..Size - 1
  PROVE  Copied(src, len)[(write_pos + i) % Size] =
            IF i < len THEN src[i + 1] ELSE buffer[(write_pos + i) % Size]
<1>1. Size \in Nat \ {0} /\ write_pos \in 0..Size - 1
  BY SizeAssumption DEF Positions, RingInv
<1> DEFINE p == (write_pos + i) % Size
<1>2. p = IF write_pos + i < Size THEN write_pos + i ELSE write_pos + i - Size
  BY <1>1, Around DEF Positions
<1> HIDE DEF p
<1>3. p \in Positions
  BY <1>1, <1>2 DEF Positions
<1>4. Copied(src, len)[p] =
        IF p >= write_pos /\ p < write_pos + len THEN src[p - write_pos + 1]
        ELSE IF p < len - (Size - write_pos) THEN src[(Size - write_pos) + p + 1]
        ELSE buffer[p]
  BY <1>3 DEF Copied
<1>5. CASE i < len
  <2>1. CASE write_pos + i < Size
    <3>1. p - write_pos + 1 = i + 1 /\ p >= write_pos /\ p < write_pos + len
      BY <1>1, <1>2, <1>5, <2>1
    <3>2. QED
      BY <1>4, <1>5, <3>1 DEF p
  <2>2. CASE write_pos + i >= Size
    <3>1. (Size - write_pos) + p + 1 = i + 1 /\ ~(p >= write_pos) /\ p < len - (Size - write_pos)
      BY <1>1, <1>2, <1>5, <2>2
    <3>2. QED
      BY <1>4, <1>5, <3>1 DEF p
  <2>3. QED
    BY <1>1, <2>1, <2>2
<1>6. CASE i >= len
  <2>1. ~(p >= write_pos /\ p < write_pos + len) /\ ~(p < len - (Size - write_pos))
    BY <1>1, <1>2, <1>6
  <2>2. QED
    BY <1>1, <1>4, <1>6, <2>1 DEF p
<1>7. QED
  BY <1>1, <1>5, <1>6

\* The bytes not yet read are a sequence.
LEMMA UnreadType == RingInv => Unread \in Seq(Bytes) /\ Len(Unread) = read_avail
<1> SUFFICES ASSUME RingInv PROVE Unread \in Seq(Bytes) /\ Len(Unread) = read_avail
  OBVIOUS
<1>1. Size \in Nat \ {0} /\ read_pos \in 0..Size - 1 /\ read_avail \in 0..Size
  BY SizeAssumption DEF Positions, RingInv
<1>2. ASSUME NEW i \in 1..read_avail PROVE buffer[(read_pos + i - 1) % Size] \in Bytes
  <2>1. read_pos + i - 1 = read_pos + (i - 1) /\ i - 1 \in 0..Size
    BY <1>1
  <2>2. (read_pos + (i - 1)) % Size \in Positions
    BY <1>1, <2>1, AroundIn DEF Positions
  <2>3. QED
    BY <2>1, <2>2 DEF RingInv
<1>3. QED
  BY <1>1, <1>2 DEF Unread

\* A write keeps the counts and positions in agreement, and appends.
LEMMA WriteStep ==
  ASSUME RingInv, NEW n \in Nat, NEW src \in [1..n -> Bytes], RingWrite(src)
  PROVE  /\ RingInv'
         /\ Unread' = Unread \o SubSeq(src, 1, length')
         /\ length' < n => Len(Unread') = Size
<1> DEFINE len == Least(Len(src), write_avail)
<1>1. Size \in Nat \ {0} /\ read_pos \in 0..Size - 1 /\ read_avail \in 0..Size
      /\ write_avail = Size - read_avail
  BY SizeAssumption DEF Positions, RingInv
<1>2. src \in Seq(Bytes) /\ Len(src) = n
  OBVIOUS
<1>3. len \in 0..Size /\ len <= n /\ len <= Size - read_avail
      /\ (len < n => len = Size - read_avail)
  BY <1>1, <1>2 DEF Least
<1>4. /\ buffer' = Copied(src, len) /\ write_pos' = (write_pos + len) % Size
      /\ write_avail' = write_avail - len /\ read_avail' = read_avail + len
      /\ length' = len /\ read_pos' = read_pos
  BY DEF RingWrite
<1> HIDE DEF len
<1>5. write_pos = (read_pos + read_avail) % Size /\ write_pos \in Positions
  BY DEF RingInv
<1>6. RingInv'
  <2>1. buffer' \in [Positions -> Bytes]
    <3>1. ASSUME NEW p \in Positions PROVE Copied(src, len)[p] \in Bytes
      <4>1. p \in 0..Size - 1 /\ write_pos \in 0..Size - 1
        BY <1>5, <3>1 DEF Positions
      <4>2. Copied(src, len)[p] =
              IF p >= write_pos /\ p < write_pos + len THEN src[p - write_pos + 1]
              ELSE IF p < len - (Size - write_pos) THEN src[(Size - write_pos) + p + 1]
              ELSE buffer[p]
        BY <3>1 DEF Copied
      <4>3. buffer[p] \in Bytes
        BY <3>1 DEF RingInv
      <4>4. ASSUME NEW j \in 1..n PROVE src[j] \in Bytes
        BY <4>4
      <4>5. p >= write_pos /\ p < write_pos + len => p - write_pos + 1 \in 1..n
        BY <1>1, <1>3, <4>1
      <4>6. p < len - (Size - write_pos) => (Size - write_pos) + p + 1 \in 1..n
        BY <1>1, <1>3, <4>1
      <4>7. QED
        BY <4>2, <4>3, <4>4, <4>5, <4>6
    <3>2. DOMAIN Copied(src, len) = Positions
      BY DEF Copied
    <3>3. Copied(src, len) = [p \in Positions |-> Copied(src, len)[p]]
      BY <3>2 DEF Copied
    <3>4. QED
      BY <1>4, <3>1, <3>3
  <2>2. read_pos \in Positions /\ read_avail + len <= Size
    BY <1>1, <1>3 DEF Positions
  <2>3. write_pos' \in Positions /\ write_pos' = (read_pos + (read_avail + len)) % Size
    <3>1. (write_pos + len) % Size \in Positions
      BY <1>1, <1>3, <1>5, AroundIn
    <3>2. (((read_pos + read_avail) % Size) + len) % Size = (read_pos + (read_avail + len)) % Size
      BY <1>1, <1>3, <2>2, AroundTwice
    <3>3. QED
      BY <1>4, <1>5, <3>1, <3>2
  <2>4. QED
    BY <1>1, <1>3, <1>4, <2>1, <2>2, <2>3 DEF RingInv
<1>7. Unread' = Unread \o SubSeq(src, 1, length')
  <2> DEFINE new == SubSeq(src, 1, len)
  <2>1. new \in Seq(Bytes) /\ Len(new) = len /\ \A j \in 1..len : new[j] = src[j]
    BY <1>2, <1>3
  <2>2. Unread' = [i \in 1..read_avail + len |-> Copied(src, len)[(read_pos + i - 1) % Size]]
    BY <1>4 DEF Unread
  <2>3. Unread \in Seq(Bytes) /\ Len(Unread) = read_avail
    BY UnreadType
  <2> HIDE DEF new
  <2>4. ASSUME NEW i \in 1..read_avail + len
        PROVE  Unread'[i] = IF i <= read_avail THEN Unread[i] ELSE new[i - read_avail]
    <3>1. Unread'[i] = Copied(src, len)[(read_pos + i - 1) % Size]
      BY <2>2
    <3>2. CASE i <= read_avail
      \* It lies as far from write_pos as is free, and what comes before it.
      <4> DEFINE d == Size - read_avail + (i - 1)
      <4>1. d \in 0..Size - 1 /\ ~(d < len) /\ i - 1 \in 0..Size - 1
        BY <1>1, <1>3, <3>2, <2>4
      <4>2. (write_pos + d) % Size = (read_pos + (i - 1)) % Size
        <5>1. d \in 0..Size /\ read_avail \in 0..Size
          BY <1>1, <4>1
        <5>2. write_pos = IF read_pos + read_avail < Size THEN read_pos + read_avail
                          ELSE read_pos + read_avail - Size
          BY <1>1, <1>5, Around DEF Positions
        <5>3. (write_pos + d) % Size = (IF write_pos + d < Size THEN write_pos + d
                                        ELSE write_pos + d - Size)
          BY <1>5, <5>1, Around
        <5>4. (read_pos + (i - 1)) % Size =
                 (IF read_pos + (i - 1) < Size THEN read_pos + (i - 1)
                  ELSE read_pos + (i - 1) - Size)
          <6>1. read_pos \in Positions /\ i - 1 \in 0..Size
            BY <1>1, <4>1 DEF Positions
          <6> DEFINE j == i - 1
          <6>2. j \in 0..Size
            BY <6>1
          <6> HIDE DEF j
          <6>3. (read_pos + j) % Size = (IF read_pos + j < Size THEN read_pos + j
                                         ELSE read_pos + j - Size)
            BY <6>1, <6>2, Around
          <6>4. QED
            BY <6>3 DEF j
        <5>5. QED
          BY <1>1, <4>1, <5>2, <5>3, <5>4
      <4>3. read_pos + i - 1 = read_pos + (i - 1)
        BY <1>1
      <4> HIDE DEF d
      <4>4. Copied(src, len)[(write_pos + d) % Size] = buffer[(write_pos + d) % Size]
        BY <1>3, <4>1, CopiedAt
      <4>5. Unread[i] = buffer[(read_pos + i - 1) % Size]
        BY <1>1, <3>2 DEF Unread
      <4>6. QED
        BY <3>1, <3>2, <4>2, <4>3, <4>4, <4>5
    <3>3. CASE i > read_avail
      <4> DEFINE d == i - 1 - read_avail
      <4>1. d \in 0..Size - 1 /\ d < len /\ d + 1 = i - read_avail /\ i - read_avail \in 1..len
        BY <1>1, <1>3, <3>3, <2>4
      <4>2. (write_pos + d) % Size = (read_pos + i - 1) % Size
        <5>1. read_avail + d <= Size /\ d \in 0..Size /\ read_pos + (read_avail + d) = read_pos + i - 1
          BY <1>1, <1>3, <4>1
        <5>2. read_pos \in Positions
          BY <1>1 DEF Positions
        <5> HIDE DEF d
        <5>3. (((read_pos + read_avail) % Size) + d) % Size = (read_pos + (read_avail + d)) % Size
          BY <1>1, <5>1, <5>2, AroundTwice
        <5>4. QED
          BY <1>5, <5>1, <5>3
      <4> HIDE DEF d
      <4>3. Copied(src, len)[(write_pos + d) % Size] = src[d + 1]
        BY <1>3, <4>1, CopiedAt
      <4>4. src[d + 1] = new[i - read_avail]
        BY <4>1, <2>1
      <4>5. ~(i <= read_avail)
        BY <1>1, <3>3
      <4>6. QED
        BY <3>1, <4>2, <4>3, <4>4, <4>5
    <3>4. QED
      BY <1>1, <3>2, <3>3
  <2>5. QED
    <3> DEFINE all == Unread \o new
    <3>1. all \in Seq(Bytes) /\ Len(all) = read_avail + len
          /\ \A i \in 1..read_avail + len :
                all[i] = IF i <= read_avail THEN Unread[i] ELSE new[i - read_avail]
      BY <2>1, <2>3, Concatenated
    <3> HIDE DEF all
    <3>2. all = [i \in 1..read_avail + len |-> all[i]]
      BY <1>1, <1>3, <3>1
    <3>3. Unread' = [i \in 1..read_avail + len |-> Unread'[i]]
      BY <2>2
    <3>4. \A i \in 1..read_avail + len : Unread'[i] = all[i]
      BY <2>4, <3>1
    <3>5. Unread' = all
      BY <3>2, <3>3, <3>4
    <3>6. QED
      BY <3>5, <1>4 DEF all, new
<1>8. length' < n => Len(Unread') = Size
  <2>1. Len(Unread') = read_avail + len
    BY <1>1, <1>3, <1>4 DEF Unread
  <2>2. QED
    BY <1>1, <1>3, <1>4, <2>1
<1>9. QED
  BY <1>6, <1>7, <1>8

\* A read keeps the counts and positions in agreement, and takes from the front.
LEMMA ReadStep ==
  ASSUME RingInv, NEW n \in Nat, RingRead(n)
  PROVE  /\ RingInv'
         /\ Unread = dst' \o Unread'
         /\ Len(dst') <= n /\ (dst' = <<>> => n = 0 \/ Unread = <<>>)
<1> DEFINE len == Least(Least(n, Size - read_pos), read_avail)
<1>1. Size \in Nat \ {0} /\ read_pos \in 0..Size - 1 /\ read_avail \in 0..Size
      /\ write_avail = Size - read_avail /\ write_pos = (read_pos + read_avail) % Size
      /\ write_pos \in Positions
  BY SizeAssumption DEF Positions, RingInv
<1>2. len \in 0..read_avail /\ len <= n /\ read_pos + len <= Size
      /\ (len = 0 => n = 0 \/ read_avail = 0)
  BY <1>1 DEF Least
<1>3. /\ dst' = [i \in 1..len |-> buffer[read_pos + i - 1]]
      /\ read_pos' = (read_pos + len) % Size
      /\ write_avail' = write_avail + len /\ read_avail' = read_avail - len
      /\ buffer' = buffer /\ write_pos' = write_pos
  BY DEF RingRead
<1> HIDE DEF len
<1>4. read_pos \in Positions /\ len \in 0..Size
  BY <1>1, <1>2 DEF Positions
<1>5. read_pos' \in Positions
  BY <1>3, <1>4, AroundIn
<1>6. RingInv'
  <2>1. read_avail - len \in 0..Size /\ len + (read_avail - len) = read_avail
    BY <1>1, <1>2
  <2>2. (((read_pos + len) % Size) + (read_avail - len)) % Size
          = (read_pos + (len + (read_avail - len))) % Size
    BY <1>1, <1>4, <2>1, AroundTwice
  <2>3. write_pos' = (read_pos' + read_avail') % Size
    BY <1>1, <1>3, <2>1, <2>2
  <2>4. write_avail' = Size - read_avail' /\ read_avail' \in 0..Size
    BY <1>1, <1>2, <1>3
  <2>5. buffer' \in [Positions -> Bytes] /\ write_pos' \in Positions
    BY <1>1, <1>3 DEF RingInv
  <2>6. QED
    BY <1>5, <2>3, <2>4, <2>5 DEF RingInv
<1>7. Unread \in Seq(Bytes) /\ Len(Unread) = read_avail
  BY UnreadType
<1>8. Unread' \in Seq(Bytes) /\ Len(Unread') = read_avail - len
  <2>1. (Unread \in Seq(Bytes) /\ Len(Unread) = read_avail)'
    BY <1>6, UnreadType, PTL
  <2>2. QED
    BY <1>3, <2>1
\* A read does not get past the end of the buffer.
<1>9. ASSUME NEW i \in 1..len
      PROVE  i \in 1..read_avail /\ dst'[i] = Unread[i] /\ dst'[i] \in Bytes
  <2>1. i \in 1..read_avail /\ read_pos + i - 1 \in 0..Size - 1
    BY <1>1, <1>2
  <2>2. (read_pos + i - 1) % Size = read_pos + i - 1
    BY <1>1, <2>1
  <2>3. QED
    BY <1>3, <2>1, <2>2 DEF Unread, RingInv, Positions
<1>10. dst' \in Seq(Bytes) /\ Len(dst') = len
  <2>1. len \in Nat /\ dst' = [i \in 1..len |-> dst'[i]]
    BY <1>3, <1>4, SizeAssumption
  <2>2. \A i \in 1..len : dst'[i] \in Bytes
    BY <1>9
  <2> DEFINE s == [i \in 1..len |-> dst'[i]]
  <2>3. s \in Seq(Bytes) /\ Len(s) = len
    BY <2>1, <2>2
  <2>4. QED
    BY <2>1, <2>3
<1>11. ASSUME NEW i \in 1..read_avail, i > len PROVE Unread'[i - len] = Unread[i]
  <2> DEFINE j == i - len - 1
  <2>1. j \in 0..Size /\ len + j = i - 1 /\ len + j <= Size /\ i - len \in 1..read_avail - len
    BY <1>1, <1>2, <1>11
  <2>2. (((read_pos + len) % Size) + j) % Size = (read_pos + (len + j)) % Size
    <3> HIDE DEF j
    <3>1. QED
      BY <1>4, <2>1, AroundTwice
  <2>3. Unread'[i - len] = buffer[(read_pos' + (i - len) - 1) % Size]
    BY <1>3, <2>1 DEF Unread
  <2>4. read_pos' \in Int /\ read_pos \in Int /\ len \in Int
    BY <1>1, <1>4, <1>5 DEF Positions
  <2>5. read_pos' + (i - len) - 1 = read_pos' + j /\ read_pos + i - 1 = read_pos + (len + j)
    BY <2>4
  <2>6. QED
    BY <1>3, <2>2, <2>3, <2>5 DEF Unread
<1>12. Unread = dst' \o Unread'
  <2> DEFINE all == dst' \o Unread'
  <2>1. len + (read_avail - len) = read_avail
    BY <1>1, <1>4
  <2>2. all \in Seq(Bytes) /\ Len(all) = read_avail
        /\ \A i \in 1..read_avail :
              all[i] = IF i <= len THEN dst'[i] ELSE Unread'[i - len]
    <3>1. ASSUME NEW u \in Seq(Bytes), NEW w \in Seq(Bytes), Len(u) + Len(w) = read_avail
          PROVE  /\ u \o w \in Seq(Bytes) /\ Len(u \o w) = read_avail
                 /\ \A i \in 1..read_avail :
                       (u \o w)[i] = IF i <= Len(u) THEN u[i] ELSE w[i - Len(u)]
      BY <3>1, Concatenated
    <3>2. dst' \in Seq(Bytes) /\ Unread' \in Seq(Bytes)
      BY <1>7, <1>8, <1>10
    <3>3. Len(dst') = len /\ Len(Unread') = read_avail - len
      BY <1>7, <1>8, <1>10
    <3>4. Len(dst') + Len(Unread') = read_avail
      BY <2>1, <3>3
    <3> HIDE DEF len
    <3>5. QED
      BY <3>1, <3>2, <3>3, <3>4
  <2> HIDE DEF all
  <2>3. \A i \in 1..read_avail : all[i] = Unread[i]
    <3> TAKE i \in 1..read_avail
    <3>1. CASE i <= len
      <4>1. i \in 1..len
        BY <1>1, <1>4, <3>1
      <4>2. dst'[i] = Unread[i]
        BY <4>1, <1>9
      <4>3. QED
        BY <2>2, <3>1, <4>2
    <3>2. CASE i > len
      <4>1. i \in len + 1..read_avail /\ ~(i <= len)
        BY <1>1, <1>4, <3>2
      <4>2. Unread'[i - len] = Unread[i]
        BY <3>2, <1>11
      <4>3. QED
        BY <2>2, <4>1, <4>2
    <3>3. QED
      BY <1>1, <1>4, <3>1, <3>2
  <2>4. all = Unread
    <3>1. all = [i \in 1..read_avail |-> all[i]]
      BY <1>1, <2>2
    <3>2. Unread = [i \in 1..read_avail |-> Unread[i]]
      BY DEF Unread
    <3>3. QED
      BY <2>3, <3>1, <3>2
  <2>5. QED
    BY <2>4 DEF all
<1>13. Len(dst') <= n /\ (dst' = <<>> => n = 0 \/ Unread = <<>>)
  BY <1>2, <1>7, <1>10
<1>14. QED
  BY <1>6, <1>12, <1>13

\* The ring buffer is a queue for any size and any sequence of calls: ringbuffer_write
\* appends what there is room for and ringbuffer_read takes from the front.
THEOREM RingServesAsQueue == RingSpec => RingIsQueue
<1>1. RingInit => RingInv
  <2> SUFFICES ASSUME RingInit PROVE RingInv
    OBVIOUS
  <2>1. Size \in Nat \ {0}
    BY SizeAssumption
  <2>2. 0 % Size = 0
    BY <2>1
  <2>3. QED
    BY <2>1, <2>2 DEF RingInit, RingInv, Positions
<1>2. RingInv /\ [RingNext]_ringVars => RingInv'
  <2> SUFFICES ASSUME RingInv, [RingNext]_ringVars PROVE RingInv'
    OBVIOUS
  <2>1. CASE \E n \in 0..MaxLen : \E src \in [1..n -> Bytes] : RingWrite(src)
    BY <2>1, WriteStep, SizeAssumption
  <2>2. CASE \E n \in 0..MaxLen : RingRead(n)
    BY <2>2, ReadStep, SizeAssumption
  <2>3. CASE UNCHANGED ringVars
    BY <2>3 DEF ringVars, RingInv
  <2>4. QED
    BY <2>1, <2>2, <2>3 DEF RingNext
<1>3. RingInv /\ RingInv' => ServesAsQueue
  <2> SUFFICES ASSUME RingInv, RingInv' PROVE ServesAsQueue
    OBVIOUS
  <2>1. \A n \in 0..MaxLen : n \in Nat
    BY SizeAssumption
  <2>2. \A n \in 0..MaxLen : \A src \in [1..n -> Bytes] : RingWrite(src) =>
            /\ Unread' = Unread \o SubSeq(src, 1, length')
            /\ length' < n => Len(Unread') = Size
    BY <2>1, WriteStep
  <2>3. \A n \in 0..MaxLen : RingRead(n) =>
            /\ Unread = dst' \o Unread'
            /\ Len(dst') <= n /\ (dst' = <<>> => n = 0 \/ Unread = <<>>)
    BY <2>1, ReadStep
  <2>4. (read_avail + write_avail)' = Size /\ write_pos' = ((read_pos + read_avail) % Size)'
    <3>1. read_avail' \in 0..Size /\ write_avail' = Size - read_avail'
          /\ write_pos' = (read_pos' + read_avail') % Size
      BY DEF RingInv
    <3>2. ASSUME NEW r \in 0..Size PROVE r + (Size - r) = Size
      BY SizeAssumption
    <3>3. read_avail' + write_avail' = Size
      BY <3>1, <3>2
    <3>4. QED
      BY <3>1, <3>3
  <2>5. QED
    BY <2>2, <2>3, <2>4 DEF ServesAsQueue
<1>4. RingInv /\ RingInv' => [ServesAsQueue]_ringVars
  BY <1>3
<1>5. QED
  BY <1>1, <1>2, <1>4, PTL DEF RingSpec, RingIsQueue

-----------------------------------------------------------------------------
(* The command line and the configuration.                                   *)

\* The options fall into three classes, none of which ends the program by itself.
LEMMA OptionClasses ==
  /\ DOMAIN Defaults = Strings \cup Lenient \cup Strict
  /\ Printing \cap DOMAIN Defaults = {} /\ "pipe" \notin DOMAIN Defaults \cup Printing
  /\ Strings \cap (Lenient \cup Strict) = {} /\ Lenient \cap Strict = {}
  /\ Mandatory \subseteq Strings
BY DEF Defaults, Printing, Strings, Mandatory, Lenient, Strict

\* Values of options that are not given.
LEMMA DefaultValues ==
  /\ \A o \in Mandatory : Defaults[o] = None
  /\ Defaults["port"] = -1 /\ Defaults["loglevel"] = -1 /\ Defaults["latency"] = 0
BY DEF Defaults, Strings, Mandatory, Lenient, Strict

\* What an option does to the values that are given.
LEMMA TakeValue ==
  ASSUME NEW o, o.opt \in DOMAIN Defaults, Take(o),
         given = [x \in DOMAIN Defaults |-> given[x]]
  PROVE  /\ given' = [x \in DOMAIN Defaults |-> given'[x]]
         /\ o.opt \in Strings \/ Converted(o.opt, o.arg) # NoNumber =>
               /\ given' = [given EXCEPT ![o.opt] = Value(o.opt, o.arg)]
               /\ UNCHANGED status
         /\ o.opt \notin Strings /\ Converted(o.opt, o.arg) = NoNumber =>
               /\ UNCHANGED given
               /\ status' = IF o.opt \in Strict THEN "failure" ELSE status
BY DEF Take, Value

\* The option that getopt_long returns is the last use of it so far.
LEMMA OptionWins ==
  ASSUME SettingsInv, status = "parsing", next <= Len(line), next' = next + 1,
         UNCHANGED line,
         line[next].opt \in DOMAIN Defaults, Take(line[next]),
         NEW o \in DOMAIN Defaults
  PROVE  Wins(o)'
<1>1. /\ Usable(o)' = Usable(o) /\ Usable(o) \subseteq 1..Len(line)
      /\ next \in 1..Len(line) /\ Len(line) \in Nat
      /\ given = [x \in DOMAIN Defaults |-> given[x]]
  BY DEF Usable, SettingsInv
<1>2. Wins(o)
  BY DEF SettingsInv
<1>3. \A i \in Usable(o) : i < next' <=> i < next \/ i = next
  BY <1>1
<1>4. CASE next \in Usable(o)
  <2>1. line[next].opt = o /\ (o \in Strings \/ Converted(o, line[next].arg) # NoNumber)
    BY <1>4 DEF Usable
  <2>2. given'[o] = Value(o, line[next].arg)
    BY <1>1, <2>1, TakeValue
  <2>3. ~(\A i \in Usable(o) : i >= next')
    BY <1>1, <1>4
  <2>4. ASSUME NEW i \in Usable(o), i < next', \A j \in Usable(o) : j < next' => j <= i
        PROVE  i = next
    BY <1>1, <1>3, <1>4, <2>4
  <2>5. QED
    BY <1>1, <2>2, <2>3, <2>4 DEF Wins
<1>5. CASE next \notin Usable(o)
  <2>1. given'[o] = given[o]
    <3>1. CASE line[next].opt # o
      BY <1>1, <3>1, TakeValue
    <3>2. CASE line[next].opt = o
      <4>1. o \notin Strings /\ Converted(o, line[next].arg) = NoNumber
        BY <1>1, <1>5, <3>2 DEF Usable
      <4>2. QED
        BY <1>1, <3>2, <4>1, TakeValue
    <3>3. QED
      BY <3>1, <3>2
  <2>2. \A i \in Usable(o) : (i < next' <=> i < next) /\ (i >= next' <=> i >= next)
    BY <1>1, <1>3, <1>5
  <2>3. QED
    BY <1>1, <1>2, <2>1, <2>2 DEF Wins
<1>6. QED
  BY <1>4, <1>5

\* An option that is passed over changes nothing.
LEMMA ObsoleteWins ==
  ASSUME SettingsInv, status = "parsing", next <= Len(line), next' = next + 1,
         UNCHANGED <<line, given>>, line[next].opt \notin DOMAIN Defaults,
         NEW o \in DOMAIN Defaults
  PROVE  Wins(o)'
<1>1. /\ Usable(o)' = Usable(o) /\ Usable(o) \subseteq 1..Len(line)
      /\ next \in 1..Len(line) /\ Len(line) \in Nat /\ next \notin Usable(o)
  BY DEF Usable, SettingsInv
<1>2. Wins(o)
  BY DEF SettingsInv
<1>3. \A i \in Usable(o) : (i < next' <=> i < next) /\ (i >= next' <=> i >= next)
  BY <1>1
<1>4. QED
  BY <1>1, <1>2, <1>3 DEF Wins

\* An option that does not end the program.
LEMMA OptionKeeps == ASSUME SettingsInv, GetOption PROVE SettingsInv'
<1> DEFINE o == line[next]
<1>1. /\ status = "parsing" /\ next \in 1..Len(line) /\ Len(line) \in Nat
      /\ next' = next + 1 /\ UNCHANGED <<line, conf>> /\ next' \in 1..Len(line) + 1
      /\ given = [x \in DOMAIN Defaults |-> given[x]]
  BY DEF GetOption, SettingsInv
<1>2. \A i \in 1..next - 1 : ~Ends(line[i])
  BY <1>1 DEF SettingsInv
<1>3. \A i \in 1..next' - 1 : i \in 1..next - 1 \/ i = next
  BY <1>1
<1>4. (\A i \in 1..next - 1 : ~Ends(line[i]))' <=> (\A i \in 1..next' - 1 : ~Ends(line[i]))
  BY <1>1
<1>5. CASE o.opt \in DOMAIN Defaults /\ Take(o)
  <2>1. given' = [x \in DOMAIN Defaults |-> given'[x]]
    BY <1>1, <1>5, TakeValue
  <2>2. status' \in {"parsing", "failure"}
    BY <1>1, <1>5, TakeValue
  <2>3. \A x \in DOMAIN Defaults : Wins(x)'
    BY <1>1, <1>5, OptionWins
  <2>4. status' = "parsing" => ~Ends(o)
    <3>1. o.opt \notin Printing /\ (o.opt \in Strict => o.opt \notin Strings)
      BY <1>5, OptionClasses
    <3>2. status' = "parsing" => ~(o.opt \in Strict /\ Converted(o.opt, o.arg) = NoNumber)
      BY <1>1, <1>5, <3>1, TakeValue
    <3>3. QED
      BY <1>5, <3>1, <3>2 DEF Ends
  <2>5. status' = "parsing" => \A i \in 1..next' - 1 : ~Ends(line[i])
    BY <1>2, <1>3, <2>4
  <2>6. "loglevel" \in DOMAIN Defaults
    BY OptionClasses DEF Lenient
  <2>7. QED
    BY <1>1, <2>1, <2>2, <2>3, <2>5, <2>6 DEF SettingsInv
<1>6. CASE o.opt = "pipe" /\ UNCHANGED <<given, status>>
  <2>1. o.opt \notin DOMAIN Defaults
    BY <1>6, OptionClasses
  <2>2. \A x \in DOMAIN Defaults : Wins(x)'
    BY <1>1, <1>6, <2>1, ObsoleteWins
  <2>3. ~Ends(o)
    BY <1>6, OptionClasses DEF Ends
  <2>4. \A i \in 1..next' - 1 : ~Ends(line[i])
    BY <1>2, <1>3, <2>3
  <2>5. "loglevel" \in DOMAIN Defaults
    BY OptionClasses DEF Lenient
  <2>6. QED
    BY <1>1, <1>6, <2>2, <2>4, <2>5 DEF SettingsInv
<1>7. CASE o.opt \in Printing /\ status' = "success" /\ UNCHANGED given
  <2>1. Ends(o) /\ \A j \in 1..next - 1 : ~Ends(line[j])
    BY <1>2, <1>7 DEF Ends
  <2>2. next \in FirstEnd
    BY <1>1, <2>1 DEF FirstEnd
  <2>3. FirstEnd' = FirstEnd
    BY <1>1 DEF FirstEnd
  <2>4. (\E i \in FirstEnd : line[i].opt \in Printing)'
    BY <1>1, <1>7, <2>2, <2>3
  <2>5. QED
    BY <1>1, <1>7, <2>4 DEF SettingsInv
<1>8. CASE status' = "failure" /\ UNCHANGED given
  BY <1>1, <1>8 DEF SettingsInv
<1>9. QED
  BY <1>5, <1>6, <1>7, <1>8 DEF GetOption

\* What was looked at does not change any more.
LEMMA Parsed ==
  ASSUME SettingsInv, UNCHANGED <<line, next>>
  PROVE  /\ next \in 1..Len(line) + 1 /\ Len(line) \in Nat
         /\ (Len(line) \in Nat /\ next \in 1..Len(line) + 1)'
         /\ \A x : Usable(x)' = Usable(x) /\ LastUse(x)' = LastUse(x)
         /\ status \in {"parsing", "loading", "logging", "ready"} =>
               (\A i \in 1..next - 1 : ~Ends(line[i]))'
BY DEF SettingsInv, Usable, LastUse

\* A value that is not touched stays in force.
LEMMA StillWins ==
  ASSUME SettingsInv, UNCHANGED <<line, next>>, NEW o, given'[o] = given[o], Wins(o)
  PROVE  Wins(o)'
BY Parsed DEF Wins

LEMMA CheckKeeps == ASSUME SettingsInv, CheckMandatory PROVE SettingsInv'
<1>1. /\ status = "parsing" /\ next = Len(line) + 1 /\ UNCHANGED <<line, next, given, conf>>
      /\ status' \in {"failure", "loading"}
      /\ status' = "loading" => given["port"] # -1 /\ \A o \in Mandatory : given[o] # None
      /\ given = [x \in DOMAIN Defaults |-> given[x]]
  BY DEF CheckMandatory, SettingsInv
<1>2. \A o \in DOMAIN Defaults : Wins(o)
  BY <1>1 DEF SettingsInv
<1>3. \A o \in DOMAIN Defaults : Usable(o) = {} => given[o] = Defaults[o]
  BY <1>2 DEF Wins
<1>4. Mandatory \cup {"port", "loglevel"} \subseteq DOMAIN Defaults
  BY OptionClasses DEF Lenient
<1>5. status' = "loading" => \A o \in Mandatory \cup {"port"} : Usable(o) # {}
  BY <1>1, <1>3, <1>4, DefaultValues
<1>6. \A o \in DOMAIN Defaults : Wins(o)'
  BY <1>1, <1>2, StillWins
<1>7. QED
  BY <1>1, <1>4, <1>5, <1>6, Parsed DEF SettingsInv

\* Loading reads the values and leaves them as they are.
LEMMA LoadKeeps == ASSUME SettingsInv, Load PROVE SettingsInv'
<1>1. /\ status = "loading" /\ next = Len(line) + 1 /\ UNCHANGED <<line, next, given>>
      /\ status' \in {"failure", "logging"}
      /\ given = [x \in DOMAIN Defaults |-> given[x]]
      /\ \A o \in Mandatory \cup {"port"} : Usable(o) # {}
  BY DEF Load, SettingsInv
<1>2. \A o \in DOMAIN Defaults : Wins(o)
  BY <1>1 DEF SettingsInv
<1>3. \A o \in DOMAIN Defaults : Wins(o)'
  BY <1>1, <1>2, StillWins
<1>4. status' = "logging" =>
         /\ conf'.loglevel = FromFile(given["config"]).loglevel
         /\ conf'.start = StartBuffer(given["config"])
         /\ conf'.password = given["password"]
  BY DEF Load
<1>5. "loglevel" \in DOMAIN Defaults
  BY OptionClasses DEF Lenient
<1>6. FromFile(given["config"])' = FromFile(given["config"])
      /\ StartBuffer(given["config"])' = StartBuffer(given["config"])
  BY <1>1 DEF FromFile, StartBuffer
<1>7. QED
  BY <1>1, <1>3, <1>4, <1>5, <1>6, Parsed DEF SettingsInv

\* The level of the file is taken for want of another.
LEMMA LevelKeeps == ASSUME SettingsInv, SetLogLevel PROVE SettingsInv'
<1>1. /\ status = "logging" /\ next = Len(line) + 1 /\ UNCHANGED <<line, next, conf>>
      /\ status' = "ready" /\ Len(line) \in Nat
      /\ given = [x \in DOMAIN Defaults |-> given[x]]
      /\ \A o \in Mandatory \cup {"port"} : Usable(o) # {}
      /\ given' = [given EXCEPT !["loglevel"] =
                      IF given["loglevel"] < 0 THEN conf.loglevel ELSE given["loglevel"]]
  BY DEF SetLogLevel, SettingsInv
<1>2. \A o \in DOMAIN Defaults : Wins(o)
  BY <1>1 DEF SettingsInv
<1>3. {"loglevel", "config", "latency", "password"} \subseteq DOMAIN Defaults
  BY OptionClasses DEF Lenient, Strict, Strings
<1>4. /\ given' = [x \in DOMAIN Defaults |-> given'[x]]
      /\ \A o \in DOMAIN Defaults \ {"loglevel"} : given'[o] = given[o]
      /\ given'["loglevel"] = IF given["loglevel"] < 0 THEN conf.loglevel
                              ELSE given["loglevel"]
  BY <1>1, <1>3
<1>5. \A o \in DOMAIN Defaults \ {"loglevel"} : Wins(o)'
  BY <1>1, <1>2, <1>4, StillWins
<1>6. /\ Usable("loglevel") = {} => given["loglevel"] = -1
      /\ \A i \in LastUse("loglevel") : given["loglevel"] = Value("loglevel", line[i].arg)
  <2>1. Wins("loglevel") /\ \A i \in Usable("loglevel") : i < next
    BY <1>1, <1>2, <1>3 DEF Usable
  <2>2. QED
    BY <2>1, DefaultValues DEF Wins, LastUse
<1>7. /\ Usable("loglevel") = {} => given'["loglevel"] = conf.loglevel
      /\ \A i \in LastUse("loglevel") : given'["loglevel"] =
            IF Value("loglevel", line[i].arg) < 0 THEN conf.loglevel
            ELSE Value("loglevel", line[i].arg)
  BY <1>4, <1>6
<1>8. /\ conf.loglevel = FromFile(given["config"]).loglevel
      /\ conf.start = StartBuffer(given["config"])
      /\ conf.password = given["password"]
  BY <1>1 DEF SettingsInv
<1>9. /\ FromFile(given["config"])' = FromFile(given["config"])
      /\ StartBuffer(given["config"])' = StartBuffer(given["config"])
      /\ given'["password"] = given["password"]
  BY <1>3, <1>4 DEF FromFile, StartBuffer
<1>10. \A i : (Value("loglevel", line[i].arg))' = Value("loglevel", line[i].arg)
  BY <1>1 DEF Value
<1>11. (Usable("loglevel") = {} => given["loglevel"] = conf.loglevel)'
  BY <1>1, <1>7, Parsed
<1>12. (\A i \in LastUse("loglevel") :
           LET level == Value("loglevel", line[i].arg)
           IN  given["loglevel"] = IF level < 0 THEN conf.loglevel ELSE level)'
  <2>1. LastUse("loglevel")' = LastUse("loglevel") /\ conf' = conf /\ line' = line
    BY <1>1, Parsed
  <2>2. QED
    BY <1>7, <1>10, <2>1
<1>13. (/\ conf.loglevel = FromFile(given["config"]).loglevel
        /\ conf.start = StartBuffer(given["config"])
        /\ conf.password = given["password"])'
  BY <1>1, <1>8, <1>9
<1>14. (\A o \in Mandatory \cup {"port"} : Usable(o) # {})'
  BY <1>1, Parsed
<1>15. QED
  BY <1>1, <1>4, <1>5, <1>11, <1>12, <1>13, <1>14, Parsed DEF SettingsInv

LEMMA SettingsStep == SettingsInv /\ [SettingsNext]_settingsVars => SettingsInv'
<1> SUFFICES ASSUME SettingsInv, [SettingsNext]_settingsVars PROVE SettingsInv'
  OBVIOUS
<1>1. CASE UNCHANGED settingsVars
  BY <1>1 DEF settingsVars, SettingsInv, Wins, Usable, LastUse, FirstEnd, FromFile, StartBuffer
<1>2. QED
  BY <1>1, OptionKeeps, CheckKeeps, LoadKeeps, LevelKeeps DEF SettingsNext

LEMMA SettingsStart == SettingsInit => SettingsInv
<1> SUFFICES ASSUME SettingsInit PROVE SettingsInv
  OBVIOUS
<1>1. Len(line) \in Nat /\ next = 1 /\ status = "parsing" /\ given = Defaults
  BY CommandLinesAssumption DEF SettingsInit
<1>2. Defaults = [o \in DOMAIN Defaults |-> Defaults[o]]
  BY DEF Defaults
<1>3. \A o : Wins(o)
  BY <1>1 DEF Wins, Usable
<1>4. QED
  BY <1>1, <1>2, <1>3 DEF SettingsInv

LEMMA SettingsInvariant == SettingsSpec => []SettingsInv
BY SettingsStart, SettingsStep, PTL DEF SettingsSpec

\* Whatever the command line, the program goes on to play only with all it must be given,
\* and succeeds without playing only if it was asked to print something.
THEOREM ExitIsAsked == SettingsSpec => []ExitAsAsked
<1>1. SettingsInv => ExitAsAsked
  BY DEF SettingsInv, ExitAsAsked, FirstEnd
<1>2. QED
  BY <1>1, SettingsInvariant, PTL

\* A 32-bit value within its range is converted to itself.
LEMMA IntExact ==
  ASSUME NEW text, safe_atoi32(text) # NoNumber, text >= -IntMax - 1
  PROVE  text \in Int /\ safe_atoi32(text) = text
<1>1. IntMax \in Nat /\ IntRange = 2 * (IntMax + 1)
  BY RangesAssumption DEF IntMax
<1>2. text \in Int /\ text <= IntMax /\ safe_atoi32(text) = ToInt(text)
  BY RangesAssumption DEF safe_atoi32, SignedTexts, LongMax
<1>3. text + IntMax + 1 \in 0..IntRange - 1
  BY <1>1, <1>2
<1>4. ASSUME NEW n \in 0..IntRange - 1 PROVE n % IntRange = n
  BY RangesAssumption
<1>5. (text + IntMax + 1) % IntRange = text + IntMax + 1
  BY <1>3, <1>4
<1>6. QED
  BY <1>1, <1>2, <1>5 DEF ToInt

\* A count of milliseconds that leaves room for the DAC's is stored with these.
LEMMA LatencyExact ==
  ASSUME NEW text \in 0..LongMax - DacMs
  PROVE  /\ safe_atou64(text) = text
         /\ (text + DacMs) % LongRange = text + DacMs
         /\ text + DacMs # 0 /\ text + DacMs <= LongMax
<1>1. LongMax \in Int /\ LongRange = 2 * (LongMax + 1) /\ LongRange \in Nat
      /\ DacMs \in Nat /\ DacMs > 0
  BY RangesAssumption, MillisAssumption DEF LongMax
<1>2. text \in 0..LongRange - 1 /\ text + DacMs \in 0..LongRange - 1
  BY <1>1
<1>3. ASSUME NEW n \in 0..LongRange - 1 PROVE n % LongRange = n
  BY <1>1
<1>4. text % LongRange = text /\ (text + DacMs) % LongRange = text + DacMs
  BY <1>2, <1>3
<1>5. text \in UnsignedTexts
  BY <1>1, <1>2 DEF UnsignedTexts
<1>6. QED
  BY <1>1, <1>2, <1>4, <1>5 DEF safe_atou64

\* Whatever the command line and the file, the last usable value of each option is in
\* force, before that of the file, before the default.
THEOREM LastOneWins == SettingsSpec => []LastValueWins
<1>1. SettingsInv => LastValueWins
  <2> SUFFICES ASSUME SettingsInv, status = "ready" PROVE LastValueWins
    BY DEF LastValueWins
  <2>1. next = Len(line) + 1 /\ Len(line) \in Nat
    BY DEF SettingsInv
  <2>2. \A o \in DOMAIN Defaults \ {"loglevel"} :
           /\ Usable(o) = {} => given[o] = Defaults[o]
           /\ \A i \in LastUse(o) : given[o] = Value(o, line[i].arg)
    <3> TAKE o \in DOMAIN Defaults \ {"loglevel"}
    <3>1. Wins(o)
      BY DEF SettingsInv
    <3>2. \A i \in Usable(o) : i < next
      BY <2>1 DEF Usable
    <3>3. QED
      BY <3>1, <3>2 DEF Wins, LastUse
  <2>3. \A o : \A i \in LastUse(o) :
           line[i].opt = o /\ (o \in Strings \/ Converted(o, line[i].arg) # NoNumber)
    BY DEF LastUse, Usable
  <2>4. \A o \in Strings : o \in DOMAIN Defaults \ {"loglevel"}
    BY OptionClasses DEF Strings, Mandatory
  <2>5. {"input_write_ms", "port", "volume", "latency"} \subseteq DOMAIN Defaults
    BY OptionClasses DEF Lenient, Strict
  <2>6. \A o \in Strings : \A i \in LastUse(o) : given[o] = line[i].arg
    BY <2>2, <2>4 DEF Value
  <2>7. \A i \in LastUse("input_write_ms") : given["input_write_ms"] = line[i].arg
    <3> TAKE i \in LastUse("input_write_ms")
    <3>1. /\ "input_write_ms" \notin Strings
          /\ Converted("input_write_ms", line[i].arg) = safe_atoi64(line[i].arg)
      BY DEF Strings, Mandatory, Converted
    <3>2. safe_atoi64(line[i].arg) # NoNumber
      BY <2>3, <3>1
    <3>3. given["input_write_ms"] = safe_atoi64(line[i].arg)
      BY <2>2, <2>5, <3>1 DEF Value, Stored
    <3>4. QED
      BY <3>2, <3>3 DEF safe_atoi64
  <2>8. \A o \in {"port", "volume"} : \A i \in LastUse(o) :
           line[i].arg >= -IntMax - 1 => given[o] = line[i].arg
    <3> TAKE o \in {"port", "volume"}
    <3> TAKE i \in LastUse(o)
    <3>1. o \notin Strings /\ Converted(o, line[i].arg) = safe_atoi32(line[i].arg)
      BY DEF Strings, Mandatory, Converted
    <3>2. safe_atoi32(line[i].arg) # NoNumber
      BY <2>3, <3>1
    <3>3. given[o] = safe_atoi32(line[i].arg)
      BY <2>2, <2>5, <3>1 DEF Value, Stored
    <3>4. QED
      BY <3>2, <3>3, IntExact
  <2>9. Usable("loglevel") = {} => given["loglevel"] = FromFile(given["config"]).loglevel
    BY DEF SettingsInv
  <2>10. \A i \in LastUse("loglevel") : line[i].arg >= -IntMax - 1 =>
            given["loglevel"] = IF line[i].arg >= 0 THEN line[i].arg
                                ELSE FromFile(given["config"]).loglevel
    <3> TAKE i \in LastUse("loglevel")
    <3>1. "loglevel" \notin Strings
          /\ Converted("loglevel", line[i].arg) = safe_atoi32(line[i].arg)
      BY DEF Strings, Mandatory, Converted
    <3>2. Value("loglevel", line[i].arg) = safe_atoi32(line[i].arg)
          /\ safe_atoi32(line[i].arg) # NoNumber
      BY <2>3, <3>1 DEF Value, Stored
    <3>3. given["loglevel"] = (IF Value("loglevel", line[i].arg) < 0 THEN conf.loglevel
                               ELSE Value("loglevel", line[i].arg))
          /\ conf.loglevel = FromFile(given["config"]).loglevel
      BY DEF SettingsInv
    <3>4. SUFFICES ASSUME line[i].arg >= -IntMax - 1
                   PROVE  given["loglevel"] = IF line[i].arg >= 0 THEN line[i].arg
                                              ELSE FromFile(given["config"]).loglevel
      OBVIOUS
    <3>5. line[i].arg \in Int /\ safe_atoi32(line[i].arg) = line[i].arg
      BY <3>2, <3>4, IntExact
    <3>6. QED
      BY <3>2, <3>3, <3>5
  <2>11. Usable("latency") = {} => conf.start = FromFile(given["config"]).start
    <3>1. Usable("latency") = {} => given["latency"] = 0
      BY <2>2, <2>5, DefaultValues
    <3>2. conf.start = StartBuffer(given["config"])
      BY DEF SettingsInv
    <3>3. QED
      BY <3>1, <3>2 DEF StartBuffer
  <2>12. \A i \in LastUse("latency") : line[i].arg \in 0..LongMax - DacMs =>
            conf.start = line[i].arg + DacMs
    <3> TAKE i \in LastUse("latency")
    <3>1. SUFFICES ASSUME line[i].arg \in 0..LongMax - DacMs
                   PROVE  conf.start = line[i].arg + DacMs
      OBVIOUS
    <3>2. "latency" \notin Strings
          /\ Converted("latency", line[i].arg) = safe_atou64(line[i].arg)
      BY DEF Strings, Mandatory, Converted
    <3>3. given["latency"] = (line[i].arg + DacMs) % LongRange
      BY <2>2, <2>5, <3>1, <3>2, LatencyExact DEF Value, Stored
    <3>4. given["latency"] = line[i].arg + DacMs
      BY <3>1, <3>3, LatencyExact
    <3>5. given["latency"] # 0 /\ given["latency"] <= LongMax
      BY <3>1, <3>4, LatencyExact
    <3>6. conf.start = StartBuffer(given["config"])
      BY DEF SettingsInv
    <3>7. QED
      BY <3>4, <3>5, <3>6 DEF StartBuffer
  <2>13. \A i \in LastUse("password") : conf.password = line[i].arg
    <3>1. "password" \in Strings /\ conf.password = given["password"]
      BY DEF Strings, SettingsInv
    <3>2. QED
      BY <2>6, <3>1
  <2>14. QED
    BY <2>6, <2>7, <2>8, <2>9, <2>10, <2>11, <2>12, <2>13 DEF LastValueWins
<1>2. QED
  BY <1>1, SettingsInvariant, PTL
=============================================================================
