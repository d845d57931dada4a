----------------------------- MODULE RingBuffer -----------------------------
(***************************************************************************)
(* The ring buffer of src/src/misc.c: a write may be cut short, and a read *)
(* gets a pointer into the buffer, so it returns at most what lies before  *)
(* the end of it.                                                          *)
(***************************************************************************)
EXTENDS Naturals, Sequences

CONSTANTS
    Size,   \* of the buffer
    Bytes,
    MaxLen  \* bound: of what one call writes or asks for

ASSUME SizeAssumption == Size \in Nat \ {0} /\ MaxLen \in Nat

VARIABLES
    buffer, read_pos, write_pos, read_avail, write_avail,
    length,     \* what the last call returned
    dst         \* the bytes that the last read pointed to
ringVars == <<buffer, read_pos, write_pos, read_avail, write_avail, length, dst>>

Positions == 0..Size - 1
Least(a, b) == IF a < b THEN a ELSE b

\* ringbuffer_init; what malloc returns may hold anything.
RingInit ==
    /\ buffer \in [Positions -> Bytes]
    /\ read_pos = 0 /\ write_pos = 0
    /\ read_avail = 0 /\ write_avail = Size
    /\ length = 0 /\ dst = <<>>

\* The copy is in two pieces if it gets to the end of the buffer.
Copied(src, len) ==
    LET remaining == Size - write_pos IN
    [p \in Positions |->
        IF p >= write_pos /\ p < write_pos + len THEN src[p - write_pos + 1]
        ELSE IF p < len - remaining THEN src[remaining + p + 1]
        ELSE buffer[p]]

\* Mutant of RingWrite: a write is taken whole.
RingWrite_Whole(src) ==
    LET len == Least(Len(src), Size) IN
    /\ buffer' = Copied(src, len)
    /\ write_pos' = (write_pos + len) % Size
    /\ write_avail' = write_avail - Least(len, write_avail)
    /\ read_avail' = Least(read_avail + len, Size)
    /\ length' = len /\ dst' = <<>>
    /\ UNCHANGED read_pos

\* ringbuffer_write
RingWrite(src) ==
    LET len == Least(Len(src), write_avail) IN
    /\ buffer' = Copied(src, len)
    /\ write_pos' = (write_pos + len) % Size
    /\ write_avail' = write_avail - len
    /\ read_avail' = read_avail + len
    /\ length' = len /\ dst' = <<>>
    /\ UNCHANGED read_pos

\* ringbuffer_read
RingRead(dstlen) ==
    LET len == Least(Least(dstlen, Size - read_pos), read_avail) IN
    /\ dst' = [i \in 1..len |-> buffer[read_pos + i - 1]]
    /\ read_pos' = (read_pos + len) % Size
    /\ write_avail' = write_avail + len
    /\ read_avail' = read_avail - len
    /\ length' = len
    /\ UNCHANGED <<buffer, write_pos>>

RingNext ==
    \/ \E n \in 0..MaxLen : \E src \in [1..n -> Bytes] : RingWrite(src)
    \/ \E n \in 0..MaxLen : RingRead(n)

RingSpec == RingInit /\ [][RingNext]_ringVars

-----------------------------------------------------------------------------

\* What was written and not yet read, oldest first
Unread == [i \in 1..read_avail |-> buffer[(read_pos + i - 1) % Size]]

\* Over any sequence of calls the buffer is a queue of at most Size bytes: a write appends
\* as much as there is room for and says how much, a read takes from the front and returns
\* nothing only if nothing is there or asked for; the two positions, which are kept apart
\* from the counts, never disagree with them.
ServesAsQueue ==
    /\ \A n \in 0..MaxLen : \A src \in [1..n -> Bytes] : RingWrite(src) =>
          /\ Unread' = Unread \o SubSeq(src, 1, length')
          /\ length' < n => Len(Unread') = Size
    /\ \A n \in 0..MaxLen : RingRead(n) =>
          /\ Unread = dst' \o Unread'
          /\ Len(dst') <= n /\ (dst' = <<>> => n = 0 \/ Unread = <<>>)
    /\ (read_avail + write_avail)' = Size
    /\ write_pos' = ((read_pos + read_avail) % Size)'

\* Every step of the ring buffer is one of a queue.
RingIsQueue == [][ServesAsQueue]_ringVars

\* What makes it inductive: the counts and the positions agree.
RingInv ==
    /\ buffer \in [Positions -> Bytes]
    /\ read_pos \in Positions /\ write_pos \in Positions
    /\ read_avail \in 0..Size /\ write_avail = Size - read_avail
    /\ write_pos = (read_pos + read_avail) % Size
=============================================================================
