------------------------------ MODULE StartSync ------------------------------
(***************************************************************************)
(* When play() writes the first audio if a start time was given (src/src/  *)
(* mass.c): setup() primes the source, the first read fixes the earliest    *)
(* possible packet time, what is older than that is dropped, what comes too *)
(* early is held.  MassPlayback leaves these choices open (its PlayHold and *)
(* PlayWrite); this module makes them, and ends with the first write.       *)
(*                                                                         *)
(* Time is in nanoseconds of CLOCK_MONOTONIC, and a unit of audio is what   *)
(* plays in one of them, so STOB() is the identity up to a factor.  Sums    *)
(* and comparisons of timespecs are those of their nanoseconds, as Timespec *)
(* shows; where milliseconds are cut off, DeltaMs does it.                  *)
(***************************************************************************)
EXTENDS TimespecOps

CONSTANTS
    Starts,         \* the start times asked for
    PairingLatency, \* pairing_latency_ts, in nanoseconds
    OutputBuffer,   \* get_output_buffer_ts(), in nanoseconds
    LatencyMs,      \* latency_ms (uint64_t)
    InputWriteMs,   \* input_write_ms (int64_t)
    PrimeMax,       \* PRIMED_AUDIO_DURATION_MS
    ReadMax,        \* audio in STDIN_READ_MAX bytes
    MaxAudio,       \* bound: audio sent on stdin
    MaxTime,        \* bound: the clock
    Wrap            \* 2^64: the modulus of uint64_t

\* tv_sec # 0: there is a start time, and the blocks for it are executed.
ASSUME StartAssumption == \A s \in Starts : s \in Nat /\ s >= NsPerSec
ASSUME LatencyAssumption ==
    {PairingLatency, OutputBuffer, LatencyMs, PrimeMax, MaxAudio, MaxTime} \subseteq Nat
ASSUME SizeAssumption == ReadMax \in Nat \ {0} /\ InputWriteMs \in Int
ASSUME WrapAssumption ==
    /\ Wrap \in Nat /\ MaxTime + LatencyMs + InputWriteMs < Wrap
    /\ \A s \in Starts : s < Wrap

VARIABLES
    now,        \* CLOCK_MONOTONIC
    asked,      \* history: the start time asked for
    start,      \* ap2_device_info.start_ts
    avail,      \* audio in stdin
    fed,        \* audio written to stdin so far
    ended,      \* stdin was closed
    pc,         \* "setup", "idle" (between calls), "estimate", "sync", "checked" (it is
                \* time), "adjusted" (the old audio is drained), "written", "closed"
    held,       \* audio in source->evbuf
    primed,     \* primed_bytes
    reads,      \* read_count; only 0 and 1 are told apart
    earliest,   \* earliest_possible_packet_ts
    toRemove, removed, \* bytes_to_remove, bytes_removed
    emptied,    \* history: the last drain took just what was held
    first       \* history: the first write

stdin == <<avail, fed, ended>>
estimate == <<reads, earliest, toRemove>>
history == <<emptied, first>>
vars == <<now, asked, start, stdin, pc, held, primed, estimate, removed, history>>

NoWrite == [how |-> "none", at |-> 0, start |-> 0, dropped |-> 0]

Init ==
    /\ now = 0 /\ asked \in Starts /\ start = asked
    /\ avail = 0 /\ fed = 0 /\ ended = FALSE
    /\ pc = "setup" /\ held = 0 /\ primed = 0
    /\ reads = 0 /\ earliest = 0 /\ toRemove = 0 /\ removed = 0
    /\ emptied = FALSE /\ first = NoWrite

-----------------------------------------------------------------------------
(* Environment: the clock and Music Assistant.                               *)

Tick ==
    /\ now < MaxTime
    /\ now' = now + 1
    /\ UNCHANGED <<asked, start, stdin, pc, held, primed, estimate, removed, history>>

Feed ==
    /\ ~ended /\ fed < MaxAudio
    /\ avail' = avail + 1 /\ fed' = fed + 1
    /\ UNCHANGED <<now, asked, start, ended, pc, held, primed, estimate, removed, history>>

End ==
    /\ ~ended
    /\ ended' = TRUE
    /\ UNCHANGED <<now, asked, start, avail, fed, pc, held, primed, estimate, removed,
                   history>>

-----------------------------------------------------------------------------
(* setup()                                                                   *)

\* evbuffer_read: all there is, up to STDIN_READ_MAX.
Taken == IF avail < ReadMax THEN avail ELSE ReadMax

Read ==
    /\ avail > 0
    /\ held' = held + Taken
    /\ avail' = avail - Taken
    /\ UNCHANGED <<now, asked, start, fed, ended, earliest, toRemove, removed, history>>

\* The length of a read is added to primed_bytes only when the loop goes on.
PrimeRead ==
    /\ pc = "setup" /\ Read
    /\ IF primed < PrimeMax
         THEN primed' = primed + Taken /\ pc' = "setup"
         ELSE primed' = primed /\ pc' = "idle"
    /\ UNCHANGED reads

\* Nothing to read (a non-blocking stdin), or the end of it.
PrimeEnd ==
    /\ pc = "setup" /\ avail = 0
    /\ pc' = "idle"
    /\ UNCHANGED <<now, asked, start, stdin, held, primed, estimate, removed, history>>

\* read() fails: setup() returns -1, and play() is never called.
PrimeError ==
    /\ pc = "setup"
    /\ pc' = "closed"
    /\ UNCHANGED <<now, asked, start, stdin, held, primed, estimate, removed, history>>

-----------------------------------------------------------------------------
(* play(), past the flags.  Without data it waits and returns.               *)

PlayRead ==
    /\ pc = "idle" /\ Read
    /\ reads' = IF reads = 0 THEN 1 ELSE 2
    /\ pc' = IF reads = 0 THEN "estimate" ELSE "sync"
    /\ UNCHANGED primed

\* First write of what is held, at the present time.
WriteFirst(how) ==
    /\ first' = [how |-> how, at |-> now, start |-> start, dropped |-> removed]
    /\ held' = 0

PlayEof ==
    /\ pc = "idle" /\ avail = 0 /\ ended
    /\ pc' = "closed"
    /\ IF held > 0 THEN WriteFirst("eof") ELSE UNCHANGED <<held, first>>
    /\ UNCHANGED <<now, asked, start, stdin, primed, estimate, removed, emptied>>

\* read() fails: play() stops the source, which frees what is held.
PlayReadError ==
    /\ pc = "idle"
    /\ pc' = "closed" /\ held' = 0
    /\ UNCHANGED <<now, asked, start, stdin, primed, estimate, removed, history>>

\* clock_gettime or evbuffer_drain fails: play() returns -1, and OwnTone may call it again
\* or not.  read_count was counted, so that an estimate which failed is never made.
PlayFails ==
    /\ pc \in {"estimate", "sync"}
    /\ pc' \in {"idle", "closed"}
    /\ UNCHANGED <<now, asked, start, stdin, held, primed, estimate, removed, history>>

\* Mutant of Estimate: the two times are not compared first.
Estimate_NoCompare ==
    /\ pc = "estimate"
    /\ earliest' = now + PairingLatency
                       + (IF held > OutputBuffer THEN 0 ELSE OutputBuffer)
    /\ toRemove' = earliest' - start
    /\ pc' = "sync"
    /\ UNCHANGED <<now, asked, start, stdin, held, primed, reads, removed, history>>

\* Once, after the first read: how soon could the first packet be played, and how much
\* audio is too old for that.
Estimate ==
    /\ pc = "estimate"
    /\ earliest' = now + PairingLatency
                       + (IF held > OutputBuffer THEN 0 ELSE OutputBuffer)
    /\ toRemove' = IF earliest' > start THEN earliest' - start ELSE 0
    /\ pc' = "sync"
    /\ UNCHANGED <<now, asked, start, stdin, held, primed, reads, removed, history>>

Old == toRemove - removed

SyncStep(to) ==
    /\ pc = "sync" /\ pc' = to
    /\ UNCHANGED <<now, asked, stdin, primed, estimate, first>>

DrainAll ==
    /\ SyncStep("idle") /\ Old > held
    /\ removed' = removed + held /\ held' = 0
    /\ UNCHANGED <<start, emptied>>

\* What is held is just what is too old: play() returns with nothing left to write,
\* and start_ts stays as it was.
DrainExact ==
    /\ SyncStep("idle") /\ Old > 0 /\ Old = held
    /\ removed' = toRemove /\ held' = 0 /\ emptied' = TRUE
    /\ UNCHANGED start

\* Mutants of DrainRest: start_ts is not moved; as much as was read is dropped.
DrainRest_KeepsStart ==
    /\ SyncStep("adjusted") /\ Old > 0 /\ Old < held
    /\ removed' = toRemove /\ held' = held - Old
    /\ UNCHANGED <<start, emptied>>

DrainRest_DropsHeld ==
    /\ SyncStep("adjusted") /\ Old > 0 /\ Old < held
    /\ removed' = removed + held /\ held' = 0 /\ start' = earliest
    /\ UNCHANGED emptied

\* The rest of the old audio is dropped, and start_ts becomes the earliest possible time
\* for what is left.
DrainRest ==
    /\ SyncStep("adjusted") /\ Old > 0 /\ Old < held
    /\ removed' = toRemove /\ held' = held - Old /\ start' = earliest
    /\ UNCHANGED emptied

\* delta_ms > latency_ms + input_write_ms: latency_ms makes both sides uint64_t.
U(x) == x % Wrap
TooEarly == U(DeltaMs(FromNs(start - now))) > U(LatencyMs + InputWriteMs)

Hold ==
    /\ SyncStep("idle") /\ Old <= 0 /\ TooEarly
    /\ UNCHANGED <<start, held, removed, emptied>>

\* Mutant of Check: the clock is not looked at again.
Check_Always ==
    /\ SyncStep("checked") /\ Old <= 0
    /\ UNCHANGED <<start, held, removed, emptied>>

\* It is not too early; a start that has passed gets here if it did by less than a
\* millisecond, which is cut off.
Check ==
    /\ SyncStep("checked") /\ Old <= 0 /\ ~TooEarly
    /\ UNCHANGED <<start, held, removed, emptied>>

\* input_write, some time after the clock was read.
Write ==
    /\ \/ pc = "checked" /\ WriteFirst("sync")
       \/ pc = "adjusted" /\ WriteFirst("drained")
    /\ pc' = "written"
    /\ UNCHANGED <<now, asked, start, stdin, primed, estimate, removed, emptied>>

\* The start is over.
Over == pc \in {"written", "closed"} /\ UNCHANGED vars

Play == PlayRead \/ PlayEof \/ PlayReadError \/ PlayFails \/ Estimate \/ DrainAll
        \/ DrainExact \/ DrainRest \/ Hold \/ Check \/ Write

Next == Tick \/ Feed \/ End \/ PrimeRead \/ PrimeEnd \/ PrimeError \/ Play \/ Over

Spec == Init /\ [][Next]_vars

-----------------------------------------------------------------------------
(* Properties.                                                               *)

\* Every variable has its type, and the history record is that of a first write.
TypeOK ==
    /\ now \in 0..MaxTime /\ asked \in Starts /\ start \in Nat
    /\ avail \in Nat /\ fed \in 0..MaxAudio /\ ended \in BOOLEAN
    /\ pc \in {"setup", "idle", "estimate", "sync", "checked", "adjusted", "written",
               "closed"}
    /\ held \in Nat /\ primed \in Nat /\ reads \in 0..2
    /\ earliest \in Nat /\ toRemove \in Nat /\ removed \in Nat
    /\ emptied \in BOOLEAN
    /\ first \in [how : {"none", "eof", "drained", "sync"}, at : Nat, start : Nat,
                  dropped : Nat]

\* However long play() takes, and however many calls it needs, the first write does not
\* come too early: unless the margin is negative, less than a millisecond more than
\* latency_ms + input_write_ms ahead of the start time, and after a drain at most as much
\* ahead as the pairing and the output buffer need.  It may well come late.
NeverTooEarly ==
    /\ LatencyMs + InputWriteMs >= 0 /\ first.how = "sync" =>
         first.start - first.at < (LatencyMs + InputWriteMs + 1) * NsPerMs
    /\ first.how = "drained" => first.start - first.at <= PairingLatency + OutputBuffer

\* Audio dropped over any number of calls of play() moves start_ts by as much as was
\* dropped, so that what is left plays at the time it would have.  This excepts the drain
\* that leaves nothing, after which start_ts stays: see FirstIsAligned of StartSyncClaims.
AlignedUnlessEmptied ==
    first.how \in {"sync", "drained"} /\ ~emptied => first.start - asked = first.dropped

\* However many reads it takes to drop what is too old, audio that can still be played
\* at its time, given the estimate made after the first read, is not dropped.
DropsOnlyOld == removed > 0 => asked + removed <= earliest

\* What makes them inductive: start_ts is the one asked for until a drain moves it to the
\* estimate; what is too old is what lies between the two, and only that much is dropped,
\* all of it before a write; and what was found to be in time stays so.
StartInv ==
    /\ pc \notin {"adjusted", "written", "closed"} => start = asked
    /\ pc \notin {"written", "closed"} => first = NoWrite
    /\ toRemove > 0 => earliest = asked + toRemove
    /\ removed <= toRemove
    /\ earliest <= now + PairingLatency + OutputBuffer
    /\ pc \in {"setup", "estimate"} \/ reads = 0 => removed = 0
    /\ pc = "setup" => reads = 0
    /\ pc \in {"estimate", "sync"} => reads # 0
    /\ pc \in {"idle", "sync", "checked"} /\ removed = toRemove /\ ~emptied => toRemove = 0
    /\ pc = "checked" =>
         /\ removed = toRemove
         /\ LatencyMs + InputWriteMs >= 0 =>
              start - now < (LatencyMs + InputWriteMs + 1) * NsPerMs
    /\ pc = "adjusted" => removed = toRemove /\ removed > 0 /\ start = earliest
=============================================================================
