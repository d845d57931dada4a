---------------------------- MODULE TimespecOps ----------------------------
(***************************************************************************)
(* The timespec arithmetic that the start time is computed with: src/src/  *)
(* misc.c timespec_add and timespec_cmp, src/src/cliap2.c                  *)
(* timespec_subtract (mass.c's timespec_sub has the same contract), and the*)
(* conversions from and to milliseconds.                                   *)
(***************************************************************************)
EXTENDS Integers

CONSTANTS
    MsPerSec,   \* 1000 in the code
    NsPerMs     \* 1000000 in the code

ASSUME UnitsAssumption == MsPerSec \in Nat \ {0} /\ NsPerMs \in Nat \ {0}

NsPerSec == MsPerSec * NsPerMs

\* A normalised timespec: tv_nsec counts the nanoseconds after second tv_sec, which is
\* negative for a time before the epoch.
Times == [sec : Int, nsec : 0..NsPerSec - 1]

ToNs(t) == t.sec * NsPerSec + t.nsec

\* clock_gettime, of a clock that counts nanoseconds.
FromNs(n) == [sec |-> n \div NsPerSec, nsec |-> n % NsPerSec]

\* Mutant of timespec_add: no carry when the nanoseconds add up to just a second.
timespec_add_NoCarry(a, b) ==
    IF a.nsec + b.nsec > NsPerSec
      THEN [sec |-> a.sec + b.sec + 1, nsec |-> a.nsec + b.nsec - NsPerSec]
      ELSE [sec |-> a.sec + b.sec, nsec |-> a.nsec + b.nsec]

timespec_add(a, b) ==
    IF a.nsec + b.nsec >= NsPerSec
      THEN [sec |-> a.sec + b.sec + 1, nsec |-> a.nsec + b.nsec - NsPerSec]
      ELSE [sec |-> a.sec + b.sec, nsec |-> a.nsec + b.nsec]

\* Mutant of timespec_subtract: no second is borrowed.
timespec_subtract_NoBorrow(a, b) == [sec |-> a.sec - b.sec, nsec |-> a.nsec - b.nsec]

timespec_subtract(a, b) ==
    IF a.nsec < b.nsec
      THEN [sec |-> a.sec - b.sec - 1, nsec |-> NsPerSec + a.nsec - b.nsec]
      ELSE [sec |-> a.sec - b.sec, nsec |-> a.nsec - b.nsec]

\* Mutant of timespec_cmp: the nanoseconds are compared before the seconds.
timespec_cmp_NsecFirst(a, b) ==
    CASE a.nsec < b.nsec -> -1
      [] a.nsec > b.nsec -> 1
      [] a.nsec = b.nsec /\ a.sec < b.sec -> -1
      [] a.nsec = b.nsec /\ a.sec > b.sec -> 1
      [] OTHER -> 0

timespec_cmp(a, b) ==
    CASE a.sec < b.sec -> -1
      [] a.sec > b.sec -> 1
      [] a.sec = b.sec /\ a.nsec < b.nsec -> -1
      [] a.sec = b.sec /\ a.nsec > b.nsec -> 1
      [] OTHER -> 0

\* get_output_buffer_ts, and --pairing_latency in main
FromMs(ms) == [sec |-> ms \div MsPerSec, nsec |-> (ms % MsPerSec) * NsPerMs]

\* Mutant of DeltaMs: the milliseconds are rounded down.
DeltaMs_Floor(t) == t.sec * MsPerSec + t.nsec \div NsPerMs

\* delta_ms of play(), lag_ms of get_start_ts: the sum of the whole seconds and of a double
\* is truncated toward zero.  With seconds below zero the sum is negative, and what the
\* nanoseconds lack of a millisecond is filled up.
DeltaMs(t) ==
    t.sec * MsPerSec + (IF t.sec < 0 THEN (t.nsec + NsPerMs - 1) \div NsPerMs
                                     ELSE t.nsec \div NsPerMs)
=============================================================================
