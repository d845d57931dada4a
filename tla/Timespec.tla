------------------------------ MODULE Timespec ------------------------------
(***************************************************************************)
(* A process keeps one timespec and applies any sequence of the operations *)
(* of TimespecOps to it, beside the exact count of nanoseconds that it     *)
(* stands for: this shows that the rest may count ticks.                   *)
(***************************************************************************)
EXTENDS TimespecOps

CONSTANTS
    Operands,   \* the timespecs that are added and subtracted
    Millis,     \* the durations in milliseconds that are converted
    MaxNs       \* bound: of the magnitude of the timespec

ASSUME OperandsAssumption ==
    Millis \subseteq Nat /\ MaxNs \in Nat /\ \A b \in Operands : b \in Times

VARIABLES
    t,      \* the timespec
    ns      \* the nanoseconds it should stand for
vars == <<t, ns>>

Init == t = [sec |-> 0, nsec |-> 0] /\ ns = 0

Within(n) == -MaxNs <= n /\ n <= MaxNs

Add(b) == /\ Within(ns + ToNs(b))
          /\ t' = timespec_add(t, b)
          /\ ns' = ns + ToNs(b)

Subtract(b) == /\ Within(ns - ToNs(b))
               /\ t' = timespec_subtract(t, b)
               /\ ns' = ns - ToNs(b)

AddMs(ms) == /\ Within(ns + ms * NsPerMs)
             /\ t' = timespec_add(t, FromMs(ms))
             /\ ns' = ns + ms * NsPerMs

Next == \/ \E b \in Operands : Add(b) \/ Subtract(b)
        \/ \E ms \in Millis : AddMs(ms)

Spec == Init /\ [][Next]_vars

-----------------------------------------------------------------------------

\* After any sequence of additions, subtractions and conversions, with results before
\* the epoch as well as after it, a timespec is normalised and stands for the exact sum.
Exact == t \in Times /\ ToNs(t) = ns

\* timespec_cmp orders a computed timespec as its nanoseconds are ordered.
Ordered ==
    \A b \in Operands : timespec_cmp(t, b) = IF ns < ToNs(b) THEN -1
                                             ELSE IF ns > ToNs(b) THEN 1 ELSE 0

\* The milliseconds that play() compares differ by less than one from the exact time, and
\* always toward zero: a start that passed less than a millisecond ago is not late yet.
MillisTowardZero ==
    LET rest == ns - DeltaMs(t) * NsPerMs
    IN  IF ns >= 0 THEN 0 <= rest /\ rest < NsPerMs
                   ELSE -NsPerMs < rest /\ rest <= 0
=============================================================================
