----------------------------- MODULE StartTime -----------------------------
(***************************************************************************)
(* From --ntp to the start time play() uses (src/src/cliap2.c): Music      *)
(* Assistant asks one process for the NTP time, adds a lead, and starts     *)
(* another with --ntpstart, which turns it into CLOCK_MONOTONIC.  The two   *)
(* clocks are read one after the other, while time goes on.                 *)
(*                                                                         *)
(* CLOCK_REALTIME is CLOCK_MONOTONIC plus a constant; nobody sets it        *)
(* meanwhile.  Both are counted in nanoseconds.                             *)
(***************************************************************************)
EXTENDS TimespecOps

CONSTANTS
    Word,       \* 2^32: the modulus of the seconds of an NTP timestamp
    Frac,       \* FRAC, 2^32: units of a fraction of a second
    EpochDelta, \* NTP_EPOCH_DELTA
    StartBufferMs, \* start_buffer_ms
    Boots,      \* the values CLOCK_REALTIME may have had at boot
    Leads,      \* the leads, in seconds, that Music Assistant may add
    MaxClock    \* bound: CLOCK_MONOTONIC

ASSUME NtpAssumption ==
    /\ Word \in Nat \ {0} /\ EpochDelta \in 0..Word - 1
    /\ Frac \in Nat /\ NsPerSec <= Frac
ASSUME ClockAssumption ==
    /\ StartBufferMs \in Nat /\ MaxClock \in Nat
    /\ Boots \subseteq Nat /\ Leads \subseteq Nat
    /\ \A b \in Boots, l \in {0} \cup Leads :
          b + MaxClock + l * NsPerSec < Word * NsPerSec

VARIABLES
    boot,       \* CLOCK_REALTIME at boot
    clock,      \* CLOCK_MONOTONIC
    stage,      \* "none", "stamped", "delta" (in ts_delta), "real", "done"
    stamp,      \* the NTP timestamp, as printed and as given to --ntpstart
    meant,      \* history: CLOCK_REALTIME at which playback should start
    ot_now,     \* the reading of CLOCK_MONOTONIC in ts_delta
    slip,       \* history: time between the two readings
    start_ts    \* ap2_device_info.start_ts

timeVars == <<boot, clock, stage, stamp, meant, ot_now, slip, start_ts>>

Zero == [sec |-> 0, nsec |-> 0]

TimeInit ==
    /\ boot \in Boots /\ clock = 0 /\ stage = "none"
    /\ stamp = [sec |-> 0, frac |-> 0] /\ meant = 0
    /\ ot_now = 0 /\ slip = 0 /\ start_ts = Zero

-----------------------------------------------------------------------------

\* The 32-bit sum of seconds wraps in 2036.
timespec_to_ntp(ts) ==
    [sec |-> (ts.sec + EpochDelta) % Word, frac |-> (ts.nsec * Frac) \div NsPerSec]

\* uint32_t seconds less an unsigned constant wrap back.  The division is one of
\* doubles: where the quotient is integral the result may be one less.
Nanoseconds(frac) ==
    LET q == (frac * NsPerSec) \div Frac
    IN  {q} \cup {r \in {q - 1} : q > 0 /\ (frac * NsPerSec) % Frac = 0}

ntp_to_timespec(ns) ==
    {[sec |-> (ns.sec - EpochDelta) % Word, nsec |-> n] : n \in Nanoseconds(ns.frac)}

ClockTick ==
    /\ stage # "done" /\ clock < MaxClock
    /\ clock' = clock + 1
    /\ UNCHANGED <<boot, stage, stamp, meant, ot_now, slip, start_ts>>

\* cliairplay --ntp
NtpTime ==
    /\ stage = "none"
    /\ stamp' = timespec_to_ntp(FromNs(boot + clock))
    /\ meant' = boot + clock
    /\ stage' = "stamped"
    /\ UNCHANGED <<boot, clock, ot_now, slip, start_ts>>

\* Music Assistant adds whole seconds to the 64-bit number, and starts cliairplay.
Launch(lead) ==
    /\ stage = "stamped"
    /\ stamp' = [stamp EXCEPT !.sec = (@ + lead) % Word]
    /\ meant' = meant + lead * NsPerSec
    /\ stage' = "delta"
    /\ UNCHANGED <<boot, clock, ot_now, slip, start_ts>>

\* ts_delta, the first clock.
ReadMonotonic ==
    /\ stage = "delta"
    /\ ot_now' = clock
    /\ stage' = "real"
    /\ UNCHANGED <<boot, clock, stamp, meant, slip, start_ts>>

\* Mutant of ReadRealtime: the latency is not subtracted.
ReadRealtime_NoLatency ==
    /\ stage = "real"
    /\ \E ntp_ts \in ntp_to_timespec(stamp) :
          start_ts' = timespec_subtract(ntp_ts,
                       timespec_subtract(FromNs(boot + clock), FromNs(ot_now)))
    /\ slip' = clock - ot_now
    /\ stage' = "done"
    /\ UNCHANGED <<boot, clock, stamp, meant, ot_now>>

\* ts_delta, the second clock, and the rest of get_start_ts.
ReadRealtime ==
    /\ stage = "real"
    /\ LET delta_ts == timespec_subtract(FromNs(boot + clock), FromNs(ot_now))
       IN  \E ntp_ts \in ntp_to_timespec(stamp) :
              start_ts' = timespec_subtract(timespec_subtract(ntp_ts, delta_ts),
                                         FromMs(StartBufferMs))
    /\ slip' = clock - ot_now
    /\ stage' = "done"
    /\ UNCHANGED <<boot, clock, stamp, meant, ot_now>>

Settled == stage = "done" /\ UNCHANGED timeVars

TimeNext == \/ ClockTick \/ NtpTime \/ ReadMonotonic \/ ReadRealtime \/ Settled
        \/ \E lead \in Leads : Launch(lead)

TimeSpec == TimeInit /\ [][TimeNext]_timeVars

-----------------------------------------------------------------------------

\* The start time is normalised, also when it lies before the boot.
TimeTypeOK ==
    /\ boot \in Boots /\ clock \in 0..MaxClock
    /\ stage \in {"none", "stamped", "delta", "real", "done"}
    /\ stamp \in [sec : 0..Word - 1, frac : 0..Frac - 1]
    /\ meant \in Nat /\ ot_now \in Nat /\ slip \in Nat
    /\ start_ts \in Times

\* The time asked for in NTP is the time play() goes by, less the latency, to one
\* nanosecond, also across the wrap of the NTP seconds in 2036; the time between the
\* readings of the two clocks makes it as much too early, and nothing makes it late.
StartIsAsAsked ==
    stage = "done" =>
        LET error == ToNs(start_ts) - (meant - boot - StartBufferMs * NsPerMs)
        IN  -slip - 1 <= error /\ error <= -slip

\* What makes it inductive: the timestamp on its way stands for the time asked for.
Carries ==
    /\ stage \in {"real", "done"} => ot_now <= clock
    /\ stage \notin {"none"} =>
         /\ meant < Word * NsPerSec
         /\ stamp = timespec_to_ntp(FromNs(meant))
    /\ stage \in {"none", "stamped"} => meant <= boot + clock

TimeInv == Carries /\ StartIsAsAsked
=============================================================================
