-------------------------- MODULE PlaybackContract --------------------------
(***************************************************************************)
(* What src/src/mass.c promises the input module about playback control,   *)
(* without pipes, parsing, buffers or timers: a call of play() gets past   *)
(* its gate only while neither a pause nor a stop is in force; a call that *)
(* got past it finishes; the source is closed once and for all, when it    *)
(* cannot be opened, by a stop at the gate or by a call that found the end;*)
(* the process exits only after that.                                      *)
(***************************************************************************)
VARIABLES
    phase,      \* "idle", "open", "closed", "exited"
    busy,       \* a call of play() is past the gate
    paused,     \* the pause in force
    stopping    \* the stop in force

cvars == <<phase, busy, paused, stopping>>

CInit == phase = "idle" /\ busy = FALSE /\ paused = FALSE /\ stopping = FALSE

Open  == phase = "idle" /\ phase' = "open" /\ UNCHANGED <<busy, paused, stopping>>

\* The source cannot be read when it is opened.
OpenFails == phase = "idle" /\ phase' = "closed" /\ UNCHANGED <<busy, paused, stopping>>

Enter == /\ phase = "open" /\ ~busy /\ ~paused /\ ~stopping
         /\ busy' = TRUE
         /\ UNCHANGED <<phase, paused, stopping>>

Leave == busy /\ busy' = FALSE /\ UNCHANGED <<phase, paused, stopping>>

CloseAtGate == /\ phase = "open" /\ ~busy /\ ~paused /\ stopping
               /\ phase' = "closed"
               /\ UNCHANGED <<busy, paused, stopping>>

CloseAtEnd == /\ phase = "open" /\ busy
              /\ phase' = "closed" /\ busy' = FALSE
              /\ UNCHANGED <<paused, stopping>>

\* A stop is final; a pause comes and goes.  Nothing changes after exit.
Pause  == phase # "exited" /\ paused' = TRUE /\ UNCHANGED <<phase, busy, stopping>>
Resume == phase # "exited" /\ paused' = FALSE /\ UNCHANGED <<phase, busy, stopping>>
Stop   == phase # "exited" /\ stopping' = TRUE /\ UNCHANGED <<phase, busy, paused>>

Exit == phase = "closed" /\ phase' = "exited" /\ UNCHANGED <<busy, paused, stopping>>

CNext == \/ Open \/ OpenFails \/ Enter \/ Leave \/ CloseAtGate \/ CloseAtEnd
         \/ Pause \/ Resume \/ Stop \/ Exit

CSpec == CInit /\ [][CNext]_cvars
=============================================================================
