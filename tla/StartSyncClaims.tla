--------------------------- MODULE StartSyncClaims ---------------------------
(***************************************************************************)
(* What comments of the repository say about the start of playback, stated *)
(* as properties of StartSync.  The code does not keep them.                *)
(***************************************************************************)
EXTENDS StartSync

\* src/src/mass.c:1772-1773, "let's check to ensure we are not going to call it too
\* early and issue a warning if we are too late": play() waits only when the start time
\* is more than the margin away.
HoldsOnlyEarly ==
    [][Hold => start - now > (LatencyMs + InputWriteMs) * NsPerMs]_vars

\* src/src/mass.c:1766, "Finally, adjust the start time to reflect actual audio we now
\* have": audio that is given to the player with a start time (the SYNC flag) has one that
\* was moved by as much as was dropped before it, however the drops fell.
FirstIsAligned ==
    first.how \in {"sync", "drained"} => first.start - asked = first.dropped
=============================================================================
