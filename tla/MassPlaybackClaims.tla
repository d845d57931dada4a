------------------------- MODULE MassPlaybackClaims -------------------------
(***************************************************************************)
(* What the build file of the repository says about playback control,      *)
(* stated as properties of MassPlayback.  The code does not keep them.     *)
(***************************************************************************)
EXTENDS MassPlayback

\* src/src/Makefile.am:44-45, "we exit gracefully on STOP command or on EOF on
\* stdin": once mass_cmd has taken a STOP, play() ends the input.
StopIsObeyed == stopFlag ~> (inpc = "closed" \/ exited)

\* The same sentence for EOF: once Music Assistant closed stdin, the process exits
\* (the run sends no command, so nothing pauses it).
EofLeadsToExit == ended ~> exited
=============================================================================
