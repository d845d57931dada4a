-------------------------- MODULE LifecycleClaims --------------------------
(***************************************************************************)
(* What a comment of src/src/mass.c says of the threads and the code does  *)
(* not keep.                                                               *)
(***************************************************************************)
EXTENDS Lifecycle

\* command_pipe_thread_stop "Stops the mass_cmd thread and ensures housekeeping is
\* performed": when it has returned the thread is over.
ThreadIsStopped == mpc \in StoppingAudio => cpc \in {"none", "ended"}
=============================================================================
