--------------------------- MODULE Startup_proofs ---------------------------
(***************************************************************************)
(* The threads use nothing that is freed until the process is stopped, and *)
(* mass_aud accounts for every audio pipe, for any number of listener      *)
(* events.  main releases exactly what it has set up, wherever it stops;   *)
(* its threads are never hit by a signal; and what it does around them is  *)
(* among what Lifecycle allows, whose theorems come first.                 *)
(***************************************************************************)
EXTENDS Startup, SequenceTheorems, TLAPS

USE DEF main, command, buffers, audio, Starting, StoppingCommand, StoppingAudio, Life

Commands == {"update", "clear"}

IInv == TypeOK /\ AudioInv /\ CommandInv

-----------------------------------------------------------------------------
(* What a step needs.                                                        *)

\* A step whose thing is alive is no misuse.
LEMMA NeedsBase == ASSUME Needs([base |-> base]), base = "live" PROVE misuse' = {}
  BY DEF Needs

LEMMA NeedsBuffer == ASSUME Needs([evbuf |-> evbuf]), evbuf = "live" PROVE misuse' = {}
  BY DEF Needs

LEMMA NeedsLocks == ASSUME Needs([locks |-> locks]), locks = "live" PROVE misuse' = {}
  BY DEF Needs

-----------------------------------------------------------------------------
(* The queue of mass_aud.                                                    *)

\* The first command leaves the queue, the others move up.
LEMMA QueueTail ==
  ASSUME NEW q \in Seq(Commands), q # <<>>
  PROVE  /\ Tail(q) \in Seq(Commands) /\ Len(q) \in Nat \ {0}
         /\ Len(Tail(q)) = Len(q) - 1
         /\ \A i \in 1..Len(Tail(q)) : Tail(q)[i] = q[i + 1]
         /\ Head(q) = q[1]
  BY HeadTailProperties

\* A command joins the queue at its end.
LEMMA QueueAppend ==
  ASSUME NEW q \in Seq(Commands), NEW c \in Commands
  PROVE  /\ Append(q, c) \in Seq(Commands) /\ Len(q) \in Nat
         /\ Len(Append(q, c)) = Len(q) + 1 /\ Append(q, c) # <<>>
         /\ \A i \in 1..Len(q) : Append(q, c)[i] = q[i]
         /\ Append(q, c)[Len(q) + 1] = c
  BY AppendProperties

-----------------------------------------------------------------------------
(* Types.  Counting down is safe where AudioInv holds.                       *)

\* Every step keeps the types of the state.
LEMMA StepTypeOK ==
  ASSUME TypeOK, AudioInv, Next PROVE TypeOK'
<1> USE BoundsAssumption
<1>1. CASE InitLocks
  BY <1>1 DEF InitLocks, TypeOK
<1>2. CASE Listen
  BY <1>2 DEF Listen, pipe_listener_cb, TypeOK
<1>3. CASE ReadConfig
  BY <1>3 DEF ReadConfig, TypeOK
<1>4. CASE CommandPipeInit
  <2>1. tid' \in BOOLEAN
    BY <1>4, Zenon DEF CommandPipeInit, TypeOK
  <2> QED
    BY <1>4, <2>1 DEF CommandPipeInit, TypeOK
<1>5. CASE MainDel
  <2>1. CASE mpc = "stop" /\ DelBuffer
    BY <1>5, <2>1 DEF MainDel, DelBuffer, Needs, TypeOK
  <2>2. CASE mpc = "stop" /\ UNCHANGED <<misuse, buffers>>
    BY <1>5, <2>2 DEF MainDel, TypeOK
  <2>3. CASE mpc = "del2"
    BY <1>5, <2>3 DEF MainDel, DelEvent, Needs, TypeOK
  <2>4. CASE mpc = "del3"
    BY <1>5, <2>4 DEF MainDel, DelPipe, Needs, TypeOK
  <2> QED
    BY <1>5, <2>1, <2>2, <2>3, <2>4 DEF MainDel
<1>6. CASE MainBreak
  BY <1>6 DEF MainBreak, TypeOK
<1>7. CASE FreeTimer
  BY <1>7 DEF FreeTimer, Needs, TypeOK
<1>8. CASE FreeBase
  <2>1. tid' \in BOOLEAN
    BY <1>8, Zenon DEF FreeBase, TypeOK
  <2> QED
    BY <1>8, <2>1 DEF FreeBase, TypeOK
<1>9. CASE Unlisten
  <2>1. listening' \in BOOLEAN
    BY <1>9, Zenon DEF Unlisten, TypeOK
  <2> QED
    BY <1>9, <2>1 DEF Unlisten, TypeOK
<1>10. CASE StopAudio
  BY <1>10 DEF StopAudio, TypeOK
<1>11. CASE JoinAudio
  <2>1. aud' \in BOOLEAN /\ tidaud' \in BOOLEAN
    BY <1>11, Zenon DEF JoinAudio, TypeOK
  <2> QED
    BY <1>11, <2>1 DEF JoinAudio, TypeOK
<1>12. CASE DestroyLocks
  BY <1>12 DEF DestroyLocks, TypeOK
<1>13. CASE CreatePipe
  BY <1>13 DEF CreatePipe, TypeOK
<1>14. CASE WatchAdd
  BY <1>14 DEF WatchAdd, Needs, TypeOK
<1>15. CASE TimerNew
  BY <1>15 DEF TimerNew, Needs, TypeOK
<1>16. CASE Dispatch
  <2>1. broken' \in BOOLEAN
    BY <1>16, Zenon DEF Dispatch, Needs, TypeOK
  <2> QED
    BY <1>16, <2>1 DEF Dispatch, Needs, TypeOK
<1>17. CASE Loop
  BY <1>17 DEF Loop, Needs, TypeOK
<1>18. CASE Tick
  BY <1>18 DEF Tick, TypeOK
<1>19. CASE ReadCb
  BY <1>19 DEF ReadCb, Needs, TypeOK
<1>20. CASE Reopen
  <2>1. CASE Needs([base |-> base])
    BY <1>20, <2>1 DEF Reopen, Needs, TypeOK
  <2>2. CASE UNCHANGED misuse
    BY <1>20, <2>2 DEF Reopen, TypeOK
  <2> QED
    BY <1>20, <2>1, <2>2 DEF Reopen
<1>21. CASE ParseCb
  BY <1>21 DEF ParseCb, Needs, TypeOK
<1>22. CASE ActCb
  BY <1>22 DEF ActCb, Needs, TypeOK
<1>23. CASE CmdDel
  <2>1. CASE cpc = "del1" /\ DelBuffer
    BY <1>23, <2>1 DEF CmdDel, DelBuffer, Needs, TypeOK
  <2>2. CASE cpc = "del1" /\ UNCHANGED <<misuse, buffers>>
    BY <1>23, <2>2 DEF CmdDel, TypeOK
  <2>3. CASE cpc = "del2"
    BY <1>23, <2>3 DEF CmdDel, DelEvent, Needs, TypeOK
  <2>4. CASE cpc = "del3"
    BY <1>23, <2>4 DEF CmdDel, DelPipe, Needs, TypeOK
  <2> QED
    BY <1>23, <2>1, <2>2, <2>3, <2>4 DEF CmdDel
<1>24. CASE Notify
  BY <1>24 DEF Notify, pipe_listener_cb, TypeOK
<1>25. CASE UpdateList
  <2>1. Tail(queue) \in Seq(Commands) /\ Len(queue) \in Nat \ {0} /\ Head(queue) = queue[1]
    BY <1>25, QueueTail DEF UpdateList, TypeOK, Commands
  <2>2. mpc # "clearing" \/ Len(queue) # 1
    BY <1>25, <2>1 DEF UpdateList, AudioInv
  <2>3. /\ allocated \in Nat /\ watched \in Nat
        /\ allocated + (IF mpc = "clearing" THEN 1 ELSE 0) = Len(queue) + watched
    BY DEF Next, Running, AudioInv, TypeOK
  <2>4. allocated >= 1
    BY <2>1, <2>2, <2>3
  <2> QED
    BY <1>25, <2>1, <2>4 DEF UpdateList, WatchNew, TypeOK, Commands
<1>26. CASE ClearList
  <2>1. Tail(queue) \in Seq(Commands) /\ Len(queue) \in Nat \ {0} /\ Head(queue) = queue[1]
    BY <1>26, QueueTail DEF ClearList, TypeOK, Commands
  <2>2. allocated >= watched
    BY <1>26, <2>1 DEF Next, Running, AudioInv, TypeOK
  <2> QED
    BY <1>26, <2>1, <2>2 DEF ClearList, TypeOK, Commands
<1>27. CASE Signal
  BY <1>27 DEF Signal, TypeOK
<1> QED
  BY <1>1, <1>2, <1>3, <1>4, <1>5, <1>6, <1>7, <1>8, <1>9, <1>10, <1>11, <1>12, <1>13,
     <1>14, <1>15, <1>16, <1>17, <1>18, <1>19, <1>20, <1>21, <1>22, <1>23, <1>24, <1>25,
     <1>26, <1>27 DEF Next, MainStep, CmdStep, AudStep

-----------------------------------------------------------------------------
(* The pipes of mass_aud                                                     *)

\* Where the stop has not reached mass_aud
Quiet == {"config", "spawn", "run", "failed", "unlisten"} \cup StoppingCommand

\* A step that does not touch mass_aud or its listener keeps AudioInv.
LEMMA AudioFrame ==
  ASSUME TypeOK, AudioInv, UNCHANGED <<audio, listening>>,
         mpc' \in {mpc, "exit"} \/ (mpc \in Quiet /\ mpc' \in Quiet)
  PROVE  AudioInv'
<1>1. CASE mpc' = mpc
  BY <1>1 DEF AudioInv
<1>2. CASE mpc' = "exit"
  BY <1>2 DEF AudioInv
<1>3. CASE mpc \in Quiet /\ mpc' \in Quiet
  BY <1>3 DEF AudioInv, Quiet
<1> QED
  BY <1>1, <1>2, <1>3

\* An update that joins the queue with its pipe keeps the account.
LEMMA AudioAppend ==
  ASSUME TypeOK, AudioInv, pipe_listener_cb, mpc \in Quiet \cup {"listen"},
         mpc' \in Quiet
  PROVE  AudioInv'
<1>1. /\ queue' = Append(queue, "update") /\ Len(queue) \in Nat
      /\ Len(queue') = Len(queue) + 1 /\ queue'[Len(queue) + 1] = "update"
      /\ \A i \in 1..Len(queue) : queue'[i] = queue[i]
  BY QueueAppend DEF pipe_listener_cb, TypeOK, Commands
<1>2. \A i \in 1..Len(queue') : queue'[i] # "clear"
  BY <1>1 DEF AudioInv, Quiet
<1>3. /\ allocated' = allocated + 1 /\ allocated = Len(queue) + watched
      /\ allocated \in Nat /\ watched \in Nat
      /\ watched' = watched /\ starts' = starts /\ starts = watched
  BY DEF pipe_listener_cb, AudioInv, Quiet, TypeOK
<1>4. allocated' = Len(queue') + watched'
  BY <1>1, <1>3
<1> QED
  BY <1>2, <1>3, <1>4 DEF AudioInv, Quiet

\* Every step keeps the account of the pipes.
LEMMA StepAudioInv ==
  ASSUME TypeOK, AudioInv, Next PROVE AudioInv'
<1>1. CASE InitLocks
  BY <1>1 DEF InitLocks, AudioInv
<1>2. CASE Listen
  BY <1>2, AudioAppend DEF Listen, Quiet
<1>3. CASE Unlisten
  BY <1>3 DEF Unlisten, AudioInv
<1>4. CASE StopAudio
  <2>1. /\ queue' = Append(queue, "clear") /\ Len(queue) \in Nat
        /\ Len(queue') = Len(queue) + 1 /\ queue' # <<>> /\ queue'[Len(queue) + 1] = "clear"
        /\ \A i \in 1..Len(queue) : queue'[i] = queue[i]
    BY <1>4, QueueAppend DEF StopAudio, TypeOK, Commands
  <2>2. \A i \in 1..Len(queue') : queue'[i] = "clear" <=> i = Len(queue')
    BY <1>4, <2>1 DEF StopAudio, AudioInv
  <2>3. /\ allocated' = allocated /\ allocated = Len(queue) + watched
        /\ allocated \in Nat /\ watched \in Nat
        /\ watched' = watched /\ starts' = starts /\ starts = watched
        /\ mpc = "stopaud" /\ mpc' = "clearing" /\ ~listening'
    BY <1>4 DEF StopAudio, AudioInv, TypeOK
  <2>4. allocated' + 1 = Len(queue') + watched'
    BY <2>1, <2>3
  <2> QED
    BY <2>1, <2>2, <2>3, <2>4 DEF AudioInv
<1>5. CASE JoinAudio
  BY <1>5 DEF JoinAudio, AudioInv
<1>6. CASE DestroyLocks
  BY <1>6 DEF DestroyLocks, AudioInv
<1>7. CASE Notify
  <2>1. mpc \in Quiet
    BY <1>7 DEF Notify, AudioInv, Quiet, TypeOK, Next, Running
  <2> QED
    BY <1>7, <2>1, AudioAppend DEF Notify
<1>8. CASE UpdateList
  <2>1. /\ queue' = Tail(queue) /\ queue # <<>> /\ Head(queue) = "update"
        /\ queue \in Seq(Commands) /\ mpc' = mpc /\ listening' = listening
    BY <1>8 DEF UpdateList, TypeOK, Commands
  <2>2. /\ Len(queue) \in Nat \ {0} /\ Len(queue') = Len(queue) - 1
        /\ \A i \in 1..Len(queue') : queue'[i] = queue[i + 1]
        /\ queue[1] = "update" /\ queue' \in Seq(Commands)
    BY <2>1, QueueTail
  <2>3. mpc = "clearing" => Len(queue) # 1
    BY <2>2, <1>8 DEF AudioInv, Next, Running
  <2>4. \A i \in 1..Len(queue') : queue'[i] = "clear" <=> mpc' = "clearing" /\ i = Len(queue')
    <3>1. \A j \in 1..Len(queue) : queue[j] = "clear" <=> mpc = "clearing" /\ j = Len(queue)
      BY DEF AudioInv, Next, Running
    <3>2. ASSUME NEW i \in 1..Len(queue')
          PROVE  queue'[i] = "clear" <=> mpc' = "clearing" /\ i = Len(queue')
      <4>1. i \in Nat /\ i + 1 \in 1..Len(queue) /\ queue'[i] = queue[i + 1]
        BY <2>2
      <4>2. queue[i + 1] = "clear" <=> mpc = "clearing" /\ i + 1 = Len(queue)
        BY <3>1, <4>1
      <4>3. i + 1 = Len(queue) <=> i = Len(queue')
        BY <2>2, <4>1
      <4> QED
        BY <2>1, <4>1, <4>2, <4>3
    <3> QED
      BY <3>2
  <2>5. /\ mpc # "exit" /\ allocated \in Nat /\ watched \in {0, 1}
        /\ allocated + (IF mpc = "clearing" THEN 1 ELSE 0) = Len(queue) + watched
        /\ mpc \notin {"destroy", "unlock", "done", "locks", "listen"} /\ starts = watched
    BY <2>1 DEF AudioInv, Next, Running, TypeOK
  <2>6. /\ allocated' + (IF mpc' = "clearing" THEN 1 ELSE 0) = Len(queue') + watched'
        /\ watched' = 1 /\ starts' = 1
    BY <1>8, <2>1, <2>2, <2>5 DEF UpdateList, WatchNew
  <2>7. mpc = "clearing" => queue' # <<>>
    BY <2>1, <2>2, <2>3
  <2> QED
    BY <2>1, <2>4, <2>5, <2>6, <2>7 DEF AudioInv
<1>9. CASE ClearList
  <2>1. /\ queue' = Tail(queue) /\ queue # <<>> /\ Head(queue) = "clear"
        /\ queue \in Seq(Commands) /\ mpc' = "destroy" /\ listening' = listening
        /\ watched' = 0 /\ allocated' = allocated - watched /\ starts' = starts
    BY <1>9 DEF ClearList, TypeOK, Commands
  <2>2. /\ Len(queue) \in Nat \ {0} /\ Len(queue') = Len(queue) - 1
        /\ queue[1] = "clear" /\ queue' \in Seq(Commands)
    BY <2>1, QueueTail
  <2>3. mpc = "clearing" /\ Len(queue) = 1
    BY <2>2 DEF AudioInv, Next, Running
  <2>4. queue' = <<>> /\ Len(queue') = 0
    BY <2>2, <2>3, EmptySeq
  <2>5. allocated \in Nat /\ watched \in {0, 1} /\ allocated + 1 = Len(queue) + watched
        /\ starts \in {0, 1} /\ ~listening
    BY <2>3 DEF AudioInv, TypeOK
  <2>6. allocated' = 0
    BY <2>1, <2>3, <2>5
  <2>7. \A i \in 1..Len(queue') : FALSE
    BY <2>4
  <2> QED
    BY <2>1, <2>4, <2>5, <2>6, <2>7 DEF AudioInv
<1>10. CASE ReadConfig \/ CommandPipeInit \/ MainDel \/ MainBreak \/ FreeTimer \/ FreeBase
            \/ CreatePipe \/ WatchAdd \/ TimerNew \/ Dispatch \/ Loop \/ Tick \/ ReadCb
            \/ Reopen \/ ParseCb \/ ActCb \/ CmdDel \/ Signal
  BY <1>10, AudioFrame
     DEF Quiet, ReadConfig, CommandPipeInit, MainDel, MainBreak, FreeTimer, FreeBase,
         CreatePipe, WatchAdd, TimerNew, Dispatch, Loop, Tick, ReadCb, Reopen, ParseCb, ActCb, CmdDel, Signal
<1> QED
  BY <1>1, <1>2, <1>3, <1>4, <1>5, <1>6, <1>7, <1>8, <1>9, <1>10 DEF Next, MainStep,
     CmdStep, AudStep

-----------------------------------------------------------------------------
(* The command pipe before the stop                                          *)

\* Every step keeps what mass_cmd relies on.
LEMMA StepCommandInv ==
  ASSUME TypeOK, CommandInv, Next PROVE CommandInv'
<1> SUFFICES ASSUME mpc' \in Starting PROVE CommandInv'
  BY DEF CommandInv
<1> USE DEF Next, Running
<1>1. CASE InitLocks
  BY <1>1 DEF InitLocks, CommandInv
<1>2. CASE Listen
  BY <1>2 DEF Listen, CommandInv, pipe_listener_cb
<1>3. CASE ReadConfig
  BY <1>3 DEF ReadConfig, CommandInv
<1>4. CASE CommandPipeInit
  BY <1>4 DEF CommandPipeInit, CommandInv
<1>5. CASE MainDel \/ MainBreak \/ FreeTimer \/ FreeBase \/ Unlisten \/ StopAudio
            \/ JoinAudio \/ DestroyLocks \/ ClearList \/ Signal
  BY <1>5 DEF MainDel, MainBreak, FreeTimer, FreeBase, Unlisten, StopAudio, JoinAudio,
         DestroyLocks, ClearList, Signal
<1>6. CASE Notify \/ UpdateList
  BY <1>6 DEF Notify, UpdateList, CommandInv
<1>7. CASE CmdStep
  <2>1. mpc = "run" /\ mpc' = "run"
    BY <1>7 DEF CmdStep, CreatePipe, WatchAdd, TimerNew, Dispatch, Loop, Tick, ReadCb,
           Reopen, ParseCb, ActCb, CmdDel, CommandInv
  <2>2. /\ misuse = {} /\ locks = "live" /\ base = "live"
        /\ locks' = locks /\ base' = base
    BY <1>7, <2>1 DEF CmdStep, CreatePipe, WatchAdd, TimerNew, Dispatch, Loop, Tick,
       ReadCb,
           Reopen, ParseCb, ActCb, CmdDel, CommandInv
  <2>3. CASE CreatePipe
    BY <2>1, <2>2, <2>3 DEF CreatePipe, CommandInv
  <2>4. CASE WatchAdd
    BY <2>1, <2>2, <2>4 DEF WatchAdd, Needs, CommandInv
  <2>5. CASE TimerNew
    BY <2>1, <2>2, <2>5, NeedsBase DEF TimerNew, CommandInv
  <2>6. CASE Dispatch
    BY <2>1, <2>2, <2>6, NeedsBase DEF Dispatch, CommandInv
  <2>7. CASE Loop
    BY <2>1, <2>2, <2>7, NeedsBase DEF Loop, CommandInv
  <2>8. CASE Tick
    BY <2>1, <2>2, <2>8 DEF Tick, CommandInv
  <2>9. CASE ReadCb
    BY <2>1, <2>2, <2>9, NeedsBuffer DEF ReadCb, CommandInv
  <2>10. CASE Reopen
    BY <2>1, <2>2, <2>10, NeedsBase DEF Reopen, CommandInv
  <2>11. CASE ParseCb
    BY <2>1, <2>2, <2>11 DEF ParseCb, Needs, CommandInv
  <2>12. CASE ActCb
    BY <2>1, <2>2, <2>12, NeedsLocks DEF ActCb, CommandInv
  <2>13. CASE CmdDel
    BY <2>1, <2>2, <2>13 DEF CmdDel, DelBuffer, DelEvent, DelPipe, Needs, CommandInv
  <2> QED
    BY <1>7, <2>3, <2>4, <2>5, <2>6, <2>7, <2>8, <2>9, <2>10, <2>11, <2>12, <2>13 DEF
       CmdStep
<1> QED
  BY <1>1, <1>2, <1>3, <1>4, <1>5, <1>6, <1>7 DEF MainStep, AudStep

-----------------------------------------------------------------------------
(* The invariant and what follows from it                                    *)

\* The start of the process satisfies the invariant.
LEMMA InitIInv == Init => IInv
<1> SUFFICES ASSUME Init PROVE IInv
  OBVIOUS
<1>1. TypeOK
  <2>1. /\ listening \in BOOLEAN /\ tid \in BOOLEAN /\ broken \in BOOLEAN
        /\ tidaud \in BOOLEAN /\ aud \in BOOLEAN
    BY Zenon DEF Init
  <2>2. queue \in Seq({"update", "clear"}) /\ notifies \in 0..MaxNotify
    BY BoundsAssumption DEF Init
  <2> QED
    BY <2>1, <2>2 DEF Init, TypeOK
<1>2. AudioInv
  BY DEF Init, AudioInv
<1>3. CommandInv
  BY DEF Init, CommandInv
<1> QED
  BY <1>1, <1>2, <1>3 DEF IInv

\* Every step, and every stutter, keeps it.
LEMMA StepIInv == IInv /\ [Next]_vars => IInv'
<1> SUFFICES ASSUME IInv, [Next]_vars PROVE IInv'
  OBVIOUS
<1>1. CASE Next
  BY <1>1, StepTypeOK, StepAudioInv, StepCommandInv DEF IInv
<1>2. CASE UNCHANGED vars
  BY <1>2 DEF vars, IInv, TypeOK, AudioInv, CommandInv
<1> QED
  BY <1>1, <1>2

\* In every behaviour: the types of the state, the account of the audio pipes, and what
\* mass_cmd finds before the stop.
LEMMA Invariant == Spec => []IInv
<1>1. IInv /\ [Next]_vars => IInv'
  BY StepIInv
<1> QED
  BY InitIInv, <1>1, PTL DEF Spec

\* Every variable keeps its type; in particular no audio pipe is freed that was not
\* allocated.
THEOREM LifecycleTypes == Spec => []TypeOK
<1>1. IInv => TypeOK
  BY DEF IInv
<1> QED
  BY Invariant, <1>1, PTL

\* Until SIGTERM nothing freed is used: mass_cmd, with whatever of its opens, reads and
\* lines failing, and mass_init before it.
THEOREM NoMisuse == Spec => []NoMisuseBeforeStop
<1>1. IInv => NoMisuseBeforeStop
  BY DEF IInv, CommandInv, NoMisuseBeforeStop
<1> QED
  BY Invariant, <1>1, PTL

\* However many events the listener gets, pipe_watch_update starts the playback of stdin
\* once.
THEOREM StartsOnce == Spec => []AudioStartsOnce
<1>1. IInv => AudioStartsOnce
  BY DEF IInv, AudioInv, AudioStartsOnce
<1> QED
  BY Invariant, <1>1, PTL

\* When mass_deinit is over every audio pipe made for an event has been freed, those
\* of the events still in the queue when the stop came included.
THEOREM PipesAreFreed == Spec => []AudioPipesAreFreed
<1>1. ASSUME IInv, mpc = "done" PROVE allocated = 0 /\ queue = <<>> /\ ~aud
  <2>1. queue = <<>> /\ watched = 0 /\ ~aud /\ allocated + 0 = Len(queue) + watched
    BY <1>1 DEF IInv, AudioInv
  <2>2. Len(queue) = 0 /\ allocated \in Nat
    BY <1>1, <2>1, EmptySeq DEF IInv, TypeOK
  <2> QED
    BY <2>1, <2>2
<1>2. IInv => AudioPipesAreFreed
  BY <1>1 DEF AudioPipesAreFreed
<1> QED
  BY Invariant, <1>2, PTL

-----------------------------------------------------------------------------
(* main around the threads.                                                *)

HIDE DEF buffers, Starting, StoppingCommand, StoppingAudio, Life
USE DEF mainVars, signals

SInv == IInv /\ StartupTypeOK /\ MainInv

-----------------------------------------------------------------------------
(* The steps of Lifecycle among those of main.                               *)

\* A step of main or of a thread is a step of Lifecycle, or changes nothing of it.
LEMMA StepKeepsLifecycle == [StartupNext]_startupVars => [Next]_vars
<1>1. ASSUME MainThread PROVE [Next]_vars
  <2>1. CASE PlayerInit
    BY <2>1 DEF PlayerInit, Next, MainStep
  <2>2. CASE PlayerDeinit
    BY <2>2 DEF PlayerDeinit, Next, MainStep
  <2>3. CASE SetUp \/ GiveUp \/ Fail \/ TakeDown
    BY <2>3 DEF SetUp, GiveUp, Fail, TakeDown
  <2>4. CASE Activate \/ ReadSignal \/ ReadDone \/ LoopEnds \/ FreeSigEvent
    BY <2>4 DEF Activate, ReadSignal, ReadDone, LoopEnds, FreeSigEvent
  <2> QED
    BY <1>1, <2>1, <2>2, <2>3, <2>4 DEF MainThread
<1>2. ASSUME Threads PROVE [Next]_vars
  BY <1>2 DEF Threads, Next
<1>3. ASSUME NEW s \in Signals, Send(s) PROVE [Next]_vars
  BY <1>3 DEF Send
<1>4. CASE UNCHANGED startupVars
  BY <1>4 DEF startupVars
<1> QED
  BY <1>1, <1>2, <1>3, <1>4 DEF StartupNext

-----------------------------------------------------------------------------
(* The stages of main.                                                       *)

Stages == DOMAIN After \cup DOMAIN Releases \cup
          {"player", "loop", "reading", "free_sigevent"}

\* What main holds is known at every stage until it is over.
LEMMA HoldsAtStages == Stages = DOMAIN Holds
  BY DEF Stages, After, Releases, Holds

\* What follows each stage.
LEMMA AfterValues ==
  /\ After["arguments"] = "logger"
  /\ After["logger"] = "config"
  /\ After["config"] = "settings"
  /\ After["settings"] = "pipe"
  /\ After["pipe"] = "txt"
  /\ After["txt"] = "curl"
  /\ After["curl"] = "gcrypt"
  /\ After["gcrypt"] = "signalmask"
  /\ After["signalmask"] = "evbase"
  /\ After["evbase"] = "worker"
  /\ After["worker"] = "player"
  /\ After["signalfd"] = "sigevent"
  /\ After["sigevent"] = "loop"
  BY DEF After

\* The stages of the table After.
LEMMA AfterDomain ==
  DOMAIN After =
     {"arguments", "logger", "config", "settings", "pipe", "txt", "curl", "gcrypt",
      "signalmask", "evbase", "worker", "signalfd", "sigevent"}
  BY DEF After

\* What each label releases and where it leads.
LEMMA ReleasesValues ==
  /\ Releases["free_player"] = <<"player", "free_worker">>
  /\ Releases["free_worker"] = <<"worker", "free_evbase">>
  /\ Releases["free_evbase"] = <<"evbase", "free_curl">>
  /\ Releases["free_curl"] = <<"curl", "free_txt">>
  /\ Releases["free_txt"] = <<"txt", "free_config">>
  /\ Releases["free_config"] = <<"config", "free_logger">>
  /\ Releases["free_logger"] = <<"logger", "ended">>
  BY DEF Releases

\* The labels of the table Releases.
LEMMA ReleasesDomain ==
  DOMAIN Releases =
     {"free_player", "free_worker", "free_evbase", "free_curl", "free_txt",
      "free_config", "free_logger"}
  BY DEF Releases

\* The label for each stage that fails.
LEMMA LabelValues ==
  /\ Label["txt"] = "free_txt"
  /\ Label["gcrypt"] = "free_curl"
  /\ Label["signalmask"] = "free_curl"
  /\ Label["worker"] = "free_evbase"
  /\ Label["player"] = "free_worker"
  /\ Label["signalfd"] = "free_player"
  /\ Label["sigevent"] = "free_player"
  BY DEF Label

\* The stages of the table Label.
LEMMA LabelDomain ==
  DOMAIN Label =
     {"txt", "gcrypt", "signalmask", "worker", "player", "signalfd", "sigevent"}
  BY DEF Label

\* What main holds at each stage.
LEMMA HoldsValues ==
  /\ Holds["arguments"] = {}
  /\ Holds["logger"] = {}
  /\ Holds["config"] = {"logger"}
  /\ Holds["settings"] = {"logger", "config"}
  /\ Holds["pipe"] = {"logger", "config"}
  /\ Holds["txt"] = {"logger", "config"}
  /\ Holds["curl"] = {"logger", "config", "txt"}
  /\ Holds["gcrypt"] = {"logger", "config", "txt", "curl"}
  /\ Holds["signalmask"] = {"logger", "config", "txt", "curl"}
  /\ Holds["evbase"] = {"logger", "config", "txt", "curl"}
  /\ Holds["worker"] = {"logger", "config", "txt", "curl", "evbase"}
  /\ Holds["player"] = {"logger", "config", "txt", "curl", "evbase", "worker"}
  /\ Holds["signalfd"] = Releasable
  /\ Holds["sigevent"] = Releasable
  /\ Holds["loop"] = Releasable
  /\ Holds["reading"] = Releasable
  /\ Holds["free_sigevent"] = Releasable
  /\ Holds["free_player"] = Releasable
  /\ Holds["free_worker"] = {"logger", "config", "txt", "curl", "evbase", "worker"}
  /\ Holds["free_evbase"] = {"logger", "config", "txt", "curl", "evbase"}
  /\ Holds["free_curl"] = {"logger", "config", "txt", "curl"}
  /\ Holds["free_txt"] = {"logger", "config", "txt"}
  /\ Holds["free_config"] = {"logger", "config"}
  /\ Holds["free_logger"] = {"logger"}
  BY DEF Holds

\* The stages and labels of the table Holds.
LEMMA HoldsDomain ==
  DOMAIN Holds =
     {"arguments", "logger", "config", "settings", "pipe", "txt", "curl", "gcrypt",
      "signalmask", "evbase", "worker", "player", "signalfd", "sigevent",
      "loop", "reading", "free_sigevent", "free_player", "free_worker",
      "free_evbase", "free_curl", "free_txt", "free_config", "free_logger"}
  BY DEF Holds


\* A stage that succeeds adds what it is named for.
LEMMA AfterHolds ==
  ASSUME NEW p \in DOMAIN After
  PROVE  Holds[After[p]] = Holds[p] \cup ({p} \cap Releasable)
<1>1. CASE p = "arguments"
  BY <1>1, AfterValues, HoldsValues DEF Releasable
<1>2. CASE p = "logger"
  BY <1>2, AfterValues, HoldsValues DEF Releasable
<1>3. CASE p = "config"
  BY <1>3, AfterValues, HoldsValues DEF Releasable
<1>4. CASE p = "settings"
  BY <1>4, AfterValues, HoldsValues DEF Releasable
<1>5. CASE p = "pipe"
  BY <1>5, AfterValues, HoldsValues DEF Releasable
<1>6. CASE p = "txt"
  BY <1>6, AfterValues, HoldsValues DEF Releasable
<1>7. CASE p = "curl"
  BY <1>7, AfterValues, HoldsValues DEF Releasable
<1>8. CASE p = "gcrypt"
  BY <1>8, AfterValues, HoldsValues DEF Releasable
<1>9. CASE p = "signalmask"
  BY <1>9, AfterValues, HoldsValues DEF Releasable
<1>10. CASE p = "evbase"
  BY <1>10, AfterValues, HoldsValues DEF Releasable
<1>11. CASE p = "worker"
  BY <1>11, AfterValues, HoldsValues DEF Releasable
<1>12. CASE p = "signalfd"
  BY <1>12, AfterValues, HoldsValues DEF Releasable
<1>13. CASE p = "sigevent"
  BY <1>13, AfterValues, HoldsValues DEF Releasable
<1> QED
  BY <1>1, <1>2, <1>3, <1>4, <1>5, <1>6, <1>7, <1>8, <1>9, <1>10, <1>11, <1>12, <1>13, AfterDomain

\* It leads on to the player, or from there to the loop.
LEMMA AfterStage ==
  ASSUME NEW p \in DOMAIN After
  PROVE  /\ \/ p \in BeforePlayer /\ After[p] \in BeforePlayer \cup {"player"}
            \/ p \in {"signalfd", "sigevent"} /\ After[p] \in {"sigevent", "loop"}
         /\ p \in BeforeMask \ {"signalmask"} => After[p] \in BeforeMask
         /\ After[p] = "loop" => p = "sigevent"
  BY AfterDomain, AfterValues DEF BeforeMask, BeforePlayer

\* A label releases one thing that is held there and falls through to the next label.
LEMMA ReleaseStage ==
  ASSUME NEW p \in DOMAIN Releases
  PROVE  /\ p \in DOMAIN Holds /\ Releases[p][1] \in Holds[p]
         /\ p \in AfterPlayer \cup {"free_player"}
         /\ \/ Releases[p][2] = "ended" /\ Holds[p] \ {Releases[p][1]} = {}
            \/ /\ Releases[p][2] \in AfterPlayer
               /\ Holds[Releases[p][2]] = Holds[p] \ {Releases[p][1]}
         /\ Releases[p][2] = "free_worker" => p = "free_player"
         /\ Releases[p][1] = "config" => p = "free_config"
  BY ReleasesDomain, ReleasesValues, HoldsDomain, HoldsValues DEF AfterPlayer, Releasable

\* A label that a failure leads to is the right one for what is held.
LEMMA LabelStage ==
  ASSUME NEW p \in DOMAIN Label
  PROVE  /\ p \in DOMAIN Holds /\ Label[p] \in DOMAIN Holds
         /\ Holds[Label[p]] = Holds[p] \cup ({p} \cap {"txt"})
         /\ \/ p \in BeforePlayer \cup {"player"} /\ Label[p] \in AfterPlayer
            \/ p \in {"signalfd", "sigevent"} /\ Label[p] = "free_player"
         /\ Label[p] = "free_worker" => p = "player"
<1>1. p \in DOMAIN Holds /\ Label[p] \in DOMAIN Holds
  BY DEF Label, Holds
<1>2. Holds[Label[p]] = Holds[p] \cup ({p} \cap {"txt"})
  <2>1. CASE p = "txt"
    <3>1. Holds[Label[p]] = {"logger", "config", "txt"} /\ Holds[p] = {"logger", "config"}
      BY <2>1, LabelValues, HoldsValues
    <3> QED
      BY <2>1, <3>1
  <2>2. CASE p # "txt"
    <3>1. Holds[Label[p]] = Holds[p]
      BY <2>2, LabelDomain, LabelValues, HoldsValues
    <3> QED
      BY <2>2, <3>1
  <2> QED
    BY <2>1, <2>2
<1>3. Label[p] = "free_worker" => p = "player"
  BY DEF Label
<1>4. \/ p \in BeforePlayer \cup {"player"} /\ Label[p] \in AfterPlayer
      \/ p \in {"signalfd", "sigevent"} /\ Label[p] = "free_player"
  BY DEF Label, BeforeMask, BeforePlayer, AfterPlayer
<1> QED
  BY <1>1, <1>2, <1>3, <1>4

\* Before there is a label main releases what it holds, or keeps logger and configuration.
LEMMA GiveUpStage ==
  ASSUME NEW p \in DOMAIN Released
  PROVE  /\ p \in DOMAIN Holds /\ p \in BeforePlayer
         /\ Holds[p] \ Released[p] \in {{}, {"logger", "config"}}
  BY DEF Released, Holds, BeforeMask, BeforePlayer

\* The stages at which main returns by itself.
LEMMA ReleasedDomain ==
  DOMAIN Released = {"arguments", "logger", "config", "settings", "pipe"}
  BY DEF Released

\* What a stage adds to what is to be released, and what is not.
LEMMA MakesDue ==
  ASSUME NEW p \in DOMAIN After \cup DOMAIN Label
  PROVE  /\ Makes(p) \ NeverReleased = {p} \cap Releasable
         /\ Makes(p) \subseteq Resources
         /\ p \in DOMAIN Released => Makes(p) \cap NeverReleased = {}
         /\ "worker" \in Makes(p) => p = "worker"
  BY AfterDomain, LabelDomain
     DEF Makes, Releasable, NeverReleased, Resources, Released

\* What is due is held.
LEMMA DueHeld ==
  ASSUME NEW x \in Releasable
  PROVE  x \in held <=> x \in Due
  BY DEF Due, Releasable, NeverReleased

-----------------------------------------------------------------------------
(* Each step of main keeps what is known at the stages.                      *)

\* The pc is a stage, or main is over.
LEMMA StageOrOver == StartupTypeOK => pc \in DOMAIN Holds \cup {"ended", "killed"}
  BY HoldsAtStages DEF StartupTypeOK, Stages

\* A stage that succeeds keeps what is known.
LEMMA SetUpKeeps == ASSUME SInv, SetUp PROVE MainInv'
<1> USE DEF MainInv, BeforeMask, BeforePlayer, WithPlayer, AfterPlayer
<1>0. pc \in DOMAIN Holds
  BY HoldsAtStages DEF SetUp, Stages
<1>1. /\ pc \in DOMAIN After /\ pc' = After[pc]
      /\ held' = held \cup Makes(pc) /\ Due = Holds[pc]
      /\ UNCHANGED <<mpc, aud, cpc, locks, unmade, main_exit>>
  BY <1>0 DEF SetUp, SInv, vars
<1>2. pc' \in DOMAIN Holds /\ Due' = Holds[pc']
  <2>1. Due' = Due \cup (Makes(pc) \ NeverReleased)
    BY <1>1 DEF Due
  <2>2. Due' = Holds[pc] \cup ({pc} \cap Releasable)
    BY <1>1, <2>1, MakesDue
  <2> QED
    BY <1>1, <2>2, AfterHolds, AfterStage, HoldsDomain
<1>3. /\ pc' \in BeforePlayer => mpc = "locks"
      /\ pc' = "player" => mpc = "locks"
      /\ pc' \in WithPlayer => mpc = "run"
      /\ pc' \notin AfterPlayer \cup {"free_sigevent", "free_player", "ended"}
  BY <1>1, AfterStage DEF SInv
<1>4. ~blocked' => mpc = "locks" /\ pc' \in BeforeMask /\ "worker" \notin held'
  BY <1>1, AfterStage, MakesDue DEF SInv, SetUp, StartupTypeOK
<1>5. pc' = "loop" => watch' = "added"
  BY <1>1, AfterStage DEF SetUp
<1>6. "config" \notin held' => ~aud \/ mpc = "failed"
  BY <1>1 DEF SInv
<1>7. pc' \in DOMAIN Released => held' = Due'
  <2>1. pc' \in DOMAIN Released => pc \in DOMAIN Released
    BY <1>1, AfterDomain, AfterValues, ReleasedDomain
  <2>2. ASSUME pc \in DOMAIN Released PROVE held' \cap NeverReleased = {}
    <3>1. held \cap NeverReleased = {}
      BY <2>2 DEF SInv, Due
    <3> QED
      BY <1>1, <2>2, <3>1, MakesDue
  <2> QED
    BY <2>1, <2>2 DEF Due
<1> QED
  BY <1>1, <1>2, <1>3, <1>4, <1>5, <1>6, <1>7, HoldsDomain DEF SInv

\* So do the early returns, before there are threads.
LEMMA GiveUpKeeps == ASSUME SInv, GiveUp PROVE MainInv'
<1> USE DEF MainInv, BeforeMask, BeforePlayer, WithPlayer, AfterPlayer
<1>1. /\ pc \in DOMAIN Released /\ pc' = "ended" /\ held' = held \ Released[pc]
      /\ held = Due /\ Due = Holds[pc] /\ mpc = "locks"
      /\ UNCHANGED <<mpc, aud, cpc, locks, unmade, blocked, watch, main_exit>>
  BY GiveUpStage DEF GiveUp, SInv, vars
<1>2. held' \in {{}, {"logger", "config"}}
  BY <1>1, GiveUpStage
<1>3. Due' = {} \/ held' = {"logger", "config"}
  BY <1>2 DEF Due
<1>4. pc' \notin DOMAIN Holds \cup DOMAIN Released
  BY <1>1, HoldsDomain, ReleasedDomain
<1>5. "worker" \notin held'
  BY <1>2
<1> QED
  BY <1>1, <1>3, <1>4, <1>5 DEF SInv

\* So does a failed stage, which leads to its label.
LEMMA FailKeeps == ASSUME SInv, Fail PROVE MainInv'
<1> USE DEF MainInv, BeforeMask, BeforePlayer, WithPlayer, AfterPlayer
<1>1. /\ pc \in DOMAIN Label /\ pc' = Label[pc] /\ Due = Holds[pc]
      /\ held' = IF pc = "txt" THEN held \cup Makes(pc) ELSE held
      /\ UNCHANGED <<mpc, aud, cpc, locks, unmade, blocked, watch, main_exit>>
  BY LabelStage DEF Fail, SInv, vars
<1>2. pc' \in DOMAIN Holds /\ Due' = Holds[pc']
  <2>1. Due' = Due \cup ({pc} \cap {"txt"})
    <3>1. CASE pc = "txt"
      <4>1. Due' = Due \cup (Makes(pc) \ NeverReleased)
        BY <1>1, <3>1 DEF Due
      <4> QED
        BY <1>1, <3>1, <4>1, MakesDue DEF Releasable
    <3>2. CASE pc # "txt"
      BY <1>1, <3>2 DEF Due
    <3> QED
      BY <3>1, <3>2
  <2> QED
    BY <1>1, <2>1, LabelStage
<1>3. \/ mpc = "locks" /\ pc' \in AfterPlayer
      \/ mpc = "run" /\ pc' = "free_player"
  BY <1>1, LabelStage DEF Fail, SInv
<1>4. ~blocked => mpc = "locks" /\ pc' \in AfterPlayer \ {"free_worker"} /\ "worker" \notin held'
  <2>1. "worker" \in held' => "worker" \in held
    BY <1>1, MakesDue
  <2> QED
    BY <1>1, <1>3, <2>1, LabelStage DEF SInv
<1>5. "config" \notin held' => ~aud \/ mpc = "failed"
  BY <1>1 DEF SInv
<1>6. pc' \notin DOMAIN Released
  BY <1>3, ReleasedDomain
<1> QED
  BY <1>1, <1>2, <1>3, <1>4, <1>5, <1>6 DEF SInv

\* The event loop and its signals: it is left only when main_exit is set.
LEMMA LoopKeeps ==
  ASSUME SInv, Activate \/ ReadSignal \/ ReadDone \/ LoopEnds \/ FreeSigEvent
  PROVE  MainInv'
<1> USE DEF MainInv, BeforeMask, BeforePlayer, WithPlayer, AfterPlayer
<1>1. /\ pc \in {"loop", "reading", "free_sigevent"} /\ Due = Releasable
      /\ UNCHANGED <<mpc, aud, cpc, locks, unmade, held, blocked>> /\ mpc = "run"
  BY HoldsDomain, HoldsValues
  DEF Activate, ReadSignal, ReadDone, LoopEnds, FreeSigEvent, SInv, vars
<1>2. /\ pc' \in {"loop", "reading", "free_sigevent", "free_player"}
      /\ pc' = "loop" => watch' = "added"
      /\ pc' = "free_sigevent" => main_exit'
  BY <1>1 DEF Activate, ReadSignal, ReadDone, LoopEnds, FreeSigEvent, SInv, StartupTypeOK
<1>3. Due' = Holds[pc'] /\ "config" \in held'
  BY <1>1, <1>2, HoldsValues DEF Due, Releasable
<1> QED
  BY <1>1, <1>2, <1>3, HoldsDomain, ReleasedDomain DEF SInv

\* The labels release one thing each, and the last of mass_deinit comes before.
LEMMA TakeDownKeeps == ASSUME SInv, TakeDown PROVE MainInv'
<1> USE DEF MainInv, BeforeMask, BeforePlayer, WithPlayer, AfterPlayer
<1>1. /\ pc \in DOMAIN Releases /\ pc' = Releases[pc][2] /\ Due = Holds[pc]
      /\ held' = held \ {Releases[pc][1]} /\ Releases[pc][1] \in Due
      /\ mpc \in {"locks", "failed", "done"}
      /\ UNCHANGED <<mpc, aud, cpc, locks, blocked, watch, main_exit>>
  BY ReleaseStage DEF TakeDown, SInv, vars
<1>2. unmade' = {}
  BY <1>1 DEF TakeDown, SInv, Due
<1>3. Due' = Due \ {Releases[pc][1]}
  BY <1>1 DEF Due
<1>4. \/ pc' = "ended" /\ Due' = {}
      \/ pc' \in AfterPlayer /\ Due' = Holds[pc']
  BY <1>1, <1>3, ReleaseStage
<1>5. ~blocked => mpc = "locks" /\ pc' # "free_worker" /\ "worker" \notin held'
  BY <1>1, ReleaseStage DEF SInv
<1>6. ~aud \/ mpc = "failed"
  BY <1>1 DEF SInv, IInv, AudioInv
<1> QED
  BY <1>1, <1>2, <1>4, <1>5, <1>6, HoldsDomain, ReleasedDomain DEF SInv

\* A signal changes nothing but what is pending, unless it ends the process.
LEMMA SendKeeps == ASSUME SInv, ~Over, NEW s \in Signals, Send(s) PROVE MainInv'
<1> USE DEF MainInv, BeforeMask, BeforePlayer, WithPlayer, AfterPlayer
<1>1. UNCHANGED <<mpc, aud, cpc, locks, unmade, held, blocked, watch, main_exit>>
  BY DEF Send, vars
<1>2. pc' = pc \/ (~blocked /\ pc' = "killed")
  BY DEF Send
<1>3. Due' = Due
  BY <1>1 DEF Due
<1> QED
  BY <1>1, <1>2, <1>3, HoldsDomain, ReleasedDomain DEF SInv

\* mass_init in main: each of its steps goes on, or main goes to a label.
LEMMA PlayerInitKeeps == ASSUME SInv, PlayerInit PROVE MainInv'
<1> USE DEF MainInv, BeforeMask, BeforePlayer, WithPlayer, AfterPlayer
<1>1. /\ pc = "player" /\ Due = Holds["player"] /\ blocked
      /\ UNCHANGED <<unmade, blocked, watch, main_exit>>
  BY HoldsDomain DEF PlayerInit, SInv
<1>2. /\ mpc' \in {"listen", "config", "spawn", "failed", "run"}
      /\ mpc' # "run" => cpc' = "none"
  BY <1>1 DEF PlayerInit, InitLocks, Listen, ReadConfig, CommandPipeInit, SInv
<1>3. \/ pc' = "player" /\ held' = held /\ mpc' \in {"listen", "config", "spawn"}
      \/ pc' = "free_worker" /\ held' = held /\ mpc' = "failed"
      \/ pc' = "signalfd" /\ held' = held \cup {"player"} /\ mpc' = "run"
  BY <1>1, <1>2, LabelValues DEF PlayerInit
<1>4. Due' = Holds[pc'] /\ "config" \in held'
  <2>1. \/ pc' \in {"player", "free_worker"} /\ Due' = Due
        \/ pc' = "signalfd" /\ Due' = Due \cup {"player"}
    BY <1>3 DEF Due, NeverReleased
  <2>2. Due' = Holds[pc']
    BY <1>1, <2>1, HoldsValues DEF Releasable
  <2>3. "config" \in Due
    BY <1>1, HoldsValues
  <2> QED
    BY <1>3, <2>2, <2>3 DEF Due
<1> QED
  BY <1>1, <1>2, <1>3, <1>4, HoldsDomain, ReleasedDomain DEF SInv

\* mass_deinit in main
LEMMA PlayerDeinitKeeps == ASSUME SInv, PlayerDeinit PROVE MainInv'
<1> USE DEF MainInv, BeforeMask, BeforePlayer, WithPlayer, AfterPlayer
<1>1. /\ pc = "free_player" /\ Due = Holds["free_player"] /\ blocked
      /\ UNCHANGED <<pc, held, unmade, blocked, watch, main_exit>>
  BY HoldsDomain DEF PlayerDeinit, SInv
<1>2. mpc' \in StoppingCommand \cup StoppingAudio
  BY DEF PlayerDeinit, Signal, MainDel, MainBreak, FreeTimer, FreeBase, Unlisten, StopAudio,
         JoinAudio, DestroyLocks, StoppingCommand, StoppingAudio
<1>3. mpc' \notin {"locks", "listen", "config", "spawn", "failed"}
  BY <1>2 DEF StoppingCommand, StoppingAudio
<1>4. "config" \in held' /\ Due' = Due
  BY <1>1, HoldsValues DEF Due, Releasable
<1> QED
  BY <1>1, <1>2, <1>3, <1>4, HoldsDomain, ReleasedDomain DEF SInv

\* What the threads do to the place where main is: nothing before they are there, and
\* later mass_timer_cb may end the process and mass_aud answer the last command.
LEMMA ThreadsKeep == ASSUME SInv, Threads PROVE MainInv'
<1> USE DEF MainInv, BeforeMask, BeforePlayer, WithPlayer, AfterPlayer
<1>1. /\ mpc' \in {mpc, "exit"} \/ (mpc = "clearing" /\ mpc' = "destroy")
      /\ mpc # "exit" /\ UNCHANGED <<locks, listening>>
  BY DEF Threads, Running, CmdStep, AudStep, CreatePipe, WatchAdd, TimerNew, Dispatch, Loop,
         Tick, ReadCb, Reopen, ParseCb, ActCb, CmdDel, UpdateList, ClearList, Notify, SInv,
         IInv, AudioInv
<1>2. /\ cpc = "none" => cpc' = "none"
      /\ mpc' = "exit" => cpc # "none"
  BY <1>1 DEF Threads, CmdStep, AudStep, CreatePipe, WatchAdd, TimerNew, Dispatch, Loop,
         Tick, ReadCb, Reopen, ParseCb, ActCb, CmdDel, UpdateList, ClearList, Notify
<1>3. ~aud /\ ~listening => ~aud'
  BY DEF Threads, CmdStep, AudStep, CreatePipe, WatchAdd, TimerNew, Dispatch, Loop,
         Tick, ReadCb, Reopen, ParseCb, ActCb, CmdDel, UpdateList, ClearList, Notify
<1>4. /\ UNCHANGED <<held, unmade, blocked, watch, main_exit>>
      /\ \/ mpc' # "exit" /\ pc' = pc
         \/ mpc' = "exit" /\ pc' = "ended"
  BY <1>1 DEF Threads, SInv
<1>5. pc \in DOMAIN Holds /\ Due = Holds[pc] /\ Due' = Due
  BY <1>4, StageOrOver DEF Threads, Over, SInv, Due
<1>6. "config" \notin held => pc \in {"arguments", "logger", "config", "free_logger"}
  BY <1>5, HoldsDomain, HoldsValues, DueHeld DEF Releasable
<1>7. mpc \in {"locks", "done"} => ~listening /\ (mpc = "done" => ~aud)
  BY DEF SInv, IInv, AudioInv
<1>8. mpc' = "locks" => ~aud' /\ locks' = "none"
  BY <1>1, <1>3, <1>7 DEF SInv
<1>9. /\ ~blocked => mpc' = "locks"
      /\ mpc \in {"locks", "listen", "config", "spawn", "failed"} => mpc' = mpc
  BY <1>1, <1>2 DEF SInv
<1>10. "config" \notin held => ~aud' \/ mpc' = "failed"
  BY <1>1, <1>3, <1>6, <1>7, <1>9 DEF SInv
<1>11. CASE mpc' = "exit"
  BY <1>2, <1>4, <1>5, <1>9, <1>10, <1>11, HoldsDomain, ReleasedDomain DEF SInv
<1>12. CASE mpc' # "exit"
  <2>1. /\ pc' = pc /\ pc \notin {"ended", "killed"}
        /\ mpc' = mpc \/ (mpc = "clearing" /\ mpc' = "destroy")
    BY <1>1, <1>4, <1>5, <1>12, HoldsDomain
  <2>2. pc = "free_player" => mpc' \in {"run"} \cup StoppingCommand \cup StoppingAudio
    BY <2>1 DEF SInv, StoppingCommand, StoppingAudio
  <2> QED
    BY <1>2, <1>4, <1>5, <1>8, <1>9, <1>10, <2>1, <2>2 DEF SInv
<1> QED
  BY <1>11, <1>12

-----------------------------------------------------------------------------
(* The invariant and what follows from it.                                   *)

\* Main is at a stage before each of its steps and at one, or over, after it.
LEMMA MainStages ==
  ASSUME SInv, MainThread
  PROVE  /\ pc \in DOMAIN Holds /\ pc' \in DOMAIN Holds \cup {"ended"}
         /\ held' \subseteq Resources
<1>1. held \subseteq Resources
  BY DEF SInv, StartupTypeOK
<1>2. CASE SetUp
  BY <1>1, <1>2, HoldsAtStages, AfterStage, HoldsDomain, MakesDue
     DEF SetUp, Stages, BeforeMask, BeforePlayer
<1>3. CASE GiveUp
  BY <1>1, <1>3, GiveUpStage DEF GiveUp
<1>4. CASE Fail
  BY <1>1, <1>4, LabelStage, MakesDue DEF Fail
<1>5. CASE PlayerInit
  BY <1>1, <1>5, LabelValues, HoldsDomain DEF PlayerInit, Resources, Releasable
<1>6. CASE Activate \/ ReadSignal \/ ReadDone \/ LoopEnds \/ FreeSigEvent
  BY <1>1, <1>6, HoldsDomain DEF Activate, ReadSignal, ReadDone, LoopEnds, FreeSigEvent
<1>7. CASE PlayerDeinit
  BY <1>1, <1>7, HoldsDomain DEF PlayerDeinit
<1>8. CASE TakeDown
  BY <1>1, <1>8, ReleaseStage, HoldsDomain DEF TakeDown, AfterPlayer
<1> QED
  BY <1>2, <1>3, <1>4, <1>5, <1>6, <1>7, <1>8 DEF MainThread

\* Every step of main keeps the types.
LEMMA MainTypes == ASSUME SInv, MainThread, TypeOK', MainInv' PROVE StartupTypeOK'
<1> USE DEF StartupTypeOK
<1>1. pc \in DOMAIN Holds /\ unmade' \subseteq Resources
  BY MainStages, StageOrOver DEF SInv, MainInv
<1>2. /\ pc' \in DOMAIN Holds \cup {"ended"}
      /\ held' \subseteq Resources
  BY <1>1, MainStages DEF SInv
<1>3. CASE SetUp
  <2>1. watch' \in {"none", "added", "idle", "freed"} /\ UNCHANGED <<pending, sent>>
    BY <1>3 DEF SetUp, SInv
  <2>2. blocked' \in BOOLEAN /\ main_exit' \in BOOLEAN
    BY <1>3 DEF SetUp, SInv
  <2> QED
    BY <1>1, <1>2, <2>1, <2>2, HoldsAtStages DEF SInv, Stages
<1>4. CASE GiveUp \/ Fail \/ PlayerInit \/ LoopEnds \/ PlayerDeinit \/ TakeDown
  <2>1. UNCHANGED signals
    BY <1>4 DEF GiveUp, Fail, PlayerInit, LoopEnds, PlayerDeinit, TakeDown
  <2> QED
    BY <1>1, <1>2, <2>1, HoldsAtStages DEF SInv, Stages
<1>5. CASE Activate \/ ReadDone \/ FreeSigEvent
  <2>1. /\ UNCHANGED <<blocked, pending, sent, main_exit>>
        /\ watch' \in {"none", "added", "idle", "freed"}
    BY <1>5 DEF Activate, ReadDone, FreeSigEvent, SInv
  <2> QED
    BY <1>1, <1>2, <2>1, HoldsAtStages DEF SInv, Stages
<1>6. CASE ReadSignal
  <2>1. UNCHANGED <<blocked, sent, watch>> /\ pending' \subseteq Signals
    BY <1>6 DEF ReadSignal, SInv
  <2>2. main_exit' \in BOOLEAN
    BY <1>6 DEF ReadSignal, SInv
  <2> QED
    BY <1>1, <1>2, <2>1, <2>2, HoldsAtStages DEF SInv, Stages
<1> QED
  BY <1>3, <1>4, <1>5, <1>6 DEF MainThread

\* Every step, and every stutter, keeps the invariant.
LEMMA StepSInv == SInv /\ [StartupNext]_startupVars => SInv'
<1> SUFFICES ASSUME SInv, [StartupNext]_startupVars PROVE SInv'
  OBVIOUS
<1>1. IInv' /\ TypeOK'
  BY StepKeepsLifecycle, StepIInv DEF SInv, IInv
<1>2. CASE MainThread
  <2>1. MainInv'
    BY <1>2, SetUpKeeps, GiveUpKeeps, FailKeeps, PlayerInitKeeps, LoopKeeps,
       PlayerDeinitKeeps, TakeDownKeeps DEF MainThread
  <2> QED
    BY <1>1, <1>2, <2>1, MainTypes DEF SInv
<1>3. CASE Threads
  <2>1. MainInv'
    BY <1>3, ThreadsKeep
  <2>2. pc' \in {pc, "ended"} /\ UNCHANGED <<held, unmade, signals>>
    BY <1>3 DEF Threads
  <2>3. StartupTypeOK'
    BY <1>1, <2>2 DEF SInv, StartupTypeOK
  <2> QED
    BY <1>1, <2>1, <2>3 DEF SInv
<1>4. CASE ~Over /\ \E s \in Signals : Send(s)
  <2>1. PICK s \in Signals : Send(s)
    BY <1>4
  <2>2. MainInv'
    BY <1>4, <2>1, SendKeeps
  <2>3. /\ pc' \in {pc, "killed"} /\ pending' \subseteq Signals
        /\ UNCHANGED <<held, unmade, blocked, watch, main_exit>>
    BY <2>1 DEF Send, SInv, StartupTypeOK
  <2>4. sent' \in 0..MaxSignals
    BY <2>1, SignalsAssumption DEF Send, SInv, StartupTypeOK
  <2>5. StartupTypeOK'
    BY <1>1, <2>3, <2>4 DEF SInv, StartupTypeOK
  <2> QED
    BY <1>1, <2>2, <2>5 DEF SInv
<1>5. CASE UNCHANGED startupVars
  BY <1>1, <1>5 DEF startupVars, vars, SInv, StartupTypeOK, MainInv, Due
<1> QED
  BY <1>2, <1>3, <1>4, <1>5 DEF StartupNext

\* It holds when the program is started.
LEMMA InitSInv == StartupInit => SInv
<1> SUFFICES ASSUME StartupInit PROVE SInv
  OBVIOUS
<1>1. IInv
  BY InitIInv DEF StartupInit
<1>2. pc = "arguments" /\ Holds[pc] = {} /\ pc \in DOMAIN Holds
  BY HoldsValues, HoldsDomain DEF StartupInit
<1>3. StartupTypeOK
  <2>1. blocked \in BOOLEAN /\ main_exit \in BOOLEAN
    BY DEF StartupInit
  <2>2. /\ held = {} /\ unmade = {} /\ pending = {} /\ watch = "none"
        /\ sent \in 0..MaxSignals
    BY SignalsAssumption DEF StartupInit
  <2> QED
    BY <1>1, <1>2, <2>1, <2>2, HoldsAtStages DEF StartupTypeOK, Stages, IInv
<1>4. /\ pc = "arguments" /\ held = {} /\ unmade = {}
      /\ mpc = "locks" /\ locks = "none" /\ cpc = "none"
  BY DEF StartupInit, Init
<1>5. ~aud
  BY DEF StartupInit, Init
<1>6. MainInv
  BY <1>2, <1>4, <1>5 DEF MainInv, Due, BeforeMask, BeforePlayer, WithPlayer, AfterPlayer
<1> QED
  BY <1>1, <1>3, <1>6 DEF SInv

\* What holds in every reachable state.
LEMMA StartupInvariant == StartupSpec => []SInv
<1>1. SInv /\ [StartupNext]_startupVars => SInv'
  BY StepSInv
<1> QED
  BY InitSInv, <1>1, PTL DEF StartupSpec

\* The stages, the resources and the signals stay within their types.
THEOREM StartupTypes == StartupSpec => []StartupTypeOK
<1>1. SInv => StartupTypeOK
  BY DEF SInv
<1> QED
  BY StartupInvariant, <1>1, PTL

\* Whatever fails and whenever the program is stopped, main releases only what it has set
\* up: its labels are where they belong.
THEOREM ReleasedWasMade == StartupSpec => []ReleasesWhatIsMade
<1>1. SInv => ReleasesWhatIsMade
  BY DEF SInv, MainInv, ReleasesWhatIsMade
<1> QED
  BY StartupInvariant, <1>1, PTL

\* When main returns only the struct of keyval_alloc and the signalfd are left, or logger
\* and configuration if a file is in the place of the command pipe; and neither mass_aud nor
\* the listener, unless mass_init had failed.
THEOREM RestIsReleased == StartupSpec => []OnlyTheseAreLeft
<1>1. SInv => OnlyTheseAreLeft
  BY DEF SInv, IInv, AudioInv, MainInv, OnlyTheseAreLeft, Due
<1> QED
  BY StartupInvariant, <1>1, PTL

\* Every thread is created after the signals were blocked.
THEOREM MaskIsInherited == StartupSpec => []ThreadsInheritTheMask
<1>1. SInv => ThreadsInheritTheMask
  BY DEF SInv, MainInv, ThreadsInheritTheMask
<1> QED
  BY StartupInvariant, <1>1, PTL

\* The main loop ends because of SIGTERM or SIGINT, never for want of an event.
THEOREM StopIsAsked == StartupSpec => []StopsWhenTold
<1>1. SInv => StopsWhenTold
  BY DEF SInv, MainInv, StopsWhenTold
<1> QED
  BY StartupInvariant, <1>1, PTL

\* mass_aud is over before conffile_unload, unless mass_init failed.
THEOREM ConfigIsKept == StartupSpec => []ConfigOutlivesAudio
<1>1. SInv => ConfigOutlivesAudio
  BY DEF SInv, MainInv, ConfigOutlivesAudio
<1> QED
  BY StartupInvariant, <1>1, PTL
=============================================================================
