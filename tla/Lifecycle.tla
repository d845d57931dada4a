----------------------------- MODULE Lifecycle -----------------------------
(***************************************************************************)
(* The life of the threads of src/src/mass.c and of what they share:       *)
(* mass_init and mass_deinit in the main thread, mass_aud with the list of *)
(* audio pipes it watches, mass_cmd with the command pipe, its events and  *)
(* buffer.  SIGTERM may come at any time after the start-up.               *)
(*                                                                         *)
(* Allocations do not fail: most are checked by CHECK_NULL, which aborts.  *)
(* Every pipelist of the code holds one pipe, with id 1.                   *)
(***************************************************************************)
EXTENDS Naturals, Sequences

CONSTANTS
    MaxNotify,  \* bound: LISTENER_DATABASE events
    CanFail     \* whether opening, reading, configuration and pthread_create may fail

ASSUME BoundsAssumption == MaxNotify \in Nat /\ CanFail \in BOOLEAN

VARIABLES
    mpc,        \* main: where it is in mass_init, its loop and mass_deinit
    locks,      \* prepared.lock and audio_command_lock
    misuse,     \* history: what was used or freed while it was not alive
    listening,  \* pipe_listener_cb is registered
    notifies,   \* LISTENER_DATABASE events so far
    tid,        \* tid_command_pipe # 0
    base,       \* evbase_command_pipe
    broken,     \* event_break of that base
    cpc,        \* mass_cmd
    pipe,       \* pipe_metadata.pipe: "none" is NULL
    ev,         \* pipe_metadata.pipe->ev
    evbuf,      \* pipe_metadata.evbuf
    timer,      \* mass_timer_event
    tidaud,     \* tid_audio_pipe # 0
    aud,        \* mass_aud runs
    queue,      \* commands of cmdbase not yet executed
    allocated,  \* audio pipes made for listener events and not freed; the one that setup()
                \* makes for itself, and stop() never frees, is not counted
    watched,    \* length of pipe_watch_list
    starts      \* history: calls of player_playback_start_byid

main == <<mpc, locks, listening>>
command == <<tid, base, broken, cpc, pipe, ev, evbuf, timer>>
buffers == <<pipe, ev, evbuf>>
audio == <<tidaud, aud, queue, allocated, watched, starts>>
vars == <<main, misuse, notifies, command, audio>>

Life == {"none", "live", "freed"}

Init ==
    /\ mpc = "locks" /\ locks = "none" /\ misuse = {}
    /\ listening = FALSE /\ notifies = 0
    /\ tid = FALSE /\ base = "none" /\ broken = FALSE /\ cpc = "none"
    /\ pipe = "none" /\ ev = "none" /\ evbuf = "none" /\ timer = "none"
    /\ tidaud = FALSE /\ aud = FALSE /\ queue = <<>>
    /\ allocated = 0 /\ watched = 0 /\ starts = 0

\* What a step uses or frees is alive, or the step is the last one.
Needs(things) == misuse' = {t \in DOMAIN things : things[t] # "live"}

-----------------------------------------------------------------------------
\* mass_aud

\* pipelist_create, pipe_thread_start unless it runs, and the command to watch the list
pipe_listener_cb ==
    /\ allocated' = allocated + 1
    /\ tidaud' = TRUE
    /\ aud' = (aud \/ ~tidaud)
    /\ queue' = Append(queue, "update")
    /\ UNCHANGED <<watched, starts>>

\* LISTENER_DATABASE
Notify ==
    /\ listening /\ notifies < MaxNotify
    /\ notifies' = notifies + 1
    /\ pipe_listener_cb
    /\ UNCHANGED <<main, misuse, command>>

\* Mutant of WatchNew: the list is not searched for the pipe.
WatchNew_Always ==
    /\ watched' = watched + 1 /\ starts' = starts + 1
    /\ UNCHANGED allocated

\* Mutant of WatchNew: the new pipe is freed in either case.
WatchNew_FreesAll ==
    /\ IF watched = 0
         THEN watched' = watched + 1 /\ starts' = starts + 1
         ELSE UNCHANGED <<watched, starts>>
    /\ allocated' = allocated - 1

\* pipe_watch_update, the second loop: a pipe that is new is watched, and being stdin
\* played at once; one that is known is freed.
WatchNew ==
    IF watched = 0
      THEN watched' = watched + 1 /\ starts' = starts + 1 /\ UNCHANGED allocated
      ELSE allocated' = allocated - 1 /\ UNCHANGED <<watched, starts>>

\* pipe_watch_update with the list of a listener event
UpdateList ==
    /\ aud /\ queue # <<>> /\ Head(queue) = "update"
    /\ queue' = Tail(queue)
    /\ WatchNew
    /\ UNCHANGED <<main, misuse, notifies, command, tidaud, aud>>

\* Mutant of ClearList: the pipes are taken off the list and not freed.
ClearList_Leak ==
    /\ aud /\ queue # <<>> /\ Head(queue) = "clear"
    /\ queue' = Tail(queue)
    /\ watched' = 0
    /\ mpc' = "destroy"
    /\ UNCHANGED <<locks, listening, misuse, notifies, command, tidaud, aud,
                   starts, allocated>>

\* pipe_watch_update with no list, which main waits for: no pipe is watched any more.
ClearList ==
    /\ aud /\ queue # <<>> /\ Head(queue) = "clear"
    /\ queue' = Tail(queue)
    /\ watched' = 0 /\ allocated' = allocated - watched
    /\ mpc' = "destroy"
    /\ UNCHANGED <<locks, listening, misuse, notifies, command, tidaud, aud, starts>>

-----------------------------------------------------------------------------
\* mass_cmd

\* Where its callback for the command pipe runs
InCallback == cpc \in {"cb", "parse", "act", "reopen", "del1", "del2", "del3"}

\* pipe_metadata_watch_add: nothing is there that would have to be deleted.
CreatePipe ==
    /\ cpc = "start"
    /\ pipe' = "live" /\ evbuf' = "live"
    /\ cpc' = "open"
    /\ UNCHANGED <<main, misuse, notifies, tid, base, broken, ev, timer, audio>>

\* watch_add
WatchAdd ==
    /\ cpc = "open"
    /\ \/ /\ Needs([pipe |-> pipe, base |-> base])
          /\ ev' = "live" /\ UNCHANGED <<pipe, evbuf>>
       \/ /\ CanFail
          /\ Needs([pipe |-> pipe, evbuf |-> evbuf])
          /\ evbuf' = "freed" /\ pipe' = "none" /\ UNCHANGED ev
    /\ cpc' = "timer"
    /\ UNCHANGED <<main, notifies, tid, base, broken, timer, audio>>

TimerNew ==
    /\ cpc = "timer"
    /\ Needs([base |-> base])
    /\ timer' = "live"
    /\ cpc' = "dispatch"
    /\ UNCHANGED <<main, notifies, tid, base, broken, buffers, audio>>

\* event_base_dispatch begins by clearing event_break.
Dispatch ==
    /\ cpc = "dispatch"
    /\ Needs([base |-> base])
    /\ broken' = FALSE
    /\ cpc' = "loop"
    /\ UNCHANGED <<main, notifies, tid, base, buffers, timer, audio>>

\* The loop calls a callback, or ends.
Loop ==
    /\ cpc = "loop"
    /\ Needs([base |-> base])
    /\ \/ ~broken /\ ev = "live" /\ cpc' = "cb"
       \/ ~broken /\ timer = "live" /\ cpc' = "tick"
       \/ broken /\ cpc' = "ended"
    /\ UNCHANGED <<main, notifies, tid, base, broken, buffers, timer, audio>>

\* mass_timer_cb, which may end the process
Tick ==
    /\ cpc = "tick"
    /\ cpc' = "loop"
    /\ mpc' \in {mpc, "exit"}
    /\ UNCHANGED <<locks, listening, misuse, notifies, tid, base, broken, buffers,
                   timer, audio>>

\* Mutant of ReadCb: the callback goes on after an error.
ReadCb_GoesOn ==
    /\ cpc = "cb"
    /\ Needs([evbuf |-> evbuf])
    /\ \/ cpc' \in {"loop", "parse"} /\ UNCHANGED <<ev, pipe, evbuf>>
       \/ cpc' = "reopen" /\ ev' = "freed" /\ UNCHANGED <<pipe, evbuf>>
       \/ /\ CanFail /\ cpc' = "parse"
          /\ evbuf' = "freed" /\ ev' = "none" /\ pipe' = "none"
    /\ UNCHANGED <<main, notifies, tid, base, broken, timer, audio>>

\* pipe_metadata_read_cb reads: nothing yet or too much, end of file, error, or data.
\* At end of file watch_reset_metadata frees the event.
ReadCb ==
    /\ cpc = "cb"
    /\ Needs([evbuf |-> evbuf])
    /\ \/ cpc' \in {"loop", "parse"} /\ UNCHANGED ev
       \/ cpc' = "reopen" /\ ev' = "freed"
       \/ CanFail /\ cpc' = "del1" /\ UNCHANGED ev
    /\ UNCHANGED <<main, notifies, tid, base, broken, pipe, evbuf, timer, audio>>

\* watch_reset_metadata reopens the pipe; when it fails the event stays freed.
Reopen ==
    /\ cpc = "reopen"
    /\ \/ Needs([base |-> base]) /\ ev' = "live"
       \/ CanFail /\ UNCHANGED <<misuse, ev>>
    /\ cpc' = "loop"
    /\ UNCHANGED <<main, notifies, tid, base, broken, pipe, evbuf, timer, audio>>

\* pipe_metadata_parse, with prepared.lock held; a line may be refused.
ParseCb ==
    /\ cpc = "parse"
    /\ Needs([locks |-> locks, evbuf |-> evbuf])
    /\ \/ cpc' = "act"
       \/ CanFail /\ cpc' = "del1"
    /\ UNCHANGED <<main, notifies, tid, base, broken, buffers, timer, audio>>

\* The actions on the mask take audio_command_lock.
ActCb ==
    /\ cpc = "act"
    /\ Needs([locks |-> locks])
    /\ cpc' = "loop"
    /\ UNCHANGED <<main, notifies, tid, base, broken, buffers, timer, audio>>

-----------------------------------------------------------------------------
\* pipe_metadata_watch_del, by either thread, in three steps: evbuffer_free; watch_del;
\* pipe_free and pict_tmpfile_close.

DelBuffer == Needs([evbuf |-> evbuf]) /\ evbuf' = "freed" /\ UNCHANGED <<pipe, ev>>

DelEvent ==
    /\ Needs([pipe |-> pipe, ev |-> IF ev = "none" THEN "live" ELSE ev])
    /\ ev' = IF ev = "live" THEN "freed" ELSE ev
    /\ UNCHANGED <<pipe, evbuf>>

DelPipe == Needs([pipe |-> pipe]) /\ pipe' = "none" /\ ev' = "none" /\ UNCHANGED evbuf

\* In mass_cmd, after an error
CmdDel ==
    /\ \/ cpc = "del1" /\ pipe # "none" /\ DelBuffer /\ cpc' = "del2"
       \/ cpc = "del1" /\ pipe = "none" /\ cpc' = "loop" /\ UNCHANGED <<misuse,
                                                                        buffers>>
       \/ cpc = "del2" /\ DelEvent /\ cpc' = "del3"
       \/ cpc = "del3" /\ DelPipe /\ cpc' = "loop"
    /\ UNCHANGED <<main, notifies, tid, base, broken, timer, audio>>

\* command_pipe_thread_stop, in main.  event_free waits while another thread runs the
\* callback of the event.
MainDel ==
    /\ \/ /\ mpc = "stop" /\ tid /\ pipe # "none" /\ DelBuffer /\ mpc' = "del2"
       \/ /\ mpc = "stop" /\ tid /\ pipe = "none" /\ mpc' = "break"
          /\ UNCHANGED <<misuse, buffers>>
       \/ /\ mpc = "stop" /\ ~tid /\ mpc' = "unlisten"
          /\ UNCHANGED <<misuse, buffers>>
       \/ /\ mpc = "del2" /\ ~(ev = "live" /\ InCallback) /\ DelEvent /\ mpc' = "del3"
       \/ /\ mpc = "del3" /\ DelPipe /\ mpc' = "break"
    /\ UNCHANGED <<locks, listening, notifies, tid, base, broken, cpc, timer, audio>>

MainBreak ==
    /\ mpc = "break"
    /\ broken' = TRUE
    /\ mpc' = "freetimer"
    /\ UNCHANGED <<locks, listening, misuse, notifies, tid, base, cpc, buffers,
                   timer, audio>>

FreeTimer ==
    /\ mpc = "freetimer" /\ cpc # "tick"
    /\ Needs([timer |-> timer])
    /\ timer' = "freed"
    /\ mpc' = "freebase"
    /\ UNCHANGED <<locks, listening, notifies, tid, base, broken, cpc, buffers,
                   audio>>

FreeBase ==
    /\ mpc = "freebase"
    /\ base' = "freed" /\ tid' = FALSE
    /\ mpc' = "unlisten"
    /\ UNCHANGED <<locks, listening, misuse, notifies, broken, cpc, buffers, timer,
                   audio>>

-----------------------------------------------------------------------------
\* main

InitLocks ==
    /\ mpc = "locks"
    /\ locks' = "live"
    /\ mpc' = "listen"
    /\ UNCHANGED <<misuse, listening, notifies, command, audio>>

Listen ==
    /\ mpc = "listen"
    /\ pipe_listener_cb
    /\ listening' = TRUE
    /\ mpc' = "config"
    /\ UNCHANGED <<locks, misuse, notifies, command>>

\* The sample rate or width may be refused; mass_aud goes on, but main will not stop it.
ReadConfig ==
    /\ mpc = "config"
    /\ mpc' \in IF CanFail THEN {"spawn", "failed"} ELSE {"spawn"}
    /\ UNCHANGED <<locks, listening, misuse, notifies, command, audio>>

\* command_pipe_init, whose result mass_init ignores: without a thread the value of
\* tid_command_pipe is not specified.
CommandPipeInit ==
    /\ mpc = "spawn"
    /\ base' = "live"
    /\ \/ tid' = TRUE /\ cpc' = "start"
       \/ CanFail /\ tid' \in BOOLEAN /\ UNCHANGED cpc
    /\ mpc' = "run"
    /\ UNCHANGED <<locks, listening, misuse, notifies, broken, buffers, timer, audio>>

\* SIGINT or SIGTERM: the loop of main ends, and player_deinit calls mass_deinit.
Signal ==
    /\ mpc = "run"
    /\ mpc' = "stop"
    /\ UNCHANGED <<locks, listening, misuse, notifies, command, audio>>

Unlisten ==
    /\ mpc = "unlisten"
    /\ listening' = FALSE
    /\ mpc' = "stopaud"
    /\ UNCHANGED <<locks, misuse, notifies, command, audio>>

\* Mutant of StopAudio: the command base is destroyed before the last command.
StopAudio_Swapped ==
    /\ mpc = "stopaud"
    /\ queue' = Append(queue, "clear")
    /\ aud' = FALSE
    /\ mpc' = "clearing"
    /\ UNCHANGED <<locks, listening, misuse, notifies, command, tidaud, allocated,
                   watched, starts>>

\* pipe_thread_stop: the command that main waits for
StopAudio ==
    /\ mpc = "stopaud"
    /\ queue' = Append(queue, "clear")
    /\ mpc' = "clearing"
    /\ UNCHANGED <<locks, listening, misuse, notifies, command, tidaud, aud,
                   allocated, watched, starts>>

\* commands_base_destroy ends the loop of mass_aud, which is joined.
JoinAudio ==
    /\ mpc = "destroy"
    /\ aud' = FALSE /\ tidaud' = FALSE
    /\ mpc' = "unlock"
    /\ UNCHANGED <<locks, listening, misuse, notifies, command, queue, allocated,
                   watched, starts>>

DestroyLocks ==
    /\ mpc = "unlock"
    /\ locks' = "freed"
    /\ mpc' = "done"
    /\ UNCHANGED <<listening, misuse, notifies, command, audio>>

-----------------------------------------------------------------------------

MainStep ==
    \/ InitLocks \/ Listen \/ ReadConfig \/ CommandPipeInit
    \/ MainDel \/ MainBreak \/ FreeTimer \/ FreeBase
    \/ Unlisten \/ StopAudio \/ JoinAudio \/ DestroyLocks

CmdStep ==
    \/ CreatePipe \/ WatchAdd \/ TimerNew \/ Dispatch \/ Loop \/ Tick
    \/ ReadCb \/ Reopen \/ ParseCb \/ ActCb \/ CmdDel

AudStep == UpdateList \/ ClearList

\* Nothing happens once the process has ended, or after the first misuse.
Running == mpc # "exit" /\ misuse = {}

Next == Running /\ (MainStep \/ CmdStep \/ AudStep \/ Signal \/ Notify)

Spec == Init /\ [][Next]_vars

\* Threads are scheduled, and event_free comes back when the callback it waits for has
\* ended; neither signals nor events of the listener need come.
FairSpec ==
    /\ Spec
    /\ WF_vars(Running /\ MainStep)
    /\ SF_vars(Running /\ (MainDel \/ FreeTimer))
    /\ WF_vars(Running /\ CmdStep)
    /\ WF_vars(Running /\ AudStep)

-----------------------------------------------------------------------------

Starting == {"locks", "listen", "config", "spawn", "run"}
StoppingCommand == {"stop", "del2", "del3", "break", "freetimer", "freebase"}
StoppingAudio == {"unlisten", "stopaud", "clearing", "destroy", "unlock", "done"}

TypeOK ==
    /\ mpc \in Starting \cup StoppingCommand \cup StoppingAudio \cup {"failed", "exit"}
    /\ locks \in Life
    /\ misuse \subseteq {"locks", "base", "pipe", "ev", "evbuf", "timer"}
    /\ listening \in BOOLEAN /\ notifies \in 0..MaxNotify
    /\ tid \in BOOLEAN /\ base \in Life /\ broken \in BOOLEAN
    /\ cpc \in {"none", "start", "open", "timer", "dispatch", "loop", "tick", "cb",
                "parse",
                "act", "reopen", "del1", "del2", "del3", "ended"}
    /\ pipe \in {"none", "live"} /\ ev \in Life /\ evbuf \in Life /\ timer \in Life
    /\ tidaud \in BOOLEAN /\ aud \in BOOLEAN
    /\ queue \in Seq({"update", "clear"})
    /\ allocated \in Nat /\ watched \in Nat /\ starts \in Nat

\* As long as the process is not being stopped no thread uses or frees the command pipe,
\* its event and buffer, the timer, the event base or a lock that is not there, whatever
\* fails: mass_cmd finds what mass_init made for it, and deletes the pipe only once.
NoMisuseBeforeStop == misuse # {} => mpc \notin Starting

\* However often the listener is called, stdin is watched and played once.
AudioStartsOnce == starts <= 1 /\ watched <= 1

\* After mass_deinit no audio pipe of a listener event is left, watched or not, in no order
\* of listener events, commands and the stop: what mass_aud had not dealt with is freed as
\* well.
AudioPipesAreFreed == mpc = "done" => allocated = 0 /\ queue = <<>> /\ ~aud

\* mass_deinit returns, whatever the threads are at when it is called, unless something
\* freed is used; event_free and the last command of mass_aud do not wait for ever.
StopCompletes == mpc = "stop" ~> (mpc \in {"done", "exit"} \/ misuse # {})

\* What makes them inductive.  A pipe is in the queue or on the list; the last command is
\* the one main waits for, and nothing comes after it.
AudioInv ==
    /\ mpc \in {"locks", "listen", "stopaud", "clearing", "destroy", "unlock", "done"} =>
          ~listening
    /\ mpc \in {"locks", "listen"} => queue = <<>> /\ watched = 0 /\ starts = 0
    /\ watched \in {0, 1} /\ starts \in {0, 1}
    /\ mpc # "exit" =>
          /\ mpc \notin {"destroy", "unlock", "done"} => starts = watched
          /\ allocated + (IF mpc = "clearing" THEN 1 ELSE 0) = Len(queue) + watched
          /\ \A i \in 1..Len(queue) :
                queue[i] = "clear" <=> mpc = "clearing" /\ i = Len(queue)
          /\ mpc = "clearing" => queue # <<>>
    /\ mpc \in {"destroy", "unlock", "done"} => queue = <<>> /\ watched = 0
    /\ mpc \in {"unlock", "done"} => ~aud

\* Before the stop each step of mass_cmd finds what the steps before it made.
CommandInv ==
    mpc \in Starting =>
        /\ misuse = {}
        /\ mpc # "locks" => locks = "live"
        /\ mpc # "run" => cpc = "none"
        /\ mpc = "run" => base = "live"
        /\ cpc \in {"none", "start"} => pipe = "none" /\ ev = "none"
        /\ cpc = "open" => pipe = "live" /\ evbuf = "live" /\ ev = "none"
        /\ cpc \in {"cb", "parse", "act", "del1", "del2"} => pipe = "live" /\ ev = "live"
        /\ cpc \in {"reopen", "del3"} => pipe = "live"
        /\ cpc \in {"cb", "parse", "act", "reopen", "del1"} => evbuf = "live"
        /\ ev = "live" /\ cpc \notin {"del2", "del3"} => pipe = "live" /\ evbuf = "live"
=============================================================================
