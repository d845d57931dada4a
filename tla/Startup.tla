------------------------------ MODULE Startup ------------------------------
(***************************************************************************)
(* main() of src/src/cliap2.c around the threads of Lifecycle: what it     *)
(* sets up stage by stage, the labels it goes to when a stage fails, what  *)
(* it takes down again, and the signals, which are blocked, read from a    *)
(* signalfd by a callback of the main event base, and end the program.     *)
(*                                                                         *)
(* The values of the arguments and of the configuration are in Settings.   *)
(* player_init calls mass_init and player_deinit calls mass_deinit, whose  *)
(* steps are those of Lifecycle.  From the end of the process on nothing   *)
(* happens.                                                                *)
(***************************************************************************)
EXTENDS Lifecycle

CONSTANTS
    Signals,    \* those that are sent: a subset of SIGTERM, SIGINT, SIGHUP and SIGCHLD
    MaxSignals  \* bound: how many are sent; a storm of them would keep the callback reading

EndingSignals == {"TERM", "INT"}

ASSUME SignalsAssumption ==
    Signals \subseteq EndingSignals \cup {"HUP", "CHLD"} /\ MaxSignals \in Nat

VARIABLES
    pc,         \* main: the stage it is in
    held,       \* what it has set up and not yet released
    unmade,     \* history: what was released without having been set up
    blocked,    \* the signals are blocked, for main and for the threads it creates
    pending,    \* signals sent and not yet read
    sent,       \* how many signals were sent so far
    watch,      \* sig_event: "none", "added", "idle" (it is not persistent) or "freed"
    main_exit

signals == <<blocked, pending, sent, watch, main_exit>>
mainVars == <<pc, held, unmade, signals>>
startupVars == <<vars, mainVars>>

\* What main releases, and what it never does: the struct of keyval_alloc, of which only
\* the pairs are freed, and the signalfd.
Releasable == {"logger", "config", "txt", "curl", "evbase", "worker", "player"}
NeverReleased == {"keyval", "signalfd"}
Resources == Releasable \cup NeverReleased

\* The stages are named for what they set up; "txt" makes the struct as well.
Makes(stage) ==
    ({stage} \cap Resources) \cup (IF stage = "txt" THEN {"keyval"} ELSE {})

StartupInit ==
    /\ Init
    /\ pc = "arguments" /\ held = {} /\ unmade = {}
    /\ blocked = FALSE /\ pending = {} /\ sent = 0 /\ watch = "none" /\ main_exit = FALSE

-----------------------------------------------------------------------------
\* Stages of the set-up, in order.  "settings" is the second logger_init, with what the
\* file says; mutex and event base are made or abort.

\* Mutant of After: the worker thread is started before the signals are blocked.
After_LateMask ==
    [arguments |-> "logger", logger |-> "config", config |-> "settings",
     settings |-> "pipe", pipe |-> "txt", txt |-> "curl", curl |-> "gcrypt",
     gcrypt |-> "evbase", evbase |-> "worker", worker |-> "signalmask",
     signalmask |-> "player", signalfd |-> "sigevent", sigevent |-> "loop"]

\* The stage that follows one that succeeded.  For "player" it is PlayerInit that goes on.
After ==
    [arguments |-> "logger", logger |-> "config", config |-> "settings",
     settings |-> "pipe", pipe |-> "txt", txt |-> "curl", curl |-> "gcrypt",
     gcrypt |-> "signalmask", signalmask |-> "evbase", evbase |-> "worker",
     worker |-> "player", signalfd |-> "sigevent", sigevent |-> "loop"]

\* Before "txt" main returns by itself, with what it has released until then; from "txt"
\* on it goes to a label, and txt_kv is there even if it could not be parsed.
Released ==
    [arguments |-> {}, logger |-> {}, config |-> {"logger"},
     settings |-> {"logger", "config"}, pipe |-> {}]

\* Mutant of Label: a label too early.
Label_PlayerFail ==
    [txt |-> "free_txt", gcrypt |-> "free_curl", signalmask |-> "free_curl",
     worker |-> "free_evbase", player |-> "free_player",
     signalfd |-> "free_player", sigevent |-> "free_player"]

\* Mutant of Label: a label too late.
Label_WorkerStays ==
    [txt |-> "free_txt", gcrypt |-> "free_curl", signalmask |-> "free_curl",
     worker |-> "free_evbase", player |-> "free_evbase",
     signalfd |-> "free_player", sigevent |-> "free_player"]

Label ==
    [txt |-> "free_txt", gcrypt |-> "free_curl", signalmask |-> "free_curl",
     worker |-> "free_evbase", player |-> "free_worker",
     signalfd |-> "free_player", sigevent |-> "free_player"]

SetUp ==
    /\ pc \in DOMAIN After
    /\ pc' = After[pc]
    /\ held' = held \cup Makes(pc)
    /\ blocked' = (blocked \/ pc = "signalmask")
    /\ watch' = IF pc = "sigevent" THEN "added" ELSE watch
    /\ UNCHANGED <<vars, unmade, pending, sent, main_exit>>

\* usage, bad arguments, no log facility or configuration, or a file that is no pipe; and
\* the arguments that only print something.
GiveUp ==
    /\ CanFail /\ pc \in DOMAIN Released
    /\ pc' = "ended"
    /\ held' = held \ Released[pc]
    /\ UNCHANGED <<vars, unmade, signals>>

Fail ==
    /\ CanFail /\ pc \in DOMAIN Label
    /\ pc = "player" => mpc = "locks"
    /\ pc' = Label[pc]
    /\ held' = IF pc = "txt" THEN held \cup Makes(pc) ELSE held
    /\ UNCHANGED <<vars, unmade, signals>>

\* player_init, which succeeds or fails as mass_init does
PlayerInit ==
    /\ pc = "player" /\ Running
    /\ InitLocks \/ Listen \/ ReadConfig \/ CommandPipeInit
    /\ pc' = IF mpc' = "run" THEN "signalfd"
             ELSE IF mpc' = "failed" THEN Label["player"] ELSE pc
    /\ held' = IF mpc' = "run" THEN held \cup {"player"} ELSE held
    /\ UNCHANGED <<unmade, signals>>

-----------------------------------------------------------------------------
\* Signals

\* A signal that is not blocked ends the process, unless it is ignored by default.
Send(s) ==
    /\ sent < MaxSignals /\ sent' = sent + 1
    /\ pending' = IF blocked THEN pending \cup {s} ELSE pending
    /\ pc' = IF blocked \/ s = "CHLD" THEN pc ELSE "killed"
    /\ UNCHANGED <<vars, held, unmade, blocked, watch, main_exit>>

\* The event loop of main calls signal_signalfd_cb; the event is not persistent.
Activate ==
    /\ pc = "loop" /\ watch = "added" /\ pending # {}
    /\ watch' = "idle"
    /\ pc' = "reading"
    /\ UNCHANGED <<vars, held, unmade, blocked, pending, sent, main_exit>>

\* It reads a signal: SIGHUP reopens the log file, for SIGCHLD it waits for children.
ReadSignal ==
    /\ pc = "reading"
    /\ \E s \in pending :
          /\ pending' = pending \ {s}
          /\ main_exit' = (main_exit \/ s \in EndingSignals)
    /\ UNCHANGED <<vars, pc, held, unmade, blocked, sent, watch>>

\* Mutant of ReadDone: the event is not added again.
ReadDone_NotAdded ==
    /\ pc = "reading" /\ pending = {}
    /\ pc' = IF main_exit THEN "free_sigevent" ELSE "loop"
    /\ UNCHANGED <<vars, held, unmade, blocked, pending, sent, watch, main_exit>>

\* Mutant of ReadDone: whatever main_exit is the event is added again.
ReadDone_NoBreak ==
    /\ pc = "reading" /\ pending = {}
    /\ watch' = "added" /\ pc' = "loop"
    /\ UNCHANGED <<vars, held, unmade, blocked, pending, sent, main_exit>>

\* No signal is left: the loop is broken or the event added again.
ReadDone ==
    /\ pc = "reading" /\ pending = {}
    /\ IF main_exit
         THEN pc' = "free_sigevent" /\ UNCHANGED watch
         ELSE pc' = "loop" /\ watch' = "added"
    /\ UNCHANGED <<vars, held, unmade, blocked, pending, sent, main_exit>>

\* event_base_dispatch comes back when no event is added.
LoopEnds ==
    /\ pc = "loop" /\ watch # "added"
    /\ pc' = "free_sigevent"
    /\ UNCHANGED <<vars, held, unmade, signals>>

-----------------------------------------------------------------------------
\* What is taken down

FreeSigEvent ==
    /\ pc = "free_sigevent"
    /\ watch' = "freed"
    /\ pc' = "free_player"
    /\ UNCHANGED <<vars, held, unmade, blocked, pending, sent, main_exit>>

\* player_deinit, of which mass_deinit is a part
PlayerDeinit ==
    /\ pc = "free_player" /\ Running
    /\ \/ Signal
       \/ MainDel \/ MainBreak \/ FreeTimer \/ FreeBase
       \/ Unlisten \/ StopAudio \/ JoinAudio \/ DestroyLocks
    /\ UNCHANGED mainVars

\* What each label releases and where it falls through to: db_deinit goes with the event
\* base, and conffile_unload and logger_deinit come last.
Releases ==
    [free_player |-> <<"player", "free_worker">>, free_worker |-> <<"worker", "free_evbase">>,
     free_evbase |-> <<"evbase", "free_curl">>, free_curl |-> <<"curl", "free_txt">>,
     free_txt |-> <<"txt", "free_config">>, free_config |-> <<"config", "free_logger">>,
     free_logger |-> <<"logger", "ended">>]

\* Mutant of TakeDown: player_deinit does not stop the threads of mass.c.
TakeDown_NoMassDeinit ==
    /\ pc \in DOMAIN Releases
    /\ held' = held \ {Releases[pc][1]}
    /\ unmade' = unmade \cup ({Releases[pc][1]} \ held)
    /\ pc' = Releases[pc][2]
    /\ UNCHANGED <<vars, signals>>

\* player_deinit has come back, if mass_init ran at all.
TakeDown ==
    /\ pc \in DOMAIN Releases
    /\ pc = "free_player" => mpc \in {"locks", "done"}
    /\ held' = held \ {Releases[pc][1]}
    /\ unmade' = unmade \cup ({Releases[pc][1]} \ held)
    /\ pc' = Releases[pc][2]
    /\ UNCHANGED <<vars, signals>>

-----------------------------------------------------------------------------

Over == pc \in {"ended", "killed"}

\* The threads of Lifecycle; mass_timer_cb may call exit.
Threads ==
    /\ Running /\ ~Over
    /\ CmdStep \/ AudStep \/ Notify
    /\ pc' = IF mpc' = "exit" /\ mpc # "exit" THEN "ended" ELSE pc
    /\ UNCHANGED <<held, unmade, signals>>

\* mass_init and mass_deinit run in it, and nothing goes on after a misuse.
MainThread ==
    /\ misuse = {}
    /\ \/ SetUp \/ GiveUp \/ Fail \/ PlayerInit
       \/ Activate \/ ReadSignal \/ ReadDone \/ LoopEnds
       \/ FreeSigEvent \/ PlayerDeinit \/ TakeDown

StartupNext == MainThread \/ Threads \/ (~Over /\ \E s \in Signals : Send(s))

StartupSpec == StartupInit /\ [][StartupNext]_startupVars

\* Each thread is scheduled, and event_free comes back when the callback it waits for has
\* ended; signals and events of the listener need not come.
StartupFairSpec ==
    /\ StartupSpec
    /\ WF_startupVars(MainThread)
    /\ SF_startupVars(PlayerDeinit /\ (MainDel \/ FreeTimer))
    /\ WF_startupVars(Threads /\ CmdStep)
    /\ WF_startupVars(Threads /\ AudStep)

-----------------------------------------------------------------------------

StartupTypeOK ==
    /\ TypeOK
    /\ pc \in DOMAIN After \cup DOMAIN Releases \cup
              {"player", "loop", "reading", "free_sigevent", "ended", "killed"}
    /\ held \subseteq Resources /\ unmade \subseteq Resources
    /\ blocked \in BOOLEAN /\ main_exit \in BOOLEAN
    /\ pending \subseteq Signals /\ sent \in 0..MaxSignals
    /\ watch \in {"none", "added", "idle", "freed"}

\* Whatever stage fails, wherever the stop comes: main releases only what it has set up.
ReleasesWhatIsMade == unmade = {}

\* When main returns, whatever has failed before, only the struct and the signalfd are
\* left, which it never releases, or, on its early return for a file in the place of the
\* pipe, logger and configuration; and mass_aud and the listener are gone.  This excepts by
\* name a failed mass_init, after which both stay, and exit in mass_timer_cb, which releases
\* nothing.
OnlyTheseAreLeft ==
    pc = "ended" /\ mpc # "exit" =>
        /\ held \subseteq NeverReleased \/ (mpc = "locks" /\ held = {"logger", "config"})
        /\ mpc # "failed" => ~aud /\ ~listening

\* No thread can be hit by a signal and take the process down: they inherit the mask.
ThreadsInheritTheMask == aud \/ cpc # "none" \/ "worker" \in held => blocked

\* The program stops because it was told to, never because its loop ran out of events: it
\* watches for signals as long as it plays.
StopsWhenTold == pc = "free_sigevent" => main_exit

\* mass_aud, which reads the configuration when it starts playback, ends before the file's
\* values are freed, unless mass_init failed and the process is about to end.
ConfigOutlivesAudio == aud /\ "config" \notin held => mpc = "failed"

\* A SIGTERM ends the program whatever state it is in, be it starting, reading other
\* signals or stopping, unless something freed is used on the way.
TermEnds == "TERM" \in pending ~> (Over \/ misuse # {})

\* What makes them inductive: what is to be released at each stage, and how far mass_init
\* and mass_deinit have come.
Due == held \ NeverReleased

Holds ==
    [arguments |-> {}, logger |-> {}, config |-> {"logger"},
     settings |-> {"logger", "config"}, pipe |-> {"logger", "config"},
     txt |-> {"logger", "config"}, curl |-> {"logger", "config", "txt"},
     gcrypt |-> {"logger", "config", "txt", "curl"},
     signalmask |-> {"logger", "config", "txt", "curl"},
     evbase |-> {"logger", "config", "txt", "curl"},
     worker |-> {"logger", "config", "txt", "curl", "evbase"},
     player |-> {"logger", "config", "txt", "curl", "evbase", "worker"},
     signalfd |-> Releasable, sigevent |-> Releasable, loop |-> Releasable,
     reading |-> Releasable, free_sigevent |-> Releasable, free_player |-> Releasable,
     free_worker |-> {"logger", "config", "txt", "curl", "evbase", "worker"},
     free_evbase |-> {"logger", "config", "txt", "curl", "evbase"},
     free_curl |-> {"logger", "config", "txt", "curl"},
     free_txt |-> {"logger", "config", "txt"},
     free_config |-> {"logger", "config"}, free_logger |-> {"logger"}]

BeforeMask == {"arguments", "logger", "config", "settings", "pipe", "txt", "curl", "gcrypt",
               "signalmask"}
BeforePlayer == BeforeMask \cup {"evbase", "worker"}
WithPlayer == {"signalfd", "sigevent", "loop", "reading", "free_sigevent"}
AfterPlayer == {"free_worker", "free_evbase", "free_curl", "free_txt", "free_config",
                "free_logger"}

MainInv ==
    /\ unmade = {}
    /\ pc \in DOMAIN Holds => Due = Holds[pc]
    /\ pc \in DOMAIN Released => held = Due
    /\ pc = "ended" /\ mpc # "exit" =>
          /\ mpc \in {"locks", "failed", "done"}
          /\ Due = {} \/ (mpc = "locks" /\ held = {"logger", "config"})
    /\ mpc = "locks" => ~aud /\ locks = "none"
    /\ mpc \in {"locks", "listen", "config", "spawn", "failed"} => cpc = "none"
    /\ pc \in BeforePlayer => mpc = "locks"
    /\ pc = "player" => mpc \in {"locks", "listen", "config", "spawn"}
    /\ pc \in WithPlayer => mpc = "run"
    /\ pc = "free_player" => mpc \in {"run"} \cup StoppingCommand \cup StoppingAudio
    /\ pc \in AfterPlayer => mpc \in {"locks", "failed", "done"}
    /\ ~blocked =>
          mpc = "locks" /\ pc \in BeforeMask \cup AfterPlayer \cup {"ended", "killed"}
                       /\ pc \notin {"free_worker"} /\ "worker" \notin held
    /\ pc = "loop" => watch = "added"
    /\ pc = "free_sigevent" => main_exit
    /\ "config" \notin held => ~aud \/ mpc = "failed"
=============================================================================
