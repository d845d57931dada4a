------------------------------ MODULE MCStart ------------------------------
(***************************************************************************)
(* Instances of the two modules about the start time: how it is computed   *)
(* (StartTime), and how play() keeps to it (StartSync).  They run one after *)
(* the other and share only the value of start_ts; a behaviour is about one *)
(* of them, the subject.                                                    *)
(***************************************************************************)
EXTENDS StartSync, StartTime

VARIABLE subject
startVars == <<subject, vars, timeVars>>

\* The subject that does not run has one initial state.
StartInit ==
    /\ Init /\ TimeInit
    /\ \/ subject = "sync" /\ boot = CHOOSE b \in Boots : TRUE
       \/ subject = "time" /\ asked = CHOOSE s \in Starts : TRUE

StartNext ==
    /\ \/ subject = "sync" /\ Next /\ UNCHANGED timeVars
       \/ subject = "time" /\ TimeNext /\ UNCHANGED vars
    /\ UNCHANGED subject

StartSpec == StartInit /\ [][StartNext]_startVars
=============================================================================
