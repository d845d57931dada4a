---------------------------- MODULE MCStructures ----------------------------
(***************************************************************************)
(* Instances of the parts that run in one thread and have nothing to do    *)
(* with each other: timespecs, settings, the queue, the key/value list and *)
(* the ring buffer.  A behaviour is about one of them, the subject.        *)
(***************************************************************************)
EXTENDS Timespec, Settings, DbQueue, Keyval, RingBuffer, TLC

CONSTANTS v, w      \* values of the key/value list

VARIABLE subject
allVars == <<subject, vars, settingsVars, queueVars, keyvalVars, ringVars>>

\* A second of 12 nanoseconds, operands on both sides of the epoch, of a carry and a borrow
SmallOperands == [sec : {-2, -1, 0, 1, 3}, nsec : {0, 1, 5, 11}]

-----------------------------------------------------------------------------
\* Every pair of further options after all that must be given, and every option after all
\* of these but one

Options(opt, args) == {[opt |-> opt, arg |-> x] : x \in args}

Required == <<[opt |-> "name", arg |-> "n"], [opt |-> "hostname", arg |-> "h"],
              [opt |-> "address", arg |-> "i"], [opt |-> "txt", arg |-> "t"],
              [opt |-> "command_pipe", arg |-> "p"], [opt |-> "port", arg |-> 5]>>

SmallContents ==
    {NoFile, BadFile} \cup [loglevel : {None, "info", "odd"}, start : {None, 7}]

\* With numbers of 16 and 32: some fit neither type, some one of them
Further ==
    UNION {Options("loglevel", {-9, -1, 0, 3, NoNumber}), Options("port", {-1, 6, 9, NoNumber}),
           Options("ntpstart", {-1, 2}), Options("volume", {-9, 1, NoNumber}),
           Options("dacp_id", {3, 99}), Options("latency", {-33, -3, 0, 5, 13, 14, 29, 31, 40}),
           Options("pairing_latency", {4}), Options("input_write_ms", {-2, 17}),
           Options("config", SmallContents), Options("password", {"w", Quoted}),
           Options("name", {"m", Quoted}), Options("auth", {"k"}), Options("logfile", {"l"}),
           Options("pipe", {0}), Options("ntp", {0}), Options("version", {0}),
           Options("testrun", {0}), Options("nonsense", {0})}

SmallCommandLines ==
    {<<>>} \cup {Required \o <<a, b>> : a, b \in Further}
    \cup {SubSeq(Required, 1, k - 1) \o SubSeq(Required, k + 1, 6) \o <<a>> :
             k \in 1..6, a \in Further}

-----------------------------------------------------------------------------
\* Texts of up to three stretches, among them two quotes in a row and a pair with too many
\* "="; and of three pairs with names that are the same but for their case

Stretches == {<<>>, <<0>>, <<0, v>>, <<3, w>>, <<0, v, 1>>}
SmallTexts ==
    UNION {[1..n -> Stretches] : n \in 0..3}
    \cup {<<a, <<0>>, b, <<0>>, c>> : a, b, c \in {<<0, v>>, <<4, w>>, <<3, v>>, <<1, w>>}}

-----------------------------------------------------------------------------

Zeros == [p \in Positions |-> 0]

StructuresInit ==
    /\ \/ subject \in {"timespec", "queue"} /\ line = <<>> /\ text = <<>> /\ buffer = Zeros
       \/ subject = "settings" /\ text = <<>> /\ buffer = Zeros
       \/ subject = "keyval" /\ line = <<>> /\ text \in Texts /\ buffer = Zeros
       \/ subject = "ring" /\ line = <<>> /\ text = <<>> /\ buffer \in [Positions -> Bytes]
    /\ Init /\ SettingsInit /\ QueueInit /\ KeyvalInit /\ RingInit

StructuresNext ==
    /\ \/ subject = "timespec" /\ Next
          /\ UNCHANGED <<settingsVars, queueVars, keyvalVars, ringVars>>
       \/ subject = "settings" /\ SettingsNext
          /\ UNCHANGED <<vars, queueVars, keyvalVars, ringVars>>
       \/ subject = "queue" /\ QueueNext
          /\ UNCHANGED <<vars, settingsVars, keyvalVars, ringVars>>
       \/ subject = "keyval" /\ KeyvalNext
          /\ UNCHANGED <<vars, settingsVars, queueVars, ringVars>>
       \/ subject = "ring" /\ RingNext
          /\ UNCHANGED <<vars, settingsVars, queueVars, keyvalVars>>
    /\ UNCHANGED subject

StructuresSpec == StructuresInit /\ [][StructuresNext]_allVars

\* What calloc and malloc return first makes no difference.
Heaps == Permutations(Cells) \cup Permutations(Nodes)
=============================================================================
