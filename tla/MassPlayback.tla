---------------------------- MODULE MassPlayback ----------------------------
(***************************************************************************)
(* Playback control of cliairplay (src/src/mass.c): the mass_cmd thread    *)
(* that reads the command FIFO and runs the status timer, the input        *)
(* thread that calls setup() and play(), the data the two threads share    *)
(* (pause_flag, stop_flag, is_new, the prepared metadata, the artwork      *)
(* file), and, as external environment, Music Assistant (both pipes) and   *)
(* OwnTone's player with its input buffer.                                 *)
(*                                                                         *)
(* One action is what a thread does between two points at which another    *)
(* thread can see or change what it uses.  A critical section under a      *)
(* mutex is one action: audio_command_lock guards the two flags;           *)
(* prepared.lock is held exactly while cmdpc = "parse", item after item.   *)
(***************************************************************************)
EXTENDS Naturals, Sequences

CONSTANTS
    Keys,           \* the kinds of item Music Assistant may send in this instance
    Fields,         \* the metadata fields other than the artwork
    MaxItems,       \* bound: items sent on the command FIFO
    MaxChunks,      \* bound: audio chunks (one read each) sent on stdin
    PrimeMax,       \* chunks that make up PRIMED_AUDIO_DURATION_MS
    InbufMax,       \* chunks in OwnTone's input buffer beyond which input_write waits
    StartSync,      \* TRUE iff a start time was given: start_ts.tv_sec != 0
    StdinNonblock,  \* TRUE iff stdin was inherited with O_NONBLOCK set
    StdinMayFail,   \* TRUE iff a read of stdin may fail with an error
    FifoMayFail     \* TRUE iff reading or reopening the command FIFO may fail

\* What a line of the command FIFO can be besides a metadata field, by what
\* parse_mass_item does with it: ARTWORK is a URL whose image is stored in a file,
\* BAD_ARTWORK one whose image cannot be fetched or stored, BAD any line refused
\* without touching the prepared metadata.
OtherKeys == {"SENDMETA", "ARTWORK", "BAD_ARTWORK", "VOLUME", "PIN",
              "PAUSE", "PLAY", "STOP", "BAD"}

ASSUME KeysAssumption == Keys \subseteq Fields \cup OtherKeys
ASSUME FieldsAssumption == Fields \cap OtherKeys = {}
ASSUME BoundsAssumption ==
    /\ MaxItems \in Nat /\ MaxChunks \in Nat /\ PrimeMax \in Nat
    /\ InbufMax \in Nat \ {0}
ASSUME SwitchesAssumption ==
    {StartSync, StdinNonblock, StdinMayFail, FifoMayFail} \subseteq BOOLEAN

VARIABLES
    \* Music Assistant and the kernel
    fifo,       \* items written and not yet read
    sent,       \* items written so far; the n-th item carries the serial n
    writer,     \* write end of the FIFO: "never" opened on the current fd, "open", "closed"
    queued,     \* audio chunks in stdin
    produced,   \* audio chunks written to stdin so far
    ended,      \* stdin was closed by Music Assistant
    \* mass_cmd thread
    cmdpc,      \* "idle" (event loop), "parse", "status", "act", "flush", "eof", "reopen"
    watch,      \* "active", "dangling" (fd closed, event freed), "deleted"
    evbuf,      \* pipe_metadata.evbuf
    msg,        \* the message bit mask, restricted to the bits acted upon
    sample,     \* status.status as returned by player_get_status
    \* shared between mass_cmd and input
    pauseFlag, stopFlag, isNew,
    prepared,   \* field -> serial of the item that set it, 0 if none
    preparedArt,\* file named by prepared.artwork_url, 0 if none
    tmpfile,    \* the artwork file on disk, 0 if none
    files,      \* artwork files created so far
    pinMem,     \* prepared.pin: "none", "live", "freed"
    prepVolume, \* prepared.volume (serial of the item that set it)
    \* input thread
    inpc,       \* "off", "setup", "loop", "read", "flags", "clear", "write", "closed"
    held,       \* chunks in source->evbuf
    newFlag,    \* INPUT_FLAG_METADATA in the local flags of play()
    written,    \* the static of play(): something was passed to input_write
    lateWrites, \* history: writes since stop_flag was set
    pauseWrites,\* history: writes since pause_flag was last set
    triggers, takes, \* history: times is_new was set, times metadata_get ran
    \* player (external)
    player,     \* "STOPPED", "PAUSED", "PLAYING"
    inbuf,      \* chunks in the input buffer
    eofMark,    \* an EOF or ERROR marker follows them
    shown, shownArt, \* metadata last obtained by metadata_get
    volume,     \* volume last set with player_volume_set
    \* timer
    started, pausedSeen, exited

maVars == <<fifo, sent, writer, queued, produced, ended>>
cmdVars == <<cmdpc, watch, evbuf, msg, sample>>
flagVars == <<pauseFlag, stopFlag>>
prepVars == <<prepared, preparedArt, tmpfile, files, pinMem, prepVolume>>
triggerVars == <<isNew, triggers, takes>>
inVars == <<inpc, held, newFlag, written>>
writeVars == <<lateWrites, pauseWrites>>
bufVars == <<inbuf, eofMark>>
playerVars == <<player, shown, shownArt, volume>>
timerVars == <<started, pausedSeen, exited>>
\* What reading the FIFO leaves alone, and what parsing it leaves alone.
beyondParse == <<flagVars, triggerVars, inVars, writeVars, bufVars, playerVars, timerVars>>
beyondPipe == <<prepVars, beyondParse>>
vars == <<maVars, cmdVars, beyondPipe>>

Item == [key : Keys, n : 1..MaxItems]
Status == {"STOPPED", "PAUSED", "PLAYING"}
NoFields == [f \in Fields |-> 0]

\* The bits pipe_metadata_read_cb acts upon, in the order of its if statements.
\* PARTIAL_METADATA and PROGRESS are set and never looked at; no line of the FIFO
\* sets FLUSH.
ActOrder == <<"NEW", "VOLUME", "PIN", "PAUSE", "PLAY", "STOP">>
Bits == {"NEW", "VOLUME", "PIN", "PAUSE", "PLAY", "STOP"}

Init ==
    /\ fifo = <<>> /\ sent = 0 /\ writer = "never"
    /\ queued = 0 /\ produced = 0 /\ ended = FALSE
    /\ cmdpc = "idle" /\ watch = "active" /\ evbuf = <<>> /\ msg = {}
    /\ sample = "STOPPED"
    /\ pauseFlag = FALSE /\ stopFlag = FALSE /\ isNew = FALSE
    /\ prepared = NoFields /\ preparedArt = 0 /\ tmpfile = 0 /\ files = 0
    /\ pinMem = "none" /\ prepVolume = 0
    /\ inpc = "off" /\ held = 0 /\ newFlag = FALSE /\ written = FALSE
    /\ lateWrites = 0 /\ pauseWrites = 0
    /\ triggers = 0 /\ takes = 0
    /\ player = "STOPPED" /\ inbuf = 0 /\ eofMark = FALSE
    /\ shown = NoFields /\ shownArt = 0 /\ volume = 0
    /\ started = FALSE /\ pausedSeen = FALSE /\ exited = FALSE

-----------------------------------------------------------------------------
(* Music Assistant: the environment.  The write end can be opened only while *)
(* the FIFO has a reader, and a write without one fails.                     *)

UnchangedByMA == UNCHANGED <<cmdVars, beyondPipe>>

MAOpen ==
    /\ ~exited /\ watch = "active" /\ cmdpc # "reopen" /\ writer # "open"
    /\ writer' = "open"
    /\ UNCHANGED <<fifo, sent, queued, produced, ended>>
    /\ UnchangedByMA

MASend(key) ==
    /\ ~exited /\ writer = "open" /\ watch = "active" /\ cmdpc # "reopen"
    /\ sent < MaxItems
    /\ fifo' = Append(fifo, [key |-> key, n |-> sent + 1])
    /\ sent' = sent + 1
    /\ UNCHANGED <<writer, queued, produced, ended>>
    /\ UnchangedByMA

MAClose ==
    /\ ~exited /\ writer = "open"
    /\ writer' = "closed"
    /\ UNCHANGED <<fifo, sent, queued, produced, ended>>
    /\ UnchangedByMA

MAAudio ==
    /\ ~exited /\ ~ended /\ produced < MaxChunks
    /\ produced' = produced + 1
    /\ queued' = queued + 1
    /\ UNCHANGED <<fifo, sent, writer, ended>>
    /\ UnchangedByMA

MAEnd ==
    /\ ~exited /\ ~ended
    /\ ended' = TRUE
    /\ UNCHANGED <<fifo, sent, writer, queued, produced>>
    /\ UnchangedByMA

MusicAssistant ==
    MAOpen \/ MAClose \/ MAAudio \/ MAEnd \/ \E key \in Keys : MASend(key)

-----------------------------------------------------------------------------
(* mass_cmd: the command FIFO.                                               *)

\* evbuffer_read returned data.  It never reads less than what is in the FIFO:
\* lines are far shorter than PIPE_READ_MAX.
CmdRead ==
    /\ ~exited /\ cmdpc = "idle" /\ watch = "active" /\ fifo # <<>>
    /\ evbuf' = fifo /\ fifo' = <<>>
    /\ msg' = {}
    /\ cmdpc' = "parse"
    /\ UNCHANGED <<sent, writer, queued, produced, ended, watch, sample,
                   beyondPipe>>

\* pipe_metadata_watch_del frees evbuf, the event and the pipe, for good, and removes
\* the artwork file; the mask is dropped.
WatchDeleted ==
    /\ fifo' = <<>> /\ evbuf' = <<>> /\ msg' = {}
    /\ watch' = "deleted"
    /\ tmpfile' = 0
    /\ cmdpc' = "idle"
    /\ UNCHANGED <<sent, writer, queued, produced, ended, sample,
                   prepared, files, pinMem, prepVolume, beyondParse>>

\* evbuffer_read failed with an error other than EAGAIN.
CmdReadError ==
    /\ ~exited /\ cmdpc = "idle" /\ watch = "active" /\ FifoMayFail
    /\ UNCHANGED preparedArt
    /\ WatchDeleted

\* evbuffer_read returned 0: the last writer is gone and the FIFO is empty.
CmdReadEof ==
    /\ ~exited /\ cmdpc = "idle" /\ watch = "active" /\ fifo = <<>> /\ writer = "closed"
    /\ cmdpc' = "eof"
    /\ UNCHANGED <<maVars, watch, evbuf, msg, sample, beyondPipe>>

\* watch_reset_metadata, first half: watch_del closes the FIFO.  With no end open
\* any more the kernel discards what was written since the read.
CmdWatchDel ==
    /\ ~exited /\ cmdpc = "eof"
    /\ fifo' = IF writer = "open" THEN fifo ELSE <<>>
    /\ cmdpc' = "reopen"
    /\ UNCHANGED <<sent, writer, queued, produced, ended, watch, evbuf,
                   msg, sample, beyondPipe>>

\* Second half: watch_add opens it again with a new event.  When that fails the
\* callback returns with pipe->ev pointing to the freed event.
CmdWatchAdd ==
    /\ ~exited /\ cmdpc = "reopen"
    /\ \/ /\ watch' = "active"
          /\ writer' = IF writer = "open" THEN "open" ELSE "never"
       \/ /\ FifoMayFail
          /\ watch' = "dangling"
          /\ UNCHANGED writer
    /\ cmdpc' = "idle"
    /\ UNCHANGED <<fifo, sent, queued, produced, ended, evbuf, msg,
                   sample, beyondPipe>>

\* Mutants of Parsed: the loop goes on when no item is left; "=" written for "|=".
Parsed_PastEnd(bits) ==
    /\ evbuf' = Tail(evbuf) /\ msg' = msg \cup bits /\ cmdpc' = "parse"
    /\ UNCHANGED <<maVars, watch, sample, beyondParse>>

Parsed_Overwrites(bits) ==
    /\ evbuf' = Tail(evbuf) /\ msg' = bits
    /\ cmdpc' = IF Len(evbuf) = 1 THEN "status" ELSE "parse"
    /\ UNCHANGED <<maVars, watch, sample, beyondParse>>

\* One turn of the loop of pipe_metadata_parse that succeeds: the item is removed
\* from evbuf and its bits are added to the mask.
Parsed(bits) ==
    /\ evbuf' = Tail(evbuf)
    /\ msg' = msg \cup bits
    /\ cmdpc' = IF Len(evbuf) = 1 THEN "status" ELSE "parse"
    /\ UNCHANGED <<maVars, watch, sample, beyondParse>>

Parsing(keys) == ~exited /\ cmdpc = "parse" /\ Head(evbuf).key \in keys

ParseField ==
    /\ Parsing(Fields)
    /\ prepared' = [prepared EXCEPT ![Head(evbuf).key] = Head(evbuf).n]
    /\ Parsed({})
    /\ UNCHANGED <<preparedArt, tmpfile, files, pinMem, prepVolume>>

ParseSendmeta ==
    /\ Parsing({"SENDMETA"})
    /\ Parsed({"NEW"})
    /\ UNCHANGED prepVars

\* Mutant of ParseArtwork: artwork_url is set only when there was none.
ParseArtwork_KeepsUrl ==
    /\ Parsing({"ARTWORK"})
    /\ files' = files + 1 /\ tmpfile' = files + 1
    /\ preparedArt' = IF preparedArt = 0 THEN files + 1 ELSE preparedArt
    /\ Parsed({"NEW"})
    /\ UNCHANGED <<prepared, pinMem, prepVolume>>

\* parse_artwork_url: pict_tmpfile_recreate unlinks the previous file.
ParseArtwork ==
    /\ Parsing({"ARTWORK"})
    /\ files' = files + 1
    /\ tmpfile' = files + 1
    /\ preparedArt' = files + 1
    /\ Parsed({"NEW"})
    /\ UNCHANGED <<prepared, pinMem, prepVolume>>

ParseVolume ==
    /\ Parsing({"VOLUME"})
    /\ prepVolume' = Head(evbuf).n
    /\ Parsed({"VOLUME"})
    /\ UNCHANGED <<prepared, preparedArt, tmpfile, files, pinMem>>

\* Mutant of ParsePin: an invalid PIN is logged and not refused.
ParsePin_NoReturn ==
    /\ Parsing({"PIN"})
    /\ pinMem' \in {"live", pinMem}
    /\ Parsed({"PIN"})
    /\ UNCHANGED <<prepared, preparedArt, tmpfile, files, prepVolume>>

ParsePin ==
    /\ Parsing({"PIN"})
    /\ pinMem' = "live"
    /\ Parsed({"PIN"})
    /\ UNCHANGED <<prepared, preparedArt, tmpfile, files, prepVolume>>

ParseAction ==
    /\ Parsing({"PAUSE", "PLAY", "STOP"})
    /\ Parsed({Head(evbuf).key})
    /\ UNCHANGED prepVars

\* parse_mass_item failed, and with it what the batch had gathered so far.
ParseFail ==
    /\ Parsing({"BAD", "BAD_ARTWORK"})
    /\ preparedArt' = IF Head(evbuf).key = "BAD_ARTWORK" THEN 0 ELSE preparedArt
    /\ WatchDeleted

Parse == \/ ParseField \/ ParseSendmeta \/ ParseArtwork \/ ParseVolume
         \/ ParsePin \/ ParseAction \/ ParseFail

-----------------------------------------------------------------------------
(* mass_cmd: acting on the mask.                                             *)

\* player_get_status: the status is sampled once for the whole batch.
CmdStatus ==
    /\ ~exited /\ cmdpc = "status"
    /\ sample' = player
    /\ cmdpc' = IF msg = {} THEN "idle" ELSE "act"
    /\ UNCHANGED <<maVars, watch, evbuf, msg, beyondPipe>>

\* It is the turn of bit b: every bit tested before it is done.
Act(b) ==
    /\ ~exited /\ cmdpc = "act" /\ b \in msg
    /\ \A i, j \in 1..Len(ActOrder) :
          ActOrder[j] = b /\ i < j => ActOrder[i] \notin msg
    /\ msg' = msg \ {b}
    /\ cmdpc' = IF b = "STOP" THEN "flush" ELSE IF msg = {b} THEN "idle" ELSE "act"
    /\ UNCHANGED <<maVars, watch, evbuf, sample, inVars, bufVars, timerVars>>

CmdNew ==
    /\ Act("NEW")
    /\ isNew' = TRUE
    /\ triggers' = triggers + 1
    /\ UNCHANGED <<takes, flagVars, prepVars, writeVars, playerVars>>

CmdVolume ==
    /\ Act("VOLUME")
    /\ volume' = prepVolume
    /\ UNCHANGED <<flagVars, prepVars, triggerVars, writeVars, player, shown,
                   shownArt>>

\* The PIN is copied, sent to the speaker and freed; the pointer is not cleared.
CmdPin ==
    /\ Act("PIN")
    /\ pinMem' = "freed"
    /\ UNCHANGED <<flagVars, prepared, preparedArt, tmpfile, files, prepVolume,
                   triggerVars, writeVars, playerVars>>

CmdPause ==
    /\ Act("PAUSE")
    /\ IF sample = "PLAYING"
         THEN pauseFlag' = TRUE /\ pauseWrites' = 0
         ELSE UNCHANGED <<pauseFlag, pauseWrites>>
    /\ UNCHANGED <<stopFlag, prepVars, triggerVars, lateWrites, playerVars>>

CmdPlay ==
    /\ Act("PLAY")
    /\ pauseFlag' = IF sample # "PLAYING" THEN FALSE ELSE pauseFlag
    /\ UNCHANGED <<stopFlag, prepVars, triggerVars, writeVars, playerVars>>

CmdStop ==
    /\ Act("STOP")
    /\ stopFlag' = TRUE
    /\ UNCHANGED <<pauseFlag, prepVars, triggerVars, writeVars, playerVars>>

\* input_flush(NULL), after self_stop: OwnTone's input buffer is emptied, the
\* markers in it included.
CmdFlush ==
    /\ ~exited /\ cmdpc = "flush"
    /\ inbuf' = 0 /\ eofMark' = FALSE
    /\ cmdpc' = "idle"
    /\ UNCHANGED <<maVars, watch, evbuf, msg, sample, flagVars, prepVars,
                   triggerVars, inVars, writeVars, playerVars, timerVars>>

CmdAct == CmdNew \/ CmdVolume \/ CmdPin \/ CmdPause \/ CmdPlay \/ CmdStop

-----------------------------------------------------------------------------
(* The input thread: setup() and play().                                     *)

\* One step of the input thread between two of its program points.
InputStep(from, to) ==
    /\ ~exited /\ inpc = from
    /\ inpc' = to
    /\ UNCHANGED <<cmdVars, flagVars, timerVars, volume>>

\* A read of stdin moves one chunk to source->evbuf.
ReadChunk ==
    /\ queued > 0
    /\ queued' = queued - 1
    /\ held' = held + 1
    /\ UNCHANGED <<fifo, sent, writer, produced, ended, newFlag>>

UnchangedByReading == UNCHANGED <<prepVars, triggerVars, written, writeVars,
                                  bufVars, player, shown, shownArt>>

NoChunk == UNCHANGED <<maVars, held, newFlag>> /\ UnchangedByReading

\* pipe_watch_update: stdin needs no watch, playback is started at once, which makes
\* the input module call setup().  The player buffers: it reports PAUSED.
StartPlayback ==
    /\ InputStep("off", "setup")
    /\ player' = "PAUSED"
    /\ UNCHANGED <<maVars, prepVars, triggerVars, held, newFlag, written,
                   writeVars, bufVars, shown, shownArt>>

\* The priming loop reads until it has PrimeMax chunks, and its last read one more.
PrimeRead ==
    /\ InputStep("setup", IF held = PrimeMax THEN "loop" ELSE "setup")
    /\ ReadChunk
    /\ UnchangedByReading

\* End of file, or nothing to read now; a blocking stdin waits instead.
PrimeEnd ==
    /\ InputStep("setup", "loop")
    /\ queued = 0 /\ (ended \/ StdinNonblock)
    /\ NoChunk

\* Any other error: setup() returns -1, and the input module gives the source up.  Whether
\* it also leaves a marker behind is up to it.
PrimeError ==
    /\ InputStep("setup", "closed")
    /\ StdinMayFail
    /\ eofMark' \in BOOLEAN
    /\ held' = 0
    /\ UNCHANGED <<maVars, prepVars, triggerVars, newFlag, written,
                   writeVars, inbuf, player, shown, shownArt>>

\* Mutants of PlayContinue: stop_flag is not tested; pause_flag is not tested.
PlayContinue_IgnoresStop == InputStep("loop", "read") /\ ~pauseFlag /\ NoChunk

PlayContinue_IgnoresPause == InputStep("loop", "read") /\ ~stopFlag /\ NoChunk

\* The head of play(), under audio_command_lock.  While pause_flag is set it only
\* waits and returns, whatever stop_flag says: no action is enabled at "loop".
PlayContinue == InputStep("loop", "read") /\ ~pauseFlag /\ ~stopFlag /\ NoChunk

\* Mutant of CloseSource: stop(source) without the EOF marker.
CloseSource_NoMarker ==
    /\ held' = 0
    /\ UNCHANGED <<maVars, prepVars, triggerVars, newFlag, written,
                   writeVars, bufVars, player, shown, shownArt>>

\* input_write(source->evbuf, NULL, INPUT_FLAG_EOF) and stop(source): what is held
\* goes to the input buffer without any other flag, and the source is gone.
CloseSource ==
    /\ inbuf' = inbuf + held
    /\ eofMark' = TRUE
    /\ held' = 0
    /\ UNCHANGED <<maVars, prepVars, triggerVars, newFlag, written, writeVars,
                   player, shown, shownArt>>

PlayStop == InputStep("loop", "closed") /\ ~pauseFlag /\ stopFlag /\ CloseSource

PlayEof == InputStep("read", "closed") /\ queued = 0 /\ ended /\ CloseSource

PlayRead == InputStep("read", "flags") /\ ReadChunk /\ UnchangedByReading

\* Mutant of PlayNoData: wait and read again instead of returning.
PlayNoData_ReadsAgain == InputStep("read", "read") /\ queued = 0 /\ ~ended /\ NoChunk

\* EAGAIN: wait a while and return.
PlayNoData ==
    /\ InputStep("read", "loop")
    /\ queued = 0 /\ ~ended /\ StdinNonblock
    /\ NoChunk

\* Any other error: input_write(NULL, NULL, INPUT_FLAG_ERROR); stop() frees what is held.
PlayReadError ==
    /\ InputStep("read", "closed")
    /\ StdinMayFail
    /\ eofMark' = TRUE
    /\ held' = 0
    /\ UNCHANGED <<maVars, prepVars, triggerVars, newFlag, written,
                   writeVars, inbuf, player, shown, shownArt>>

\* flags = is_new ? INPUT_FLAG_METADATA : 0, and then is_new = 0, with no lock.
PlayFlags ==
    /\ InputStep("flags", "clear")
    /\ newFlag' = isNew
    /\ UNCHANGED <<maVars, held>>
    /\ UnchangedByReading

\* Mutant of PlayClear: is_new is not reset.
PlayClear_Keeps == InputStep("clear", "write") /\ NoChunk

PlayClear ==
    /\ InputStep("clear", "write")
    /\ isNew' = FALSE
    /\ UNCHANGED <<maVars, prepVars, triggers, takes, held, newFlag, written,
                   writeVars, bufVars, player, shown, shownArt>>

\* Until the first write, a start time makes play() return early: it drained all it
\* holds, or it waits.  When that ends is the subject of module StartSync.
PlayHold ==
    /\ InputStep("write", "loop")
    /\ StartSync /\ ~written
    /\ held' \in {0, held}
    /\ newFlag' = FALSE
    /\ UNCHANGED maVars
    /\ UnchangedByReading

\* input_write(source->evbuf, quality, flags), which waits while the input buffer is
\* full and, on INPUT_FLAG_METADATA, calls metadata_get back under prepared.lock.
PlayWrite ==
    /\ InputStep("write", "loop")
    /\ inbuf < InbufMax
    /\ inbuf' = inbuf + held
    /\ held' = 0
    /\ written' = TRUE
    /\ lateWrites' = IF stopFlag THEN lateWrites + 1 ELSE lateWrites
    /\ pauseWrites' = IF pauseFlag THEN pauseWrites + 1 ELSE pauseWrites
    /\ newFlag' = FALSE
    /\ UNCHANGED <<maVars, tmpfile, files, pinMem, prepVolume, isNew, triggers, eofMark,
                   player>>

\* Mutant of MetadataGet: the memset is forgotten.
MetadataGet_NoMemset ==
    /\ cmdpc # "parse"
    /\ shown' = prepared /\ shownArt' = preparedArt
    /\ takes' = takes + 1
    /\ UNCHANGED <<prepared, preparedArt>>

MetadataGet ==
    /\ cmdpc # "parse"
    /\ shown' = prepared /\ shownArt' = preparedArt
    /\ prepared' = NoFields /\ preparedArt' = 0
    /\ takes' = takes + 1

PlayWritePlain ==
    /\ PlayWrite /\ ~newFlag
    /\ UNCHANGED <<prepared, preparedArt, shown, shownArt, takes>>

PlayWriteNew == PlayWrite /\ newFlag /\ MetadataGet

Input == \/ PrimeRead \/ PrimeEnd \/ PrimeError
         \/ PlayContinue \/ PlayStop \/ PlayEof \/ PlayRead \/ PlayNoData
         \/ PlayReadError \/ PlayFlags \/ PlayClear \/ PlayHold
         \/ PlayWritePlain \/ PlayWriteNew

-----------------------------------------------------------------------------
(* The player (external).                                                    *)

UnchangedByPlayer == UNCHANGED <<maVars, cmdVars, flagVars, prepVars, triggerVars,
                                 inVars, writeVars, shown, shownArt, volume, timerVars>>

PlayerConsume ==
    /\ ~exited /\ player # "STOPPED" /\ inbuf > 0
    /\ inbuf' = inbuf - 1
    /\ player' = "PLAYING"
    /\ UNCHANGED eofMark
    /\ UnchangedByPlayer

PlayerUnderrun ==
    /\ ~exited /\ player = "PLAYING" /\ inbuf = 0 /\ ~eofMark
    /\ player' = "PAUSED"
    /\ UNCHANGED bufVars
    /\ UnchangedByPlayer

PlayerEnd ==
    /\ ~exited /\ player # "STOPPED" /\ inbuf = 0 /\ eofMark
    /\ player' = "STOPPED"
    /\ eofMark' = FALSE
    /\ UNCHANGED inbuf
    /\ UnchangedByPlayer

Player == PlayerConsume \/ PlayerUnderrun \/ PlayerEnd

-----------------------------------------------------------------------------
(* mass_cmd: mass_timer_cb, run by the same event loop once a second.        *)

UnchangedByTimer == UNCHANGED <<maVars, cmdVars, flagVars, prepVars, triggerVars,
                                inVars, writeVars, bufVars, playerVars>>

TimerPlaying ==
    /\ ~exited /\ cmdpc = "idle" /\ player = "PLAYING"
    /\ started' = TRUE
    /\ UNCHANGED <<pausedSeen, exited>>
    /\ UnchangedByTimer

TimerPaused ==
    /\ ~exited /\ cmdpc = "idle" /\ started /\ player = "PAUSED"
    /\ pausedSeen' = TRUE
    /\ UNCHANGED <<started, exited>>
    /\ UnchangedByTimer

\* Mutant of TimerExit: a stopped player is taken for a finished one.
TimerExit_BeforeStart ==
    /\ ~exited /\ cmdpc = "idle" /\ player = "STOPPED"
    /\ exited' = TRUE
    /\ UNCHANGED <<started, pausedSeen>>
    /\ UnchangedByTimer

\* exit(0)
TimerExit ==
    /\ ~exited /\ cmdpc = "idle" /\ started /\ player = "STOPPED"
    /\ exited' = TRUE
    /\ UNCHANGED <<started, pausedSeen>>
    /\ UnchangedByTimer

TimerReset ==
    /\ ~exited /\ cmdpc = "idle" /\ ~started /\ player # "PLAYING"
    /\ started' = FALSE /\ pausedSeen' = FALSE
    /\ UNCHANGED exited
    /\ UnchangedByTimer

Timer == TimerPlaying \/ TimerPaused \/ TimerExit \/ TimerReset

CmdReader == CmdRead \/ CmdReadError \/ CmdReadEof \/ CmdWatchDel \/ CmdWatchAdd
CmdWork == CmdWatchDel \/ CmdWatchAdd \/ Parse \/ CmdStatus \/ CmdAct \/ CmdFlush

Next ==
    \/ MusicAssistant \/ CmdReader \/ Parse \/ CmdStatus \/ CmdAct \/ CmdFlush
    \/ StartPlayback \/ Input \/ Player \/ Timer

Spec == Init /\ [][Next]_vars

\* The scheduler runs every thread, libevent serves a readable FIFO, the player
\* consumes.  The event loop comes back to expired timers on each of its turns, so
\* the timer is not starved by a FIFO that is opened and closed for ever: strong
\* fairness.  Nothing is assumed of Music Assistant.
Fairness ==
    /\ WF_vars(CmdWork) /\ WF_vars(CmdRead \/ CmdReadEof)
    /\ WF_vars(StartPlayback) /\ WF_vars(Input)
    /\ WF_vars(Player)
    /\ SF_vars(Timer)

FairSpec == Spec /\ Fairness

-----------------------------------------------------------------------------
(* Properties.                                                               *)

Serial == 0..MaxItems

PipeType ==
    /\ fifo \in Seq(Item) /\ sent \in Serial
    /\ writer \in {"never", "open", "closed"}
    /\ queued \in Nat /\ produced \in 0..MaxChunks

CmdType ==
    /\ cmdpc \in {"idle", "parse", "status", "act", "flush", "eof", "reopen"}
    /\ watch \in {"active", "dangling", "deleted"}
    /\ evbuf \in Seq(Item) /\ (cmdpc = "parse" => evbuf # <<>>)
    /\ msg \subseteq Bits /\ sample \in Status

PreparedType ==
    /\ prepared \in [Fields -> Serial] /\ preparedArt \in Nat
    /\ tmpfile \in Nat /\ files \in Nat
    /\ pinMem \in {"none", "live", "freed"} /\ prepVolume \in Serial
    /\ shown \in [Fields -> Serial] /\ shownArt \in Nat /\ volume \in Serial

InputType ==
    /\ inpc \in {"off", "setup", "loop", "read", "flags", "clear", "write", "closed"}
    /\ held \in Nat /\ inbuf \in Nat /\ player \in Status

CountType ==
    lateWrites \in Nat /\ pauseWrites \in Nat /\ triggers \in Nat /\ takes \in Nat

FlagType == {ended, pauseFlag, stopFlag, isNew, newFlag, written, eofMark,
             started, pausedSeen, exited} \subseteq BOOLEAN

\* Every variable has its type, the counters stay within the named bounds, and the
\* parser is never entered with nothing left to parse.
TypeOK == PipeType /\ CmdType /\ PreparedType /\ InputType /\ CountType /\ FlagType

\* The flags are looked at once per call of play(), under audio_command_lock: after
\* self_stop, and after self_pause until self_resume, at most the one call already
\* past the test still hands audio to the input module.  What stop(source) hands over of
\* the audio already held, with the EOF marker, is not counted.
AtMostOneLateWrite == lateWrites <= 1 /\ (pauseFlag => pauseWrites <= 1)

\* mass_timer_cb calls exit(0) only when the stream is over and played out: the
\* source is closed, the input buffer is empty, and, unless a STOP or a read error
\* ended it, Music Assistant closed stdin and all of it was read.
ExitOnlyAfterEnd ==
    exited => /\ inpc = "closed" /\ inbuf = 0 /\ ~eofMark
              /\ stopFlag \/ StdinMayFail \/ (ended /\ queued = 0)

\* is_new crosses from mass_cmd to the input thread without a lock: triggers may
\* merge, and yet one trigger never makes play() announce metadata twice.
AtMostOneTakePerTrigger == takes <= triggers

\* metadata_get hands each prepared field over once: its memset keeps a field of an
\* earlier track from being passed on again, so what is taken is always newer.
TakenFieldsAreNewer ==
    [][takes' # takes =>
         \A f \in Fields : shown'[f] = 0 \/ shown'[f] > shown[f]]_vars

\* pipe_metadata_read_cb uses and frees prepared.pin on the PIN bit only: whenever it
\* comes to do so, a PIN parsed in the same batch is there, never one freed before.
PinIsLive == cmdpc = "act" /\ "PIN" \in msg => pinMem = "live"

\* While the command pipe is watched, artwork_url of the prepared metadata names the
\* artwork file that is on disk, however often pict_tmpfile_recreate replaced it.
PreparedArtworkExists ==
    watch # "deleted" /\ preparedArt # 0 => preparedArt = tmpfile

\* A STOP that was read together with lines the parser accepts sets stop_flag,
\* whatever else is in the batch and whatever the player does meanwhile.
StopIsFlagged ==
    (/\ \E i \in 1..Len(evbuf) : evbuf[i].key = "STOP"
     /\ \A i \in 1..Len(evbuf) : evbuf[i].key \notin {"BAD", "BAD_ARTWORK"})
        ~> (stopFlag \/ exited)

\* play() acts upon stop_flag: unless it is paused, the source is closed in the end,
\* provided that stdin does not block.
StopEndsSource ==
    (StdinNonblock /\ stopFlag /\ ~pauseFlag)
        ~> (inpc = "closed" \/ pauseFlag \/ exited)

\* Once the source is closed, a player that the timer saw playing plays out, stops,
\* and the timer exits the process, unless a STOP comes (its flush may remove the
\* marker that stops the player).
EndLeadsToExit == (inpc = "closed" /\ started) ~> (exited \/ stopFlag)

\* The program keeps PlaybackContract, with a call of play() past its gate from the
\* time it released audio_command_lock until it returns.
PastGate == inpc \in {"read", "flags", "clear", "write"}

Contract == INSTANCE PlaybackContract WITH
    phase    <- IF exited THEN "exited"
                ELSE IF inpc = "closed" THEN "closed"
                ELSE IF inpc \in {"off", "setup"} THEN "idle" ELSE "open",
    busy     <- PastGate,
    paused   <- pauseFlag,
    stopping <- stopFlag

\* Every behaviour of the program is one of the contract.
KeepsContract == Contract!CSpec

-----------------------------------------------------------------------------
(* What makes the safety properties inductive.                               *)

Count(b) == IF b THEN 1 ELSE 0

\* A call of play() past the gate when a flag is set has its write still to come, and
\* no other call gets past the gate until the flag is cleared.
LateInv ==
    /\ stopFlag => lateWrites + Count(PastGate) <= 1
    /\ ~stopFlag => lateWrites = 0
    /\ pauseFlag => pauseWrites + Count(PastGate) <= 1

\* The player stops only at the marker that closing the source left behind, and it
\* does not play before the source was set up.
ExitInv ==
    /\ eofMark => inpc = "closed"
    /\ inpc = "off" => player = "STOPPED" /\ ~started /\ inbuf = 0
    /\ player = "STOPPED" /\ inpc # "off" => inpc = "closed" /\ inbuf = 0 /\ ~eofMark
    /\ inpc = "closed" => stopFlag \/ StdinMayFail \/ (ended /\ queued = 0)
    /\ exited => started /\ player = "STOPPED"

\* A trigger is counted by is_new, then by the flags play() copied it into, then by
\* metadata_get; between the copy and the reset of is_new it is counted once.
TakesInv ==
    /\ newFlag => inpc \in {"clear", "write"}
    /\ takes + Count(newFlag) + Count(isNew /\ ~(inpc = "clear" /\ newFlag)) <= triggers

\* The mask never outlives the PIN it announces.
PinInv == "PIN" \in msg => pinMem = "live"

\* Only a watched pipe is read, parsed or reopened, so a deleted one stays deleted.
ArtworkInv == PreparedArtworkExists /\ (cmdpc # "idle" => watch = "active")

\* Items keep their order on the way: what is in the FIFO was sent after what was read,
\* and that after what is prepared or was handed over.
FreshInv ==
    /\ \A i, j \in 1..Len(evbuf) : i < j => evbuf[i].n < evbuf[j].n
    /\ \A i, j \in 1..Len(fifo) : i < j => fifo[i].n < fifo[j].n
    /\ \A i \in 1..Len(evbuf), j \in 1..Len(fifo) : evbuf[i].n < fifo[j].n
    /\ \A i \in 1..Len(evbuf) : evbuf[i].n <= sent
    /\ \A i \in 1..Len(fifo) : fifo[i].n <= sent
    /\ \A f \in Fields :
          /\ prepared[f] <= sent /\ shown[f] <= sent
          /\ \A i \in 1..Len(evbuf) : prepared[f] < evbuf[i].n /\ shown[f] < evbuf[i].n
          /\ \A i \in 1..Len(fifo) : prepared[f] < fifo[i].n /\ shown[f] < fifo[i].n
          /\ prepared[f] = 0 \/ prepared[f] > shown[f]

Inv == LateInv /\ ExitInv /\ TakesInv /\ PinInv /\ ArtworkInv /\ FreshInv
=============================================================================
