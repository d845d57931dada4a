------------------------ MODULE MassPlayback_proofs ------------------------
(***************************************************************************)
(* Proofs about MassPlayback, for every value of its constants.            *)
(***************************************************************************)
EXTENDS MassPlayback, SequenceTheorems, TLAPS

USE DEF maVars, cmdVars, flagVars, prepVars, triggerVars, inVars, writeVars, bufVars,
        playerVars, timerVars, beyondParse, beyondPipe

-----------------------------------------------------------------------------
(* What each group of actions leaves alone.                                  *)

\* Music Assistant touches the two pipes only.
LEMMA MusicAssistantFrame ==
  MusicAssistant => UNCHANGED <<cmdVars, beyondPipe>>
  BY DEF MusicAssistant, MAOpen, UnchangedByMA, MASend, MAClose, MAAudio, MAEnd

\* Reading and reopening the command FIFO touches neither the flags nor anything of
\* the input thread.
LEMMA CmdReaderFrame ==
  CmdReader => UNCHANGED <<sent, queued, produced, ended, sample, prepared, files,
                           pinMem, prepVolume, beyondParse>>
  BY DEF CmdReader, CmdRead, CmdReadError, WatchDeleted, CmdReadEof, CmdWatchDel,
     CmdWatchAdd

\* Parsing changes the prepared metadata and the mask, nothing that is acted upon.
LEMMA ParseFrame ==
  Parse => UNCHANGED <<sent, writer, queued, produced, ended, sample, beyondParse>>
  BY DEF Parse, ParseField, Parsing, Parsed, ParseSendmeta, ParseArtwork,
     ParseVolume, ParsePin, ParseAction, ParseFail, WatchDeleted

\* Acting on the mask leaves the input thread, its buffer and the timer alone.
LEMMA CmdActFrame ==
  CmdAct => UNCHANGED <<maVars, watch, evbuf, sample, inVars, bufVars, player, shown,
                        shownArt, timerVars, takes, lateWrites>>
  BY DEF CmdAct, CmdNew, Act, CmdVolume, CmdPin, CmdPause, CmdPlay, CmdStop

\* The input thread never sets the flags; it does not touch the PIN or the artwork file.
LEMMA InputFrame ==
  Input => UNCHANGED <<fifo, sent, writer, produced, ended, cmdVars, flagVars,
                       tmpfile, files, pinMem, prepVolume, timerVars, player, volume>>
  BY DEF Input, PrimeRead, InputStep, ReadChunk, UnchangedByReading, PrimeEnd, PrimeError,
     NoChunk, PlayContinue, PlayStop, CloseSource, PlayEof, PlayRead, PlayNoData,
     PlayReadError, PlayFlags, PlayClear, PlayHold, PlayWritePlain, PlayWrite,
     PlayWriteNew, MetadataGet

\* The player only consumes the input buffer and reports its status.
LEMMA PlayerFrame ==
  Player => UNCHANGED <<maVars, cmdVars, flagVars, prepVars, triggerVars, inVars,
                        writeVars, shown, shownArt, volume, timerVars>>
  BY DEF Player, PlayerConsume, UnchangedByPlayer, PlayerUnderrun, PlayerEnd

\* mass_timer_cb only updates its statics, until it exits.
LEMMA TimerFrame ==
  Timer => UNCHANGED <<maVars, cmdVars, flagVars, prepVars, triggerVars, inVars,
                       writeVars, bufVars, playerVars>>
  BY DEF Timer, TimerPlaying, UnchangedByTimer, TimerPaused, TimerExit, TimerReset

-----------------------------------------------------------------------------
(* Type correctness, part by part.                                           *)

\* The variables start with their types.
LEMMA InitType == Init => TypeOK
<1> SUFFICES ASSUME Init PROVE TypeOK
  OBVIOUS
<1>1. PipeType
  BY BoundsAssumption DEF Init, PipeType, Serial
<1>2. CmdType
  BY DEF Init, CmdType, Status, Bits
<1>3. PreparedType
  BY BoundsAssumption DEF Init, PreparedType, NoFields, Serial
<1>4. InputType
  BY DEF Init, InputType, Status
<1>5. CountType
  BY DEF Init, CountType
<1>6. FlagType
  BY Zenon DEF Init, FlagType
<1>7. QED
  BY <1>1, <1>2, <1>3, <1>4, <1>5, <1>6 DEF TypeOK

\* The pipes keep their type: at most MaxItems items and MaxChunks chunks are sent.
LEMMA NextPipeType == TypeOK /\ [Next]_vars => PipeType'
<1> SUFFICES ASSUME TypeOK, [Next]_vars PROVE PipeType'
  OBVIOUS
<1> USE BoundsAssumption DEF TypeOK
<1>1. CASE MusicAssistant
  <2>1. CASE MAOpen
    BY <2>1 DEF MAOpen, UnchangedByMA, PipeType, Serial, Item
  <2>2. CASE \E key \in Keys : MASend(key)
    BY <2>2 DEF MASend, UnchangedByMA, PipeType, Serial, Item
  <2>3. CASE MAClose
    BY <2>3 DEF MAClose, UnchangedByMA, PipeType, Serial, Item
  <2>4. CASE MAAudio
    BY <2>4 DEF MAAudio, UnchangedByMA, PipeType, Serial, Item
  <2>5. CASE MAEnd
    BY <2>5 DEF MAEnd, UnchangedByMA, PipeType, Serial, Item
  <2>6. QED
    BY <1>1, <2>1, <2>2, <2>3, <2>4, <2>5 DEF MusicAssistant
<1>2. CASE CmdReader
  <2>1. CASE CmdRead
    BY <2>1 DEF CmdRead, PipeType, Serial, Item
  <2>2. CASE CmdReadError
    BY <2>2 DEF CmdReadError, WatchDeleted, PipeType, Serial, Item
  <2>3. CASE CmdReadEof
    BY <2>3 DEF CmdReadEof, PipeType, Serial, Item
  <2>4. CASE CmdWatchDel
    BY <2>4 DEF CmdWatchDel, PipeType, Serial, Item
  <2>5. CASE CmdWatchAdd
    BY <2>5 DEF CmdWatchAdd, PipeType, Serial, Item
  <2>6. QED
    BY <1>2, <2>1, <2>2, <2>3, <2>4, <2>5 DEF CmdReader
<1>3. CASE Parse
  <2>1. CASE ParseField
    BY <2>1 DEF ParseField, Parsing, Parsed, PipeType, Serial, Item
  <2>2. CASE ParseSendmeta
    BY <2>2 DEF ParseSendmeta, Parsing, Parsed, PipeType, Serial, Item
  <2>3. CASE ParseArtwork
    BY <2>3 DEF ParseArtwork, Parsing, Parsed, PipeType, Serial, Item
  <2>4. CASE ParseVolume
    BY <2>4 DEF ParseVolume, Parsing, Parsed, PipeType, Serial, Item
  <2>5. CASE ParsePin
    BY <2>5 DEF ParsePin, Parsing, Parsed, PipeType, Serial, Item
  <2>6. CASE ParseAction
    BY <2>6 DEF ParseAction, Parsing, Parsed, PipeType, Serial, Item
  <2>7. CASE ParseFail
    BY <2>7 DEF ParseFail, Parsing, WatchDeleted, PipeType, Serial, Item
  <2>8. QED
    BY <1>3, <2>1, <2>2, <2>3, <2>4, <2>5, <2>6, <2>7 DEF Parse
<1>4. CASE CmdStatus
  BY <1>4 DEF CmdStatus, PipeType, Serial, Item
<1>5. CASE CmdAct
  BY <1>5, CmdActFrame DEF PipeType, Serial, Item
<1>6. CASE CmdFlush
  BY <1>6 DEF CmdFlush, PipeType, Serial, Item
<1>7. CASE StartPlayback
  BY <1>7 DEF StartPlayback, InputStep, PipeType, Serial, Item
<1>8. CASE Input
  <2>1. CASE PrimeRead
    BY <2>1 DEF PrimeRead, InputStep, ReadChunk, UnchangedByReading, PipeType, Serial,
       Item
  <2>2. CASE PrimeEnd
    BY <2>2 DEF PrimeEnd, InputStep, NoChunk, UnchangedByReading, PipeType, Serial,
       Item
  <2>3. CASE PlayContinue
    BY <2>3 DEF PlayContinue, InputStep, NoChunk, UnchangedByReading, PipeType,
       Serial, Item
  <2>4. CASE PlayStop
    BY <2>4 DEF PlayStop, InputStep, CloseSource, PipeType, Serial, Item
  <2>5. CASE PlayEof
    BY <2>5 DEF PlayEof, InputStep, CloseSource, PipeType, Serial, Item
  <2>6. CASE PlayRead
    BY <2>6 DEF PlayRead, InputStep, ReadChunk, UnchangedByReading, PipeType, Serial,
       Item
  <2>7. CASE PlayNoData
    BY <2>7 DEF PlayNoData, InputStep, NoChunk, UnchangedByReading, PipeType, Serial,
       Item
  <2>8. CASE PrimeError \/ PlayReadError
    BY <2>8 DEF PrimeError, PlayReadError, InputStep, PipeType, Serial, Item
  <2>9. CASE PlayFlags
    BY <2>9 DEF PlayFlags, InputStep, UnchangedByReading, PipeType, Serial, Item
  <2>10. CASE PlayClear
    BY <2>10 DEF PlayClear, InputStep, PipeType, Serial, Item
  <2>11. CASE PlayHold
    BY <2>11 DEF PlayHold, InputStep, UnchangedByReading, PipeType, Serial, Item
  <2>12. CASE PlayWritePlain
    BY <2>12 DEF PlayWritePlain, InputStep, PlayWrite, PipeType, Serial, Item
  <2>13. CASE PlayWriteNew
    BY <2>13 DEF PlayWriteNew, InputStep, PlayWrite, MetadataGet, PipeType, Serial,
       Item
  <2>14. QED
    BY <1>8, <2>1, <2>2, <2>3, <2>4, <2>5, <2>6, <2>7, <2>8, <2>9, <2>10, <2>11,
       <2>12, <2>13 DEF Input
<1>9. CASE Player
  BY <1>9, PlayerFrame DEF PipeType, Serial, Item
<1>10. CASE Timer
  BY <1>10, TimerFrame DEF PipeType, Serial, Item
<1>11. CASE UNCHANGED vars
  BY <1>11 DEF vars, PipeType, Serial, Item
<1>12. QED
  BY <1>1, <1>2, <1>3, <1>4, <1>5, <1>6, <1>7, <1>8, <1>9, <1>10, <1>11 DEF Next

\* pipe_metadata_parse works on the head of a queue that is not empty; what it leaves
\* is empty only if that was the last item.
LEMMA ParseType ==
  ASSUME CmdType, Parse
  PROVE  Head(evbuf) \in Item /\ Tail(evbuf) \in Seq(Item)
         /\ (Len(evbuf) # 1 => Tail(evbuf) # <<>>)
<1>1. evbuf \in Seq(Item) /\ evbuf # <<>>
  BY DEF CmdType, Parse, Parsing, ParseField, ParseSendmeta, ParseArtwork,
     ParseVolume,
     ParsePin, ParseAction, ParseFail
<1>2. Len(evbuf) \in Nat /\ Len(evbuf) > 0
  BY <1>1, EmptySeq, LenProperties
<1>3. Head(evbuf) \in Item /\ Tail(evbuf) \in Seq(Item) /\ Len(Tail(evbuf)) = Len(evbuf) - 1
  BY <1>1, HeadTailProperties
<1>4. ASSUME Len(evbuf) # 1 PROVE Tail(evbuf) # <<>>
  BY <1>2, <1>3, <1>4, EmptySeq
<1>5. QED
  BY <1>3, <1>4

\* mass_cmd keeps its type; it is at an item only if there is one.
LEMMA NextCmdType == TypeOK /\ [Next]_vars => CmdType'
<1> SUFFICES ASSUME TypeOK, [Next]_vars PROVE CmdType'
  OBVIOUS
<1> USE DEF TypeOK
<1>1. CASE MusicAssistant
  BY <1>1, MusicAssistantFrame DEF CmdType, Bits, Status
<1>2. CASE CmdReader
  <2>1. CASE CmdRead
    BY <2>1 DEF CmdRead, CmdType, Bits, Status, PipeType
  <2>2. CASE CmdReadError
    BY <2>2 DEF CmdReadError, WatchDeleted, CmdType, Bits, Status
  <2>3. CASE CmdReadEof
    BY <2>3 DEF CmdReadEof, CmdType, Bits, Status
  <2>4. CASE CmdWatchDel
    BY <2>4 DEF CmdWatchDel, CmdType, Bits, Status
  <2>5. CASE CmdWatchAdd
    BY <2>5 DEF CmdWatchAdd, CmdType, Bits, Status
  <2>6. QED
    BY <1>2, <2>1, <2>2, <2>3, <2>4, <2>5 DEF CmdReader
<1>3. CASE Parse
  <2>1. CASE ParseField
    BY <2>1, ParseType DEF ParseField, Parsing, Parsed, CmdType, Bits, Item, Status,
       Parse
  <2>2. CASE ParseSendmeta
    BY <2>2, ParseType DEF ParseSendmeta, Parsing, Parsed, CmdType, Bits, Item,
       Status, Parse
  <2>3. CASE ParseArtwork
    BY <2>3, ParseType DEF ParseArtwork, Parsing, Parsed, CmdType, Bits, Item, Status,
       Parse
  <2>4. CASE ParseVolume
    BY <2>4, ParseType DEF ParseVolume, Parsing, Parsed, CmdType, Bits, Item, Status,
       Parse
  <2>5. CASE ParsePin
    BY <2>5, ParseType DEF ParsePin, Parsing, Parsed, CmdType, Bits, Item, Status,
       Parse
  <2>6. CASE ParseAction
    BY <2>6, ParseType DEF ParseAction, Parsing, Parsed, CmdType, Bits, Item, Status,
       Parse
  <2>7. CASE ParseFail
    BY <2>7, ParseType DEF ParseFail, Parsing, WatchDeleted, CmdType, Bits, Item,
       Status, Parse
  <2>8. QED
    BY <1>3, <2>1, <2>2, <2>3, <2>4, <2>5, <2>6, <2>7 DEF Parse
<1>4. CASE CmdStatus
  BY <1>4 DEF CmdStatus, CmdType, Bits, Status, InputType
<1>5. CASE CmdAct
  <2>1. CASE CmdNew
    BY <2>1 DEF CmdNew, Act, CmdType, Bits, Status
  <2>2. CASE CmdVolume
    BY <2>2 DEF CmdVolume, Act, CmdType, Bits, Status
  <2>3. CASE CmdPin
    BY <2>3 DEF CmdPin, Act, CmdType, Bits, Status
  <2>4. CASE CmdPause
    BY <2>4 DEF CmdPause, Act, CmdType, Bits, Status
  <2>5. CASE CmdPlay
    BY <2>5 DEF CmdPlay, Act, CmdType, Bits, Status
  <2>6. CASE CmdStop
    BY <2>6 DEF CmdStop, Act, CmdType, Bits, Status
  <2>7. QED
    BY <1>5, <2>1, <2>2, <2>3, <2>4, <2>5, <2>6 DEF CmdAct
<1>6. CASE CmdFlush
  BY <1>6 DEF CmdFlush, CmdType, Bits, Status
<1>7. CASE StartPlayback
  BY <1>7 DEF StartPlayback, InputStep, CmdType, Bits, Status
<1>8. CASE Input
  BY <1>8, InputFrame DEF CmdType, Bits, Status
<1>9. CASE Player
  BY <1>9, PlayerFrame DEF CmdType, Bits, Status
<1>10. CASE Timer
  BY <1>10, TimerFrame DEF CmdType, Bits, Status
<1>11. CASE UNCHANGED vars
  BY <1>11 DEF vars, CmdType, Bits, Status
<1>12. QED
  BY <1>1, <1>2, <1>3, <1>4, <1>5, <1>6, <1>7, <1>8, <1>9, <1>10, <1>11 DEF Next

\* The prepared metadata, and what was handed over, keep their type.
LEMMA NextPreparedType == TypeOK /\ [Next]_vars => PreparedType'
<1> SUFFICES ASSUME TypeOK, [Next]_vars PROVE PreparedType'
  OBVIOUS
<1> USE BoundsAssumption DEF TypeOK
<1>1. CASE MusicAssistant
  BY <1>1, MusicAssistantFrame DEF PreparedType, Serial
<1>2. CASE CmdReader
  <2>1. CASE CmdRead
    BY <2>1 DEF CmdRead, PreparedType, Serial
  <2>2. CASE CmdReadError
    BY <2>2 DEF CmdReadError, WatchDeleted, PreparedType, Serial
  <2>3. CASE CmdReadEof
    BY <2>3 DEF CmdReadEof, PreparedType, Serial
  <2>4. CASE CmdWatchDel
    BY <2>4 DEF CmdWatchDel, PreparedType, Serial
  <2>5. CASE CmdWatchAdd
    BY <2>5 DEF CmdWatchAdd, PreparedType, Serial
  <2>6. QED
    BY <1>2, <2>1, <2>2, <2>3, <2>4, <2>5 DEF CmdReader
<1>3. CASE Parse
  <2>1. CASE ParseField
    BY <2>1, ParseType DEF ParseField, Parsing, Parsed, PreparedType, Item, Serial,
       Parse
  <2>2. CASE ParseSendmeta
    BY <2>2, ParseType DEF ParseSendmeta, Parsing, Parsed, PreparedType, Item, Serial,
       Parse
  <2>3. CASE ParseArtwork
    BY <2>3, ParseType DEF ParseArtwork, Parsing, Parsed, PreparedType, Item, Serial,
       Parse
  <2>4. CASE ParseVolume
    BY <2>4, ParseType DEF ParseVolume, Parsing, Parsed, PreparedType, Item, Serial,
       Parse
  <2>5. CASE ParsePin
    BY <2>5, ParseType DEF ParsePin, Parsing, Parsed, PreparedType, Item, Serial,
       Parse
  <2>6. CASE ParseAction
    BY <2>6, ParseType DEF ParseAction, Parsing, Parsed, PreparedType, Item, Serial,
       Parse
  <2>7. CASE ParseFail
    BY <2>7, ParseType DEF ParseFail, Parsing, WatchDeleted, PreparedType, Item,
       Serial, Parse
  <2>8. QED
    BY <1>3, <2>1, <2>2, <2>3, <2>4, <2>5, <2>6, <2>7 DEF Parse
<1>4. CASE CmdStatus
  BY <1>4 DEF CmdStatus, PreparedType, Serial
<1>5. CASE CmdAct
  <2>1. CASE CmdNew
    BY <2>1 DEF CmdNew, Act, PreparedType, Serial
  <2>2. CASE CmdVolume
    BY <2>2 DEF CmdVolume, Act, PreparedType, Serial
  <2>3. CASE CmdPin
    BY <2>3 DEF CmdPin, Act, PreparedType, Serial
  <2>4. CASE CmdPause
    BY <2>4 DEF CmdPause, Act, PreparedType, Serial
  <2>5. CASE CmdPlay
    BY <2>5 DEF CmdPlay, Act, PreparedType, Serial
  <2>6. CASE CmdStop
    BY <2>6 DEF CmdStop, Act, PreparedType, Serial
  <2>7. QED
    BY <1>5, <2>1, <2>2, <2>3, <2>4, <2>5, <2>6 DEF CmdAct
<1>6. CASE CmdFlush
  BY <1>6 DEF CmdFlush, PreparedType, Serial
<1>7. CASE StartPlayback
  BY <1>7 DEF StartPlayback, InputStep, PreparedType, Serial
<1>8. CASE Input
  <2>1. CASE PrimeRead
    BY <2>1 DEF PrimeRead, InputStep, ReadChunk, UnchangedByReading, PreparedType,
       Serial
  <2>2. CASE PrimeEnd
    BY <2>2 DEF PrimeEnd, InputStep, NoChunk, UnchangedByReading, PreparedType, Serial
  <2>3. CASE PlayContinue
    BY <2>3 DEF PlayContinue, InputStep, NoChunk, UnchangedByReading, PreparedType,
       Serial
  <2>4. CASE PlayStop
    BY <2>4 DEF PlayStop, InputStep, CloseSource, PreparedType, Serial
  <2>5. CASE PlayEof
    BY <2>5 DEF PlayEof, InputStep, CloseSource, PreparedType, Serial
  <2>6. CASE PlayRead
    BY <2>6 DEF PlayRead, InputStep, ReadChunk, UnchangedByReading, PreparedType,
       Serial
  <2>7. CASE PlayNoData
    BY <2>7 DEF PlayNoData, InputStep, NoChunk, UnchangedByReading, PreparedType,
       Serial
  <2>8. CASE PrimeError \/ PlayReadError
    BY <2>8 DEF PrimeError, PlayReadError, InputStep, PreparedType, Serial
  <2>9. CASE PlayFlags
    BY <2>9 DEF PlayFlags, InputStep, UnchangedByReading, PreparedType, Serial
  <2>10. CASE PlayClear
    BY <2>10 DEF PlayClear, InputStep, PreparedType, Serial
  <2>11. CASE PlayHold
    BY <2>11 DEF PlayHold, InputStep, UnchangedByReading, PreparedType, Serial
  <2>12. CASE PlayWritePlain
    BY <2>12 DEF PlayWritePlain, InputStep, PlayWrite, PreparedType, Serial
  <2>13. CASE PlayWriteNew
    BY <2>13 DEF PlayWriteNew, InputStep, PlayWrite, MetadataGet, PreparedType,
       Serial, NoFields
  <2>14. QED
    BY <1>8, <2>1, <2>2, <2>3, <2>4, <2>5, <2>6, <2>7, <2>8, <2>9, <2>10, <2>11,
       <2>12, <2>13 DEF Input
<1>9. CASE Player
  BY <1>9, PlayerFrame DEF PreparedType, Serial
<1>10. CASE Timer
  BY <1>10, TimerFrame DEF PreparedType, Serial
<1>11. CASE UNCHANGED vars
  BY <1>11 DEF vars, PreparedType, Serial
<1>12. QED
  BY <1>1, <1>2, <1>3, <1>4, <1>5, <1>6, <1>7, <1>8, <1>9, <1>10, <1>11 DEF Next

\* The state of the input thread and of the input buffer keeps its type.
LEMMA NextInputType == TypeOK /\ [Next]_vars => InputType'
<1> SUFFICES ASSUME TypeOK, [Next]_vars PROVE InputType'
  OBVIOUS
<1> USE DEF TypeOK
<1>1. CASE MusicAssistant
  BY <1>1, MusicAssistantFrame DEF InputType, Status
<1>2. CASE CmdReader
  BY <1>2, CmdReaderFrame DEF InputType, Status
<1>3. CASE Parse
  BY <1>3, ParseFrame DEF InputType, Status
<1>4. CASE CmdStatus
  BY <1>4 DEF CmdStatus, InputType, Status
<1>5. CASE CmdAct
  BY <1>5, CmdActFrame DEF InputType, Status
<1>6. CASE CmdFlush
  BY <1>6 DEF CmdFlush, InputType, Status
<1>7. CASE StartPlayback
  BY <1>7 DEF StartPlayback, InputStep, InputType, Status
<1>8. CASE Input
  <2>1. CASE PrimeRead
    BY <2>1 DEF PrimeRead, InputStep, ReadChunk, UnchangedByReading, InputType, Status
  <2>2. CASE PrimeEnd
    BY <2>2 DEF PrimeEnd, InputStep, NoChunk, UnchangedByReading, InputType, Status
  <2>3. CASE PlayContinue
    BY <2>3 DEF PlayContinue, InputStep, NoChunk, UnchangedByReading, InputType,
       Status
  <2>4. CASE PlayStop
    BY <2>4 DEF PlayStop, InputStep, CloseSource, InputType, Status
  <2>5. CASE PlayEof
    BY <2>5 DEF PlayEof, InputStep, CloseSource, InputType, Status
  <2>6. CASE PlayRead
    BY <2>6 DEF PlayRead, InputStep, ReadChunk, UnchangedByReading, InputType, Status
  <2>7. CASE PlayNoData
    BY <2>7 DEF PlayNoData, InputStep, NoChunk, UnchangedByReading, InputType, Status
  <2>8. CASE PrimeError \/ PlayReadError
    BY <2>8 DEF PrimeError, PlayReadError, InputStep, InputType, Status
  <2>9. CASE PlayFlags
    BY <2>9 DEF PlayFlags, InputStep, UnchangedByReading, InputType, Status
  <2>10. CASE PlayClear
    BY <2>10 DEF PlayClear, InputStep, InputType, Status
  <2>11. CASE PlayHold
    BY <2>11 DEF PlayHold, InputStep, UnchangedByReading, InputType, Status
  <2>12. CASE PlayWritePlain
    BY <2>12 DEF PlayWritePlain, InputStep, PlayWrite, InputType, Status
  <2>13. CASE PlayWriteNew
    BY <2>13 DEF PlayWriteNew, InputStep, PlayWrite, MetadataGet, InputType, Status
  <2>14. QED
    BY <1>8, <2>1, <2>2, <2>3, <2>4, <2>5, <2>6, <2>7, <2>8, <2>9, <2>10, <2>11,
       <2>12, <2>13 DEF Input
<1>9. CASE Player
  <2>1. CASE PlayerConsume
    BY <2>1 DEF PlayerConsume, UnchangedByPlayer, InputType, Status
  <2>2. CASE PlayerUnderrun
    BY <2>2 DEF PlayerUnderrun, UnchangedByPlayer, InputType, Status
  <2>3. CASE PlayerEnd
    BY <2>3 DEF PlayerEnd, UnchangedByPlayer, InputType, Status
  <2>4. QED
    BY <1>9, <2>1, <2>2, <2>3 DEF Player
<1>10. CASE Timer
  BY <1>10, TimerFrame DEF InputType, Status
<1>11. CASE UNCHANGED vars
  BY <1>11 DEF vars, InputType, Status
<1>12. QED
  BY <1>1, <1>2, <1>3, <1>4, <1>5, <1>6, <1>7, <1>8, <1>9, <1>10, <1>11 DEF Next

\* The history counters stay natural numbers.
LEMMA NextCountType == TypeOK /\ [Next]_vars => CountType'
<1> SUFFICES ASSUME TypeOK, [Next]_vars PROVE CountType'
  OBVIOUS
<1> USE DEF TypeOK
<1>1. CASE MusicAssistant
  BY <1>1, MusicAssistantFrame DEF CountType
<1>2. CASE CmdReader
  BY <1>2, CmdReaderFrame DEF CountType
<1>3. CASE Parse
  BY <1>3, ParseFrame DEF CountType
<1>4. CASE CmdStatus
  BY <1>4 DEF CmdStatus, CountType
<1>5. CASE CmdAct
  <2>1. CASE CmdNew
    BY <2>1 DEF CmdNew, Act, CountType
  <2>2. CASE CmdVolume
    BY <2>2 DEF CmdVolume, Act, CountType
  <2>3. CASE CmdPin
    BY <2>3 DEF CmdPin, Act, CountType
  <2>4. CASE CmdPause
    BY <2>4 DEF CmdPause, Act, CountType
  <2>5. CASE CmdPlay
    BY <2>5 DEF CmdPlay, Act, CountType
  <2>6. CASE CmdStop
    BY <2>6 DEF CmdStop, Act, CountType
  <2>7. QED
    BY <1>5, <2>1, <2>2, <2>3, <2>4, <2>5, <2>6 DEF CmdAct
<1>6. CASE CmdFlush
  BY <1>6 DEF CmdFlush, CountType
<1>7. CASE StartPlayback
  BY <1>7 DEF StartPlayback, InputStep, CountType
<1>8. CASE Input
  <2>1. CASE PrimeRead
    BY <2>1 DEF PrimeRead, InputStep, ReadChunk, UnchangedByReading, CountType
  <2>2. CASE PrimeEnd
    BY <2>2 DEF PrimeEnd, InputStep, NoChunk, UnchangedByReading, CountType
  <2>3. CASE PlayContinue
    BY <2>3 DEF PlayContinue, InputStep, NoChunk, UnchangedByReading, CountType
  <2>4. CASE PlayStop
    BY <2>4 DEF PlayStop, InputStep, CloseSource, CountType
  <2>5. CASE PlayEof
    BY <2>5 DEF PlayEof, InputStep, CloseSource, CountType
  <2>6. CASE PlayRead
    BY <2>6 DEF PlayRead, InputStep, ReadChunk, UnchangedByReading, CountType
  <2>7. CASE PlayNoData
    BY <2>7 DEF PlayNoData, InputStep, NoChunk, UnchangedByReading, CountType
  <2>8. CASE PrimeError \/ PlayReadError
    BY <2>8 DEF PrimeError, PlayReadError, InputStep, CountType
  <2>9. CASE PlayFlags
    BY <2>9 DEF PlayFlags, InputStep, UnchangedByReading, CountType
  <2>10. CASE PlayClear
    BY <2>10 DEF PlayClear, InputStep, CountType
  <2>11. CASE PlayHold
    BY <2>11 DEF PlayHold, InputStep, UnchangedByReading, CountType
  <2>12. CASE PlayWritePlain
    BY <2>12 DEF PlayWritePlain, InputStep, PlayWrite, CountType
  <2>13. CASE PlayWriteNew
    BY <2>13 DEF PlayWriteNew, InputStep, PlayWrite, MetadataGet, CountType
  <2>14. QED
    BY <1>8, <2>1, <2>2, <2>3, <2>4, <2>5, <2>6, <2>7, <2>8, <2>9, <2>10, <2>11,
       <2>12, <2>13 DEF Input
<1>9. CASE Player
  BY <1>9, PlayerFrame DEF CountType
<1>10. CASE Timer
  BY <1>10, TimerFrame DEF CountType
<1>11. CASE UNCHANGED vars
  BY <1>11 DEF vars, CountType
<1>12. QED
  BY <1>1, <1>2, <1>3, <1>4, <1>5, <1>6, <1>7, <1>8, <1>9, <1>10, <1>11 DEF Next

\* The flags stay Boolean.
LEMMA NextFlagType == TypeOK /\ [Next]_vars => FlagType'
<1> SUFFICES ASSUME TypeOK, [Next]_vars PROVE FlagType'
  OBVIOUS
<1> USE DEF TypeOK
<1>1. CASE MusicAssistant
  <2>1. CASE MAOpen
    BY <2>1, Zenon DEF MAOpen, UnchangedByMA, FlagType
  <2>2. CASE \E key \in Keys : MASend(key)
    BY <2>2, Zenon DEF MASend, UnchangedByMA, FlagType
  <2>3. CASE MAClose
    BY <2>3, Zenon DEF MAClose, UnchangedByMA, FlagType
  <2>4. CASE MAAudio
    BY <2>4, Zenon DEF MAAudio, UnchangedByMA, FlagType
  <2>5. CASE MAEnd
    BY <2>5, Zenon DEF MAEnd, UnchangedByMA, FlagType
  <2>6. QED
    BY <1>1, <2>1, <2>2, <2>3, <2>4, <2>5 DEF MusicAssistant
<1>2. CASE CmdReader
  BY <1>2, CmdReaderFrame DEF FlagType
<1>3. CASE Parse
  BY <1>3, ParseFrame DEF FlagType
<1>4. CASE CmdStatus
  BY <1>4, Zenon DEF CmdStatus, FlagType
<1>5. CASE CmdAct
  <2>1. CASE CmdNew
    BY <2>1, Zenon DEF CmdNew, Act, FlagType
  <2>2. CASE CmdVolume
    BY <2>2, Zenon DEF CmdVolume, Act, FlagType
  <2>3. CASE CmdPin
    BY <2>3, Zenon DEF CmdPin, Act, FlagType
  <2>4. CASE CmdPause
    BY <2>4, Zenon DEF CmdPause, Act, FlagType
  <2>5. CASE CmdPlay
    BY <2>5, Zenon DEF CmdPlay, Act, FlagType
  <2>6. CASE CmdStop
    BY <2>6, Zenon DEF CmdStop, Act, FlagType
  <2>7. QED
    BY <1>5, <2>1, <2>2, <2>3, <2>4, <2>5, <2>6 DEF CmdAct
<1>6. CASE CmdFlush
  BY <1>6, Zenon DEF CmdFlush, FlagType
<1>7. CASE StartPlayback
  BY <1>7, Zenon DEF StartPlayback, InputStep, FlagType
<1>8. CASE Input
  <2>1. CASE PrimeRead
    BY <2>1, Zenon DEF PrimeRead, InputStep, ReadChunk, UnchangedByReading, FlagType
  <2>2. CASE PrimeEnd
    BY <2>2, Zenon DEF PrimeEnd, InputStep, NoChunk, UnchangedByReading, FlagType
  <2>3. CASE PlayContinue
    BY <2>3, Zenon DEF PlayContinue, InputStep, NoChunk, UnchangedByReading, FlagType
  <2>4. CASE PlayStop
    BY <2>4, Zenon DEF PlayStop, InputStep, CloseSource, FlagType
  <2>5. CASE PlayEof
    BY <2>5, Zenon DEF PlayEof, InputStep, CloseSource, FlagType
  <2>6. CASE PlayRead
    BY <2>6, Zenon DEF PlayRead, InputStep, ReadChunk, UnchangedByReading, FlagType
  <2>7. CASE PlayNoData
    BY <2>7, Zenon DEF PlayNoData, InputStep, NoChunk, UnchangedByReading, FlagType
  <2>8. CASE PrimeError \/ PlayReadError
    BY <2>8, Zenon DEF PrimeError, PlayReadError, InputStep, FlagType
  <2>9. CASE PlayFlags
    BY <2>9, Zenon DEF PlayFlags, InputStep, UnchangedByReading, FlagType
  <2>10. CASE PlayClear
    BY <2>10, Zenon DEF PlayClear, InputStep, FlagType
  <2>11. CASE PlayHold
    BY <2>11, Zenon DEF PlayHold, InputStep, UnchangedByReading, FlagType
  <2>12. CASE PlayWritePlain
    BY <2>12, Zenon DEF PlayWritePlain, InputStep, PlayWrite, FlagType
  <2>13. CASE PlayWriteNew
    BY <2>13, Zenon DEF PlayWriteNew, InputStep, PlayWrite, MetadataGet, FlagType
  <2>14. QED
    BY <1>8, <2>1, <2>2, <2>3, <2>4, <2>5, <2>6, <2>7, <2>8, <2>9, <2>10, <2>11,
       <2>12, <2>13 DEF Input
<1>9. CASE Player
  <2>1. CASE PlayerConsume
    BY <2>1, Zenon DEF PlayerConsume, UnchangedByPlayer, FlagType
  <2>2. CASE PlayerUnderrun
    BY <2>2, Zenon DEF PlayerUnderrun, UnchangedByPlayer, FlagType
  <2>3. CASE PlayerEnd
    BY <2>3, Zenon DEF PlayerEnd, UnchangedByPlayer, FlagType
  <2>4. QED
    BY <1>9, <2>1, <2>2, <2>3 DEF Player
<1>10. CASE Timer
  <2>1. CASE TimerPlaying
    BY <2>1, Zenon DEF TimerPlaying, UnchangedByTimer, FlagType
  <2>2. CASE TimerPaused
    BY <2>2, Zenon DEF TimerPaused, UnchangedByTimer, FlagType
  <2>3. CASE TimerExit
    BY <2>3, Zenon DEF TimerExit, UnchangedByTimer, FlagType
  <2>4. CASE TimerReset
    BY <2>4, Zenon DEF TimerReset, UnchangedByTimer, FlagType
  <2>5. QED
    BY <1>10, <2>1, <2>2, <2>3, <2>4 DEF Timer
<1>11. CASE UNCHANGED vars
  BY <1>11 DEF vars, FlagType
<1>12. QED
  BY <1>1, <1>2, <1>3, <1>4, <1>5, <1>6, <1>7, <1>8, <1>9, <1>10, <1>11 DEF Next

\* Every state the program can reach is well typed, whatever Music Assistant sends:
\* in particular pipe_metadata_parse is never at an item that is not there.
THEOREM TypeCorrect == Spec => []TypeOK
<1>1. TypeOK /\ [Next]_vars => TypeOK'
  BY NextPipeType, NextCmdType, NextPreparedType, NextInputType, NextCountType,
     NextFlagType DEF TypeOK
<1>2. QED
  BY InitType, <1>1, PTL DEF Spec

=============================================================================
