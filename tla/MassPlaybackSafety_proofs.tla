--------------------- MODULE MassPlaybackSafety_proofs ---------------------
(***************************************************************************)
(* The safety properties of MassPlayback, and that it implements           *)
(* PlaybackContract, for every value of its constants.  Each property      *)
(* follows from an invariant that is inductive once the types are known.   *)
(***************************************************************************)
EXTENDS MassPlayback_proofs

USE DEF maVars, cmdVars, flagVars, prepVars, triggerVars, inVars, writeVars, bufVars,
        playerVars, timerVars, beyondParse, beyondPipe

-----------------------------------------------------------------------------
(* Late writes.                                                              *)

\* One call of play() at most is past the gate when a flag is set.
LEMMA LateStep == TypeOK /\ LateInv /\ [Next]_vars => LateInv'
<1> SUFFICES ASSUME TypeOK, LateInv, [Next]_vars PROVE LateInv'
  OBVIOUS
<1> USE DEF TypeOK
<1>1. CASE MusicAssistant
  BY <1>1, MusicAssistantFrame DEF LateInv, PastGate, Count, CountType
<1>2. CASE CmdReader
  BY <1>2, CmdReaderFrame DEF LateInv, PastGate, Count, CountType
<1>3. CASE Parse
  BY <1>3, ParseFrame DEF LateInv, PastGate, Count, CountType
<1>4. CASE CmdStatus
  BY <1>4 DEF CmdStatus, LateInv, PastGate, Count, CountType
<1>5. CASE CmdAct
  <2>1. CASE CmdNew
    BY <2>1 DEF CmdNew, Act, LateInv, PastGate, Count, CountType
  <2>2. CASE CmdVolume
    BY <2>2 DEF CmdVolume, Act, LateInv, PastGate, Count, CountType
  <2>3. CASE CmdPin
    BY <2>3 DEF CmdPin, Act, LateInv, PastGate, Count, CountType
  <2>4. CASE CmdPause
    BY <2>4 DEF CmdPause, Act, LateInv, PastGate, Count, CountType
  <2>5. CASE CmdPlay
    BY <2>5 DEF CmdPlay, Act, LateInv, PastGate, Count, CountType
  <2>6. CASE CmdStop
    BY <2>6 DEF CmdStop, Act, LateInv, PastGate, Count, CountType
  <2>7. QED
    BY <1>5, <2>1, <2>2, <2>3, <2>4, <2>5, <2>6 DEF CmdAct
<1>6. CASE CmdFlush
  BY <1>6 DEF CmdFlush, LateInv, PastGate, Count, CountType
<1>7. CASE StartPlayback
  BY <1>7 DEF StartPlayback, InputStep, LateInv, PastGate, Count, CountType
<1>8. CASE Input
  <2>1. CASE PrimeRead
    BY <2>1 DEF PrimeRead, InputStep, ReadChunk, UnchangedByReading, LateInv,
       PastGate, Count, CountType
  <2>2. CASE PrimeEnd
    BY <2>2 DEF PrimeEnd, InputStep, NoChunk, UnchangedByReading, LateInv, PastGate,
       Count, CountType
  <2>3. CASE PlayContinue
    BY <2>3 DEF PlayContinue, InputStep, NoChunk, UnchangedByReading, LateInv,
       PastGate, Count, CountType
  <2>4. CASE PlayStop
    BY <2>4 DEF PlayStop, InputStep, CloseSource, LateInv, PastGate, Count, CountType
  <2>5. CASE PlayEof
    BY <2>5 DEF PlayEof, InputStep, CloseSource, LateInv, PastGate, Count, CountType
  <2>6. CASE PlayRead
    BY <2>6 DEF PlayRead, InputStep, ReadChunk, UnchangedByReading, LateInv, PastGate,
       Count, CountType
  <2>7. CASE PlayNoData
    BY <2>7 DEF PlayNoData, InputStep, NoChunk, UnchangedByReading, LateInv, PastGate,
       Count, CountType
  <2>8. CASE PrimeError \/ PlayReadError
    BY <2>8 DEF PrimeError, PlayReadError, InputStep, LateInv, PastGate, Count, CountType
  <2>9. CASE PlayFlags
    BY <2>9 DEF PlayFlags, InputStep, UnchangedByReading, LateInv, PastGate, Count,
       CountType
  <2>10. CASE PlayClear
    BY <2>10 DEF PlayClear, InputStep, LateInv, PastGate, Count, CountType
  <2>11. CASE PlayHold
    BY <2>11 DEF PlayHold, InputStep, UnchangedByReading, LateInv, PastGate, Count,
       CountType
  <2>12. CASE PlayWritePlain
    BY <2>12 DEF PlayWritePlain, InputStep, PlayWrite, LateInv, PastGate, Count,
       CountType
  <2>13. CASE PlayWriteNew
    BY <2>13 DEF PlayWriteNew, InputStep, PlayWrite, MetadataGet, LateInv, PastGate,
       Count, CountType
  <2>14. QED
    BY <1>8, <2>1, <2>2, <2>3, <2>4, <2>5, <2>6, <2>7, <2>8, <2>9, <2>10, <2>11,
       <2>12, <2>13 DEF Input
<1>9. CASE Player
  BY <1>9, PlayerFrame DEF LateInv, PastGate, Count, CountType
<1>10. CASE Timer
  BY <1>10, TimerFrame DEF LateInv, PastGate, Count, CountType
<1>11. CASE UNCHANGED vars
  BY <1>11 DEF vars, LateInv, PastGate, Count, CountType
<1>12. QED
  BY <1>1, <1>2, <1>3, <1>4, <1>5, <1>6, <1>7, <1>8, <1>9, <1>10, <1>11 DEF Next

\* After self_stop, and while a pause lasts, play() writes audio at most once more, for
\* any number of chunks, commands and pauses.
THEOREM LateWriteIsSingle == Spec => []AtMostOneLateWrite
<1>1. Init => LateInv
  BY DEF Init, LateInv, PastGate, Count
<1>2. TypeOK /\ LateInv => AtMostOneLateWrite
  BY DEF TypeOK, CountType, LateInv, AtMostOneLateWrite, PastGate, Count
<1>3. QED
  BY <1>1, <1>2, TypeCorrect, LateStep, PTL DEF Spec

-----------------------------------------------------------------------------
(* Exit.                                                                     *)

\* The player stops only at the end of a closed source.
LEMMA ExitStep == TypeOK /\ ExitInv /\ [Next]_vars => ExitInv'
<1> SUFFICES ASSUME TypeOK, ExitInv, [Next]_vars PROVE ExitInv'
  OBVIOUS
<1> USE DEF TypeOK
<1>1. CASE MusicAssistant
  <2>1. CASE MAOpen
    BY <2>1 DEF MAOpen, UnchangedByMA, ExitInv, InputType
  <2>2. CASE \E key \in Keys : MASend(key)
    BY <2>2 DEF MASend, UnchangedByMA, ExitInv, InputType
  <2>3. CASE MAClose
    BY <2>3 DEF MAClose, UnchangedByMA, ExitInv, InputType
  <2>4. CASE MAAudio
    BY <2>4 DEF MAAudio, UnchangedByMA, ExitInv, InputType
  <2>5. CASE MAEnd
    BY <2>5 DEF MAEnd, UnchangedByMA, ExitInv, InputType
  <2>6. QED
    BY <1>1, <2>1, <2>2, <2>3, <2>4, <2>5 DEF MusicAssistant
<1>2. CASE CmdReader
  BY <1>2, CmdReaderFrame DEF ExitInv, InputType
<1>3. CASE Parse
  BY <1>3, ParseFrame DEF ExitInv, InputType
<1>4. CASE CmdStatus
  BY <1>4 DEF CmdStatus, ExitInv, InputType
<1>5. CASE CmdAct
  <2>1. CASE CmdNew
    BY <2>1 DEF CmdNew, Act, ExitInv, InputType
  <2>2. CASE CmdVolume
    BY <2>2 DEF CmdVolume, Act, ExitInv, InputType
  <2>3. CASE CmdPin
    BY <2>3 DEF CmdPin, Act, ExitInv, InputType
  <2>4. CASE CmdPause
    BY <2>4 DEF CmdPause, Act, ExitInv, InputType
  <2>5. CASE CmdPlay
    BY <2>5 DEF CmdPlay, Act, ExitInv, InputType
  <2>6. CASE CmdStop
    BY <2>6 DEF CmdStop, Act, ExitInv, InputType
  <2>7. QED
    BY <1>5, <2>1, <2>2, <2>3, <2>4, <2>5, <2>6 DEF CmdAct
<1>6. CASE CmdFlush
  BY <1>6 DEF CmdFlush, ExitInv, InputType
<1>7. CASE StartPlayback
  BY <1>7 DEF StartPlayback, InputStep, ExitInv, InputType
<1>8. CASE Input
  <2>1. CASE PrimeRead
    BY <2>1 DEF PrimeRead, InputStep, ReadChunk, UnchangedByReading, ExitInv,
       InputType
  <2>2. CASE PrimeEnd
    BY <2>2 DEF PrimeEnd, InputStep, NoChunk, UnchangedByReading, ExitInv, InputType
  <2>3. CASE PlayContinue
    BY <2>3 DEF PlayContinue, InputStep, NoChunk, UnchangedByReading, ExitInv,
       InputType
  <2>4. CASE PlayStop
    BY <2>4 DEF PlayStop, InputStep, CloseSource, ExitInv, InputType
  <2>5. CASE PlayEof
    BY <2>5 DEF PlayEof, InputStep, CloseSource, ExitInv, InputType
  <2>6. CASE PlayRead
    BY <2>6 DEF PlayRead, InputStep, ReadChunk, UnchangedByReading, ExitInv, InputType
  <2>7. CASE PlayNoData
    BY <2>7 DEF PlayNoData, InputStep, NoChunk, UnchangedByReading, ExitInv, InputType
  <2>8. CASE PrimeError \/ PlayReadError
    BY <2>8 DEF PrimeError, PlayReadError, InputStep, ExitInv, InputType
  <2>9. CASE PlayFlags
    BY <2>9 DEF PlayFlags, InputStep, UnchangedByReading, ExitInv, InputType
  <2>10. CASE PlayClear
    BY <2>10 DEF PlayClear, InputStep, ExitInv, InputType
  <2>11. CASE PlayHold
    BY <2>11 DEF PlayHold, InputStep, UnchangedByReading, ExitInv, InputType
  <2>12. CASE PlayWritePlain
    BY <2>12 DEF PlayWritePlain, InputStep, PlayWrite, ExitInv, InputType
  <2>13. CASE PlayWriteNew
    BY <2>13 DEF PlayWriteNew, InputStep, PlayWrite, MetadataGet, ExitInv, InputType
  <2>14. QED
    BY <1>8, <2>1, <2>2, <2>3, <2>4, <2>5, <2>6, <2>7, <2>8, <2>9, <2>10, <2>11,
       <2>12, <2>13 DEF Input
<1>9. CASE Player
  <2>1. CASE PlayerConsume
    BY <2>1 DEF PlayerConsume, UnchangedByPlayer, ExitInv, InputType
  <2>2. CASE PlayerUnderrun
    BY <2>2 DEF PlayerUnderrun, UnchangedByPlayer, ExitInv, InputType
  <2>3. CASE PlayerEnd
    BY <2>3 DEF PlayerEnd, UnchangedByPlayer, ExitInv, InputType
  <2>4. QED
    BY <1>9, <2>1, <2>2, <2>3 DEF Player
<1>10. CASE Timer
  <2>1. CASE TimerPlaying
    BY <2>1 DEF TimerPlaying, UnchangedByTimer, ExitInv, InputType
  <2>2. CASE TimerPaused
    BY <2>2 DEF TimerPaused, UnchangedByTimer, ExitInv, InputType
  <2>3. CASE TimerExit
    BY <2>3 DEF TimerExit, UnchangedByTimer, ExitInv, InputType
  <2>4. CASE TimerReset
    BY <2>4 DEF TimerReset, UnchangedByTimer, ExitInv, InputType
  <2>5. QED
    BY <1>10, <2>1, <2>2, <2>3, <2>4 DEF Timer
<1>11. CASE UNCHANGED vars
  BY <1>11 DEF vars, ExitInv, InputType
<1>12. QED
  BY <1>1, <1>2, <1>3, <1>4, <1>5, <1>6, <1>7, <1>8, <1>9, <1>10, <1>11 DEF Next

\* mass_timer_cb exits only once the source is closed and played out, whatever the
\* player does and however input_flush and the last writes interleave.
THEOREM ExitIsFinal == Spec => []ExitOnlyAfterEnd
<1>1. Init => ExitInv
  BY DEF Init, ExitInv
<1>2. ExitInv => ExitOnlyAfterEnd
  BY DEF ExitInv, ExitOnlyAfterEnd
<1>3. QED
  BY <1>1, <1>2, TypeCorrect, ExitStep, PTL DEF Spec

-----------------------------------------------------------------------------
(* Metadata triggers.                                                        *)

\* A trigger is counted once on its way from mass_cmd to metadata_get.
LEMMA TakesStep == TypeOK /\ TakesInv /\ [Next]_vars => TakesInv'
<1> SUFFICES ASSUME TypeOK, TakesInv, [Next]_vars PROVE TakesInv'
  OBVIOUS
<1> USE DEF TypeOK
<1>1. CASE MusicAssistant
  BY <1>1, MusicAssistantFrame DEF TakesInv, Count, CountType
<1>2. CASE CmdReader
  BY <1>2, CmdReaderFrame DEF TakesInv, Count, CountType
<1>3. CASE Parse
  BY <1>3, ParseFrame DEF TakesInv, Count, CountType
<1>4. CASE CmdStatus
  BY <1>4 DEF CmdStatus, TakesInv, Count, CountType
<1>5. CASE CmdAct
  <2>1. CASE CmdNew
    BY <2>1 DEF CmdNew, Act, TakesInv, Count, CountType
  <2>2. CASE CmdVolume
    BY <2>2 DEF CmdVolume, Act, TakesInv, Count, CountType
  <2>3. CASE CmdPin
    BY <2>3 DEF CmdPin, Act, TakesInv, Count, CountType
  <2>4. CASE CmdPause
    BY <2>4 DEF CmdPause, Act, TakesInv, Count, CountType
  <2>5. CASE CmdPlay
    BY <2>5 DEF CmdPlay, Act, TakesInv, Count, CountType
  <2>6. CASE CmdStop
    BY <2>6 DEF CmdStop, Act, TakesInv, Count, CountType
  <2>7. QED
    BY <1>5, <2>1, <2>2, <2>3, <2>4, <2>5, <2>6 DEF CmdAct
<1>6. CASE CmdFlush
  BY <1>6 DEF CmdFlush, TakesInv, Count, CountType
<1>7. CASE StartPlayback
  BY <1>7 DEF StartPlayback, InputStep, TakesInv, Count, CountType
<1>8. CASE Input
  <2>1. CASE PrimeRead
    BY <2>1 DEF PrimeRead, InputStep, ReadChunk, UnchangedByReading, TakesInv, Count,
       CountType
  <2>2. CASE PrimeEnd
    BY <2>2 DEF PrimeEnd, InputStep, NoChunk, UnchangedByReading, TakesInv, Count,
       CountType
  <2>3. CASE PlayContinue
    BY <2>3 DEF PlayContinue, InputStep, NoChunk, UnchangedByReading, TakesInv, Count,
       CountType
  <2>4. CASE PlayStop
    BY <2>4 DEF PlayStop, InputStep, CloseSource, TakesInv, Count, CountType
  <2>5. CASE PlayEof
    BY <2>5 DEF PlayEof, InputStep, CloseSource, TakesInv, Count, CountType
  <2>6. CASE PlayRead
    BY <2>6 DEF PlayRead, InputStep, ReadChunk, UnchangedByReading, TakesInv, Count,
       CountType
  <2>7. CASE PlayNoData
    BY <2>7 DEF PlayNoData, InputStep, NoChunk, UnchangedByReading, TakesInv, Count,
       CountType
  <2>8. CASE PrimeError \/ PlayReadError
    BY <2>8 DEF PrimeError, PlayReadError, InputStep, TakesInv, Count, CountType
  <2>9. CASE PlayFlags
    BY <2>9 DEF PlayFlags, InputStep, UnchangedByReading, TakesInv, Count, CountType
  <2>10. CASE PlayClear
    BY <2>10 DEF PlayClear, InputStep, TakesInv, Count, CountType
  <2>11. CASE PlayHold
    BY <2>11 DEF PlayHold, InputStep, UnchangedByReading, TakesInv, Count, CountType
  <2>12. CASE PlayWritePlain
    BY <2>12 DEF PlayWritePlain, InputStep, PlayWrite, TakesInv, Count, CountType
  <2>13. CASE PlayWriteNew
    BY <2>13 DEF PlayWriteNew, InputStep, PlayWrite, MetadataGet, TakesInv, Count,
       CountType
  <2>14. QED
    BY <1>8, <2>1, <2>2, <2>3, <2>4, <2>5, <2>6, <2>7, <2>8, <2>9, <2>10, <2>11,
       <2>12, <2>13 DEF Input
<1>9. CASE Player
  BY <1>9, PlayerFrame DEF TakesInv, Count, CountType
<1>10. CASE Timer
  BY <1>10, TimerFrame DEF TakesInv, Count, CountType
<1>11. CASE UNCHANGED vars
  BY <1>11 DEF vars, TakesInv, Count, CountType
<1>12. QED
  BY <1>1, <1>2, <1>3, <1>4, <1>5, <1>6, <1>7, <1>8, <1>9, <1>10, <1>11 DEF Next

\* metadata_get never runs more often than is_new was set, although the two threads
\* read and reset is_new without a lock.
THEOREM TakesAreTriggered == Spec => []AtMostOneTakePerTrigger
<1>1. Init => TakesInv
  BY DEF Init, TakesInv, Count
<1>2. TypeOK /\ TakesInv => AtMostOneTakePerTrigger
  BY DEF TypeOK, CountType, TakesInv, AtMostOneTakePerTrigger, Count
<1>3. QED
  BY <1>1, <1>2, TypeCorrect, TakesStep, PTL DEF Spec

-----------------------------------------------------------------------------
(* The PIN and the artwork file.                                             *)

\* The PIN announced by the mask is not freed before it is used.
LEMMA PinStep == TypeOK /\ PinInv /\ [Next]_vars => PinInv'
<1> SUFFICES ASSUME TypeOK, PinInv, [Next]_vars PROVE PinInv'
  OBVIOUS
<1>1. CASE MusicAssistant
  BY <1>1, MusicAssistantFrame DEF PinInv
<1>2. CASE CmdReader
  <2>1. CASE CmdRead
    BY <2>1 DEF CmdRead, PinInv
  <2>2. CASE CmdReadError
    BY <2>2 DEF CmdReadError, WatchDeleted, PinInv
  <2>3. CASE CmdReadEof
    BY <2>3 DEF CmdReadEof, PinInv
  <2>4. CASE CmdWatchDel
    BY <2>4 DEF CmdWatchDel, PinInv
  <2>5. CASE CmdWatchAdd
    BY <2>5 DEF CmdWatchAdd, PinInv
  <2>6. QED
    BY <1>2, <2>1, <2>2, <2>3, <2>4, <2>5 DEF CmdReader
<1>3. CASE Parse
  <2>1. CASE ParseField
    BY <2>1 DEF ParseField, Parsing, Parsed, PinInv
  <2>2. CASE ParseSendmeta
    BY <2>2 DEF ParseSendmeta, Parsing, Parsed, PinInv
  <2>3. CASE ParseArtwork
    BY <2>3 DEF ParseArtwork, Parsing, Parsed, PinInv
  <2>4. CASE ParseVolume
    BY <2>4 DEF ParseVolume, Parsing, Parsed, PinInv
  <2>5. CASE ParsePin
    BY <2>5 DEF ParsePin, Parsing, Parsed, PinInv
  <2>6. CASE ParseAction
    BY <2>6 DEF ParseAction, Parsing, Parsed, PinInv
  <2>7. CASE ParseFail
    BY <2>7 DEF ParseFail, Parsing, WatchDeleted, PinInv
  <2>8. QED
    BY <1>3, <2>1, <2>2, <2>3, <2>4, <2>5, <2>6, <2>7 DEF Parse
<1>4. CASE CmdStatus
  BY <1>4 DEF CmdStatus, PinInv
<1>5. CASE CmdAct
  <2>1. CASE CmdNew
    BY <2>1 DEF CmdNew, Act, PinInv
  <2>2. CASE CmdVolume
    BY <2>2 DEF CmdVolume, Act, PinInv
  <2>3. CASE CmdPin
    BY <2>3 DEF CmdPin, Act, PinInv
  <2>4. CASE CmdPause
    BY <2>4 DEF CmdPause, Act, PinInv
  <2>5. CASE CmdPlay
    BY <2>5 DEF CmdPlay, Act, PinInv
  <2>6. CASE CmdStop
    BY <2>6 DEF CmdStop, Act, PinInv
  <2>7. QED
    BY <1>5, <2>1, <2>2, <2>3, <2>4, <2>5, <2>6 DEF CmdAct
<1>6. CASE CmdFlush
  BY <1>6 DEF CmdFlush, PinInv
<1>7. CASE StartPlayback
  BY <1>7 DEF StartPlayback, InputStep, PinInv
<1>8. CASE Input
  BY <1>8, InputFrame DEF PinInv
<1>9. CASE Player
  BY <1>9, PlayerFrame DEF PinInv
<1>10. CASE Timer
  BY <1>10, TimerFrame DEF PinInv
<1>11. CASE UNCHANGED vars
  BY <1>11 DEF vars, PinInv
<1>12. QED
  BY <1>1, <1>2, <1>3, <1>4, <1>5, <1>6, <1>7, <1>8, <1>9, <1>10, <1>11 DEF Next

\* player_raop_verification_kickoff is never given a PIN that was already freed,
\* whatever the batches of commands are.
THEOREM PinIsKept == Spec => []PinIsLive
<1>1. Init => PinInv
  BY DEF Init, PinInv
<1>2. PinInv => PinIsLive
  BY DEF PinInv, PinIsLive
<1>3. QED
  BY <1>1, <1>2, TypeCorrect, PinStep, PTL DEF Spec

\* pict_tmpfile_recreate replaces the file and its name together.
LEMMA ArtworkStep == TypeOK /\ ArtworkInv /\ [Next]_vars => ArtworkInv'
<1> SUFFICES ASSUME TypeOK, ArtworkInv, [Next]_vars PROVE ArtworkInv'
  OBVIOUS
<1>1. CASE MusicAssistant
  BY <1>1, MusicAssistantFrame DEF ArtworkInv, PreparedArtworkExists
<1>2. CASE CmdReader
  <2>1. CASE CmdRead
    BY <2>1 DEF CmdRead, ArtworkInv, PreparedArtworkExists
  <2>2. CASE CmdReadError
    BY <2>2 DEF CmdReadError, WatchDeleted, ArtworkInv, PreparedArtworkExists
  <2>3. CASE CmdReadEof
    BY <2>3 DEF CmdReadEof, ArtworkInv, PreparedArtworkExists
  <2>4. CASE CmdWatchDel
    BY <2>4 DEF CmdWatchDel, ArtworkInv, PreparedArtworkExists
  <2>5. CASE CmdWatchAdd
    BY <2>5 DEF CmdWatchAdd, ArtworkInv, PreparedArtworkExists
  <2>6. QED
    BY <1>2, <2>1, <2>2, <2>3, <2>4, <2>5 DEF CmdReader
<1>3. CASE Parse
  <2>1. CASE ParseField
    BY <2>1 DEF ParseField, Parsing, Parsed, ArtworkInv, PreparedArtworkExists
  <2>2. CASE ParseSendmeta
    BY <2>2 DEF ParseSendmeta, Parsing, Parsed, ArtworkInv, PreparedArtworkExists
  <2>3. CASE ParseArtwork
    BY <2>3 DEF ParseArtwork, Parsing, Parsed, ArtworkInv, PreparedArtworkExists
  <2>4. CASE ParseVolume
    BY <2>4 DEF ParseVolume, Parsing, Parsed, ArtworkInv, PreparedArtworkExists
  <2>5. CASE ParsePin
    BY <2>5 DEF ParsePin, Parsing, Parsed, ArtworkInv, PreparedArtworkExists
  <2>6. CASE ParseAction
    BY <2>6 DEF ParseAction, Parsing, Parsed, ArtworkInv, PreparedArtworkExists
  <2>7. CASE ParseFail
    BY <2>7 DEF ParseFail, Parsing, WatchDeleted, ArtworkInv, PreparedArtworkExists
  <2>8. QED
    BY <1>3, <2>1, <2>2, <2>3, <2>4, <2>5, <2>6, <2>7 DEF Parse
<1>4. CASE CmdStatus
  BY <1>4 DEF CmdStatus, ArtworkInv, PreparedArtworkExists
<1>5. CASE CmdAct
  <2>1. CASE CmdNew
    BY <2>1 DEF CmdNew, Act, ArtworkInv, PreparedArtworkExists
  <2>2. CASE CmdVolume
    BY <2>2 DEF CmdVolume, Act, ArtworkInv, PreparedArtworkExists
  <2>3. CASE CmdPin
    BY <2>3 DEF CmdPin, Act, ArtworkInv, PreparedArtworkExists
  <2>4. CASE CmdPause
    BY <2>4 DEF CmdPause, Act, ArtworkInv, PreparedArtworkExists
  <2>5. CASE CmdPlay
    BY <2>5 DEF CmdPlay, Act, ArtworkInv, PreparedArtworkExists
  <2>6. CASE CmdStop
    BY <2>6 DEF CmdStop, Act, ArtworkInv, PreparedArtworkExists
  <2>7. QED
    BY <1>5, <2>1, <2>2, <2>3, <2>4, <2>5, <2>6 DEF CmdAct
<1>6. CASE CmdFlush
  BY <1>6 DEF CmdFlush, ArtworkInv, PreparedArtworkExists
<1>7. CASE StartPlayback
  BY <1>7 DEF StartPlayback, InputStep, ArtworkInv, PreparedArtworkExists
<1>8. CASE Input
  <2>1. CASE PrimeRead
    BY <2>1 DEF PrimeRead, InputStep, ReadChunk, UnchangedByReading, ArtworkInv,
       PreparedArtworkExists
  <2>2. CASE PrimeEnd
    BY <2>2 DEF PrimeEnd, InputStep, NoChunk, UnchangedByReading, ArtworkInv,
       PreparedArtworkExists
  <2>3. CASE PlayContinue
    BY <2>3 DEF PlayContinue, InputStep, NoChunk, UnchangedByReading, ArtworkInv,
       PreparedArtworkExists
  <2>4. CASE PlayStop
    BY <2>4 DEF PlayStop, InputStep, CloseSource, ArtworkInv, PreparedArtworkExists
  <2>5. CASE PlayEof
    BY <2>5 DEF PlayEof, InputStep, CloseSource, ArtworkInv, PreparedArtworkExists
  <2>6. CASE PlayRead
    BY <2>6 DEF PlayRead, InputStep, ReadChunk, UnchangedByReading, ArtworkInv,
       PreparedArtworkExists
  <2>7. CASE PlayNoData
    BY <2>7 DEF PlayNoData, InputStep, NoChunk, UnchangedByReading, ArtworkInv,
       PreparedArtworkExists
  <2>8. CASE PrimeError \/ PlayReadError
    BY <2>8 DEF PrimeError, PlayReadError, InputStep, ArtworkInv, PreparedArtworkExists
  <2>9. CASE PlayFlags
    BY <2>9 DEF PlayFlags, InputStep, UnchangedByReading, ArtworkInv,
       PreparedArtworkExists
  <2>10. CASE PlayClear
    BY <2>10 DEF PlayClear, InputStep, ArtworkInv, PreparedArtworkExists
  <2>11. CASE PlayHold
    BY <2>11 DEF PlayHold, InputStep, UnchangedByReading, ArtworkInv,
       PreparedArtworkExists
  <2>12. CASE PlayWritePlain
    BY <2>12 DEF PlayWritePlain, InputStep, PlayWrite, ArtworkInv,
       PreparedArtworkExists
  <2>13. CASE PlayWriteNew
    BY <2>13 DEF PlayWriteNew, InputStep, PlayWrite, MetadataGet, ArtworkInv,
       PreparedArtworkExists
  <2>14. QED
    BY <1>8, <2>1, <2>2, <2>3, <2>4, <2>5, <2>6, <2>7, <2>8, <2>9, <2>10, <2>11,
       <2>12, <2>13 DEF Input
<1>9. CASE Player
  BY <1>9, PlayerFrame DEF ArtworkInv, PreparedArtworkExists
<1>10. CASE Timer
  BY <1>10, TimerFrame DEF ArtworkInv, PreparedArtworkExists
<1>11. CASE UNCHANGED vars
  BY <1>11 DEF vars, ArtworkInv, PreparedArtworkExists
<1>12. QED
  BY <1>1, <1>2, <1>3, <1>4, <1>5, <1>6, <1>7, <1>8, <1>9, <1>10, <1>11 DEF Next

\* While the command pipe is watched the prepared artwork is a file that exists.
THEOREM ArtworkIsKept == Spec => []PreparedArtworkExists
<1>1. Init => ArtworkInv
  BY DEF Init, ArtworkInv, PreparedArtworkExists
<1>2. ArtworkInv => PreparedArtworkExists
  BY DEF ArtworkInv
<1>3. QED
  BY <1>1, <1>2, TypeCorrect, ArtworkStep, PTL DEF Spec

-----------------------------------------------------------------------------
(* Metadata handed over.                                                     *)

\* Every item of a sequence has its number.
LEMMA ItemNumbers ==
  ASSUME NEW s \in Seq(Item)
  PROVE  /\ Len(s) \in Nat
         /\ \A i \in 1..Len(s) :
               s[i] \in Item /\ s[i].n \in Nat /\ s[i].n > 0 /\ s[i].n \in Serial
<1>1. Len(s) \in Nat /\ \A i \in 1..Len(s) : s[i] \in Item
  OBVIOUS
<1>2. \A x \in Item : x.n \in Nat /\ x.n > 0 /\ x.n \in Serial
  BY BoundsAssumption DEF Item, Serial
<1>3. QED
  BY <1>1, <1>2

\* The numbers of the items that are on their way and of those that arrived.
LEMMA NumbersAre ==
  ASSUME TypeOK
  PROVE  /\ sent \in Nat /\ Len(evbuf) \in Nat /\ Len(fifo) \in Nat
         /\ \A i \in 1..Len(evbuf) : evbuf[i].n \in Nat /\ evbuf[i].n > 0
         /\ \A i \in 1..Len(fifo) : fifo[i].n \in Nat /\ fifo[i].n > 0
         /\ prepared \in [Fields -> Nat] /\ shown \in [Fields -> Nat]
<1>1. evbuf \in Seq(Item) /\ fifo \in Seq(Item)
  BY DEF TypeOK, CmdType, PipeType
<1>2. /\ sent \in Serial
      /\ prepared \in [Fields -> Serial] /\ shown \in [Fields -> Serial]
  BY DEF TypeOK, PipeType, PreparedType
<1>3. Serial \subseteq Nat
  BY BoundsAssumption DEF Serial
<1>4. /\ Len(evbuf) \in Nat /\ Len(fifo) \in Nat
      /\ \A i \in 1..Len(evbuf) : evbuf[i].n \in Nat /\ evbuf[i].n > 0
      /\ \A i \in 1..Len(fifo) : fifo[i].n \in Nat /\ fifo[i].n > 0
  BY <1>1, ItemNumbers
<1>5. QED
  BY <1>2, <1>3, <1>4

\* What a batch leaves when its first item is removed.
LEMMA RestOfBatch ==
  ASSUME TypeOK, cmdpc = "parse"
  PROVE  /\ Head(evbuf) = evbuf[1] /\ 1 \in 1..Len(evbuf)
         /\ evbuf[1] \in Item /\ evbuf[1].n \in Serial
         /\ Len(Tail(evbuf)) = Len(evbuf) - 1
         /\ \A i \in 1..Len(evbuf) - 1 :
               Tail(evbuf)[i] = evbuf[i + 1] /\ i + 1 \in 1..Len(evbuf)
<1>1. evbuf \in Seq(Item) /\ evbuf # <<>>
  BY DEF TypeOK, CmdType
<1>2. Len(evbuf) \in Nat /\ Len(evbuf) > 0
  BY <1>1, EmptySeq, LenProperties
<1>3. 1 \in 1..Len(evbuf) /\ Head(evbuf) = evbuf[1]
  BY <1>1, <1>2
<1>4. evbuf[1] \in Item /\ evbuf[1].n \in Serial
  BY <1>1, <1>3, ItemNumbers
<1>5. /\ Len(Tail(evbuf)) = Len(evbuf) - 1
      /\ \A i \in 1..Len(Tail(evbuf)) : Tail(evbuf)[i] = evbuf[i + 1]
  BY <1>1, HeadTailProperties
<1>6. \A i \in 1..Len(evbuf) - 1 : i + 1 \in 1..Len(evbuf)
  BY <1>2
<1>7. QED
  BY <1>3, <1>4, <1>5, <1>6

\* A line that is accepted leaves the rest of the batch, and what is prepared is of it.
LEMMA FreshParsed ==
  ASSUME TypeOK, FreshInv, cmdpc = "parse",
         evbuf' = Tail(evbuf), UNCHANGED <<fifo, sent, shown>>,
         \/ UNCHANGED prepared
         \/ \E g \in Fields : prepared' = [prepared EXCEPT ![g] = evbuf[1].n]
  PROVE  FreshInv'
<1>1. /\ evbuf[1].n \in Nat /\ Len(evbuf) \in Nat
      /\ sent \in Nat /\ \A i \in 1..Len(evbuf) : evbuf[i].n \in Nat
      /\ \A i \in 1..Len(fifo) : fifo[i].n \in Nat
      /\ \A f \in Fields : prepared[f] \in Nat /\ shown[f] \in Nat
      /\ prepared \in [Fields -> Nat]
  BY NumbersAre, RestOfBatch
<1>2. /\ Len(evbuf') = Len(evbuf) - 1
      /\ \A i \in 1..Len(evbuf') : evbuf'[i] = evbuf[i + 1] /\ i + 1 \in 1..Len(evbuf)
      /\ 1 \in 1..Len(evbuf) /\ \A i \in 1..Len(evbuf') : evbuf[1].n < evbuf[i + 1].n
  <2>1. \A i \in 1..Len(evbuf') : evbuf'[i] = evbuf[i + 1] /\ i + 1 \in 1..Len(evbuf) /\ 1 < i + 1
    BY RestOfBatch, <1>1
  <2>2. QED
    BY <2>1, RestOfBatch DEF FreshInv
<1>3. \A i, j \in 1..Len(evbuf') : i < j => evbuf'[i].n < evbuf'[j].n
  <2>1. \A i, j \in 1..Len(evbuf') : i < j => i + 1 < j + 1
    BY <1>1, <1>2
  <2>2. QED
    BY <1>2, <2>1 DEF FreshInv
<1>4. /\ \A i \in 1..Len(evbuf'), j \in 1..Len(fifo) : evbuf'[i].n < fifo[j].n
      /\ \A i \in 1..Len(evbuf') : evbuf'[i].n <= sent
  BY <1>2 DEF FreshInv
<1>5. \A f \in Fields : prepared'[f] = prepared[f] \/ prepared'[f] = evbuf[1].n
  BY <1>1
<1>6. \A f \in Fields :
         /\ prepared'[f] <= sent
         /\ \A i \in 1..Len(evbuf') : prepared'[f] < evbuf'[i].n
         /\ \A i \in 1..Len(fifo) : prepared'[f] < fifo[i].n
         /\ prepared'[f] = 0 \/ prepared'[f] > shown[f]
  <2> TAKE f \in Fields
  <2>1. CASE prepared'[f] = prepared[f]
    BY <1>2, <2>1 DEF FreshInv
  <2>2. CASE prepared'[f] = evbuf[1].n
    BY <1>2, <2>2 DEF FreshInv
  <2>3. QED
    BY <1>5, <2>1, <2>2
<1>7. \A f \in Fields : \A i \in 1..Len(evbuf') : shown[f] < evbuf'[i].n
  BY <1>2 DEF FreshInv
<1>8. QED
  BY <1>3, <1>4, <1>6, <1>7 DEF FreshInv

\* Without a batch only the FIFO is of interest.
LEMMA FreshEmpty ==
  ASSUME TypeOK, FreshInv, evbuf' = <<>> \/ evbuf' = evbuf, fifo' = <<>>,
         UNCHANGED <<sent, prepared, shown>>
  PROVE  FreshInv'
<1>1. Len(fifo') = 0 /\ (evbuf' = evbuf \/ Len(evbuf') = 0)
  OBVIOUS
<1>2. QED
  BY <1>1 DEF FreshInv

\* Only a few actions touch what FreshInv speaks of.
LEMMA FreshFrame ==
  FreshInv /\ UNCHANGED <<fifo, sent, evbuf, prepared, shown>> => FreshInv'
BY DEF FreshInv

\* Items stay in the order in which they were sent.
LEMMA FreshStep == TypeOK /\ FreshInv /\ [Next]_vars => FreshInv'
<1> SUFFICES ASSUME TypeOK, FreshInv, [Next]_vars PROVE FreshInv'
  OBVIOUS
<1>1. CASE MusicAssistant
  <2>1. CASE \E key \in Keys : MASend(key)
    <3>1. PICK key \in Keys : MASend(key)
      BY <2>1
    <3> DEFINE new == [key |-> key, n |-> sent + 1]
    <3>2. /\ fifo' = Append(fifo, new) /\ sent' = sent + 1
          /\ evbuf' = evbuf /\ prepared' = prepared /\ shown' = shown
      BY <3>1 DEF MASend, UnchangedByMA
    <3>3. fifo \in Seq(Item) /\ sent \in Nat /\ new.n = sent + 1
      BY BoundsAssumption DEF TypeOK, PipeType, Serial
    <3>4. /\ Len(fifo') = Len(fifo) + 1 /\ fifo'[Len(fifo) + 1] = new /\ Len(fifo) \in Nat
          /\ \A i \in 1..Len(fifo) : fifo'[i] = fifo[i] /\ fifo[i].n \in Nat
      BY <3>2, <3>3, NumbersAre
    <3>5. /\ evbuf \in Seq(Item) /\ Len(evbuf) \in Nat
          /\ \A i \in 1..Len(evbuf) : evbuf[i].n \in Nat
          /\ \A f \in Fields : prepared[f] \in Nat /\ shown[f] \in Nat
      BY NumbersAre DEF TypeOK, CmdType
    <3> HIDE DEF new
    <3>6. \A i \in 1..Len(fifo') : i = Len(fifo) + 1 \/ i \in 1..Len(fifo)
      BY <3>4
    <3>7. \A i \in 1..Len(fifo') :
             fifo'[i].n = sent + 1 \/ (i \in 1..Len(fifo) /\ fifo'[i].n = fifo[i].n)
      BY <3>3, <3>4, <3>6
    <3>8. \A i, j \in 1..Len(fifo') : i < j => fifo'[i].n < fifo'[j].n
      <4> SUFFICES ASSUME NEW i \in 1..Len(fifo'), NEW j \in 1..Len(fifo'), i < j
                   PROVE  fifo'[i].n < fifo'[j].n
        OBVIOUS
      <4>1. i \in 1..Len(fifo) /\ fifo'[i].n = fifo[i].n /\ fifo[i].n <= sent /\ fifo[i].n \in Nat
        BY <3>4 DEF FreshInv
      <4>2. CASE j = Len(fifo) + 1
        BY <3>3, <3>4, <4>1, <4>2
      <4>3. CASE j \in 1..Len(fifo)
        BY <3>4, <4>1, <4>3 DEF FreshInv
      <4>4. QED
        BY <3>6, <4>2, <4>3
    <3>9. \A i \in 1..Len(evbuf), j \in 1..Len(fifo') : evbuf[i].n < fifo'[j].n
      <4> SUFFICES ASSUME NEW i \in 1..Len(evbuf), NEW j \in 1..Len(fifo')
                   PROVE  evbuf[i].n < fifo'[j].n
        OBVIOUS
      <4>1. evbuf[i].n <= sent /\ evbuf[i].n \in Nat
        BY <3>5 DEF FreshInv
      <4>2. CASE fifo'[j].n = sent + 1
        BY <3>3, <4>1, <4>2
      <4>3. CASE j \in 1..Len(fifo) /\ fifo'[j].n = fifo[j].n
        BY <4>3 DEF FreshInv
      <4>4. QED
        BY <3>7, <4>2, <4>3
    <3>10. /\ \A i \in 1..Len(evbuf), j \in 1..Len(fifo') : evbuf[i].n < fifo'[j].n
           /\ \A i \in 1..Len(fifo') : fifo'[i].n <= sent'
           /\ \A i \in 1..Len(evbuf) : evbuf[i].n <= sent'
      <4>1. \A i \in 1..Len(fifo) : fifo[i].n <= sent' /\ fifo[i].n \in Nat
        BY <3>2, <3>3, <3>4 DEF FreshInv
      <4>2. \A i \in 1..Len(evbuf) : evbuf[i].n <= sent'
        <5>1. \A i \in 1..Len(evbuf) : evbuf[i].n <= sent
          BY DEF FreshInv
        <5>2. sent \in Nat /\ sent' = sent + 1
          BY <3>2, <3>3
        <5>3. QED
          BY <3>5, <5>1, <5>2
      <4>3. sent + 1 <= sent'
        BY <3>2, <3>3
      <4>4. QED
        BY <3>7, <3>9, <4>1, <4>2, <4>3
    <3>11. \A f \in Fields :
              /\ prepared[f] <= sent' /\ shown[f] <= sent'
              /\ \A i \in 1..Len(fifo') : prepared[f] < fifo'[i].n /\ shown[f] < fifo'[i].n
      BY <3>2, <3>3, <3>5, <3>7 DEF FreshInv
    <3>12. /\ \A i, j \in 1..Len(evbuf) : i < j => evbuf[i].n < evbuf[j].n
           /\ \A f \in Fields :
                 /\ \A i \in 1..Len(evbuf) : prepared[f] < evbuf[i].n /\ shown[f] < evbuf[i].n
                 /\ prepared[f] = 0 \/ prepared[f] > shown[f]
      BY DEF FreshInv
    <3>13. QED
      BY <3>2, <3>8, <3>10, <3>11, <3>12 DEF FreshInv
  <2>2. CASE MAOpen \/ MAClose \/ MAAudio \/ MAEnd
    BY <2>2, FreshFrame DEF MAOpen, MAClose, MAAudio, MAEnd, UnchangedByMA
  <2>3. QED
    BY <1>1, <2>1, <2>2 DEF MusicAssistant
<1>2. CASE CmdReader
  <2>1. CASE CmdRead
    <3>1. /\ evbuf' = fifo /\ Len(fifo') = 0
          /\ sent' = sent /\ prepared' = prepared /\ shown' = shown
      BY <2>1 DEF CmdRead
    <3>2. QED
      BY <3>1 DEF FreshInv
  <2>2. CASE CmdReadError
    BY <2>2, FreshEmpty DEF CmdReadError, WatchDeleted
  <2>3. CASE CmdWatchDel
    <3>1. UNCHANGED <<sent, evbuf, prepared, shown>> /\ (fifo' = fifo \/ fifo' = <<>>)
      BY <2>3 DEF CmdWatchDel
    <3>2. QED
      BY <3>1, FreshEmpty, FreshFrame
  <2>4. CASE CmdReadEof \/ CmdWatchAdd
    BY <2>4, FreshFrame DEF CmdReadEof, CmdWatchAdd
  <2>5. QED
    BY <1>2, <2>1, <2>2, <2>3, <2>4 DEF CmdReader
<1>3. CASE Parse
  <2>1. CASE ParseField
    <3>1. Head(evbuf).key \in Fields /\ cmdpc = "parse" /\ evbuf' = Tail(evbuf)
          /\ prepared' = [prepared EXCEPT ![Head(evbuf).key] = Head(evbuf).n]
          /\ UNCHANGED <<fifo, sent, shown>>
      BY <2>1 DEF ParseField, Parsing, Parsed
    <3>2. QED
      BY <3>1, RestOfBatch, FreshParsed
  <2>2. CASE ParseFail
    BY <2>2, FreshEmpty DEF ParseFail, WatchDeleted
  <2>3. CASE ParseSendmeta \/ ParseArtwork \/ ParseVolume \/ ParsePin \/ ParseAction
    BY <2>3, FreshParsed DEF ParseSendmeta, ParseArtwork, ParseVolume, ParsePin,
       ParseAction, Parsing, Parsed
  <2>4. QED
    BY <1>3, <2>1, <2>2, <2>3 DEF Parse
<1>4. CASE CmdStatus \/ CmdFlush \/ StartPlayback
  BY <1>4, FreshFrame DEF CmdStatus, CmdFlush, StartPlayback, InputStep
<1>5. CASE CmdAct
  BY <1>5, FreshFrame
     DEF CmdAct, CmdNew, CmdVolume, CmdPin, CmdPause, CmdPlay, CmdStop, Act
<1>6. CASE Input
  <2>1. CASE PlayWriteNew
    <3>1. /\ UNCHANGED <<fifo, sent, evbuf>> /\ shown' = prepared
          /\ prepared' = [f \in Fields |-> 0]
      BY <2>1 DEF PlayWriteNew, PlayWrite, MetadataGet, InputStep, NoFields
    <3>2. /\ sent \in Nat /\ \A i \in 1..Len(evbuf) : evbuf[i].n \in Nat /\ evbuf[i].n > 0
          /\ \A i \in 1..Len(fifo) : fifo[i].n \in Nat /\ fifo[i].n > 0
      BY NumbersAre
    <3>3. QED
      BY <3>1, <3>2 DEF FreshInv
  <2>2. CASE PrimeRead \/ PrimeEnd \/ PlayContinue \/ PlayRead \/ PlayNoData
    BY <2>2, FreshFrame DEF PrimeRead, PrimeEnd, PlayContinue, PlayRead, PlayNoData,
       InputStep, ReadChunk, NoChunk, UnchangedByReading
  <2>3. CASE PrimeError \/ PlayStop \/ PlayEof \/ PlayReadError
    BY <2>3, FreshFrame DEF PrimeError, PlayStop, PlayEof, PlayReadError, InputStep,
       CloseSource
  <2>4. CASE PlayFlags \/ PlayClear \/ PlayHold \/ PlayWritePlain
    BY <2>4, FreshFrame DEF PlayFlags, PlayClear, PlayHold, PlayWritePlain, PlayWrite,
       InputStep, UnchangedByReading
  <2>5. QED
    BY <1>6, <2>1, <2>2, <2>3, <2>4 DEF Input
<1>7. CASE Player
  BY <1>7, FreshFrame
     DEF Player, PlayerConsume, PlayerUnderrun, PlayerEnd, UnchangedByPlayer
<1>8. CASE Timer
  BY <1>8, FreshFrame
     DEF Timer, TimerPlaying, TimerPaused, TimerExit, TimerReset, UnchangedByTimer
<1>9. CASE UNCHANGED vars
  BY <1>9, FreshFrame DEF vars
<1>10. QED
  BY <1>1, <1>2, <1>3, <1>4, <1>5, <1>6, <1>7, <1>8, <1>9 DEF Next

\* metadata_get runs in one action only.
LEMMA TakesAre ==
  TypeOK /\ [Next]_vars /\ takes' # takes => PlayWriteNew
<1> SUFFICES ASSUME TypeOK, [Next]_vars, ~PlayWriteNew PROVE takes' = takes
  OBVIOUS
<1>1. CASE MusicAssistant
  BY <1>1, MusicAssistantFrame
<1>2. CASE CmdReader
  BY <1>2, CmdReaderFrame
<1>3. CASE Parse
  BY <1>3, ParseFrame
<1>4. CASE CmdStatus \/ CmdFlush \/ StartPlayback
  BY <1>4 DEF CmdStatus, CmdFlush, StartPlayback, InputStep
<1>5. CASE CmdAct
  BY <1>5 DEF CmdAct, CmdNew, CmdVolume, CmdPin, CmdPause, CmdPlay, CmdStop, Act
<1>6. CASE Input
  BY <1>6 DEF Input, PrimeRead, PrimeEnd, PrimeError, PlayContinue, PlayRead, PlayNoData, PlayStop,
     PlayEof, PlayReadError, PlayFlags, PlayClear, PlayHold, PlayWritePlain, PlayWrite,
     InputStep, ReadChunk, NoChunk, UnchangedByReading, CloseSource
<1>7. CASE Player
  BY <1>7, PlayerFrame
<1>8. CASE Timer
  BY <1>8, TimerFrame
<1>9. CASE UNCHANGED vars
  BY <1>9 DEF vars
<1>10. QED
  BY <1>1, <1>2, <1>3, <1>4, <1>5, <1>6, <1>7, <1>8, <1>9 DEF Next

\* metadata_get hands no field over twice, for any number of fields, items and batches.
THEOREM FieldsAreTakenOnce == Spec => TakenFieldsAreNewer
<1>1. Init => FreshInv
  BY DEF Init, FreshInv, NoFields
<1>2. TypeOK /\ FreshInv /\ [Next]_vars
        => [takes' # takes => \A f \in Fields : shown'[f] = 0 \/ shown'[f] > shown[f]]_vars
  <2> SUFFICES ASSUME TypeOK, FreshInv, [Next]_vars, takes' # takes, NEW f \in Fields
               PROVE  shown'[f] = 0 \/ shown'[f] > shown[f]
    OBVIOUS
  <2>1. shown' = prepared
    BY TakesAre DEF PlayWriteNew, MetadataGet
  <2>2. QED
    BY <2>1 DEF FreshInv
<1>3. QED
  BY <1>1, <1>2, TypeCorrect, FreshStep, PTL DEF Spec, TakenFieldsAreNewer

-----------------------------------------------------------------------------
(* Refinement.                                                               *)

\* A step that leaves the gate and the flags alone is none of the contract's.
LEMMA ContractStutter ==
  UNCHANGED <<inpc, flagVars, exited>> => UNCHANGED Contract!cvars
  BY DEF Contract!cvars, PastGate

\* Every step of the program is a step of the contract, or none of its business.
LEMMA ContractStep == TypeOK /\ ExitInv /\ [Next]_vars => [Contract!CNext]_(Contract!cvars)
<1> SUFFICES ASSUME TypeOK, ExitInv, [Next]_vars
             PROVE  [Contract!CNext]_(Contract!cvars)
  OBVIOUS
<1>1. CASE MusicAssistant
  BY <1>1, MusicAssistantFrame, ContractStutter
<1>2. CASE CmdReader
  BY <1>2, CmdReaderFrame, ContractStutter
<1>3. CASE Parse
  BY <1>3, ParseFrame, ContractStutter
<1>4. CASE CmdStatus
  BY <1>4, ContractStutter DEF CmdStatus
<1>5. CASE CmdAct
  <2>1. CASE CmdNew
    BY <2>1, ContractStutter DEF CmdNew, Act
  <2>2. CASE CmdVolume
    BY <2>2, ContractStutter DEF CmdVolume, Act
  <2>3. CASE CmdPin
    BY <2>3, ContractStutter DEF CmdPin, Act
  <2>4. CASE CmdPause
    BY <2>4 DEF CmdPause, Act, PastGate, Contract!CNext, Contract!Pause,
       Contract!cvars
  <2>5. CASE CmdPlay
    BY <2>5 DEF CmdPlay, Act, PastGate, Contract!CNext, Contract!Resume,
       Contract!cvars
  <2>6. CASE CmdStop
    BY <2>6 DEF CmdStop, Act, PastGate, Contract!CNext, Contract!Stop, Contract!cvars
  <2>7. QED
    BY <1>5, <2>1, <2>2, <2>3, <2>4, <2>5, <2>6 DEF CmdAct
<1>6. CASE CmdFlush
  BY <1>6, ContractStutter DEF CmdFlush
<1>7. CASE StartPlayback
  BY <1>7 DEF StartPlayback, InputStep, PastGate, Contract!cvars
<1>8. CASE Input
  <2>1. CASE PrimeRead
    BY <2>1 DEF PrimeRead, InputStep, ReadChunk, UnchangedByReading, PastGate,
       Contract!CNext, Contract!Open, Contract!cvars
  <2>2. CASE PrimeEnd
    BY <2>2 DEF PrimeEnd, InputStep, NoChunk, UnchangedByReading, PastGate,
       Contract!CNext, Contract!Open, Contract!cvars
  <2>3. CASE PlayContinue
    BY <2>3 DEF PlayContinue, InputStep, NoChunk, UnchangedByReading, PastGate,
       Contract!CNext, Contract!Enter, Contract!cvars
  <2>4. CASE PlayStop
    BY <2>4 DEF PlayStop, InputStep, CloseSource, PastGate, Contract!CNext,
       Contract!CloseAtGate, Contract!cvars
  <2>5. CASE PlayEof
    BY <2>5 DEF PlayEof, InputStep, CloseSource, PastGate, Contract!CNext,
       Contract!CloseAtEnd, Contract!cvars
  <2>6. CASE PlayRead
    BY <2>6 DEF PlayRead, InputStep, ReadChunk, UnchangedByReading, PastGate,
       Contract!cvars
  <2>7. CASE PlayNoData
    BY <2>7 DEF PlayNoData, InputStep, NoChunk, UnchangedByReading, PastGate,
       Contract!CNext, Contract!Leave, Contract!cvars
  <2>8. CASE PrimeError \/ PlayReadError
    BY <2>8 DEF PrimeError, PlayReadError, InputStep, PastGate, Contract!CNext,
       Contract!OpenFails, Contract!CloseAtEnd, Contract!cvars
  <2>9. CASE PlayFlags
    BY <2>9 DEF PlayFlags, InputStep, UnchangedByReading, PastGate, Contract!cvars
  <2>10. CASE PlayClear
    BY <2>10 DEF PlayClear, InputStep, PastGate, Contract!cvars
  <2>11. CASE PlayHold
    BY <2>11 DEF PlayHold, InputStep, UnchangedByReading, PastGate, Contract!CNext,
       Contract!Leave, Contract!cvars
  <2>12. CASE PlayWritePlain
    BY <2>12 DEF PlayWritePlain, InputStep, PlayWrite, PastGate, Contract!CNext,
       Contract!Leave, Contract!cvars
  <2>13. CASE PlayWriteNew
    BY <2>13 DEF PlayWriteNew, InputStep, PlayWrite, MetadataGet, PastGate,
       Contract!CNext, Contract!Leave, Contract!cvars
  <2>14. QED
    BY <1>8, <2>1, <2>2, <2>3, <2>4, <2>5, <2>6, <2>7, <2>8, <2>9, <2>10, <2>11,
       <2>12, <2>13 DEF Input
<1>9. CASE Player
  BY <1>9, PlayerFrame, ContractStutter
<1>10. CASE Timer
  <2>1. CASE TimerPlaying
    BY <2>1, ContractStutter DEF TimerPlaying, UnchangedByTimer
  <2>2. CASE TimerPaused
    BY <2>2, ContractStutter DEF TimerPaused, UnchangedByTimer
  <2>3. CASE TimerExit
    BY <2>3 DEF ExitInv, TimerExit, UnchangedByTimer, PastGate, Contract!CNext,
       Contract!Exit, Contract!cvars
  <2>4. CASE TimerReset
    BY <2>4, ContractStutter DEF TimerReset, UnchangedByTimer
  <2>5. QED
    BY <1>10, <2>1, <2>2, <2>3, <2>4 DEF Timer
<1>11. CASE UNCHANGED vars
  BY <1>11, ContractStutter DEF vars
<1>12. QED
  BY <1>1, <1>2, <1>3, <1>4, <1>5, <1>6, <1>7, <1>8, <1>9, <1>10, <1>11 DEF Next

\* The program implements PlaybackContract: a call of play() starts reading only while
\* neither pause nor stop is in force, and the process exits only after the source was
\* closed.
THEOREM ContractIsKept == Spec => KeepsContract
<1>1. Init => Contract!CInit
  BY DEF Init, Contract!CInit, PastGate
<1>2. Init => ExitInv
  BY DEF Init, ExitInv
<1>3. QED
  BY <1>1, <1>2, TypeCorrect, ExitStep, ContractStep, PTL
     DEF Spec, KeepsContract, Contract!CSpec

=============================================================================
