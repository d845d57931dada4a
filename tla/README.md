# A TLA+ model of cliairplay

cliairplay is a command line AirPlay 2 sender for Music Assistant: OwnTone's
player, input and output modules, with the input module replaced by
`src/src/mass.c`, the start-up by `src/src/cliap2.c`, the database by stubs in
`src/src/wrappers.c` and the configuration by `src/src/conffile.c`.  Music
Assistant writes PCM audio to stdin and metadata and commands to a named pipe
(FIFO).  The modules here model that glue, check it with TLC, and prove its
central properties with TLAPS.

## Inventory

| component | state it keeps | operations | talks to |
|---|---|---|---|
| command pipe, thread `mass_cmd` (`mass.c` 374-397, 484-858, 1252-1500) | `pipe_metadata` (watch, evbuf, prepared metadata, PIN, volume, artwork tmpfile, `is_new`) | `pipe_metadata_read_cb`: read, parse line by line, act on a bit mask; reopen on EOF; give up on error | kernel FIFO; player (status, volume, PIN, flush); input thread through `pause_flag`, `stop_flag` (under `audio_command_lock`), `is_new` (no lock), prepared metadata (under `prepared.lock`) |
| status timer, same event loop (1141-1204) | statics `player_started`, `paused` | `mass_timer_cb` once a second; calls `exit(0)` | player |
| audio input, OwnTone's input thread (1508-1830) | `source->evbuf`, statics of `play()` | `setup`, `play`, `stop`, `metadata_get`, `ts_get` | stdin, `input_write` |
| start of playback at a given time (1660-1797) | `start_ts`, `earliest_possible_packet_ts`, `bytes_to_remove`, `bytes_removed`, `read_count` | estimate, drop, hold, first write | clock, output latency |
| audio pipe watch, thread `mass_aud` (860-1110) | `pipe_watch_list` | watch update, start of playback | player, configuration |
| life cycle of the threads (1486-1500, 1838-1930) | event bases, thread ids, mutexes | `mass_init`, `mass_deinit`, thread stop | main thread |
| main and its signals (`cliap2.c`) | what is set up so far, signal mask, signalfd and its event, `main_exit` | set-up in stages, labels that take it down, `signal_signalfd_cb` | all of the above |
| start time (`cliap2.c`) | `start_ts` of `ap2_device_info` | `--ntp`, `--ntpstart`, `get_start_ts` | clock, input thread |
| command line and configuration (`cliap2.c`, `conffile.c`) | values of the options, libconfuse table | `getopt_long` loop, mandatory options, `conffile_load` | main |
| what the speaker announces, `--txt` (`cliap2.c` 343-389, list in `misc.c`) | `txt_kv`, a linked list with a tail pointer | `parse_keyval`; add, remove, get, clear, sort | OwnTone |
| queue emulation (`wrappers.c` 47-323, 742-783) | linked list `queue` | add, clear, delete, update, fetch, artwork by item id | player (external) |
| ring buffer (`misc.c`) | buffer, two positions, two counts | write, read | OwnTone |
| conversions of text to numbers (`misc.c`) | none | `safe_ato*` | command line, PIN, volume |
| stubs (`wrappers.c`, the rest) | `auth_key` of `ap2_device_info` | log and return a constant | OwnTone |
| logger (`logger.c`) | log file | local copy of OwnTone's | all |

`misc.c` and `logger.c` are local copies of OwnTone's files.  `LOCAL_PATCHED_SRC`
is commented out in `src/src/Makefile.am`, so the build takes the same functions
from the submodule; they are modelled from the copies.

What is hard, and what makes each component correct, is the list "hazards" of
`PROJECT.json`: flags acted upon after the lock is released, a status sampled
before it is used, `is_new` without a lock, a batch that is half applied when a
line is refused, a PIN freed and not cleared, the artwork file replaced while
its name is in use, `exit(0)` from a timer, borrow and carry of timespecs, the
unsigned comparison of a signed time, dropping audio over several calls, a failure
in any stage of `main`, an allocation that fails half-way through an operation, signals that come while others are read or before they are
blocked, threads that outlive what they use, loops over linked lists that end a
node early, positions that wrap around.

## Modules

| module | models | how it corresponds to the code |
|---|---|---|
| `PlaybackContract` | abstract specification | what `mass.c` promises about pause, stop, closing and exit, in four variables |
| `MassPlayback` | `mass_cmd`, timer, input thread, with the player and Music Assistant as environment | one action per stretch of code between two points where another thread can see or change what it uses. A critical section is one action; the exception is `prepared.lock`, held over a whole batch, which is the state `cmdpc = "parse"` |
| `StartSync` | the start of playback at a given time | the stretch of `play()` that `MassPlayback` leaves open (`PlayHold`, `PlayWrite`); time in nanoseconds, audio by the nanoseconds it plays for, milliseconds cut off towards zero as the code does (`DeltaMs`). The look at the clock and `input_write` are two steps, and every call that can fail may |
| `StartTime` | `--ntp`, `--ntpstart`, `get_start_ts`, `ts_delta` | the timestamp on its way from one process through Music Assistant to the next, with 32-bit seconds that wrap and the two clock readings as two actions |
| `MCStart` | instances of `StartTime` and `StartSync` | a variable `subject` chooses the one a behaviour is about |
| `TimespecOps`, `Timespec` | `timespec_add`, `timespec_subtract`, `timespec_cmp`, milliseconds | pure operators, and these applied in any sequence to one timespec beside the exact count of nanoseconds |
| `Lifecycle` | `mass_init`, `mass_deinit`, start and stop of `mass_aud` and `mass_cmd`, the watch list | every shared object is "none", "live" or "freed"; a step that uses one that is not live is recorded in `misuse` and is the last one |
| `Startup` | `main` around it: stages, labels, signals | extends `Lifecycle`, whose steps are what happens while `pc` is at "player" and "free_player"; `After` and `Label` are tables of where each stage goes when it succeeds or fails, `held` is what is set up and not released |
| `Numbers` | `safe_atoi32`, `safe_atou32`, `safe_atoi64`, `safe_atou64`, `safe_hextou64` | pure operators with the widths of the types as constants |
| `Settings` | option loop of `main`, `conffile_load`, the level of the log | one action per option, then one per stage |
| `Pin` | the way of a PIN through `mass.c` | `parse_mass_item` and the copy to `ap2_device_info.pin` in `pipe_metadata_read_cb`; a number together with the width at which it is printed |
| `QueueTable` | abstract specification | what the player relies on: a table of items in order, and an answer to each call |
| `Links` | a loop along next pointers | what it meets, step by step, in cells that need not form a list at all |
| `DbQueue` | linked list of `wrappers.c` | heap cells with next pointers; a freed cell that is still linked is a state. `Walk` is what a loop over the list meets (`Links`), and each operation takes the part of it that the loop's condition lets it see; each `calloc` of an item may fail |
| `Keyval` | linked list of `misc.c`, and `parse_keyval` | likewise, with the tail pointer; one action per token of the text, then any calls |
| `RingBuffer` | ring buffer of `misc.c` | one action per call |
| `MCStructures` | instances of the parts above that run in one thread | a variable `subject` chooses the part a behaviour is about |
| `*Claims` | sentences of the repository the code does not keep | properties only |
| `*_proofs` | proofs | those of `Lifecycle` are in `Startup_proofs`, those of `DbQueue` and `Keyval` in `Lists_proofs` |

`StartSync` takes up `MassPlayback` where that is nondeterministic, `Timespec`
justifies that `StartSync` adds and compares plain numbers of nanoseconds, and `StartTime` says where the start time
of `StartSync` comes from.  `Lifecycle` takes the work of the callbacks, which
`MassPlayback` details, as a few steps that use the shared objects, and `Startup`
puts the main thread around it.  Two refinements are stated and checked:
`MassPlayback` implements `PlaybackContract` (`KeepsContract`), and each call on `DbQueue`
does what `QueueTable` says of it, but for two exceptions (`CallsServeTheTable`).  That
the steps of `Startup` are steps of `Lifecycle` or leave it alone is no claim about the
code: `Startup` is written with the actions of `Lifecycle`.

### MassPlayback, in more detail

`cmdpc` says where `pipe_metadata_read_cb` is: in the event loop ("idle"),
parsing, about to sample the player's status, acting on the mask in the order of
the `if` statements (`ActOrder`), flushing after STOP, or reopening the FIFO.
`evbuf` is what was read in one go, a batch.  A line of the FIFO is a key of
`Keys` with a serial number; values that the code only passes on are that serial
number.  `watch` is `"dangling"` after `watch_add` failed: the callback returns
with `pipe->ev` pointing to a freed event, and no further line is read.

`inpc` says where the input thread is: `setup()`, which a read error ends before
`play()` is ever called (`PrimeError`), between two calls of `play()`
("loop"), after the flags were tested ("read"), after the read ("flags"), after
`is_new` was read ("clear"), after it was reset ("write"), closed.  While
`pause_flag` is set `play()` waits and returns, so no action is enabled at "loop".

External behaviour, taken from how `src/` uses it: OwnTone's player reports
PAUSED while it buffers and when its input runs dry, and STOPPED once the EOF or
ERROR marker is consumed; `input_write` waits while the input buffer is full and
calls `metadata_get` back on `INPUT_FLAG_METADATA`; `input_flush` empties the
input buffer and the markers in it; `timespec_sub` is `timespec_subtract`.  stdin
is non-blocking only if it was inherited so (`pipe_open` does not set it):
`StdinNonblock`.

Abstractions: audio is counted in chunks of one read; a read never splits a line
(lines are far shorter than `PIPE_READ_MAX`); the drain of an evbuf beyond one
MiB and the failure of `player_get_status` (both logged only) are left out, and so
are formatting and logging.

### Startup, in more detail

`pc` goes through the stages of `main` in the order of the source, then to "loop",
which is `event_base_dispatch`, and back through the labels `free_...`.  At each
stage that can fail `main` either returns by itself with what it has released until
then (`Released`: arguments, logger, configuration, pipe), or goes to a label
(`Label`).  Signals come at any time.  One that is not blocked yet ends the process,
except SIGCHLD; a blocked one waits in `pending` for `signal_signalfd_cb`, which
reads until none is left.  Its event is not persistent: it is added again at the end
of the callback, or never, and the loop comes back when no event is added.
`mass_timer_cb` may call `exit` at any time.  What curl, gcrypt, the worker threads
and the event base do is left out; each is a resource that is held or not.

Some things `main` never releases, and the model says so.  `held` keeps the struct of
`keyval_alloc` (`cliap2.c`:783; only its pairs are freed, 981) and the signalfd (901)
until the end: `NeverReleased`.  When `mass_init` fails, `main` goes to a label that does
not call `mass_deinit`, and `mass_aud`, its event base and the listener stay until
the process ends, with the configuration freed under them; `OnlyTheseAreLeft` and
`ConfigOutlivesAudio` except that case by name.  `allocated` counts the pipes of listener
events and of the watch list; the one that `setup()` makes (`mass.c`:1522) is freed by
none of `stop()`, `mass_deinit` or `main`, and is not among them.

### The lists and the ring buffer

In `DbQueue` and `Keyval` an allocated node is a model value of a finite set,
`live` or `used` is what is allocated, and the pointers are functions from nodes to
nodes.  `Reached` follows them from the head for one step more than there are nodes, so
that a list that goes in circles, or on in freed memory, shows as a walk that is too long
or that meets a node not allocated.  `db_queue_delete_byitemid` and `db_queue_item_update` end their loops before
the last node; that the callers are served nevertheless is due to
`db_queue_fetch_byitemid`, which hands out the node itself (`Fetched`).  `asked` is
the last call, recorded so that a call that has no effect is a step as well, and `ret`
what it returned.

Two calls do not do what their name says, and `ServesTheTable` states for each what
happens instead.  `db_queue_delete_byitemid` never takes out the first or the last item,
and so never the only one (`wrappers.c`:162-168): `StaysAtTheEnd`.  `QueueAdd` has the number
of calls of `calloc` that succeed as a parameter.  None: the caller is told.  One, for the
item but not for its node: the caller is told if the list is empty; otherwise
`db_queue_insert_atend` returns the old list (60-64, 91-92), which passes for success (308), and
nothing was added, although line 254 promises -1 on failure.  The item that gets no node is leaked,
as are the copies that others hold; items are part of their nodes in the model.
`db_queue_clear` has one use in this repository (`wrappers.c`:368), which passes 0, an id no
item has: `NothingIsKept`.  The branch that keeps an item is modelled but never taken,
neither by TLC nor in the proofs.

`parse_keyval` calls `strtok_r` on the quotes, which passes over two in a row (`Found`),
and drops the token after each pair as the blank between two of them, whatever it is
(`PassBlank`).  `token` is the stretch from which `strtok_r` goes on, or `Failed` after a
pair with too many `=`, for which it returns -1 and `main` gives up (`ParseFails`).

## Runs

`PROJECT.json` names the properties of each run; in short:

| run | instance | shows |
|---|---|---|
| `PlaybackControl` | 3 of PAUSE/PLAY/STOP, 2 chunks | `play()` writes at most once more after a flag is set; exit only after the end; refinement of `PlaybackContract` |
| `PlaybackMetadata` | 3 of a field, artwork (good, bad) and PIN, 2 chunks; a start time; reads of stdin and FIFO may fail | no trigger is announced twice, no field is handed over twice or late; no freed PIN is used; the prepared artwork is on disk |
| `PlaybackLive` | 2 of PAUSE/PLAY/STOP/SENDMETA/VOLUME, 1 chunk, fairness | STOP is flagged, closes the source unless paused; the end of the stream ends the process |
| `StartOnTime` | two parts that share only `start_ts`. `StartTime`: a second of 6 ns, NTP seconds modulo 16, eighths of a second; four boot times, three leads. `StartSync`: milliseconds of 2 ns, 2 start times, 6 ns of audio, 11 ns of time | `start_ts` is the time asked for, early by at most a nanosecond and the time between the clock readings, also across the wrap of 2036. The first write does not come too early, nothing playable is dropped, and what is dropped moves the start time unless a drop leaves nothing |
| `Startup` | two listener events, two signals of SIGTERM, SIGHUP and SIGCHLD, every failure, fairness | `main` releases only what it set up, and in the end only what it never releases is left; threads inherit the mask; the loop ends only when told; a SIGTERM ends the process; the configuration outlives `mass_aud`; the properties of `Lifecycle`: nothing freed is used before the stop, stdin is played once, no pipe of a listener event or of the watch list leaks, `mass_deinit` returns |
| `Structures` | see below | the parts that run in one thread |
| `Claim...` | violations | see below |

Bounds of the playback runs: two items suffice for any order of two commands in one
batch or two, three for a command that undoes an effect of the first before the
second is dealt with; two chunks let one call of `play()` be past the flags while the
next is yet to come.  `AtMostOneLateWrite` counts the writes of `play()`'s usual path; what
`stop()` hands over of the audio that was held back comes instead of such a write, never after it.  `InbufMax = 2` makes `input_write` wait; `PrimeMax = 0` makes
`setup()` read once.  In `StartOnTime` reads take at most 2 ns of audio, so a drop of up
to 6 takes several calls; both start times lie before or after the estimate, depending on
when it is made; with milliseconds of 2 ns a start that passed by 1 ns is one that `DeltaMs` cuts off
to 0.  The boot times and leads put the start before, at and after
the wrap of the seconds, and before the boot; the double arithmetic of the fractions
is a choice between the two results it can round to.  In `Startup` two listener events
can be queued before, between and after what `mass_aud` does with the first; two
signals suffice for one that comes while the other is read.  SIGINT is treated as
SIGTERM is.

`Structures`, by subject:

* *timespec*: a second of 12 ns, operands on both sides of the epoch, of a carry and
  of a borrow, values within 60 ns.
* *settings*: every pair of 47 further options after all that must be given, which
  meets every order of two values of one option, and every option after all mandatory
  ones but one; a configuration file that is missing, bad, or says something or nothing
  of each setting.  Types of 16 and 32 values, with numbers that fit neither, one or
  both.
* *queue*: every sequence of calls on up to three items; three cells are the least with
  a first, a middle and a last one; and every failure of `calloc` on the way.
* *keyval*: every text of up to three stretches between quotes, out of five, among them
  two quotes in a row and a pair with too many `=`, and three pairs with names that are
  equal but for their case; then every sequence of calls on up to three pairs.
* *ring*: every sequence of calls on a buffer of three bytes, with writes and reads of
  up to four.

The parts share no variable, and a behaviour changes the variables of its subject
only, so that the states add up instead of multiplying.  `SYMMETRY Heaps` permutes
what `malloc` returns: cells and nodes are only ever compared for equality, and the run
checks no liveness.

`CHECK_DEADLOCK FALSE` is set for `MassPlayback` because the process exits, and
because a closed source with nothing left to send is its normal end; for `Startup`
because the process ends; for `Structures` and `ClaimPin` because a command line, a
text and a PIN are dealt with once.

Fairness.  `FairSpec` of `MassPlayback`: weak fairness of each thread's own steps, of
reading a readable FIFO and of the player's consumption: threads are scheduled and
libevent serves what is readable. The timer gets strong fairness: it is enabled only
while the callback is not running, but the same event loop comes back to expired
timers on every turn.  Nothing is assumed of Music Assistant: it may never send, never
close.  `StartupFairSpec`: the main thread, `mass_cmd` and `mass_aud` are weakly fair,
and `event_free`, which waits on a condition variable for the running callback, comes
back when that has ended (strong fairness). Signals and listener events need not come;
that there are at most `MaxSignals` of them matters for `TermEnds`, since the callback
reads as long as signals are pending.

### What the code does not keep

| run | sentence | what happens |
|---|---|---|
| `ClaimStopPaused` | "we exit gracefully on STOP command or on EOF on stdin" (`Makefile.am`:44-45) | `play()` returns on `pause_flag` before it looks at `stop_flag` |
| `ClaimEofExit` | the same | a stream that starts and ends between two calls of the timer, or an empty one, is never seen playing, and `exit(0)` is never called |
| `ClaimLateStart` | "check to ensure we are not going to call it too early" (`mass.c`:1772) | a negative `delta_ms` is compared as `uint64_t`: a start time that has passed is waited for |
| `ClaimAligned` | "Finally, adjust the start time to reflect actual audio we now have" (`mass.c`:1766) | when what is held is exactly what has to be dropped, `play()` returns before the adjustment, and no later call makes it |
| `ClaimThreadStopped` | `command_pipe_thread_stop` "Stops the mass_cmd thread and ensures housekeeping is performed" (`mass.c`:1476) | the thread is not joined; what it uses is freed while it runs, and a loopbreak before its loop begins is lost |
| `ClaimPin` | "PIN's limited to 4 digits" (`mass.c`:749) | the test is made on `ret`, which is 0 or -1, instead of the number; a longer PIN is cut to its leading digits |

## Proofs

Each holds for every value of the constants that the named assumptions of the
module allow (types of the bounds, `KeysAssumption`, `FieldsAssumption`, ...).

* `MassPlayback_proofs`: type correctness. `Next` is split into its groups; a
  frame lemma per group says what the group leaves alone, so that each part of
  `TypeOK` is only examined under the actions that can disturb it.
* `MassPlaybackSafety_proofs`: the safety properties of the runs and the
  refinement. The properties are not inductive, so each has an invariant that is:
  `LateInv` counts the call of `play()` that is already past the flags as a write
  still to come; `TakesInv` counts a trigger exactly once while it goes from
  `is_new` to the local flags to `metadata_get`; `ExitInv` says that the player
  stops only at a marker and that only closing the source leaves one; `PinInv`
  that the mask never outlives its PIN; `ArtworkInv` that a callback at work has
  its pipe watched; `FreshInv` that items keep their order on the way: those in the
  FIFO are newer than those of the batch, and these newer than what is prepared or was
  handed over, so that metadata is never handed over twice or out of order
  (`FieldsAreTakenOnce`, an action property).  `ContractIsKept` maps every action to a
  step of the contract or to a stutter, with `ExitInv` for the exit.
* `StartSync_proofs`: `StartInv` says that until a drain moves it `start_ts` is as
  asked, that what is too old lies between it and the estimate, that no more
  is dropped, and that what was found to be in time stays so while time passes. From it:
  nothing playable is dropped (`OnlyOldIsDropped`); dropping in any number of calls
  moves the start by what was dropped, unless the last drop takes just what is held
  (`DrainingAligns`, of `AlignedUnlessEmptied`); and the first write is not too early (`WriteIsNotEarly`):
  less than a millisecond more than the margin before the start, if that margin is not
  negative.  Nothing is said of lateness.  A start that has passed by less than a
  millisecond is written, any other is held for ever (`ClaimLateStart`), and any time may pass
  between the look at the clock and `input_write`.
* `TimespecOps_proofs`, `Structures_proofs`: the arithmetic is exact for any length
  of a second, and milliseconds are those of the exact count of nanoseconds cut off
  towards zero, on both sides of it (`MillisExact`).  The ring buffer is a queue for any size: `RingInv` says that the counts
  add up to the size and that `write_pos` is `read_pos` plus what is to be read, modulo
  the size; moving on twice is moving on once by the sum (`AroundTwice`), and a copy
  puts each byte at its distance from `write_pos` (`CopiedAt`).  For every command line
  and configuration file `SettingsInv` says that of the options looked at so far the last
  use of each is in force (`Wins`), and that none of them ends the program; from it follow
  `ExitIsAsked` and, with what the conversions do within the ranges of their types
  (`IntExact`, `LatencyExact`), `LastOneWins`.  It needs `DacMs > 0`: a latency of 0 in
  all stands for none.
* `StartTime_proofs`: `Carries` says that the timestamp stands for the time asked
  for, in 32-bit seconds, and is inductive. Four facts about numbers carry the
  theorem: shifting by the epoch and back is the identity modulo 2^32
  (`EraRoundTrip`), whole seconds may be added to the wrapped ones (`ModPlus`,
  `StampPlus`), and a fraction converted twice by truncation loses at most one
  nanosecond (`FractionRoundTrip`). It assumes only that the time asked for lies
  within 2^32 seconds of 1970.
* `Startup_proofs`, threads: two invariants that do not need each other. `AudioInv`
  balances the pipes of listener events and of the watch list: what is allocated is in a queued command or on the
  watch list, the command of the stop carries none and is the last of the queue.
  `CommandInv` lists what `mass_cmd` finds at each of its steps as long as the
  process is not being stopped. They hold for any number of listener events.
* `Startup_proofs`, `main`: the steps of `main` are steps of `Lifecycle` or stutters
  (`StepKeepsLifecycle`, which holds by the way `Startup` is written), so that the invariants
  about the threads carry over to the whole program.
  `MainInv` ties the stage of `main` to what is held there (`Holds`), to how
  far `mass_init` and `mass_deinit` have come, and to the signal mask.  From it, for any
  number of signals and listener events: `main` releases only what it set up; when it
  returns, nothing is left but what it never releases, and on its early return for a file in
  the place of the pipe logger and configuration, with a failed `mass_init` excepted by name (`RestIsReleased`); every thread inherits the mask; the loop ends
  only when told; the configuration outlives `mass_aud`.
* `Lists_proofs`: for any number of nodes, any calls in any order and texts of any length.
  `QueueInv` and `KeyvalInv` say that the pointers from the head on make up a list without
  circles (`IsChain`), which holds just what is allocated; the properties of the runs
  follow, but are not inductive themselves, since they speak of what a loop meets and not
  of why.  Three lemmas about pointers carry the steps: linking a cell to the last one
  makes the list longer at its end (`ChainExtended`), passing one over makes it shorter
  there (`ChainShortened`), and what a loop meets is the list (`ChainFollowed`).  On top of
  them `AddServes`, `AddRefused`, `DeleteServes`, ... show what each call does to the items or pairs in
  their order, which are `CallsServeTheTable` and `KvServesTheMap`, with
  the two exceptions of the former.  `keyval_sort` relinks
  all nodes at once: a finite set of nodes with different names can be put in order
  (`SortedExists`), the sort pointers lead along it, and so no node is lost (`SortStep`).
  `TxtInv` says of the pairs read so far what `TxtIsComplete` says of all of them
  (`ListOf`): that those with new names are in the list in their order, and that there is
  room for the next one (`NodeIsFree`).  It assumes of a text that names and values are
  where `parse_keyval` takes them from (`TextsAssumption`), and of `db_queue_clear` that no
  item has the id to keep (`NothingIsKept`).

Where an argument needs induction (what a loop meets after any number of steps, that any
finite set can be sorted), the proofs take a least counterexample instead, a minimal
element of the well-founded order of finite sets by inclusion (`LeastExists`,
`SortedExists`): the induction theorems of the library take an operator as a parameter,
which the installed provers cannot instantiate.

Every invariant and every action property of the passing runs is stated by a theorem.  Only
model-checked: liveness (`TermEnds`, `StopCompletes`, `StopIsFlagged`, `StopEndsSource`,
`EndLeadsToExit`; fairness and ENABLED are beyond the prover), and the violations.

## Not modelled

* Stubs of `wrappers.c` that log and return a constant (`db_queue_fetch_next` and
  the like, speakers, files, settings), and the transfer of artwork over HTTP: they keep no state
  that a later call reads, or lie in a library.  `db_speaker_save` keeps `auth_key`;
  whether it is handed back the string it gave out is not seen in this repository.
* `logger.c`, the wording of the log, and the sockets, string functions, hashes and
  base 64 of `misc.c`: they keep no state between calls.
* `signal_kqueue_cb`: the variant of `signal_signalfd_cb` for other systems.
* Failures of `malloc` where the code does not test for them, and leaks of what no model
  follows: the pipe of `setup()`, the item that gets no node.
* What is written to the FIFO between the read that returned 0 and its close, which
  the kernel discards: the code cannot see it.
