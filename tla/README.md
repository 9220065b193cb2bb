# Verification of daq-telemetry-25

TLA+ models, TLC runs and TLAPS proofs for the firmware of the NFR25 DAQ
telemetry board. The firmware listens to the car's CAN bus, keeps the last frame
of every configured message in one buffer, and appends a snapshot of that buffer
to a log on an SD card every period.

Paths below are relative to the repository; `lib/...` is in its `lib` directory.

## 1. Inventory

### Components

| component | code | state | operations |
|---|---|---|---|
| ESPCANDriver | `lib/can/drivers/can_driver_esp.hpp` | a ring `_rxBuf`, `_rxHead`, `_rxTail`, `_rxCount` of 64 frames; the controller's state and two queues outside | install, uninstall, sendMessage, receiveMessage (which calls tick), clearTransmitQueue, clearReceiveQueue |
| BitBuffer | `lib/common/bit_buffer.*` | a heap block with 48 bytes in front, its size in bits | construct, destroy, write, read, byteSize, buffer |
| CANBus | `lib/can/can.*` | message table, next bit offset, callbacks, `_isInitialized`, the buffer and its mutex | addMessage, registerCallback, initialize, update, sendMessage/getRawMessage; writeRawMessage and the signal templates have no caller |
| Tokenizer, token readers | `lib/can/builder/tokenizer.*`, `token_reader.*`, `lib/telemetry/sd_token_reader.*` | a position in the configuration; a pool of identifiers | start, peek, next, eatUntil, end |
| TelemBuilder | `lib/can/builder/telem_builder.*` | ids seen; fills the bus as it parses | build (options, boards, messages, signals, validation) |
| SDManager, FileGuard | `lib/telemetry/sd_manager.*` | good/bad status, a stack of 8 open files and its pointer; one file reference per guard | initialize, open, flush, close, createDir, numFilesInDir; guard construction and destruction |
| SDLogger | `lib/telemetry/sd_logger.hpp` | good/bad state, directory and file name | initialize, log |
| TaskScheduler | `lib/tasks/tasks.hpp` | the vector `_tasks` the tasks point into, `_hasStarted` | addTask, start with its loop that creates the tasks; each task: initialize, then run every period |
| Resources, setup | `lib/remote/resources.*`, `remote_main.hpp` | the singletons | construct (mounts the card), setup |
| LOG and READ_CAN tasks | `lib/remote/task_log.hpp`, `task_can.hpp` | none | run |
| LoRaPacket | `lib/common/message.*` | header fields and payload | serialize, validatePacket, deserialize, setPayload |
| MCPCanDriver | `lib/can/drivers/can_driver_mcp.hpp` | none of its own | install, sendMessage, receiveMessage (its bus is never initialized) |
| stubs | `task_sensors.hpp`, `task_wireless.hpp`, `base_main.hpp`, `lora_driver.hpp`, empty headers | none | none |

### How they interact

`setup()` (core 1, before any task) creates `Resources`, which mounts the card;
opens `/config.telem` through a FileGuard; the builder reads tokens and calls
`CANBus::addMessage`; then `CANBus::initialize` installs the driver and allocates
the buffer. If the configuration has an error `setup()` loops for ever. Otherwise two
tasks start: READ_CAN on core 1 (highest priority, every 5 ms: `CANBus::update`,
which calls `ESPCANDriver::receiveMessage` until it returns false and stores every
frame it knows under the bus's mutex) and LOG on core 0 (every `logPeriodMs`:
`SDLogger::log`, which opens the log, writes the time and copies the buffer).
They share the buffer and the mutex. The card is used by `setup()` and then by LOG
alone, so the SDManager needs no lock.

### Hard behaviours and what makes each part correct

* **Driver**: controller and interrupt move between any two twai calls; the driver acts on
  snapshots, drains with a stale count, recovers from bus-off in two polls, and
  loses frames when full. Correct: order kept, nothing invented or repeated, loss
  only where it is allowed, snapshots true when acted on, the node comes back.
* **CANBus/BitBuffer**: two cores, one buffer; bit addressing; late and duplicate
  messages; a block that is deleted while it is used. Correct: slots apart and
  inside the block, each holds the last frame, one frame is never mixed with another.
* **Logger/SDManager**: file stack with shared file references, a comparison the wrong
  way round, power cuts and card failures at any step. Correct: stack clean at rest,
  older logs untouched, the session's log complete, a failed logger silent.
* **Builder/Tokenizer**: termination of comment skipping, validation against what
  `language_spec.md` promises, partial effects of a refused configuration.
* **Scheduler, setup**: tasks run while `start()` still creates others, keep an address into a
  vector, fail to be created or to initialize, and take the core from `setup()`. Correct: the bus is ready before
  anybody uses it, no address dangles, every task comes into being.
* **LoRaPacket**: bytes changed or cut on the air. Correct: the checksum notices, what is refused changes
  nothing, what is accepted is what was sent.

The list of hazards with their lines is in `PROJECT.json`.

## 2. Modules

| module | what it is |
|---|---|
| `RxFifo` | the promise of `receiveMessage`: a lossy FIFO that says when a frame may be lost |
| `EspCanDriver` | the driver and the TWAI controller, one action per step between twai calls; implements `RxFifo` |
| `BitBuffer` | where `write` and `read` put each bit |
| `CANBus` | table, buffer, mutex; `update` and `sendMessage` byte by byte |
| `TaskScheduler` | `addTask`, `start`, the tasks' creation and `initialize`: operators and actions, no specification of its own |
| `Telemetry` | `CANBus` and `TaskScheduler` put together: `setup()` on core 1, then READ_CAN and what LOG does to the bus |
| `SDManager` | card, file stack, file guards: the actions, no specification of its own |
| `SDLogger` | boots, `setup`'s use of the card, logger; uses the actions of `SDManager` |
| `TelemWords` | words of a configuration and their tokens |
| `Tokenizer` | position, `peek`, `next`, `eatUntil` over both token readers: the operators and actions |
| `TelemLanguage` | which configurations `language_spec.md` calls valid and what they describe, line by line: the reference; and, apart from it, the rules in which the builder departs from that language. A line is named by the position of its first word |
| `TelemBuilder` | `TelemBuilder::build` token by token; uses `Tokenizer`, compared with `TelemLanguage` |
| `LoRaPacket` | two packet objects and the bytes on the air between them, with the checksum bit by bit; a byte is the set of its bits |
| `MC...` | symmetry sets and set-valued constants for TLC |
| `EspCanDriverProofs`, `CANBusProofs`, `TelemetryProofs`, `SDLoggerProofs`, `SDLoggerLogsProofs`, `SDLoggerSessionProofs`, `TelemBuilderProofs`, `LoRaPacketProofs` | theorems (section 4) |

How state and actions correspond to the code: variables have the names of the
fields they stand for where there is one (`rxHead` is `_rxHead`, `fileStackPtr` is
`_fileStackPtr`); `pc`, `upc`, `apc`, `lpc` and `spc` are the points in a function at which something
else can run; variables marked *history* are read by no guard and exist for the
properties only. `PROJECT.json` maps each definition to its lines. Definitions commented "mutant" are
the plausible bugs against which the properties are tried; no specification uses them.

Abstractions:

* *EspCanDriver*. A frame is an element of `Frame`. The bytes of a `RawCANMessage` behind its
  dlc are whatever was on the stack (`Residue`), since the code never writes them.
  Time is left out: the 100 ticks of `twai_receive` may pass at any time while the
  queue is empty. A frame that arrives when the controller's queue is full is missed and
  leaves no trace. `twai_driver_install` may fail; then every call fails, and the
  first status of `tick` is arbitrary, as the variable has no initial value.
* *CANBus*. A byte is abstracted to the payload it came from (`Val`), `Zero` or
  `Junk`; a frame carries one payload, repeated. That tells apart which frame each byte
  belongs to, which is what the properties ask. Signals are left out:
  `addMessage` computes their handles and nothing reads them. A frame has a length (`DLC`) of zero up to a whole slot.
  `AddMessage` happens while nobody updates or sends: the code asks nothing of the kind, but `setup()` adds all messages alone. What
  `receiveMessage` returns is any frame; its order is `RxFifo`'s business.
* *TaskScheduler, Telemetry*. Time is left out: a periodic task that is not in its run may begin one. Core 1 is
  modelled by its priorities (`setup()` runs only while READ_CAN sleeps or is not there), core 0 has LOG alone. Of
  `log()` only the access to the bus is here; the card is in `SDLogger`. A vector's blocks are numbered.
* *TelemBuilder*. A configuration is a sequence of symbols, and a symbol a word, a comment mark or a newline: a word is a
  literal with its class and value (decimal integers and doubles may be negative) or any other text. Blanks inside a line and the characters of a word are gone, and with them the
  regex for identifiers (`language_spec.md:41-42`), which the tokenizer does not look at. A double that was written as an integer
  is marked as not exact, since what it holds are the integer's bits. What was passed to `addMessage` is a sequence (`added`);
  `CANBus` takes any such calls.
* *BitBuffer*. Addresses only; the data is moved by its users.
* *SDManager*. A file is the sequence of pieces written to it (`header`, one chunk of
  configuration, one record). What is written is on the card once the file is closed; a power cut commits
  any prefix of what was written to an open file. `FILE_WRITE` differs between Arduino cores
  (the ESP32 core's truncates, AVR's appends), so it is a parameter. `numFilesInDir` asks the card for one entry after another, and the card may stop
  answering between any two of them; `open` with `create` makes the file and opens it again in one step, in which the second may fail after the first
  (`OpenFails`); such a failure is not counted among those of `cardFailed`.
* *SDLogger*. The RTC's date is any element of `Dir`. A boot ends with the power going at any step.
* *LoRaPacket*. Bytes and checksum are the real ones, a byte or a word being the set of the positions of the bits that are 1; nothing
  adds or compares them, so that is all there is to them. Noise hits one byte or two neighbours once, or the packet is cut short.
  The receiving object is fresh, as in the tests.

## 3. Runs

| run | module, cfg | shows |
|---|---|---|
| driver | MCEspCanDriver, Driver.cfg | ring, snapshots, stalls, refinement of RxFifo, recovery from bus-off, frames are read |
| can_bus | MCCANBus, CANBus.cfg | slots, last frames, one frame per message sent |
| telemetry | MCTelemetry, Telemetry.cfg | the order of setup and tasks, addresses of descriptions, what a record can mix; no task is left out or starved of the mutex |
| sd_logger | MCSDLogger, SDLogger.cfg | file stack, old logs and what a miscount costs of them, the session's log whole or at least in order, silence after failure |
| builder | MCTelemBuilder, TelemBuilder.cfg | what the builder accepts, adds and ends on, both readers |
| lora_packet | MCLoRaPacket, LoRaPacket.cfg | the checksum notices noise; a packet is taken whole or not at all |
| torn_record | MCTelemetry, TornRecord.cfg | **violated**: a record is one moment of the buffer |
| reused_buffer | MCCANBus, ReusedBuffer.cfg | **violated**: the buffer holds the last frames |
| comment_hang | MCTelemBuilder, CommentHang.cfg | **violated**: comments are ignored, so `build` ends |
| int_factor | MCTelemBuilder, IntFactor.cfg | **violated**: a signal has the factor of its line |
| log_truncated | MCSDLogger, LogTruncated.cfg | **violated**: records are added at the end of the log |
| lora_checksum | MCLoRaPacket, LoRaChecksum.cfg | **violated**: a serialized packet is valid |

### Properties

`EspCanDriver`: `RingOK` (the three ring fields describe one queue);
`FaultSnapshotIsCurrent` (recovery is asked of a controller that is bus-off, a
start of a stopped one, though the snapshot is older); `StallOnlyAfterRestart` (the drain loop
waits for a frame that is not there only after it has restarted the controller,
which empties the queue behind the count); `ImplementsFifo`; `BusComesBack`; `FrameIsRead`.

The refinement maps `pending` to the ring, then the frame in `tick`'s hands, then the
controller's queue. It shows among others that a call that starts with a frame waiting
returns one, that nothing is reordered or repeated over wrap-arounds, and that a full ring drops
the arriving frame and never one that waits. `clearReceiveQueue` clears
two queues in two steps; a frame that arrives in between survives, and `RxFifo` says so.

`CANBus`: `SlotsApart`, `HoldsLastFramesUnlessReused`, `SentIsOneFrame`.

`Telemetry`: `RecordTornOnlyByItsOwnFrame`; `TasksFindBusReady` (`update` and `log` do not ask
whether the bus is initialized and has a slot for every message; the order of `setup()` is what
makes it so); `TaskPointersValid` (a living task's description has not moved, although `addTask` may be called at any
time); `EveryTaskIsCreated` (an `update()` that never ends, `can.cpp:80-101`, stops everything else on its core, also
the loop of `start()`: READ_CAN must be the last task of the list); `LogCompletes` (a `log()` that waits for the mutex writes its record if
`update()` ends again and again).

`SDLogger`: `RestIsClean` (with no guard alive the file stack is
empty, although `open` drops entries without closing them); `EarlierLogsKept` (but for what a count costs that a failing card has cut short);
`MiscountCostsOneLog` (the count may have stopped at any number k, and then `log_k` of an earlier boot is opened again: that is the one log
it costs, and nothing of it where `FILE_WRITE` appends);
`AppendKeepsSession`; `LatestRecordIsLast`; `LogInOrder` (whatever fails and whatever `FILE_WRITE` does, a log
of this boot has gaps at most: nothing twice, nothing out of order, nothing that was not logged); `FailedLoggerIsSilent`.

`TelemBuilder`: `AgreesWithLanguage` compares the token-by-token build, which does not know line ends except
where it calls `eatUntil`, with the language of `language_spec.md`, which is about lines: legal, nested, names and ids different, signals
inside their message and disjoint bit by bit (the code sorts and compares neighbours). The rules in which they
differ are listed in `RefusesMore`, `TakenAnyway` and below; each is met in the run. `AddedAsDescribed` is about what
is on the bus at any time, a build that fails included. `LastOptionCounts`; `BuildEndsOnCard`;
`EveryTurnGetsOn` (each step takes away from a bound on the steps left, `TurnsLeft`, and the firmware's reader gets past every comment).

`LoRaPacket`: `CrcDetectsNoise`; `AcceptedAsSent`, which is about the packets that are accepted at all (see the finding).

### Findings

* `torn_record`: `sd_logger.hpp:110` makes a `lock_guard` without a name, which unlocks on
  the same line. The record is copied without the mutex and can hold
  bytes of two frames of one message. `RecordTornOnlyByItsOwnFrame` is the part that still holds.
* `reused_buffer`: `can.cpp:67` assigns a temporary `BitBuffer`; the class has a
  destructor and no assignment, so the block is deleted while the bus uses it.
  `HoldsLastFramesUnlessReused` is what holds as long as nobody gets the block.
* `log_truncated`: `log()` opens with `FILE_WRITE`, which truncates on the ESP32 core;
  `AppendKeepsSession` is what would hold with a core whose `FILE_WRITE` appends.
* `comment_hang`: `token_reader.cpp:65` stops in front of the newline, so a comment on its own line
  is looked at for ever. Only the reader of the tests has this; `BuildEndsOnCard` is the firmware's.
* `int_factor`: `telem_builder.cpp:50,53` read the double of a token that holds an integer.
* `lora_checksum`: `message.cpp:28` compares the checksum with the checksum's low byte and the end byte, one
  byte late, so that only a packet whose checksum happens to be 0xA1A1 is valid; `test_message.cpp:35-37` expects every one to be.
  `deserialize` is one byte off as well for the sequence number and takes one byte too few of the payload, which is why
  `AcceptedAsSent` names type and options alone.

Where the builder keeps to other rules than `language_spec.md`; `AgreesWithLanguage` names each of them, and the run has files for each.

* It refuses what the language allows: a file without a board (`telem_builder.cpp:100`, spec `:129`); options after a board
  (`:92`, spec `:129`); an option of another name, where `:60` promises a warning and to go on (`:133`); hexadecimal integers elsewhere than in ids (`:114`,
  spec `:43`); and a signal with bits beyond the eighth byte (`:340`, spec `:85` has up to 64 bytes).
* It takes what the language forbids: a name twice at one scope (spec `:118`); an option of 0 (`:56-57`); words behind the size of
  a message (`:133`, eaten at `telem_builder.cpp:220`); a data type the language does not have (`:100`).
* It reads differently: a signal is unsigned unless it says so (line 267), also of type `int16`, against `:100`; `AddedAsDescribed`
  asks for signedness where the type is unsigned or the line has the word.

The reference reads two things into the documents: a `+` in the grammar is at least one board's message and one message's signal, as the code and
`test_TelemBuilder_MultipleBoards` have it; and that ids are different comes from `test_telem_builder.cpp:142-155`, as the specification does not say it.

Not compared, as `InScope` leaves out files with such lines: a signal of no bits is accepted (spec `:102`), and two of them with some bits at one place are accepted or refused as
the sort leaves them; the eight-bit sum of line 337 lets two signals that end at bit 256 overlap in a message of 32 bytes. To the tokenizer
a newline is a blank: a statement may be broken over several lines, and two options or two signals may stand on one line, though
`language_spec.md:19` calls the format line-oriented. An id of 2^32 or more is cut before it is compared with 2047; options, sizes, start bits and lengths are cut to
their fields, negative ones too. (What the builder then does is in the model; `TypeOK`, `BuildEndsOnCard` and `EveryTurnGetsOn` are about such files as well.)
A message with one word too many behind its last signal is on the bus when the error is found.

Met on the way elsewhere: `can.hpp:117-118` says a registered callback is invoked when its message is
received, but `update` calls none (only the unused `writeRawMessage`
does); `can.cpp:97-99` announces an early return that does not come, with a counter that is
never set; nobody looks at the result of `xTaskCreatePinnedToCore`, so a task may silently be missing
(`CreateMayFail`); the count of a directory's files ends as well when the card does not answer (`sd_manager.cpp:159`, `168`), after which
`log_k` of an earlier boot may be opened, the one exception in `EarlierLogsKept` (`MiscountCostsOneLog` says what it can do); the copy of the
configuration (`sd_logger.hpp:75`) loops for ever on a card that dies in the middle; and `setPayload` checks the size of the
piece and not what the pieces add up to.

### Bounds and why they are enough

* Ring: 3 slots (64 in the code). Three wrap, fill, and have a middle; two
  frames show any loss, repetition or exchange. Of the transmit queue only
  "full or not" matters, so one slot is enough. The sizes are parameters of the proofs.
* Bus: two messages, two payloads, slots of two bytes (8 in the code) so that a copy can be
  interrupted in the middle, and frames of none, one or two bytes; two `addMessage` calls, so that an id can be
  added twice or after `initialize`; `Hack` 1 instead of 48 bytes in front. Symmetry on payloads is sound: nothing
  distinguishes them. In the proofs all of these are parameters.
* Telemetry: one configuration of two messages, which may stop with an error at any of them; one more task that
  somebody may try to add late; creation of tasks may fail. Messages have one byte, half of a slot; frames have one or two (an empty one is in `can_bus`), with two payloads. No senders and no reuse of
  the deleted block, as both are in `can_bus`. No symmetry, as the run checks liveness. The proofs have any configuration, any slot and any
  frames, and tasks whose `initialize` returns false (`FailingTask`), which none of this firmware's does.
* Logger: three boots, two directories, three logs per directory, two records per boot, a configuration of
  two chunks: a third boot can meet the logs of two earlier ones in one
  directory, a count of two logs can be cut short at none or one, a second record can destroy a first one, a copy can be cut in the middle. The file stack has
  two slots (8 in the code), as many as guards ever live at once.
* Builder: lines of 32 kinds, whole, broken, out of range, negative, hexadecimal, of unknown types, without a prefix, with two options, and empty; every file of two such lines after,
  and before, `> board`, `>> message`, every file of three more of nine kinds that nest, so that
  ids repeat, signals overlap in any order and options repeat; files with no newline at the end. `UINT32` stands for 2^32, as TLC's integers end below it;
  the ids used are far smaller than either. In the proofs there is no bound on any of these.
* LoRa: one packet; up to two pieces of payload of one to four bytes with a limit of 3 instead of 248, so that a piece can be refused;
  two headers, one of them the one whose checksum is accepted; noise flips the lowest, the highest or all bits of a byte.
* `MaxAdds`, `MaxBoots`, `MaxRecords`, `MaxFiles`, `MaxPieces` bound the counters; `reused` lets the freed block be written to once.

Deadlock is checked in `can_bus`, `reused_buffer`, `telemetry` and `torn_record`. It is off in `driver` (a sender waiting for room in
the transmit queue while the bus is off waits for ever, which is what `portMAX_DELAY` asks for), in the
logger's runs (boots and records are bounded), in the builder's (the program ends) and in LoRa's (one packet is sent).

### Fairness

`driver` assumes strong fairness of the steps of a receive call: READ_CAN is the only task of the highest priority on its core
and is woken every 5 ms (`remote_main.hpp:60-69`, `tasks.hpp:135-144`), whatever calls the program makes in between, so
polls come again and again. Further weak fairness of `Install`, of the second half of `clearReceiveQueue`, and of the end of a recovery,
which comes after 128 idle sequences on the bus, which a bus with other nodes has. A failed installation and the other API calls are part
of the run. Nothing is assumed of room in the transmit queue; a task that waits for it, or has uninstalled the driver, does
not poll, and the two liveness properties say so (`NoPolls`).

`telemetry` assumes weak fairness of the steps of `setup()`, which are enabled only while READ_CAN leaves it the core;
of a new task's `initialize`; and of LOG's copy, as LOG has core 0 for itself. LOG gets the mutex if
READ_CAN sleeps again and again (strong fairness of taking it while `update()` is not running): it sleeps most of each
5 ms, while the mutex is asked for at a time that has nothing to do with them. Nothing is assumed of READ_CAN, whose
`update()` may go on for ever.

The builder's runs assume weak fairness of its next step: it is one loop without a wait, called by `setup()`. The logger's have none, as
no fairness of a card is justified.

## 4. Proofs

All theorems hold for every value of the constants under the named assumptions
(`DriverAssumption`, `BusAssumption`, `ManagerAssumption`, ...), which TLC evaluates on every run.

`EspCanDriverProofs`

* `TypeCorrect`: `Spec => []TypeOK`. TypeOK is inductive by itself; it contains the ring's bounds.
* `SnapshotCurrent` and `NoStallWithoutRestart`: neither property is inductive. The strengthening
  `SnapshotInv` adds `CountIsLowerBound`: until a call restarts the controller, the count of the
  snapshot is at most what the queue holds, because only the task takes frames out.
* `RingCorrect`: the same invariant without modulus (`RingInv`), which the provers can
  handle; `ModIsWrap` and `RingInvIsRingOK` connect the two.
* `DriverImplementsFifo`: the refinement of `RxFifo` for every ring size. `RingSeq` is the ring as a sequence;
lemmas say what storing, taking and clearing do to it, one lemma per kind of step maps it to a step of `RxFifo` or a
  stutter, and `OwedInv` keeps the promise that a call that starts with a frame waiting returns one.

`CANBusProofs`. On `BitBuffer`: whole-byte handles, the only ones the firmware uses for frames, are placed
exactly (`WholeBytesInPlace`), inside the block (`WholeBytesInBlock`) and apart from each other
(`WholeBytesApart`). `BitLoopMisplaces`: a handle that does not start at a byte, as signals
in the middle of a byte have, gets no bit right, because the bit loop adds the byte offset a second time.

On the bus: `BusTypeCorrect`, `MessagesApart`, `LastFramesHeld`, `OneFrameSent`. `TableInv` (offsets are multiples of a slot,
distinct and below `nextBitOffset`; a stored message's slot lies inside the block) gives the slots. `LockInv` says who holds
the mutex at which point, so that update's half-written slot (`Written`) and the sender's half-read message (`Read`) never meet.

`TelemetryProofs`: `PointersStayValid` and `BusReadyForTasks` from `SchedInv` (the vector grows only before the loop, tasks exist only
after it) and `BootInv`/`SetupInv` (which part of `setup()` has run when a task lives); `LogTypeCorrect`; `OnlyOwnFramesTear` from
`RecordInv`: every byte already copied is the one `before` demands, every byte still to be copied is so in the buffer. It uses
the invariant of `CANBusProofs`, which each step of the bus keeps here too. `FirmwareUsesBus`: the firmware implements the
specification of the bus, since setup() initializes it before anything updates it and log() only reads; what was proved of
the bus under its own, freer specification thus holds of the firmware (`FirmwareKeepsLastFrames`).

`SDLoggerProofs`: `StackStaysClean` and `FailureIsSilent`. `StackInv` is the pair of what holds of the files at any
time (which handles are referenced, by the stack, by guards; only open files have anything to write) and of the exact shape of stack, guards and
handles at each `pc` (`AtRest`, `OneGood`, `OneBad`, `OneFresh`, `TwoGood`, `TwoBad`, `OneDropped`); there are no other shapes, and this is why
the wrong `strcmp` never hands out a file that somebody else uses.

`SDLoggerLogsProofs`, on top of it: `OldLogsStay` (`LogsInv`: logs of a directory are numbered without a gap, the file being
opened has a number nobody has, and only this one is open for writing) and `LatestRecordStays` (`RecordInv`: what the open file will
hold when it is closed).

`SDLoggerSessionProofs`, on top of that: `LoggerTypes` (`TypedInv` counts: a directory has no more logs than there were boots, so a new
one always gets a name, and the copy never reads behind the end of the configuration) and `SessionStays`. For the latter, `SessionInv` follows
what the log's file holds and what is written but not closed through header, copy and records; closing after a power cut commits any prefix, and a prefix of
what is not yet on the card leaves everything before it there. `LogsStayInOrder`, for cards that fail as well: what a log of
this boot has on the card and what waits to be written to it are together in order and end no later than where logging has
come to (`Reached`), and only one file ever has anything waiting (`OrderInv`); a truncation or a commit of any prefix keeps that. `MiscountIsLimited`
compares the card with what it was at boot (`MiscountInv`): a step writes to no log but the one that is named, the name is that of an old log only
after a count that was cut short, and where `FILE_WRITE` appends a file only gets longer (`EveryStepKeeps`).

`LoRaPacketProofs`: `NoiseIsNoticed`. The register after a byte is linear over exclusive or in the register before and the byte
(`ByteLinear`), so two checksums differ by the checksum of the difference; it becomes zero only where register and byte are equal
(`ByteLosesNothing`); and a byte alone leaves a bit in the upper half of the register (`ByteReachesUp`), where the noise in the next byte cannot undo it.
`ChecksumsDiffer` puts these together byte by byte. `PacketInv` says what can be on the air. `AcceptedIsSent`, `PacketTypes`, and `ValidIfChecksumIsEndBytes`, which says exactly which
packets the misplaced checksum of the finding lets through. The checksum is a recursive function over the bytes; the
induction it needs is `NatSet`, the least-element principle as a fact about sets, which avoids the library's theorems with an operator parameter.

`TelemBuilderProofs`, under `BuilderAssumption` alone: `BuilderTypes`, `AcceptsByRules` with `AcceptsTheLanguage`, `AddsWhatIsSaid` and `LastOptionDecides`, for configurations
of any length, all from the inductive invariant `BuilderInv` (`BuilderCorrect`). None of them is inductive: the builder sees one word after the other, with
no line ends except behind a board's name and a message's size, while the reference is about lines. `BuilderInv` connects the two. For each `pc`
it says at which word of which line the builder is, that every line before is right in itself and
in its place (`Finished`), and that options, `msgDesc`, `sigDesc`, `messageIDSet` and `added` are what those lines
say. The one other thing that can be the case is `Doomed`: the next word has no prefix and the configuration is
not valid; this is how a line with words too many is found, one statement late. A refusal is right because the line or its place is wrong
(`NotWhole`, `Refused`), and acceptance because at the end of the file all lines are before the builder. `AcceptsByRules` says with which rules about
lines the builder's decision agrees exactly (`Accepted`); `AcceptedIsValid` and `ValidIsAccepted` then compare these with the language. Below that lie:

* where lines begin and end: a line's words are the next ones the reader gives (`LineWord`), whatever comments are between two lines, because
  `eatUntil` leaves either reader outside of comments (`OutsideComments`) and of the same words ahead;
* counting: the message of a line is the one with its number (`Rank`), and so is the signal;
* the validation: comparing neighbours after the sort finds every overlap (`Neighbours`, `OverlapFound`), for any number of signals and every order `std::sort` may
  leave equal ones in, because sums stay below 256 in messages below 32 bytes and no signal is empty. This is why `InScope` asks for both.

`TurnsAreBounded` is as much of termination as has no fairness in it: a bound on the steps that are left, eight for each symbol ahead and a rank
of the point of the descent, which every step takes away from (`TurnStep`). A step that reads a word it finds gets on in the text; one
that reads none goes down in the rank, or refuses and ends. What the bound cannot see is a step that changes nothing: `peek` at a comment, where the reader of the
tests may stay (`comment_hang`) and the reader of the card cannot (`CommentLeft`). Only `TypeOK` is needed for it.

`Min` and `Max` of sets and the cardinalities have lemmas of their own; the least element of a set comes from the library's theorem on
finite subsets under strict inclusion, which needs no operator parameter.

Only model-checked: liveness (`BusComesBack`, `FrameIsRead`, `EveryTaskIsCreated`, `LogCompletes`, `BuildEndsOnCard`), since the prover handles neither
fairness nor ENABLED; of `BuildEndsOnCard` the part without them is proved (`TurnsAreBounded`). What the runs that end in a violation show is a counterexample, and has no theorem, but for `lora_checksum`
(`ValidIfChecksumIsEndBytes`).

## 5. Not modelled

* Output (`printBus`, debug macros), the RTC, stubs (SensorsTask, WirelessTask, the base station) and headers without code.
* The MCP2515 driver: its bus is neither initialized nor updated, so none of it runs, and each call passes through
  to the library without state of its own. (Its `sendMessage` never sets `can_dlc`, and 1 Mbit/s is looked up as 100 kbit/s.)
* `writeRawMessage`, `setSignalValue`/`getSignalValue`, `flush`, `FGB_FLUSH_ON_DESTRUCTION`: no caller.
* `changePayloadSize` and `_rawPacket` of a packet: written, never read.
* Time: intervals, delays, a period of 0 ticks, and the ticks LOG spends on the card.
* Words of 128 characters or more in a configuration, card reads that fail in the middle of it, and the
  characters of words in general.

## 6. What is left

* `EspCanDriver` and `CANBus` as one system: a stored frame is the newest that arrived, and lost frames are the only ones not stored.
  Today the two meet in `RxFifo`: the bus takes any frame from `receiveMessage`.
* Messages longer than a slot, which nothing refuses and nothing sends.
