# kodiaq: a verification project

kodiaq reads out CAEN V1724 digitizers. One *dispatcher* (`src/src/master`) runs the
detectors (the TPC and the muon veto); every *reader* (`src/src/slave`) arms its boards, moves
their memory over the VME bus and writes hits to MongoDB; the web interface gives commands
through two collections of a database. Paths below are relative to `src/src/`.

This directory holds TLA+ modules of the parts whose behaviour depends on the order in which
threads, messages and documents arrive, the TLC configurations that check them on small
instances, and machine-checked proofs of their safety properties for every value of the constants
(section 4).

## 1. The system

### Components

| component | state | operations | where |
|---|---|---|---|
| Boards, host side (`slave/CBV1724.cc`) | `bActivated`, `fReadMeOut`, `bBoardBusy`, `fDataLock`, `fBuffers`, `fSizes`, `fBufferOccSize`, reset counter, last header time | `ReadMBLT`, `RequestDataLock`, `ReadoutBuffer`, `SetActivated` | **Readout**, **ClockReset** |
| Read thread (`slave/DigiInterface.cc`) | `EndOfRunClear`, `ExitCondition`, `RanOnce`, `counter` | `ReadThread` | **Readout** |
| Processing threads (`slave/DataProcessor.cc`) | taken vectors, `bExitCondition`, per-channel reset counters, pending bulk | `Process`, `SplitBlocks`, `SplitChannels`, `SplitChannelsNewFW` | **Readout** (control), **ClockReset** (times), **Parsing** (the parsers and the events of the file) |
| Recorder (`slave/DAQRecorder.cc`) | connections per processor, errors | `Initialize`, `RegisterProcessor`, `InsertThreaded`, `Shutdown` | their outcomes in **Readout** and **ClockReset** |
| Electronics of a reader (`slave/DigiInterface.cc`) | digitizers, start module, threads and whether they are open | `Arm`, `StartRun`, `StopRun`, `CloseThreads`, `Close`, `RunError` | **Readout** |
| Reader main loop (`slave/koSlave.cc`) | `bArmed`, `bRunning`, `bConnected`, `bERROR`, options | `ARM`, `START`, `STOP`, `SLEEP`, the status of the second | **Readout** (against the threads), **RunControl** (against the dispatcher) |
| Wire (`common/koNet*.cc`) | two sockets per reader | `SendCommand`, `SendStream`/`ReceiveFile`, `SendAck`/`ReceiveAck`, `SendUpdate`/`WatchDataPipe`, `AddConnection`/`Connect` | **RunControl**; **Handshake** (connecting) |
| Detector monitor (`master/DAQMonitor.cc`) | networks, `m_DAQStatus` and its mutex, the polling thread | `ValidateStartCommand`, `Arm`, `Start`, `Stop`, `Shutdown`, `PollNetwork`, `Connect`, `Disconnect` | **RunControl** |
| Master control (`master/MasterControl.cc`, `koMaster.cc`) | `fDAQQueue`, `fStartTimes`, `fExpireAfterSeconds`, the detectors | `CheckRunQueue`, `CheckRemoteCommand`, `Start`, `Stop`, `ModifyRunQueue`, `PutBackInQueue` | **RunQueue**; its start sequence in **RunControl** |
| Database (`master/MasterMongodbConnection.cc`) | `fLastDocOIDs`, collections `daq_queue`, `daq_control`, `runs` | `GetRunQueue`, `SyncRunQueue`, `CheckForCommand`, `InsertRunDoc`, `UpdateEndTime`, `CheckForAlerts` | **RunQueue** |
| Run modes and options (`PullRunMode`, `common/koOptions.cc`) | option documents and their parents | merge, read, write | **RunModes** |
| Baselines and DAC values (`CBV1724::Initialize`, `DetermineBaselines`, `LoadDAC`) | eight DAC values, a file | an iteration inside `Initialize` | **Baselines** |
| Collections of a run (`MakeMongoCollection`, `CollectionThreadWrapper`) | a thread and its flag | create the first and the next collections | **Collections** |
| Terminal interfaces, logging, system monitor, ini parsing, DDC-10, register access of crates, the library behind the protocol buffer recorder | | | not modelled (section 8) |

### How they interact

* *Calls* run down: `koMaster` -> `MasterControl` -> `DAQMonitor` -> `koNetServer`; `koSlave` ->
  `DigiInterface` -> `CBV1724`.
* *Messages*: a command socket (commands, option files, acknowledgements) and a data socket
  (status, messages) for every reader. Only the option file is acknowledged.
* *Shared memory*: in a reader, each board is shared by the main thread, the read thread and all
  processors, under `fDataLock` in part; in the dispatcher, `m_DAQStatus` is shared by the main
  and the polling thread, under a mutex in part, and both write to the command sockets.
* *Shared documents*: `daq_queue` and `daq_control` are written by the web interface and by the
  dispatcher, which replaces the whole queue when it changes it.

### What is hard

Threads that end by themselves when they see that no board is active, joined by a main thread that
deactivates the boards; a signal tested outside the lock it belongs to; a 31-bit clock that wraps
every 21 seconds under data that are grouped at random; a status table that lags behind the
readers and decides what may be sent to them; commands without an answer; a timed-out start whose
commands are still on their way; a queue rewritten by its reader. `PROJECT.json` lists each
hazard at its line with the properties that watch it, or with the reason why none does.

What makes each component correct: *pipeline*: no use of a deleted object, one thread in a board at
a time, blocks and sizes that match, every event recorded or dropped once, in order, and a stop that
returns with the boards read empty. *Clock*: the exact 64-bit time of every hit. *Run control*: one
run at a time at all readers, a stop nobody misses, answers that belong to what was asked, commands
that return. *Queue*: no queued run lost, none run twice at a time, every run document ended.
*Connections*: whoever believes to be connected is known, and nobody waits for ever. *Parsers*: every
stored pulse comes out with its channel, time and event, and nothing else does. *Run modes*: the
nearest ancestor decides. *Baselines*: the iteration ends, and an armed board stands where the
iteration left it. *Collections*: what a reader writes to is there before it writes.

## 2. The modules

| module | models | used by |
|---|---|---|
| `EventFlow` | what a pipeline promises of every event: the abstract specification | `Readout` implements it |
| `Readout` | the pipeline of one reader | runs `readout`, `readout_stop`, `readout_lost` |
| `ClockReset` | reset counting and times | run `clock` |
| `RunControl` | one detector: main thread, polling thread, readers, sockets | runs `control*` |
| `RunQueue` | the dispatcher's loop over both detectors and the database | runs `queue*` |
| `Handshake` | how readers connect to the dispatcher | run `connect` |
| `Parsing` | the four parsers and the events of the output file | run `parse` |
| `RunModes` | run modes and what readers get of them | `RunSetup` |
| `Baselines` | one board's `Initialize` | run `baselines`; `RunSetup` |
| `Collections` | the buffer collections of a run | `RunSetup` |
| `RunSetup` | the three together, from a Start command to the end of the run | run `setup` |
| `MC...` | symmetry sets and instance values | the runs |
| `ReadoutProofs`, `ClockResetProofs`, `RunControlProofs`, `RunQueueProofs`, `HandshakeProofs`, `ParsingProofs`, `BaselinesProofs`, `RunSetupProofs` | theorems of the module they are named after; `ReadoutProofs` has that of `EventFlow`, `RunSetupProofs` those of `RunModes` and `Collections`; it uses `BaselinesProofs` | tlapm |

`RunQueue` sees a detector as what `RunControl` makes of it: told to run or not, and reporting
later. `RunControl` sees a reader's electronics as what `Readout` makes of it: `Arm` succeeds or
not, and a stop returns. `ClockReset` refines the hand-over of `Readout`: it takes the blocks in the
order that `BoardOrder` says they have. `RunControl`'s connected readers are what `Handshake` ends in.
`RunSetup` composes `RunModes`, `Baselines` and `Collections`: the merged options decide how the board
is initialized and where dispatcher and readers write; that commands arrive is `RunControl`'s.

The operators whose comment begins with "Mutant" or "A bug for the mutation runs" are plausible
mistakes. No specification uses them; `PROJECT.json` says which definition each replaces and
which property must then fail.

### Readout

A board's events are numbers; a *block* is the set of events that one block transfer moved to the
host. `fifo` is the memory of the board, `bufs` and `sizes` are `fBuffers` and `fSizes`, `held` is what a
processor took, `recorded`/`dropped` where events end. `lock` is the holder of `fDataLock`.

* Read thread: `ReadVisit` (the `Activated`/`EndOfRunClear` decision), `Transfer*` (the outcomes of
  the block transfer loop), `PushBuffer` and `PushSize` (the two `push_back`s under the lock, apart
  because a processor may stand between them), `ReadRoundEnd`.
* Processor: `ProcStart` (registration), `ProcVisit` (activation and `fReadMeOut`, without the lock),
  `ProcDefer` and `ProcTryLock` (`RequestDataLock`), `ProcSwapBuffers` and `ProcTakeSizes`
  (`ReadoutBuffer`), `ProcRecord` (parsing and insert), `ProcRoundEnd`.
* Main thread: `Command` takes ARM, SLEEP, START, STOP or the loss of the master; closing goes
  through `EnterStopRun`, `Deactivate`, `JoinThreads`, `DeleteBoards`, and arming ends in `ArmFails` or
  `ArmSucceeds`. `cont` says where a close returns to.

A rejected transfer (`TransferRejected`) is one of fewer than 24 bytes, found after the bus error that says
that the board is empty, or one beyond `fBufferSize`, found after any cycle: then the board keeps
what was not read yet.

Abstractions. A block's size is its number of events. The threshold and the one second of
`PushSize` are a count and a choice. `SetActivated(true)` also resets the reset counter, which is
`ClockReset`'s initial state. `InsertThreaded` after a database exception deletes the bulk twice; the
model has the outcome a build survives, events dropped. The branch that leaves
`vMongoInsertVec` null needs a return value of -1, which `InsertThreaded` gives for a bad id or
stream only, and counts as dropped, too. `MaxTries` is 100 in the code.

`EventFlow` forgets threads, locks, blocks and flags. Of each board there are the events it still
has, those that are buffered, those in the hands of a processor, and those recorded or dropped;
what may be done is to move the older part from board to buffer or to drop it, to take everything
that is buffered, to record or to drop everything in hand, and to delete the board when all hands
are empty of its events. `Readout` implements it (`FlowSpec`) with a mapping that counts a block on its way from
the transfer to the first `push_back` as still on the board.

### ClockReset

A true time is a pair of the number of turns of the clock and what it shows. `ReadBlock` is the
board and the read thread; `TakeBuffer`, `FirstHeader`, `SkipGarbage`, `AllGarbage`, `ScanHeader`,
`ScanDone` are `ReadoutBuffer`, `StampHit`, `NextBlock`, `HitsDone` are `Process`. The code's scan
goes over the header it started from again when that was not the first block; so does `x` here.
`whole` is processing mode 0, in which a hit is a block as it was read: then `GetTimeStamp` looks for
its header and gives 0 if there is none (`Shows`). In the other modes a hit is a piece with the time the parsers gave
it, the time of its trigger and the samples before it. That may be past the wrap the clock had not
reached when the trigger came: such a hit is `late`, and what it shows is above 2^31. `Apart` is the
difference of such times as the code forms it, in 32 bits.
The constants `MaxGap` and `MaxSpan` are what the detector provides: the algorithm cannot be right
without data at least every so often, and `ClockAssumption` says how often in terms of its two
thresholds.

### RunControl

`mpc` is the main thread: `Validate`, `Arm`, `SendArm`, then for every socket `NextSocket`, `SendLine`,
`SendEnd`, `ReceiveAck`; `WaitArmed` (20 s), `WaitStart` (15 s), `SendStart`; `StopCommand`, `SendStop`,
`SendSleep`; `Connect`, `Disconnect`. A broadcast sends to one socket per step, as the polling thread
may send between two. `ppc` is the polling thread: `WatchDataPipe` and `ProcessStatus` with the mutex,
`GiveUp` after 60 s of silence, and its own stops. A reader takes one string per step: `Listen`,
`ReceiveLine`, `FileEnd`, `FileLost`, `ArmBoards`, `SendStatus`, `SendFails`.

Abstractions. A command is one string instead of five, the options are one line that carries the
run. The reads of `m_DAQStatus` that take no mutex see `ProcessStatus` as one step when
`TornStatus` is FALSE, as a build does that joins its two stores. `GiveUp` has both outcomes of the
read behind the erased element. `Timely` restricts the decisions that a clock takes: with it a
waiting time ends only when every reader within reach has answered.

### RunQueue

`CheckRunQueue` is `Expire`, `GetRunQueue` and then one of `NothingToStart`, `Requeue`, `StartNext`;
`SyncRunQueue` is `Drop` and `Refill`, as the web interface may write between them;
`CheckRemoteCommand` is `CheckForCommand` with `Stop` or one of `Refused`, `Fails` and `StopFailed`,
`Succeeds`. `doc` is the state of the latest run document of each detector; a second end is like one.
`Report` is `ProcessStatus`: a detector is seen IDLE, RUNNING or BUSY, which stands for ARMED, MIXED and ERROR, and a running
one may turn BUSY and back. `Fatal` is the stop of the polling thread, which writes the end of a RUNNING detector only;
a document left open by it is `cut`.

Abstractions. The 30 seconds of a marked entry are a choice (`Requeue(old)`). The branch of the code
for entries of over 120 seconds cannot be reached, since 30 is tested first. A refill is one step.
Database errors are left out.

### Handshake

A connection is a reader, an attempt and a port; `waiting` are the two queues of connections that TCP
completed and nobody accepted. `AddConnection` is `Accept`, then `AcceptData` or `WaitOver`, then
`ReceiveIds`, `SendNumber` (for ID 32000) and `ReceiveNames`, each with its failure. A client goes
through `ConnectCommand`, `ConnectData` or `GiveUp`, `SendIds`, `ReceiveNumber`, `SendNames`, and `Fails`
when the server closed one of its connections.

Abstractions. An integer or a name is one item instead of its bytes; one network; that a data port
with a full backlog does not answer is the same to a client, after its tries, as one that refuses.
`PutUpNetwork` succeeds. The history `cut` says that a crash, a limit or the end of the listening cost a
connection in this session.

### Parsing

The digitizer stores a bulk part by part (`Store`): a trigger with its mask, then of each channel in
the mask its data (`StoreChannel`) or its segments (`StoreSize`, `StoreSegment`), behind a trigger words that
belong to none (`StoreGap`), and the next block. `events` and `parts` are what it stored and where;
`WordAt` is the word that comes of it, and `HandOver` gives the words to the processor, `buffvec`. A word
is what the parsers tell apart: filler, header, control word of good data or any other, with a number
where they use it. From then on one step is one round of a loop; `SkipWord`, `Trigger`, `EventHeader`,
`BeginChannel`, `SkipSamples`, `KeepWords`, `KeepChannel`, `DropChannel` are its branches. The output, `out`,
is the place of the copied words. `WritePiece` is the loop of `Process` that follows `eventIndices`.

The board's side is not code of the repository. It follows what the parsers take the words to mean, and
the properties compare the two: `events` and `parts` are never looked at by a parser.

Damage. With the new firmware any channel may say any size of `WrongSizes`. The check at `DataProcessor.cc:322`
compares words with bytes, so that many of them pass (`Fits`): the words of the next channels, the next triggers, or of
the memory behind the block are copied, and the parser goes on behind them. There it reads as a size and a time
whatever stands there: `Reads` gives the number the digitizer stored, one past every block for a header, and for
samples and for memory behind the block every number of `Strays`. Behind a size that fails the check the parser goes on two words
further. A size below two asks for 2^32 words less one or two, and then, as when it copies from behind the block, the process may end
(`Abort`). A parser that is astray may see a header again, which it takes for one, or it may miss it.

Nothing in the code says what becomes of the words between a damaged trigger and the end of its block, and in fact
all of the above happens there. The properties say that this is all: what lies before the damaged trigger, and every other block, comes out
right (`Astray`).

Abstractions. Words of samples are alike. A filler read as a size is 2^32 - 1, and the sum with the index wraps; 0 stands for it.

### RunModes, Baselines, Collections, RunSetup

`RunModes`: a document is a function from field names to values. `TopLevel` and `FollowParent` look a
document up, `Composite` is the merge; documents are chosen when they are looked up and stay as
they are. `MongoOptions` and `ForReader` are `GetMongoOptions` and `ToStream_MongoUpdate`, as far as they
say where to write.

`Baselines`: `Initialize` enters, `DetermineBaselines`, `Round`, `ReadFails`, `WriteBaselines` are the routine,
`Return` the retry loop around it, `Finish` the VME options, `LoadBaselines` and the result. The table of
steps, the tolerance and the five good readings have the numbers of the code; distances are in
quarters of an ADC count, which is what one step of the DAC is worth. A channel's mean is what the
DAC leaves of its offset and some noise.

`Collections`: seconds pass with `Tick`; the thread is `Look`, `Make`, `Leave`, and making takes up to
`MaxMake` seconds. `InsertRunDoc` joins the old thread first. The periods are those of the code: a
collection is due at 21 s less a tenth and ten collections ahead, a clock turns in 21.47 s.

## 3. The runs

| run | instance | what it shows | size |
|---|---|---|---|
| `readout` | 1 board, 2 processors, 3 events, threshold 1, 2 waiting rounds, all three ways to gate acquisition, all faults but `readHang` | safety of the pipeline; it implements `EventFlow` (`FlowSpec`) | 980,000 states |
| `readout_stop` | 2 boards, 2 processors, 1 event, no faults, fair | `StopReturns`, `ReadMeServed`, `FinalSweep` | 339,000 |
| `readout_lost` | 1 board, 1 processor, 2 events | *violation* of `StopFlushesBuffers` | small |
| `clock` | a turn of 6 ticks, 3 turns, 2 channels, 3 blocks, whole blocks and pieces | `CounterExact`, `BulkUniform`, `Time64Exact` | 3.7 million |
| `control` | 2 readers on 2 networks, 2 runs, 2 outside events, no assumption on speed | `SameRun`, `StopOnItsWay`, `AckIsTheAnswer` | 7.3 million |
| `control_timely` | the same with `Timely` and fairness, errors that do not recur | `ArmIsTaken`, `StartFindsAllArmed`, `CommandReturns`, `LostLinkEndsRun` | 125,000 |
| `queue` | every initial queue of 1 or 2 runs for 3 names, 1 push, 1 command, 1 fatal error | `AtMostOneActive`, `RunsAreClosed`, `SingleRunsKept` | 12.0 million |
| `queue_all` | the same without outside events | *violation* of `QueuedRunsKept` | small |
| `connect` | 2 readers with IDs or 1 without, 2 attempts each, 1 crash, 2 sessions, a data backlog of 1 | `ConnectedAreKnown`, `ConnectReturns` | 655,000 |
| `parse` | up to 2 triggers of channels 1 and 6 in 1 or 2 blocks, up to 2 segments a channel, with and without words between triggers, 4 modes, 5 wrong sizes, 2 numbers for samples and stray memory | `PiecesInsideTriggers`, `PiecesComplete`, `FileEvents` | 5.9 million |
| `baselines` | 2 channels, 2 pairs of first distances, noise, 1 busy channel, 110 rounds, 1 retry, 2 failing accesses | `Settles`, `ArmedBoardIsGood` | 3.7 million |
| `setup` | modes with up to 3 generations of 4 contents, 2 readers, 1 board, 66 s (3 turns of the clock), 2 runs, 1 failure | `NearestWins`, `PullReturns`, `WritesFindCollection` | 1.6 million |

### Why the bounds are enough

* `readout`: races on a board are between two threads, or the three that fit; boards share no state
  but the threads' position, so one board meets all of them, and `readout_stop` adds the second for
  what joins and round ends depend on. Three events make one block recorded, one held and one in the
  vectors possible at once; a threshold of 1 lets blocks pile up.
* `clock`: 6 : 1 : 2 has the order of 2^31 : 5E8 : 10E8, with hits on both sides of every threshold; three
  turns are needed for a counter to be corrected downwards and to be wrong by more than one. Channel 0 is that of
  whole blocks, so the channels are not interchangeable.
* `control`: two readers differ in every way the detector's state can be mixed, on two networks
  since the error of one ends the sending of options. Two runs make an old and a new run; two
  outside events are a connection and one failure. `control_timely` has the same.
* `queue`: an entry interferes with one other at a time, and the third comes by the push; what is
  queued further behind is not looked at before it comes to be first or second.

* `connect`: two readers are enough to cross a pair of sockets, two attempts for one to come back
  while its old connections are still in the queues, two sessions for it to meet a server that went
  away. The code's backlog is 1, which the kernel takes as up to two waiting connections; 1 is the harder case.
* `parse`: two triggers are one that may be damaged and one that must not notice; in one block or
  two. Two channels, the lower not 0, make order and mask visible. Up to two segments, each good or
  skipped: good at once, behind skipped samples, in front of them, none. Lengths: none, and one that is
  not a multiple of four words. A wrong size is 0, 2 (less than the channel
  has), 9 (it ends inside the next channel or trigger), 40 (behind the block, where the check may still pass) or 1000 (beyond any check).
  What is read astray as 3 keeps the parser near, as 1000 lets it pass by; `MaxWords` is never reached.
* `baselines`: the distances cross every line of the table of steps from both sides; 110 rounds are
  enough for them and far below the code's 1000, so `Settles` is the harder for it. A second try and two
  failures let a failure fall on each side of it.
* `setup`: three generations are needed for the precedence of the middle one; a clock turn is the unit
  of the read-ahead, and ten collections ahead, a margin of 200 s, is not used up in any bounded
  time, since the thread's period is shorter than the clock's: three turns show the pattern repeat.

`CHECK_DEADLOCK FALSE` is set where the bounds end a behaviour (`clock`, `control*`, `connect`, `setup`: a
system with no starts, sessions and events left may stop) and in `parse`, which ends with its
bulk. The others run with the deadlock check.

### Fairness

* `Readout!FairSpec`: weak fairness of the read thread, of every processor and of the main
  thread's closing steps. They are kernel threads; the read thread blocks on a lock that a processor holds for
  two steps, and a processor never blocks (`trylock`). No fairness is assumed of triggers, commands
  or faults.
* `RunControl!FairSpec`: strong fairness of the main thread while it carries out a command, since
  it competes for the mutex with a thread that sleeps without it in every round; strong fairness
  of `WatchDataPipe` per network, as the polling thread visits them in turn; weak fairness of the rest
  of the polling thread, and of a reader's strings and its status. Nothing is assumed of users,
  links and failures.
* `Handshake!Fairness`: weak fairness of every reader inside `Connect` and of `AddConnection`; strong
  fairness of `TakeDownNetwork`, because the rounds of `DAQMonitor::Connect` are counted (2000 of them), so
  that connections which keep coming do not keep it from ending. Nothing is assumed of when readers
  start to connect.
* `RunSetup!Spec`: weak fairness of `PullRunMode`, a loop of the main thread.

## 4. What is proved

Every theorem holds for every value of the constants that the module's own assumption allows; the
last column of hypotheses is empty but for seven theorems.

| module | theorem | statement | hypothesis |
|---|---|---|---|
| `ReadoutProofs` | `TypeCorrect` | `Spec => []TypeOK` | |
| | `LockIsExclusive` | `Spec => []LockExclusive` | |
| | `NothingFreedEarly` | `Spec => []NoUseAfterFree` | |
| | `VectorsStayAligned` | `Spec => []VectorsAligned` | |
| | `ImplementsEventFlow` | `Spec => FlowSpec` | |
| | `EventsAccountedFor` | `Spec => []EachEventOnce` | |
| | `BoardOrderKept` | `Spec => []BoardOrder` | |
| | `OccupancyIsExact` | `Spec => []OccupancyExact` | |
| | `LastVisit` | `Spec => []FinalSweep` | neither `"readError"` nor `"oversize"` in `Faults` |
| | `FlowIsExact` | `FlowSpec => []Flow!FlowInv` (the invariant of `EventFlow`, under the mapping) | |
| `ClockResetProofs` | `TypeCorrect` | `Spec => []TypeOK` | |
| | `CounterIsExact` | `Spec => []CounterExact` | |
| | `BulksAreUniform` | `Spec => []BulkUniform` | |
| | `Time64IsExact` | `Spec => Time64Exact` (an action property) | |
| `RunControlProofs` | `TypeCorrect` | `Spec => []TypeOK` | |
| | `OneRunAtATime` | `Spec => []SameRun` | |
| | `StopReachesAll` | `Spec => []StopOnItsWay` | |
| | `AnswersAreExpected` | `Spec => []AckIsTheAnswer` | |
| | `ArmIsNotLost` | `Spec => []ArmIsTaken` | `Timely`, `"polled" \notin Events` |
| | `StartIsForTheArmed` | `Spec => []StartFindsAllArmed` | `Timely`, `"polled" \notin Events` |
| `RunQueueProofs` | `TypeCorrect` | `Spec => []TypeOK` | |
| | `OneActivePerDetector` | `Spec => []AtMostOneActive` | |
| | `DocumentsAreClosed` | `Spec => []RunsAreClosed` | |
| | `QueuedRunsStay` | `Spec => []SingleRunsKept` | |
| `HandshakeProofs` | `TypeCorrect` | `Spec => []TypeOK` | |
| | `ConnectedReadersAreKnown` | `Spec => []ConnectedAreKnown` | |
| `ParsingProofs` | `StaysInBlocks` | `Spec => []TypeOK` | |
| | `PiecesStayInside` | `Spec => []PiecesInsideTriggers` | |
| | `NothingIsLost` | `Spec => []PiecesComplete` | |
| | `TriggersAreEvents` | `Spec => []FileEvents` | |
| `BaselinesProofs` | `TypeCorrect` | `Spec => []TypeOK` | |
| | `RoundsAreEnough` | `Spec => []Settles` | `MaxIterations >= 930`, `MaxFaults <= 4`, `Noise \subseteq -4..4` |
| | `ArmedBoardsAreGood` | `Spec => []ArmedBoardIsGood` | `MaxFaults <= 4 \/ Noise = {0}` |
| `RunSetupProofs` | `TypeCorrect` | `Spec => []TypeOK` | |
| | `NearestAncestorWins` | `Spec => []NearestWins` | |
| | `CollectionsAreAhead` | `Spec => []WritesFindCollection` | `MaxMake <= 20` |
| | `BoardByItself` | `Spec => Board!Spec` | |
| | `ArmedBoardsAreGood` | `Spec => []Board!ArmedBoardIsGood` | `MaxFaults <= 4 \/ Noise = {0}` |

The hypotheses hold in the runs that check the property, except that of `RoundsAreEnough`, whose run is the
harder case (below). `LastVisit`: a failing block transfer leaves what the board holds
(`CBV1724.cc:220`), one that is too large leaves what it has not read yet (`CBV1724.cc:230-241`), and in both cases the thread
goes on as if the board were empty; `FinalSweep` is checked in `readout_stop`, which has no faults.
The two of run control are false without `Timely`, as finding 3 in section 6 says, and a polling thread that sends STOP or
SLEEP by itself may disarm a reader between the decision and START; `control_timely` has the same.
`ArmedBoardsAreGood`: a near reading says something of the value in the register, and a failing
`LoadDAC`, whose result nobody looks at (`CBV1724.cc:846`), leaves that one behind the value that will be written;
five failures in a row are as many as the near readings a channel needs. TLC finds the
counterexample with `MaxFaults` 5, noise of -80 and an offset of 60, and none with 4.
`RoundsAreEnough`: the code has 1000 rounds. With noise of more than five counts no reading need ever be near, and a run of failures
long enough uses up any number of rounds; that many rounds, one count and four failures are what
the argument below covers, for every distance up to the whole range of the DAC. The run `baselines` has 110 rounds,
which are enough for the distances it has; the invariant `SettleInv` was checked with 930, distances up to both
ends of the DAC and noise of a count to either side.
`CollectionsAreAhead`: a collection has to be made every 21.47 s; with 20 s for each the thread
keeps ahead, with 21 s it is overtaken at collection 44, after a quarter of an hour (TLC, one
reader that starts at once). `SetupAssumption` asks that `baseline_mode` is one of -1 to 2; the code treats every other
value like 0.
`ClockAssumption` is what the detector has to provide: good headers no more than `MaxGap` apart and
buffers that span no more than `MaxSpan`.

The invariants were checked with TLC, in the instances of the runs, before they were proved, and the
proof that a step preserves one has one step per action.

### The pipeline

* `TypeInv` strengthens `TypeOK` by what the loop indices need: a thread that is inside a board has an
  index of a board (`ReaderIndex`, `ProcIndex`), and the read thread has seen an active board in every
  round it does not want to leave after (`ReaderRan`, without which `tries` could pass `MaxTries`). There is
  one lemma per group of actions, and `Frame` for the parts a group leaves alone.
* `CloseInv` makes `NoUseAfterFree` inductive: that no thread exists without boards and recorder follows
  only together with "no thread exists while the main thread deletes or makes boards", which
  holds since the step before is `JoinThreads`, whose guard is that every thread has ended.
* `LockExclusive` is inductive relative to both: acquiring needs a free lock, and the boards are
  cleared only while no thread is inside one.
* `AlignedInv` adds `HalfDone` to `VectorsAligned`: what each holder of the lock has done so far. The read
  thread has pushed the block whose size is missing; a processor has taken the blocks whose
  sizes are still in the board. The four together are `SafeInv`.
* `ImplementsEventFlow` maps every action to one of `EventFlow` or a stutter. Two facts are needed beyond `SafeInv`:
  a transfer that goes on has moved something, all of it older than what it left (`CarryOlder`), and
  only a processor between its swap and its insert has anything in hand (`EmptyHands`). The third part
  is `EventFlow`'s own invariant under the mapping, so that what is proved of the abstract flow,
  which has six variables and no threads, need not be proved again: `EachEventOnce` and the order
  between places follow from `FlowInv`. `BoardOrder` needs the order of blocks inside the vector as well.
* `OccInv` says by how much the occupancy lags between the two `push_back`s; counting uses that
  blocks are disjoint, which is `FlowInv` again.
* `LastVisit` is about the flags: `StopInv` relates the main thread's position in a stop to which boards
  are active and which still take data; `SweepInv` says that a board visited with `EndOfRunClear` is
  inactive and empty, and that a round without an active board has visited all boards in this way.

### The clock

`ChainInv` is the reason for `CounterExact`: the blocks that wait, or were taken, form a chain of good
headers no more than `MaxGap` apart, and `ScanInv` says at which link the scan stands, in each of its
three loops. `FellBackIsWrap` is the arithmetic: over such a gap the clock falls back by more than `Near`
exactly when it wrapped. `Time64Exact` adds `SpanInv` (a buffer's data are ordered and within `MaxSpan` of
its origin), `RefInv` (what the header time in use stands for) and `HitInv` (what a channel's counter
and last time stand for until its first and after every hit). A late hit shows more than a turn: that the
counter neither rises behind it nor is corrected for it wrongly is arithmetic over `Apart` and the order of a channel's triggers. In
mode 0 all of `HitInv` ends with the first headerless block of the buffer (`NoZeroUpTo`).

### Run control

`ControlInv` says of each reader what can be on its socket. `FileOK`: no part of an options file is on
a link unless the main thread is in that exchange, and then all of it is of this run. `ReadyOK`: a reader whose
answer was taken has, until START, nothing to come that would make it load other options. `OrderOK`:
no ARM and no options stand before a START. `StopOK`: behind the sender of a stop every reader has
it. `SameRun` needs one more, `GenInv`: one run is behind all readers that run or that a START on its way will make
run, since readers start one by one. `TimelyInv` adds, for the two theorems with hypotheses, that an ARM
is alone on its socket and what the table and the packets on their way say of a reader.

### The run queue

There are two copies of the queue, and either may be the only one that is whole. `CopyOK` says of each
that its entries have distinct numbers that were given out, each with the detector it was queued for,
that active ones were started, and that no two active ones concern one detector; `QueueInv` says which copy is whole when (`Kept`): memory until it is read again, the
database except between drop and refill. `DocInv` says that an open document belongs to a detector that is told to run, in whatever state it is seen, or
to one whose stop is on its way through the loop (`WillClose`), and that one which the polling thread stopped without an end is `cut`. The lemmas about `Left`, the erasing of
entries, come first: that the enumeration it is defined by exists is proved by the least counterexample.

### Connections

`BaseInv` follows what a reader has sent by where it is in `Connect` (`SentInv`): nothing before both
connections stand, and the name after the ID. `SessionInv` then says that a session that has cut
nothing has both connections of every reader that connects or is connected, open, in one of the
queues, in the pair in hand or among the sockets (`AtServer`). Taking a connection from a queue and
keeping a pair leave that union as it is, crossed or not. A crash and every pair the dispatcher
closes set `cut`; a number that cannot be sent does not and leaves its pair behind, so the
invariant adds that no connection is closed once an ID was sent. When the listening ends no pair is
in hand, what waits sets `cut`, and what is left are the sockets.

### The parsers

`ParseInv` has three layers. `Layout` is what the digitizer keeps to: triggers, channels and parts lie one behind the
other and do not overlap; a channel ends where the next one of the mask begins; with ZLE the segments of a channel
form a chain whose times follow from the samples before (`Chain`). `Handed` says that the words are those of
the layout. `Reading` is where a parser is, for some trigger: at the place of the next channel, with its
count of samples at the time of the next segment (`InChannel`), or `Gone`: behind the header of a damaged trigger of this block. A
parser that is gone may be anywhere, in and behind the block, but it never comes back before that header, since every step
moves forward, and it is gone until the next block begins. `Damaged` is the only way to get there: a size that is
right, read where a channel begins, passes the check and ends where the next one begins.
`Outside` adds that between triggers a parser is never inside one that it can read, and the words
of samples are no headers.

The third layer is the output: `OutSound` (every piece is of one trigger and a part of it, or `Wild`: it begins behind a
damaged trigger and ends before four times the block),
`OutRead` and `OutOrdered`, and `OutComplete`, every part that was passed and is not of a `Spoilt` trigger has its piece. What is passed is a
place, so no step counts parts: a step that moves `idx` over a part is the one that copies it.

`FileInv` is about the list of indices. `Indexed`: as long as every trigger had pieces, index i is the number
of the first piece of trigger i, and later indices lie behind all its pieces. `Grouped` follows the loop of `Process`
from there: the next index that it waits for is that of the trigger behind the one it is writing. The
first trigger without pieces breaks the first, and with it the second, for all behind it.

### Baselines

`SettleInv` is a budget. `Weight` is what a distance costs in thousandths of a round, read off the table of
steps: beyond 404 quarters a round brings the register nearer by 100 at least, from there on by 2, and within
24, where a reading may be near or not, each of those steps may cost the four near readings that came before it. `Due`
says that what is spent, what the distance still costs and the missing near readings stay within
the budget of the whole range, and that a failure buys five rounds. The registers may lag behind the values that are stepped, and
the next step is as large as the register's distance asks for: `Lags` bounds by how much, a quarter
of the distance for each failure (`StepFits`), so that four failures do not carry the value further past
the level than the register was in front of it (`Nearer`).

`RoundInv` relates what is read to what is written: register and value differ only if there have been more faults
than the channel has near readings, since every near reading of a register that is behind
costs another fault. So a channel with five near readings and at most four faults has a value that is near its level
for some noise (`GoodInv`). `LoadInv` follows that value through the file back to the registers.

### The setup of a run

`Merged` is the reason for `NearestWins`: while the chain of parents is followed, the result has every
field of the documents read so far, each from the first document of the chain that has it (`First`). On
a cycle of parents documents come again in the chain; they are not the first with any field.

`MadeInv` says that all collections up to the thread's counter were made or failed, and `PaceInv` how far
that counter is ahead of the time: with the second it sleeps the thread takes no more than 21 s for each, the
first two are there at the start, and it does not pause while it is late. `ClockBehind` is the arithmetic that
readers' counts, in turns of 21.47 s, are below it.

`BoardByItself` shows that the composition leaves the board alone: each of its steps is a step of `Baselines`
or a stutter of the board, so the theorem of `BaselinesProofs` holds of it as it stands.

### What proving changed

* `Parsing` made the digitizer's bulk with operators that folded over triggers, channels and segments. The provers
  cannot look into a fold, so now the digitizer stores the bulk step by step, and a word is found by where things
  were stored. The bulks are more than before: segments are chosen one by one, and so are gaps and blocks.
* `FileEvents` asked only that the first events of the file are the triggers up to the first one without
  pieces; it now says which pieces each of them has, also when a later trigger has none.
* `EventFlow!Finish` lacked a guard: a processor that finished one board could forget the events of
  another in its hand. `Readout` never does; the abstract promise was too weak.
* `ClockReset!ReadBlock` is divided into `NewBlock` and `PushBlock`, and `RunQueue` erases entries with
  `Left` instead of `SelectSeq`, whose definition by recursion the provers cannot look into. The runs have
  the same states as before.
* `ArmedBoardIsGood` is false from five faults on, and `WritesFindCollection` from 21 s on; the
  runs stay below both (finding 13, and the hypotheses above).
* Assumptions say what the proofs used: `Baselines` types `Offsets` and asks only that there is a
  channel, `Collections` that readers start within the time of the run (`MaxLag <= MaxTime`), and `RunSetup` takes
  over the assumptions of its parts.
* In `NearestWins` and `Collections!InsertRunDoc` a union or a set of subsets stood before a difference without
  parentheses, which the two tools read differently.

## 5. What is only model-checked

* All liveness properties (`StopReturns`, `ReadMeServed`, `CommandReturns`, `LostLinkEndsRun`, `ConnectReturns`,
  `PullReturns`): leads-to under fairness and ENABLED are out of the prover's reach.
* `readout_lost` and `queue_all` end in a counterexample: there is nothing to prove.

## 6. Where code and documentation disagree

Two are runs that end in a counterexample, with the quotation in `PROJECT.json`.

1. `readout_lost`: `StopRun` does not wait for what was read to be processed. Processors leave once no
   board is active, while the read thread makes its last pushes; these blocks are deleted with the board.
2. `queue_all`: a run for all detectors queued behind one of a single detector is erased from the queue.

The others were met while modelling. The modules behave as the code does here, and the properties
are stated around them, or the constants and assumptions named below leave them out.

3. With a reader that takes longer to arm than the dispatcher waits, a third start is accepted on an
   old IDLE packet while that reader is running (`DAQMonitor.cc:93`; its comment says it checks for
   that). The reader throws the ARM away, and the dispatcher waits for its answer for ever.
   (`ArmIsTaken` without `Timely`.)
4. A reader whose threads keep failing never notices that its link is gone, because the branch of
   `koSlave.cc:392-401` does not look at the result of sending. (`LostLinkEndsRun` with `ErrorsPersist`.)
5. The end of a run is written twice: the loop at `MasterMongodbConnection.cc:786` that should forget the
   run ("so we don't update end times twice", line 824) resets a copy. (`Closed`, in `RunQueue`, where a second end is like one.)
6. A determination of baselines that does not finish overwrites the file (`CBV1724.cc:856`); the
   header says that it reverts to the old baselines. (`ArmedBoardIsGood` asks for `file = good`.)
7. `SplitBlocks` rounds the size of a trigger down to a multiple of four words
   (`DataProcessor.cc:105`, `&0xFFFF*4`) and does not look behind the first filler. (`PiecesComplete` leaves mode 1 out.)
8. The size of a damaged channel is compared in words with a size in bytes (`DataProcessor.cc:322`). A wrong
   size below four times the block passes: one piece mixes two triggers, a good trigger behind is swallowed, and
   what is behind the block in memory is copied. (`Astray`.)
9. After a trigger without pieces the list of indices is not followed any more, and the rest of the bulk
   is one event of the file (`DataProcessor.cc:719`). (`FileEvents` speaks of the triggers before it.)
10. `TakeDownNetwork` resets connections of readers whose `Connect` has returned, if they were still
    waiting (`koNetServer.hh:57` says that existing connections are maintained), and a reader whose
    command socket alone was closed does not notice: `a` in `koNet.cc:602` is a truth value, and the
    test for -2 behind it never holds. (`cut`, in `Handshake`; `LosesServer`.)
11. Two readers that ask for an ID and are paired crosswise wait for each other for ever
    (`koNetServer.cc:183`, `koNetClient.cc:128`). (`HandshakeAssumption`.)
12. Rotating collections without a list of hosts have no first two collections
    (`MasterMongodbConnection.cc:586`; the comment above says that it is split hosts it does not go
    with). (`WritesFindCollection` asks for hosts.)
13. `DetermineBaselines` throws the result of `LoadDAC` away (`CBV1724.cc:846`), so that readings
    after a failure are of values other than those it counts them for. Five such readings finish a
    determination whose values were never in the registers. (`ArmedBoardsAreGood` has the hypothesis.)

14. In processing mode 0 a block without a readable header has the time 0 (`DataProcessor.cc:83`), which line 561
    takes for a reset of the clock: from there on the times of the buffer are a turn too high. `koHelper::GetTimeStamp`, which
    counts the resets, says 0xFFFFFFFF for such a block and is asked again for the next. (`NoZeroUpTo`, in `ClockReset`.)
15. When a reader is silent for a minute, the run is stopped in any state of the detector, but gets its
    end only if the detector is RUNNING (`DAQMonitor.cc:323`). With another reader in ERROR, or not running, the
    document stays open, also when the next run's is inserted. (`cut`, in `RunQueue`.)
16. A block transfer beyond the size of the buffer is given up with the rest of the event memory unread
    (`CBV1724.cc:230-241`); after the end of a run nobody comes back for it. (`LastVisit` has the hypothesis.)
17. `CheckRemoteCommand` does not look at what `CheckForCommand` returns: when `PullRunMode` fails, the run is started
    with options that were deleted (`MasterMongodbConnection.cc:1113-1131`, `MasterControl.cc:593-601`). That is
    an undefined read; `RunQueue` has commands whose modes can be read, and `Refused` is not that case.

`control_timely` shows the other side of 3 and 4: when readers answer within the waiting times and an
error does not recur, neither happens.

## 7. Plan

Done: the pipeline of a reader, the abstract flow of events that it implements, clock resets, run
control, the run queue, the connection handshake, the parsers, run modes, baselines and collections
with their composition; the theorems of section 4, which cover every safety property that a run
checks. Left:

1. The liveness of the queue: a queued run is started some time; the timers of runs.
2. The second network failing in `DAQMonitor::Connect`; the strings of a command sent by two threads.

## 8. What is not modelled, and why

* *Register and VME access* of boards, crates and start modules is input and output to CAEN's
  library; its outcomes are choices in `Readout`.
* *Rates, status documents and logs* feed nothing back, except the alerts, a choice in `RunQueue`.
* *`NCursesUI`, `MasterUI`, `kbhit`* present state and read keys; their commands are the same as the
  web interface's.
* *`koSysmon`, `koLogger`, ini parsing, `ddc10`*: sequential input and output.
* *The protocol buffer recorder* is compiled only with a library that is not part of the
  repository; how pieces are grouped into its events is in `Parsing`.
* *`DAQMonitor::PreProcess`* has no caller.
* *Several dispatchers* on one database: the code does not provide for them.

## 9. Running the checks

    tlc -workers 2 -config readout.cfg MCReadout.tla       # any run: PROJECT.json names its module
    tlapm ReadoutProofs.tla                                # the proofs of a module; the others alike
