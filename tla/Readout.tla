------------------------------- MODULE Readout -------------------------------
(***************************************************************************)
(* The readout pipeline of one slave (reader) process: the digitizer boards *)
(* (CBV1724), the single read thread, the processing threads              *)
(* (DataProcessor), the recorder they insert into, and the main thread of  *)
(* koSlave, which arms, starts, stops and closes all of them through       *)
(* DigiInterface.                                                          *)
(*                                                                         *)
(* Data are event numbers: board d produces the events 1, 2, ... of a run, *)
(* a block transfer moves everything in the board's memory to the host as  *)
(* one block (a set of events), and an event ends up recorded or dropped.  *)
(***************************************************************************)
EXTENDS Integers, Sequences, FiniteSets

CONSTANTS
  NDigi,         \* boards read by this slave, visited in the order 1 .. NDigi
  Procs,         \* processing threads (m_vProcThreads)
  None,          \* no thread holds the data lock
  Reader,        \* the read thread, as a holder of the data lock
  Modes,         \* run_start settings the master may send, a subset of RunStarts
  Faults,        \* what may go wrong: a subset of AllFaults
  ReadBusyLast,  \* the option read_busy_last
  ReadoutThresh, \* the option processing_readout_threshold, in blocks
  MaxTries,      \* rounds a read thread that saw no active board stays (100 in the code)
  MaxEvents      \* bound: events a board produces between two arms

\* How acquisition is gated: by each board's own register, by an S-IN line this
\* slave's CBV2718 drives, or by an S-IN line another reader drives.
RunStarts == {"register", "sinLocal", "sinRemote"}
AllFaults ==
  {"short", "oversize", "readError", "readHang", "register", "insert", "hardware"}

ASSUME ReadoutAssumption ==
  /\ NDigi \in Nat \ {0}
  /\ None \notin Procs \cup {Reader}
  /\ Reader \notin Procs
  /\ Modes \subseteq RunStarts
  /\ Faults \subseteq AllFaults
  /\ ReadBusyLast \in BOOLEAN
  /\ ReadoutThresh \in Nat
  /\ MaxTries \in Nat \ {0}
  /\ MaxEvents \in Nat

Digis  == 1 .. NDigi
Events == 1 .. MaxEvents

VARIABLES
  \* the boards (CBV1724), meaningful while alive
  alive,      \* the digitizer objects exist (m_vDigitizers is filled)
  hwMode,     \* how the boards that exist are gated
  acq,        \* acq[d]: the board takes data
  fifo,       \* fifo[d]: events in the board's own memory
  made,       \* made[d]: events produced so far
  active,     \* bActivated
  readMe,     \* fReadMeOut
  busy,       \* bBoardBusy
  lock,       \* holder of fDataLock
  bufs,       \* fBuffers: blocks read and not yet handed to a processor
  sizes,      \* fSizes: their sizes
  occ,        \* fBufferOccSize
  \* the read thread
  rpc, rx, rexit, ranOnce, tries, swept, carry,
  \* the processing threads
  ppc, px, pexit, held,
  \* the recorder and the history of the run
  recorder, recorded, dropped,
  \* the main thread
  mpc, mx, cont, opts, armed, running

boardVars  == <<alive, hwMode, acq, fifo, made, active, readMe, busy, lock, bufs, sizes, occ>>
readerVars == <<rpc, rx, rexit, ranOnce, tries, swept, carry>>
procVars   == <<ppc, px, pexit, held>>
recVars    == <<recorder, recorded, dropped>>
mainVars   == <<mpc, mx, cont, opts, armed, running>>
vars == <<boardVars, readerVars, procVars, recVars, mainVars>>

Size(block) == Cardinality(block)
NothingHeld == [bufs |-> <<>>, sizes |-> <<>>]
EventsOf(blocks) == UNION {blocks[i] : i \in DOMAIN blocks}
Before(S, T) == \A e \in S, f \in T : e < f
AllBoards(v) == [d \in Digis |-> v]

\* The state of newly constructed boards: empty memory, vectors and counters.
ClearBoards ==
  /\ fifo' = AllBoards({}) /\ made' = AllBoards(0)
  /\ readMe' = AllBoards(FALSE) /\ busy' = AllBoards(FALSE) /\ lock' = AllBoards(None)
  /\ bufs' = AllBoards(<<>>) /\ sizes' = AllBoards(<<>>) /\ occ' = AllBoards(0)
  /\ recorded' = AllBoards({}) /\ dropped' = AllBoards({})

\* The locals of threads that have not begun.
ClearThreads ==
  /\ rx' = 1 /\ rexit' = TRUE /\ ranOnce' = FALSE /\ tries' = 0
  /\ swept' = AllBoards(FALSE) /\ carry' = {}
  /\ px' = [p \in Procs |-> 1] /\ pexit' = [p \in Procs |-> TRUE]
  /\ held' = [p \in Procs |-> NothingHeld]

-----------------------------------------------------------------------------
(* The board's hardware.                                                   *)

Trigger(d) ==
  /\ alive /\ acq[d] /\ made[d] < MaxEvents
  /\ made' = [made EXCEPT ![d] = @ + 1]
  /\ fifo' = [fifo EXCEPT ![d] = @ \cup {made[d] + 1}]
  /\ UNCHANGED <<alive, hwMode, acq, active, readMe, busy, lock, bufs, sizes, occ,
                 readerVars, procVars, recVars, mainVars>>

\* The S-IN line of a start module that sits on another reader.
RemoteSIn ==
  /\ armed /\ hwMode = "sinRemote"
  /\ \E level \in BOOLEAN : acq' = AllBoards(level)
  /\ acq' # acq
  /\ UNCHANGED <<alive, hwMode, fifo, made, active, readMe, busy, lock, bufs, sizes, occ,
                 readerVars, procVars, recVars, mainVars>>

-----------------------------------------------------------------------------
(* DigiInterface::ReadThread and CBV1724::ReadMBLT.                        *)

ReadNext == rpc' = "visit" /\ rx' = rx + 1

\* Mutant of ReadVisit: inactive boards are skipped, there is no EndOfRunClear.
ReadVisitActiveOnly ==
  /\ rpc = "visit" /\ rx \in Digis
  /\ IF active[rx] THEN rpc' = "transfer" /\ rx' = rx ELSE ReadNext
  /\ rexit' = (rexit /\ ~active[rx]) /\ ranOnce' = (ranOnce \/ active[rx])
  /\ UNCHANGED <<swept, tries, carry, boardVars, procVars, recVars, mainVars>>

\* Decide whether the board is read in this round: always while it is active,
\* and once more after it was deactivated (EndOfRunClear).
ReadVisit ==
  /\ rpc = "visit" /\ rx \in Digis
  /\ \/ /\ active[rx]
        /\ rexit' = FALSE /\ ranOnce' = TRUE
        /\ swept' = [swept EXCEPT ![rx] = FALSE]
        /\ rpc' = "transfer" /\ rx' = rx
     \/ /\ ~active[rx] /\ ~swept[rx]
        /\ swept' = [swept EXCEPT ![rx] = TRUE]
        /\ rpc' = "transfer" /\ rx' = rx
        /\ UNCHANGED <<rexit, ranOnce>>
     \/ /\ ~active[rx] /\ swept[rx]
        /\ ReadNext
        /\ UNCHANGED <<swept, rexit, ranOnce>>
  /\ UNCHANGED <<tries, carry, boardVars, procVars, recVars, mainVars>>

\* The block transfer loop: the memory is read until the bus error that says it
\* is empty.
TransferBlock ==
  /\ rpc = "transfer" /\ fifo[rx] # {}
  /\ carry' = fifo[rx]
  /\ fifo' = [fifo EXCEPT ![rx] = {}]
  /\ rpc' = "lock"
  /\ UNCHANGED <<rx, rexit, ranOnce, tries, swept, alive, hwMode, acq, made, active, readMe,
                 busy, lock, bufs, sizes, occ, procVars, recVars, mainVars>>

TransferNothing ==
  /\ rpc = "transfer" /\ fifo[rx] = {}
  /\ ReadNext
  /\ UNCHANGED <<rexit, ranOnce, tries, swept, carry, boardVars, procVars, recVars, mainVars>>

\* The data S that were read are deleted. Fewer than 24 bytes are found after the bus error:
\* the memory is empty. More than fBufferSize are noticed after any cycle, and what the loop
\* did not reach stays on the board (an event that is cut counts as deleted).
TransferRejected ==
  /\ rpc = "transfer"
  /\ \E S \in (SUBSET fifo[rx]) \ {{}} :
       /\ \/ "short" \in Faults /\ S = fifo[rx]
          \/ "oversize" \in Faults /\ Before(S, fifo[rx] \ S)
       /\ fifo' = [fifo EXCEPT ![rx] = @ \ S]
       /\ dropped' = [dropped EXCEPT ![rx] = @ \cup S]
  /\ ReadNext
  /\ UNCHANGED <<rexit, ranOnce, tries, swept, carry, alive, hwMode, acq, made, active, readMe,
                 busy, lock, bufs, sizes, occ, procVars, recorder, recorded, mainVars>>

\* A read error. Before the first bytes arrived ReadMBLT returns 0; after them the
\* loop that logs the buffer never advances its index and the thread is stuck.
TransferError ==
  /\ rpc = "transfer"
  /\ \/ "readError" \in Faults /\ ReadNext
     \/ "readHang" \in Faults /\ fifo[rx] # {} /\ rpc' = "hung" /\ rx' = rx
  /\ UNCHANGED <<rexit, ranOnce, tries, swept, carry, boardVars, procVars, recVars, mainVars>>

\* Mutant of PushBuffer: the buffer is pushed without waiting for fDataLock.
PushBufferUnlocked ==
  /\ rpc = "lock"
  /\ bufs' = [bufs EXCEPT ![rx] = Append(@, carry)]
  /\ rpc' = "size"
  /\ UNCHANGED <<rx, rexit, ranOnce, tries, swept, carry, alive, hwMode, acq, fifo, made,
                 active, readMe, busy, lock, sizes, occ, procVars, recVars, mainVars>>

\* Mutant of PushBuffer: the newest block goes to the front of the vector.
PushBufferFront ==
  /\ rpc = "lock" /\ lock[rx] = None
  /\ lock' = [lock EXCEPT ![rx] = Reader]
  /\ bufs' = [bufs EXCEPT ![rx] = <<carry>> \o @]
  /\ rpc' = "size"
  /\ UNCHANGED <<rx, rexit, ranOnce, tries, swept, carry, alive, hwMode, acq, fifo, made,
                 active, readMe, busy, sizes, occ, procVars, recVars, mainVars>>

\* LockDataBuffer and the first push_back.
PushBuffer ==
  /\ rpc = "lock" /\ lock[rx] = None
  /\ lock' = [lock EXCEPT ![rx] = Reader]
  /\ bufs' = [bufs EXCEPT ![rx] = Append(@, carry)]
  /\ rpc' = "size"
  /\ UNCHANGED <<rx, rexit, ranOnce, tries, swept, carry, alive, hwMode, acq, fifo, made,
                 active, readMe, busy, sizes, occ, procVars, recVars, mainVars>>

\* Mutant of PushSize: UnlockDataBuffer is forgotten.
PushSizeKeepsLock ==
  /\ rpc = "size"
  /\ sizes' = [sizes EXCEPT ![rx] = Append(@, Size(carry))]
  /\ occ' = [occ EXCEPT ![rx] = @ + Size(carry)]
  /\ readMe' = [readMe EXCEPT ![rx] = TRUE]
  /\ carry' = {}
  /\ ReadNext
  /\ UNCHANGED <<rexit, ranOnce, tries, swept, alive, hwMode, acq, fifo, made, active, busy,
                 bufs, lock, procVars, recVars, mainVars>>

\* The second push_back, the occupancy and the signal to the processors: more than
\* ReadoutThresh blocks wait, or the last readout is over a second ago.
PushSize ==
  /\ rpc = "size"
  /\ sizes' = [sizes EXCEPT ![rx] = Append(@, Size(carry))]
  /\ occ' = [occ EXCEPT ![rx] = @ + Size(carry)]
  /\ \E overdue \in BOOLEAN :
       readMe' = [readMe EXCEPT ![rx] = @ \/ overdue \/ Len(bufs[rx]) > ReadoutThresh]
  /\ lock' = [lock EXCEPT ![rx] = None]
  /\ carry' = {}
  /\ ReadNext
  /\ UNCHANGED <<rexit, ranOnce, tries, swept, alive, hwMode, acq, fifo, made, active, busy,
                 bufs, procVars, recVars, mainVars>>

\* Mutant of ReadRoundEnd: one round of waiting too many.
ReadRoundEndLate ==
  /\ rpc = "visit" /\ rx = NDigi + 1
  /\ tries' = IF ranOnce THEN 0 ELSE tries + 1
  /\ rpc' = IF rexit /\ (ranOnce \/ tries + 1 > MaxTries) THEN "done" ELSE "visit"
  /\ rx' = 1 /\ rexit' = TRUE
  /\ UNCHANGED <<ranOnce, swept, carry, boardVars, procVars, recVars, mainVars>>

\* End of a round: leave when no board was active in it, but give the boards
\* MaxTries rounds to become active for the first time.
ReadRoundEnd ==
  /\ rpc = "visit" /\ rx = NDigi + 1
  /\ LET waiting == ~ranOnce /\ tries + 1 < MaxTries IN
       /\ tries' = IF ranOnce THEN 0 ELSE tries + 1
       /\ rpc' = IF rexit /\ ~waiting THEN "done" ELSE "visit"
  /\ rx' = 1 /\ rexit' = TRUE
  /\ UNCHANGED <<ranOnce, swept, carry, boardVars, procVars, recVars, mainVars>>

ReadThread ==
  \/ ReadVisit \/ TransferBlock \/ TransferNothing \/ TransferRejected \/ TransferError
  \/ PushBuffer \/ PushSize \/ ReadRoundEnd

-----------------------------------------------------------------------------
(* DataProcessor::Process, with the two CBV1724 operations it calls.       *)

ProcNext(p) ==
  /\ ppc' = [ppc EXCEPT ![p] = "visit"]
  /\ px' = [px EXCEPT ![p] = @ + 1]

\* RegisterProcessor opens the thread's own database connection.
ProcStart(p) ==
  /\ ppc[p] = "start"
  /\ \/ ppc' = [ppc EXCEPT ![p] = "visit"]
     \/ "register" \in Faults /\ ppc' = [ppc EXCEPT ![p] = "done"]
  /\ px' = [px EXCEPT ![p] = 1] /\ pexit' = [pexit EXCEPT ![p] = TRUE]
  /\ UNCHANGED <<held, boardVars, readerVars, recVars, mainVars>>

\* Mutant of ProcVisit: any board, active or not, keeps the thread alive.
ProcVisitNeverExits(p) ==
  /\ ppc[p] = "visit" /\ px[p] \in Digis
  /\ pexit' = [pexit EXCEPT ![p] = FALSE]
  /\ IF active[px[p]] /\ readMe[px[p]]
     THEN ppc' = [ppc EXCEPT ![p] = "try"] /\ px' = px
     ELSE ProcNext(p)
  /\ UNCHANGED <<held, boardVars, readerVars, recVars, mainVars>>

\* Only active boards are looked at. fReadMeOut is read without the lock.
ProcVisit(p) ==
  /\ ppc[p] = "visit" /\ px[p] \in Digis
  /\ IF active[px[p]]
     THEN /\ pexit' = [pexit EXCEPT ![p] = FALSE]
          /\ IF readMe[px[p]]
             THEN ppc' = [ppc EXCEPT ![p] = "try"] /\ px' = px
             ELSE ProcNext(p)
     ELSE pexit' = pexit /\ ProcNext(p)
  /\ UNCHANGED <<held, boardVars, readerVars, recVars, mainVars>>

\* RequestDataLock puts a board whose memory is nearly full off once.
ProcDefer(p) ==
  /\ ppc[p] = "try" /\ ReadBusyLast /\ ~busy[px[p]]
  /\ busy' = [busy EXCEPT ![px[p]] = TRUE]
  /\ ProcNext(p)
  /\ UNCHANGED <<pexit, held, alive, hwMode, acq, fifo, made, active, readMe, lock, bufs, sizes,
                 occ, readerVars, recVars, mainVars>>

\* Mutant of ProcTryLock: the result of the trylock is not checked.
ProcTryLockUnchecked(p) ==
  /\ ppc[p] = "try"
  /\ busy' = [busy EXCEPT ![px[p]] = FALSE]
  /\ lock' = [lock EXCEPT ![px[p]] = p]
  /\ ppc' = [ppc EXCEPT ![p] = "swap"]
  /\ UNCHANGED <<px, pexit, held, alive, hwMode, acq, fifo, made, active, readMe, bufs, sizes,
                 occ, readerVars, recVars, mainVars>>

\* RequestDataLock's pthread_mutex_trylock.
ProcTryLock(p) ==
  /\ ppc[p] = "try"
  /\ busy' = [busy EXCEPT ![px[p]] = FALSE]
  /\ IF lock[px[p]] = None
     THEN /\ lock' = [lock EXCEPT ![px[p]] = p]
          /\ ppc' = [ppc EXCEPT ![p] = "swap"] /\ px' = px
     ELSE lock' = lock /\ ProcNext(p)
  /\ UNCHANGED <<pexit, held, alive, hwMode, acq, fifo, made, active, readMe, bufs, sizes, occ,
                 readerVars, recVars, mainVars>>

\* Mutant of ProcSwapBuffers: fBuffers is not replaced by a new vector.
ProcSwapBuffersShared(p) ==
  /\ ppc[p] = "swap"
  /\ readMe' = [readMe EXCEPT ![px[p]] = FALSE]
  /\ held' = [held EXCEPT ![p].bufs = bufs[px[p]]]
  /\ ppc' = [ppc EXCEPT ![p] = "take"]
  /\ UNCHANGED <<px, pexit, alive, hwMode, acq, fifo, made, active, busy, lock, bufs, sizes, occ,
                 readerVars, recVars, mainVars>>

\* ReadoutBuffer, under the lock: clear the signal and take the buffer vector.
ProcSwapBuffers(p) ==
  /\ ppc[p] = "swap"
  /\ readMe' = [readMe EXCEPT ![px[p]] = FALSE]
  /\ held' = [held EXCEPT ![p].bufs = bufs[px[p]]]
  /\ bufs' = [bufs EXCEPT ![px[p]] = <<>>]
  /\ ppc' = [ppc EXCEPT ![p] = "take"]
  /\ UNCHANGED <<px, pexit, alive, hwMode, acq, fifo, made, active, busy, lock, sizes, occ,
                 readerVars, recVars, mainVars>>

\* Mutant of ProcTakeSizes: fBufferOccSize is not reset.
ProcTakeSizesKeepsOccupancy(p) ==
  /\ ppc[p] = "take"
  /\ held' = [held EXCEPT ![p].sizes = sizes[px[p]]]
  /\ sizes' = [sizes EXCEPT ![px[p]] = <<>>]
  /\ lock' = [lock EXCEPT ![px[p]] = None]
  /\ ppc' = [ppc EXCEPT ![p] = "parse"]
  /\ UNCHANGED <<px, pexit, alive, hwMode, acq, fifo, made, active, readMe, busy, bufs, occ,
                 readerVars, recVars, mainVars>>

\* ReadoutBuffer: take the size vector, reset the occupancy and unlock.
ProcTakeSizes(p) ==
  /\ ppc[p] = "take"
  /\ held' = [held EXCEPT ![p].sizes = sizes[px[p]]]
  /\ sizes' = [sizes EXCEPT ![px[p]] = <<>>]
  /\ occ' = [occ EXCEPT ![px[p]] = 0]
  /\ lock' = [lock EXCEPT ![px[p]] = None]
  /\ ppc' = [ppc EXCEPT ![p] = "parse"]
  /\ UNCHANGED <<px, pexit, alive, hwMode, acq, fifo, made, active, readMe, busy, bufs,
                 readerVars, recVars, mainVars>>

\* Parse the blocks and insert the documents. A database exception loses the bulk
\* and InsertThreaded still returns 0.
ProcRecord(p) ==
  /\ ppc[p] = "parse"
  /\ LET done == EventsOf(held[p].bufs) IN
       \/ /\ recorded' = [recorded EXCEPT ![px[p]] = @ \cup done]
          /\ dropped' = dropped
       \/ /\ "insert" \in Faults /\ done # {}
          /\ dropped' = [dropped EXCEPT ![px[p]] = @ \cup done]
          /\ recorded' = recorded
  /\ held' = [held EXCEPT ![p] = NothingHeld]
  /\ ProcNext(p)
  /\ UNCHANGED <<pexit, boardVars, readerVars, recorder, mainVars>>

ProcRoundEnd(p) ==
  /\ ppc[p] = "visit" /\ px[p] = NDigi + 1
  /\ ppc' = [ppc EXCEPT ![p] = IF pexit[p] THEN "done" ELSE "visit"]
  /\ px' = [px EXCEPT ![p] = 1] /\ pexit' = [pexit EXCEPT ![p] = TRUE]
  /\ UNCHANGED <<held, boardVars, readerVars, recVars, mainVars>>

Process(p) ==
  \/ ProcStart(p) \/ ProcVisit(p) \/ ProcDefer(p) \/ ProcTryLock(p) \/ ProcSwapBuffers(p)
  \/ ProcTakeSizes(p) \/ ProcRecord(p) \/ ProcRoundEnd(p)

-----------------------------------------------------------------------------
(* The main thread: the commands of koSlave and DigiInterface's methods.   *)

\* The head of StopRun: the local start module drops S-IN, then the boards are
\* deactivated one by one.
EnterStopRun(why) ==
  /\ acq' = IF alive /\ hwMode = "sinLocal" THEN AllBoards(FALSE) ELSE acq
  /\ mpc' = IF alive THEN "deactivate" ELSE "join"
  /\ mx' = 1
  /\ cont' = why

\* ARM whose options could not be received or parsed.
ArmRejected ==
  /\ mpc = "idle" /\ ~running /\ armed
  /\ armed' = FALSE
  /\ UNCHANGED <<mpc, mx, cont, opts, running, boardVars, readerVars, procVars, recVars>>

\* ARM: the new options replace the old ones before the old boards are closed.
ArmCommand ==
  /\ mpc = "idle" /\ ~running
  /\ opts' \in Modes
  /\ armed' = FALSE
  /\ EnterStopRun("arm")
  /\ UNCHANGED <<running, alive, hwMode, fifo, made, active, readMe, busy, lock, bufs, sizes,
                 occ, readerVars, procVars, recVars>>

\* SLEEP.
SleepCommand ==
  /\ mpc = "idle" /\ ~running
  /\ armed' = FALSE
  /\ EnterStopRun("close")
  /\ UNCHANGED <<opts, running, alive, hwMode, fifo, made, active, readMe, busy, lock, bufs,
                 sizes, occ, readerVars, procVars, recVars>>

\* The master is lost while armed or running: StopRun, then Close.
MasterLost ==
  /\ mpc = "idle" /\ armed
  /\ EnterStopRun("close")
  /\ UNCHANGED <<opts, armed, running, alive, hwMode, fifo, made, active, readMe, busy, lock,
                 bufs, sizes, occ, readerVars, procVars, recVars>>

StopCommand ==
  /\ mpc = "idle" /\ armed /\ running
  /\ EnterStopRun("stop")
  /\ UNCHANGED <<opts, armed, running, alive, hwMode, fifo, made, active, readMe, busy, lock,
                 bufs, sizes, occ, readerVars, procVars, recVars>>

\* START: StartRun drives S-IN, or sets every board's register and activates it again.
StartCommand ==
  /\ mpc = "idle" /\ armed /\ ~running
  /\ running' = TRUE
  /\ acq' = IF opts = "sinRemote" THEN acq ELSE AllBoards(TRUE)
  /\ active' = IF opts = "register" THEN AllBoards(TRUE) ELSE active
  /\ UNCHANGED <<mpc, mx, cont, opts, armed, alive, hwMode, fifo, made, readMe, busy, lock,
                 bufs, sizes, occ, readerVars, procVars, recVars>>

\* StopRun's loop: stop acquisition by register unless the run is gated by S-IN, and
\* SetActivated(false), whose final signal is given up when the lock is taken.
Deactivate ==
  /\ mpc = "deactivate" /\ mx \in Digis
  /\ acq' = IF opts = "register" THEN [acq EXCEPT ![mx] = FALSE] ELSE acq
  /\ active' = [active EXCEPT ![mx] = FALSE]
  /\ readMe' = [readMe EXCEPT ![mx] = @ \/ lock[mx] = None]
  /\ mx' = mx + 1
  /\ mpc' = IF mx = NDigi THEN "join" ELSE mpc
  /\ UNCHANGED <<cont, opts, armed, running, alive, hwMode, fifo, made, busy, lock, bufs, sizes,
                 occ, readerVars, procVars, recVars>>

\* Mutant of JoinThreads: only the read thread is joined.
JoinReaderOnly ==
  /\ mpc = "join" /\ rpc \in {"off", "done"}
  /\ rpc' = "off"
  /\ recorder' = IF recorder = "open" THEN "shut" ELSE recorder
  /\ mpc' = IF cont = "stop" THEN "idle" ELSE "delete"
  /\ armed' = IF cont = "stop" THEN FALSE ELSE armed
  /\ running' = IF cont = "stop" THEN FALSE ELSE running
  /\ UNCHANGED <<rx, rexit, ranOnce, tries, swept, carry, procVars, recorded, dropped,
                 mx, cont, opts, boardVars>>

\* CloseThreads waits for the read thread and for every processor; then the recorder
\* drops its connections (Shutdown).
JoinThreads ==
  /\ mpc = "join"
  /\ rpc \in {"off", "done"} /\ \A p \in Procs : ppc[p] \in {"off", "done"}
  /\ rpc' = "off"
  /\ ppc' = [p \in Procs |-> "off"]
  /\ recorder' = IF recorder = "open" THEN "shut" ELSE recorder
  /\ mpc' = IF cont = "stop" THEN "idle" ELSE "delete"
  /\ armed' = IF cont = "stop" THEN FALSE ELSE armed
  /\ running' = IF cont = "stop" THEN FALSE ELSE running
  /\ UNCHANGED <<rx, rexit, ranOnce, tries, swept, carry, px, pexit, held, recorded, dropped,
                 mx, cont, opts, boardVars>>

\* The rest of Close: the boards and the recorder are deleted, and with them the blocks
\* no processor took. The threads are gone too: nothing of the run is left.
DeleteBoards ==
  /\ mpc = "delete"
  /\ alive' = FALSE /\ recorder' = "none"
  /\ acq' = AllBoards(FALSE) /\ active' = AllBoards(FALSE)
  /\ hwMode' = opts
  /\ ClearBoards /\ ClearThreads
  /\ mpc' = IF cont = "arm" THEN "init" ELSE "idle"
  /\ mx' = 1
  /\ armed' = FALSE /\ running' = FALSE
  /\ UNCHANGED <<rpc, ppc, cont, opts>>

\* InitializeHardware or the recorder's Initialize failed: Arm closes and returns -1.
ArmFails ==
  /\ mpc = "init" /\ "hardware" \in Faults
  /\ mpc' = "idle"
  /\ UNCHANGED <<mx, cont, opts, armed, running, boardVars, readerVars, procVars, recVars>>

\* New boards, activated before the threads exist, a new recorder, and the threads.
ArmSucceeds ==
  /\ mpc = "init"
  /\ alive' = TRUE /\ recorder' = "open"
  /\ acq' = AllBoards(FALSE) /\ active' = AllBoards(TRUE)
  /\ hwMode' = opts
  /\ ClearBoards /\ ClearThreads
  /\ rpc' = "visit" /\ ppc' = [p \in Procs |-> "start"]
  /\ mpc' = "idle" /\ armed' = TRUE
  /\ UNCHANGED <<mx, cont, opts, running>>

Command ==
  \/ ArmRejected \/ ArmCommand \/ SleepCommand \/ MasterLost \/ StopCommand \/ StartCommand

\* The part of a command that runs by itself once it was accepted.
MainThread == Deactivate \/ JoinThreads \/ DeleteBoards \/ ArmFails \/ ArmSucceeds

-----------------------------------------------------------------------------
Init ==
  /\ opts \in Modes /\ hwMode = opts
  /\ alive = FALSE /\ recorder = "none"
  /\ acq = AllBoards(FALSE) /\ active = AllBoards(FALSE)
  /\ fifo = AllBoards({}) /\ made = AllBoards(0)
  /\ readMe = AllBoards(FALSE) /\ busy = AllBoards(FALSE) /\ lock = AllBoards(None)
  /\ bufs = AllBoards(<<>>) /\ sizes = AllBoards(<<>>) /\ occ = AllBoards(0)
  /\ recorded = AllBoards({}) /\ dropped = AllBoards({})
  /\ rpc = "off" /\ rx = 1 /\ rexit = TRUE /\ ranOnce = FALSE /\ tries = 0
  /\ swept = AllBoards(FALSE) /\ carry = {}
  /\ ppc = [p \in Procs |-> "off"] /\ px = [p \in Procs |-> 1]
  /\ pexit = [p \in Procs |-> TRUE] /\ held = [p \in Procs |-> NothingHeld]
  /\ mpc = "idle" /\ mx = 1 /\ cont = "close"
  /\ armed = FALSE /\ running = FALSE

Next ==
  \/ \E d \in Digis : Trigger(d)
  \/ RemoteSIn
  \/ ReadThread
  \/ \E p \in Procs : Process(p)
  \/ Command
  \/ MainThread

Spec == Init /\ [][Next]_vars

\* Every thread keeps being scheduled. Nothing obliges the master to send commands or
\* the detector to trigger.
Fairness ==
  /\ WF_vars(ReadThread)
  /\ \A p \in Procs : WF_vars(Process(p))
  /\ WF_vars(MainThread)

FairSpec == Spec /\ Fairness

-----------------------------------------------------------------------------
(* Properties.                                                             *)

ReaderPC == {"off", "visit", "transfer", "lock", "size", "hung", "done"}
ProcPC   == {"off", "start", "visit", "try", "swap", "take", "parse", "done"}
MainPC   == {"idle", "deactivate", "join", "delete", "init"}

TypeBoards ==
  /\ alive \in BOOLEAN /\ hwMode \in Modes
  /\ acq \in [Digis -> BOOLEAN] /\ active \in [Digis -> BOOLEAN]
  /\ readMe \in [Digis -> BOOLEAN] /\ busy \in [Digis -> BOOLEAN]
  /\ fifo \in [Digis -> SUBSET Events] /\ made \in [Digis -> 0 .. MaxEvents]
  /\ lock \in [Digis -> Procs \cup {None, Reader}]
  /\ bufs \in [Digis -> Seq(SUBSET Events)]
  /\ sizes \in [Digis -> Seq(Nat)] /\ occ \in [Digis -> Nat]

TypeReader ==
  /\ rpc \in ReaderPC /\ rx \in 1 .. NDigi + 1
  /\ rexit \in BOOLEAN /\ ranOnce \in BOOLEAN
  /\ tries \in 0 .. MaxTries /\ (rpc \notin {"off", "done"} => ranOnce \/ tries < MaxTries)
  /\ swept \in [Digis -> BOOLEAN] /\ carry \in SUBSET Events

TypeProcs ==
  /\ ppc \in [Procs -> ProcPC] /\ px \in [Procs -> 1 .. NDigi + 1]
  /\ pexit \in [Procs -> BOOLEAN]
  /\ held \in [Procs -> [bufs : Seq(SUBSET Events), sizes : Seq(Nat)]]

TypeMain ==
  /\ mpc \in MainPC /\ mx \in 1 .. NDigi + 1 /\ cont \in {"arm", "close", "stop"}
  /\ opts \in Modes /\ armed \in BOOLEAN /\ running \in BOOLEAN

TypeRecord ==
  /\ recorder \in {"none", "open", "shut"}
  /\ recorded \in [Digis -> SUBSET Events] /\ dropped \in [Digis -> SUBSET Events]

\* Every variable has its type; in particular the loop indices of the read thread and of
\* the processors never run past the last board.
TypeOK == TypeBoards /\ TypeReader /\ TypeProcs /\ TypeRecord /\ TypeMain

ThreadsOff == rpc = "off" /\ \A p \in Procs : ppc[p] = "off"

\* No thread outlives what it uses: the boards Close deletes and the connections Shutdown
\* drops are gone only when the read thread and all processors were joined.
NoUseAfterFree ==
  /\ ~alive => ThreadsOff
  /\ recorder # "open" => ThreadsOff

\* Mutual exclusion on a board's two vectors: whoever is inside fDataLock holds it, so a
\* processor's swap and the read thread's two push_backs never interleave.
Owns(d, t) ==
  IF t = Reader THEN rpc = "size" /\ rx = d ELSE ppc[t] \in {"swap", "take"} /\ px[t] = d

LockExclusive ==
  \A d \in Digis, t \in Procs \cup {Reader} : Owns(d, t) <=> lock[d] = t

SizesOf(blocks) == [i \in DOMAIN blocks |-> Size(blocks[i])]

\* The two vectors of a board agree whenever the lock is free, and so do the two vectors a
\* processor took away: the parsers index one by the other.
VectorsAligned ==
  /\ \A d \in Digis : lock[d] = None => sizes[d] = SizesOf(bufs[d])
  /\ \A p \in Procs : ppc[p] = "parse" => held[p].sizes = SizesOf(held[p].bufs)

\* The reported occupancy is what the buffers hold.
OccupancyExact ==
  \A d \in Digis : lock[d] = None => occ[d] = Cardinality(EventsOf(bufs[d]))

\* Where the events of board d can be.
HeldBy(d, p) == IF px[p] = d THEN EventsOf(held[p].bufs) ELSE {}
InCarry(d)   == IF rx = d /\ rpc = "lock" THEN carry ELSE {}
Places(d) ==
  <<fifo[d], InCarry(d), EventsOf(bufs[d]), UNION {HeldBy(d, p) : p \in Procs}, recorded[d],
    dropped[d]>>

\* Every event a board produced is in exactly one place, and no two processors hold the
\* same event: nothing is recorded twice and nothing vanishes unaccounted for.
EachEventOnce ==
  \A d \in Digis :
    /\ UNION {Places(d)[i] : i \in DOMAIN Places(d)} = 1 .. made[d]
    /\ \A i, j \in DOMAIN Places(d) : i # j => Places(d)[i] \cap Places(d)[j] = {}
    /\ \A p, q \in Procs : p # q => HeldBy(d, p) \cap HeldBy(d, q) = {}

\* A board's events keep their order up to the processor that takes them: the clock reset
\* counter of ReadoutBuffer relies on it.
BoardOrder ==
  \A d \in Digis :
    /\ \A i, j \in DOMAIN bufs[d] : i < j => Before(bufs[d][i], bufs[d][j])
    /\ Before(EventsOf(bufs[d]), InCarry(d) \cup fifo[d]) /\ Before(InCarry(d), fifo[d])
    /\ \A p \in Procs : Before(HeldBy(d, p), EventsOf(bufs[d]) \cup InCarry(d) \cup fifo[d])

\* The read thread leaves no event in a board whose acquisition this slave controls: each
\* board is read once more after it was stopped (EndOfRunClear). A transfer that breaks off
\* (a read error, more data than fBufferSize) is not tried again.
FinalSweep ==
  rpc = "done" /\ hwMode # "sinRemote" => \A d \in Digis : fifo[d] = {}

\* StopRun, as documented, "waits for threads to finish processing": what was read from the
\* boards has been processed once the threads are closed.
StopFlushesBuffers ==
  alive /\ ThreadsOff => \A d \in Digis : bufs[d] = <<>>

\* A command that closes threads comes back to the command loop.
StopReturns == mpc # "idle" ~> mpc = "idle"

\* An active board that signalled for readout is taken by some processor.
ReadMeServed ==
  \A d \in Digis : readMe[d] /\ active[d] ~> ~readMe[d] \/ ~active[d]

-----------------------------------------------------------------------------
(* What the pipeline implements.                                           *)

\* A block on its way from the transfer to the buffer counts as still on the board: its
\* events become visible to the processors with the first push_back.
Waiting  == [d \in Digis |-> fifo[d] \cup InCarry(d)]
Buffered == [d \in Digis |-> EventsOf(bufs[d])]
InHand   == [p \in Procs |-> [d \in Digis |-> HeldBy(d, p)]]

Flow == INSTANCE EventFlow WITH board <- Waiting, buffered <- Buffered, hand <- InHand

\* The threads, with their locks and vectors, do to the events of each board what EventFlow
\* allows and nothing else.
FlowSpec == Flow!Spec
=============================================================================
