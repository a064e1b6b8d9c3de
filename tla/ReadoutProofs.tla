---------------------------- MODULE ReadoutProofs ----------------------------
(***************************************************************************)
(* Proofs about Readout for any number of boards, processors and events.   *)
(* First the locks, the life of the boards and the vectors: the inductive  *)
(* invariant adds to the type invariant where the loop indices point while *)
(* a board is being worked on, and how far the main thread is in closing   *)
(* the threads.  Then Readout implements EventFlow, and what EventFlow     *)
(* proves of every event holds of the pipeline: nothing is recorded twice, *)
(* nothing vanishes, the order of a board's events and the reported        *)
(* occupancy are right.  The last section is about the read thread's final *)
(* visit of every board.                                                   *)
(***************************************************************************)
EXTENDS Readout, FiniteSetTheorems, TLAPS

\* A thread that works on a board works on one that exists.
ReaderIndex == rpc \in {"transfer", "lock", "size", "hung"} => rx \in Digis
ProcIndex ==
  \A p \in Procs : ppc[p] \in {"try", "swap", "take", "parse"} => px[p] \in Digis

\* A round that met an active board is remembered by both flags.
ReaderRan == ~rexit => ranOnce

ReaderInv == TypeReader /\ ReaderIndex /\ ReaderRan
ProcInv   == TypeProcs /\ ProcIndex
TypeInv   == TypeBoards /\ ReaderInv /\ ProcInv /\ TypeRecord /\ TypeMain

-----------------------------------------------------------------------------
(* Facts about the operators and the frame of an action.                   *)

\* The size of a block is a number: blocks are finite.
LEMMA SizeType == ASSUME NEW S \in SUBSET Events PROVE Size(S) \in Nat
<1>1. IsFiniteSet(Events)
  BY ReadoutAssumption, FS_Interval, SMT DEF Events
<1>2. QED  BY <1>1, FS_Subset, FS_CardinalityType DEF Size

\* An action keeps the typing of every group of variables it leaves alone.
LEMMA Frame ==
  /\ TypeBoards /\ UNCHANGED boardVars => TypeBoards'
  /\ ReaderInv /\ UNCHANGED readerVars => ReaderInv'
  /\ ProcInv /\ UNCHANGED procVars => ProcInv'
  /\ TypeRecord /\ UNCHANGED recVars => TypeRecord'
  /\ TypeMain /\ UNCHANGED mainVars => TypeMain'
<1>1. TypeBoards /\ UNCHANGED boardVars => TypeBoards'
  BY DEF TypeBoards, boardVars
<1>2. ReaderInv /\ UNCHANGED readerVars => ReaderInv'
  BY DEF ReaderInv, TypeReader, ReaderRan, ReaderIndex, readerVars
<1>3. ProcInv /\ UNCHANGED procVars => ProcInv'
  BY DEF ProcInv, TypeProcs, ProcIndex, procVars
<1>4. TypeRecord /\ UNCHANGED recVars => TypeRecord'
  BY DEF TypeRecord, recVars
<1>5. TypeMain /\ UNCHANGED mainVars => TypeMain'
  BY DEF TypeMain, mainVars
<1>6. QED  BY <1>1, <1>2, <1>3, <1>4, <1>5

\* Events of a sequence of blocks are events.
LEMMA EventsOfType == ASSUME NEW s \in Seq(SUBSET Events) PROVE EventsOf(s) \in SUBSET Events
  BY DEF EventsOf

-----------------------------------------------------------------------------
(* The type invariant is inductive.                                        *)

LEMMA InitTypeInv == Init => TypeInv
<1> SUFFICES ASSUME Init PROVE TypeInv
  OBVIOUS
<1> USE ReadoutAssumption DEF Init, AllBoards
<1>1. alive \in BOOLEAN /\ rexit \in BOOLEAN /\ ranOnce \in BOOLEAN
      /\ armed \in BOOLEAN /\ running \in BOOLEAN
  BY Zenon
<1>2. TypeBoards  BY <1>1 DEF TypeBoards
<1>3. ReaderInv  BY <1>1 DEF ReaderInv, TypeReader, ReaderRan, ReaderIndex, ReaderPC
<1>4. ProcInv  BY DEF ProcInv, TypeProcs, ProcIndex, ProcPC, NothingHeld
<1>5. TypeRecord  BY DEF TypeRecord
<1>6. TypeMain  BY <1>1 DEF TypeMain, MainPC
<1>7. QED  BY <1>2, <1>3, <1>4, <1>5, <1>6 DEF TypeInv

LEMMA ReaderTypeInv == TypeInv /\ ReadThread => TypeInv'
<1> SUFFICES ASSUME TypeInv, ReadThread PROVE TypeInv'
  OBVIOUS
<1> USE ReadoutAssumption, Frame DEF TypeInv
<1>1. CASE ReadVisit
  <2>1. TypeBoards' /\ ProcInv' /\ TypeRecord' /\ TypeMain'  BY <1>1 DEF ReadVisit
  <2>2. rexit' \in BOOLEAN /\ ranOnce' \in BOOLEAN
    BY <1>1, Zenon DEF ReadVisit, ReaderInv, TypeReader
  <2>3. swept' \in [Digis -> BOOLEAN]
    BY <1>1 DEF ReadVisit, ReaderInv, TypeReader
  <2>4. ranOnce' \/ tries' < MaxTries
    BY <1>1 DEF ReadVisit, ReaderInv, TypeReader
  <2>5. ReaderInv'
    BY <1>1, <2>2, <2>3, <2>4
    DEF ReadVisit, ReaderInv, TypeReader, ReaderRan, ReaderIndex, ReaderPC, ReadNext, Digis
  <2>6. QED  BY <2>1, <2>5
<1>2. CASE TransferBlock
  <2>1. ProcInv' /\ TypeRecord' /\ TypeMain'  BY <1>2 DEF TransferBlock
  <2>2. TypeBoards'
    BY <1>2 DEF TransferBlock, TypeBoards, ReaderInv, TypeReader, ReaderRan, ReaderIndex
  <2>3. ReaderInv'
    BY <1>2 DEF TransferBlock, ReaderInv, TypeReader, ReaderRan, ReaderIndex, ReaderPC, ReadNext, Digis, TypeBoards
  <2>4. QED  BY <2>1, <2>2, <2>3
<1>3. CASE TransferNothing
  <2>1. TypeBoards' /\ ProcInv' /\ TypeRecord' /\ TypeMain'  BY <1>3 DEF TransferNothing
  <2>2. ReaderInv'
    BY <1>3 DEF TransferNothing, ReaderInv, TypeReader, ReaderRan, ReaderIndex, ReaderPC, ReadNext, Digis
  <2>3. QED  BY <2>1, <2>2
<1>4. CASE TransferRejected
  <2>1. ProcInv' /\ TypeMain'  BY <1>4 DEF TransferRejected
  <2>0. PICK S \in SUBSET fifo[rx] : /\ fifo' = [fifo EXCEPT ![rx] = @ \ S]
                                     /\ dropped' = [dropped EXCEPT ![rx] = @ \cup S]
    BY <1>4 DEF TransferRejected
  <2>2. TypeBoards'
    BY <1>4, <2>0 DEF TransferRejected, TypeBoards, ReaderInv, TypeReader, ReaderRan, ReaderIndex
  <2>3. ReaderInv'
    BY <1>4 DEF TransferRejected, ReaderInv, TypeReader, ReaderRan, ReaderIndex, ReaderPC, ReadNext, Digis
  <2>4. TypeRecord'
    BY <1>4, <2>0 DEF TransferRejected, TypeRecord, TypeBoards, ReaderInv, TypeReader, ReaderRan, ReaderIndex
  <2>5. QED  BY <2>1, <2>2, <2>3, <2>4
<1>5. CASE TransferError
  <2>1. TypeBoards' /\ ProcInv' /\ TypeRecord' /\ TypeMain'  BY <1>5 DEF TransferError
  <2>2. ReaderInv'
    BY <1>5 DEF TransferError, ReaderInv, TypeReader, ReaderRan, ReaderIndex, ReaderPC, ReadNext, Digis
  <2>3. QED  BY <2>1, <2>2
<1>6. CASE PushBuffer
  <2>1. ProcInv' /\ TypeRecord' /\ TypeMain'  BY <1>6 DEF PushBuffer
  <2>2. TypeBoards'
    BY <1>6 DEF PushBuffer, TypeBoards, ReaderInv, TypeReader, ReaderRan, ReaderIndex
  <2>3. ReaderInv'
    BY <1>6 DEF PushBuffer, ReaderInv, TypeReader, ReaderRan, ReaderIndex, ReaderPC, ReadNext, Digis
  <2>4. QED  BY <2>1, <2>2, <2>3
<1>7. CASE PushSize
  <2>1. ProcInv' /\ TypeRecord' /\ TypeMain'  BY <1>7 DEF PushSize
  <2>2. TypeBoards'
    <3>1. rx \in Digis /\ Size(carry) \in Nat
      BY <1>7, SizeType DEF PushSize, ReaderInv, TypeReader, ReaderIndex
    <3>2. sizes' \in [Digis -> Seq(Nat)] /\ occ' \in [Digis -> Nat]
      BY <1>7, <3>1 DEF PushSize, TypeBoards
    <3>3. readMe' \in [Digis -> BOOLEAN]  BY <1>7, <3>1 DEF PushSize, TypeBoards
    <3>4. lock' \in [Digis -> Procs \cup {None, Reader}]
      BY <1>7, <3>1 DEF PushSize, TypeBoards
    <3>5. QED  BY <1>7, <3>2, <3>3, <3>4 DEF PushSize, TypeBoards
  <2>3. ReaderInv'
    BY <1>7 DEF PushSize, ReaderInv, TypeReader, ReaderRan, ReaderIndex, ReaderPC, ReadNext, Digis
  <2>4. QED  BY <2>1, <2>2, <2>3
<1>8. CASE ReadRoundEnd
  <2>1. TypeBoards' /\ ProcInv' /\ TypeRecord' /\ TypeMain'  BY <1>8 DEF ReadRoundEnd
  <2>2. rexit' \in BOOLEAN /\ ranOnce' \in BOOLEAN /\ ReaderRan'
    BY <1>8, Zenon DEF ReadRoundEnd, ReaderInv, TypeReader, ReaderRan
  <2>3. tries' \in 0 .. MaxTries
    BY <1>8 DEF ReadRoundEnd, ReaderInv, TypeReader
  <2>4. rpc' # "done" => ranOnce' \/ tries' < MaxTries
    BY <1>8 DEF ReadRoundEnd, ReaderInv, TypeReader, ReaderRan
  <2>5. ReaderInv'
    BY <1>8, <2>2, <2>3, <2>4
    DEF ReadRoundEnd, ReaderInv, TypeReader, ReaderRan, ReaderIndex, ReaderPC, Digis
  <2>6. QED  BY <2>1, <2>5
<1>9. QED
  BY <1>1, <1>2, <1>3, <1>4, <1>5, <1>6, <1>7, <1>8 DEF ReadThread

\* A processor that moves on to the next board, or within its work on the current one.
LEMMA ProcMoves ==
  ASSUME ProcInv, NEW p \in Procs
  PROVE  /\ px[p] \in Digis /\ ProcNext(p)
              => ppc' \in [Procs -> ProcPC] /\ px' \in [Procs -> 1 .. NDigi + 1] /\ ProcIndex'
         /\ \A pc \in ProcPC :
              px[p] \in Digis /\ px' = px /\ ppc' = [ppc EXCEPT ![p] = pc]
              => ppc' \in [Procs -> ProcPC] /\ px' \in [Procs -> 1 .. NDigi + 1] /\ ProcIndex'
<1> USE ReadoutAssumption DEF ProcInv, TypeProcs, ProcIndex, ProcPC, Digis
<1>1. ASSUME px[p] \in Digis, ProcNext(p)
      PROVE  ppc' \in [Procs -> ProcPC] /\ px' \in [Procs -> 1 .. NDigi + 1] /\ ProcIndex'
  <2>1. ppc' \in [Procs -> ProcPC] /\ px' \in [Procs -> 1 .. NDigi + 1]
    BY <1>1 DEF ProcNext
  <2>2. \A q \in Procs : q # p => ppc'[q] = ppc[q] /\ px'[q] = px[q]
    BY <1>1 DEF ProcNext
  <2>3. ppc'[p] = "visit"  BY <1>1 DEF ProcNext
  <2>4. QED  BY <2>1, <2>2, <2>3
<1>2. ASSUME NEW pc \in ProcPC, px[p] \in Digis, px' = px, ppc' = [ppc EXCEPT ![p] = pc]
      PROVE  ppc' \in [Procs -> ProcPC] /\ px' \in [Procs -> 1 .. NDigi + 1] /\ ProcIndex'
  BY <1>2
<1>3. QED  BY <1>1, <1>2

LEMMA ProcTypeInv == ASSUME NEW p \in Procs PROVE TypeInv /\ Process(p) => TypeInv'
<1> SUFFICES ASSUME TypeInv, Process(p) PROVE TypeInv'
  OBVIOUS
<1> USE ReadoutAssumption, Frame DEF TypeInv
<1>1. CASE ProcStart(p)
  <2>1. TypeBoards' /\ ReaderInv' /\ TypeRecord' /\ TypeMain'  BY <1>1 DEF ProcStart
  <2>2. TypeProcs'
    <3>1. ppc' \in [Procs -> ProcPC]  BY <1>1 DEF ProcStart, ProcInv, TypeProcs, ProcPC
    <3>2. pexit' \in [Procs -> BOOLEAN]  BY <1>1 DEF ProcStart, ProcInv, TypeProcs
    <3>3. QED  BY <1>1, <3>1, <3>2 DEF ProcStart, ProcInv, TypeProcs
  <2>3. ProcIndex'
    BY <1>1 DEF ProcStart, ProcInv, TypeProcs, ProcIndex, ProcPC
  <2>4. QED  BY <2>1, <2>2, <2>3 DEF ProcInv
<1>2. CASE ProcVisit(p)
  <2>1. TypeBoards' /\ ReaderInv' /\ TypeRecord' /\ TypeMain'  BY <1>2 DEF ProcVisit
  <2>2. ppc' \in [Procs -> ProcPC] /\ px' \in [Procs -> 1 .. NDigi + 1] /\ ProcIndex'
    <3>1. "try" \in ProcPC  BY DEF ProcPC
    <3>2. QED  BY <1>2, <3>1, ProcMoves DEF ProcVisit
  <2>3. pexit' \in [Procs -> BOOLEAN]
    BY <1>2 DEF ProcVisit, ProcInv, TypeProcs
  <2>4. held' = held  BY <1>2 DEF ProcVisit
  <2>5. QED  BY <2>1, <2>2, <2>3, <2>4 DEF ProcInv, TypeProcs
<1>3. CASE ProcDefer(p)
  <2>1. ReaderInv' /\ TypeRecord' /\ TypeMain'  BY <1>3 DEF ProcDefer
  <2>2. TypeBoards'
    BY <1>3 DEF ProcDefer, TypeBoards, ProcInv, TypeProcs, ProcIndex
  <2>3. ProcInv'
    BY <1>3 DEF ProcDefer, ProcInv, TypeProcs, ProcIndex, ProcPC, ProcNext, Digis
  <2>4. QED  BY <2>1, <2>2, <2>3
<1>4. CASE ProcTryLock(p)
  <2>1. ReaderInv' /\ TypeRecord' /\ TypeMain'  BY <1>4 DEF ProcTryLock
  <2>2. TypeBoards'
    BY ZenonT(60), <1>4 DEF ProcTryLock, TypeBoards, ProcInv, TypeProcs, ProcIndex
  <2>3. ppc' \in [Procs -> ProcPC] /\ px' \in [Procs -> 1 .. NDigi + 1] /\ ProcIndex'
    <3>1. "swap" \in ProcPC /\ px[p] \in Digis
      BY <1>4 DEF ProcTryLock, ProcPC, ProcInv, ProcIndex
    <3>2. QED  BY <1>4, <3>1, ProcMoves DEF ProcTryLock
  <2>4. pexit' = pexit  BY <1>4 DEF ProcTryLock
  <2>5. held' = held  BY <1>4 DEF ProcTryLock
  <2>6. QED  BY <2>1, <2>2, <2>3, <2>4, <2>5 DEF ProcInv, TypeProcs
<1>5. CASE ProcSwapBuffers(p)
  <2>1. ReaderInv' /\ TypeRecord' /\ TypeMain'  BY <1>5 DEF ProcSwapBuffers
  <2>2. TypeBoards'
    BY SMTT(30), <1>5 DEF ProcSwapBuffers, TypeBoards, ProcInv, TypeProcs, ProcIndex
  <2>3. ppc' \in [Procs -> ProcPC] /\ px' \in [Procs -> 1 .. NDigi + 1] /\ ProcIndex'
    <3>1. "take" \in ProcPC /\ px[p] \in Digis
      BY <1>5 DEF ProcSwapBuffers, ProcPC, ProcInv, ProcIndex
    <3>2. QED  BY <1>5, <3>1, ProcMoves DEF ProcSwapBuffers
  <2>4. pexit' = pexit  BY <1>5 DEF ProcSwapBuffers
  <2>5. held' \in [Procs -> [bufs : Seq(SUBSET Events), sizes : Seq(Nat)]]
    <3>1. bufs[px[p]] \in Seq(SUBSET Events)
      BY <1>5 DEF ProcSwapBuffers, ProcInv, ProcIndex, TypeBoards
    <3>2. QED  BY <1>5, <3>1 DEF ProcSwapBuffers, ProcInv, TypeProcs
  <2>6. QED  BY <2>1, <2>2, <2>3, <2>4, <2>5 DEF ProcInv, TypeProcs
<1>6. CASE ProcTakeSizes(p)
  <2>1. ReaderInv' /\ TypeRecord' /\ TypeMain'  BY <1>6 DEF ProcTakeSizes
  <2>2. TypeBoards'
    BY SMTT(30), <1>6 DEF ProcTakeSizes, TypeBoards, ProcInv, TypeProcs, ProcIndex
  <2>3. ppc' \in [Procs -> ProcPC] /\ px' \in [Procs -> 1 .. NDigi + 1] /\ ProcIndex'
    <3>1. "parse" \in ProcPC /\ px[p] \in Digis
      BY <1>6 DEF ProcTakeSizes, ProcPC, ProcInv, ProcIndex
    <3>2. QED  BY <1>6, <3>1, ProcMoves DEF ProcTakeSizes
  <2>4. pexit' = pexit  BY <1>6 DEF ProcTakeSizes
  <2>5. held' \in [Procs -> [bufs : Seq(SUBSET Events), sizes : Seq(Nat)]]
    <3>1. sizes[px[p]] \in Seq(Nat)
      BY <1>6 DEF ProcTakeSizes, ProcInv, ProcIndex, TypeBoards
    <3>2. QED  BY <1>6, <3>1 DEF ProcTakeSizes, ProcInv, TypeProcs
  <2>6. QED  BY <2>1, <2>2, <2>3, <2>4, <2>5 DEF ProcInv, TypeProcs
<1>7. CASE ProcRecord(p)
  <2>1. TypeBoards' /\ ReaderInv' /\ TypeMain'  BY <1>7 DEF ProcRecord
  <2>2. ProcInv'
    BY <1>7 DEF ProcRecord, ProcInv, TypeProcs, ProcIndex, ProcPC, ProcNext, Digis, NothingHeld
  <2>3. TypeRecord'
    <3>1. EventsOf(held[p].bufs) \in SUBSET Events
      BY EventsOfType DEF ProcInv, TypeProcs
    <3>2. px[p] \in Digis  BY <1>7 DEF ProcRecord, ProcInv, ProcIndex
    <3>3. QED  BY <1>7, <3>1, <3>2 DEF ProcRecord, TypeRecord
  <2>4. QED  BY <2>1, <2>2, <2>3
<1>8. CASE ProcRoundEnd(p)
  <2>1. TypeBoards' /\ ReaderInv' /\ TypeRecord' /\ TypeMain'  BY <1>8 DEF ProcRoundEnd
  <2>2. ProcInv'
    BY <1>8 DEF ProcRoundEnd, ProcInv, TypeProcs, ProcIndex, ProcPC, ProcNext, Digis
  <2>3. QED  BY <2>1, <2>2
<1>9. QED
  BY <1>1, <1>2, <1>3, <1>4, <1>5, <1>6, <1>7, <1>8 DEF Process

LEMMA CommandTypeInv == TypeInv /\ Command => TypeInv'
<1> SUFFICES ASSUME TypeInv, Command PROVE TypeInv'
  OBVIOUS
<1> USE ReadoutAssumption, Frame DEF TypeInv
<1>1. CASE ArmRejected
  <2>1. TypeBoards' /\ ReaderInv' /\ ProcInv' /\ TypeRecord'  BY <1>1 DEF ArmRejected
  <2>2. TypeMain'
    BY <1>1 DEF ArmRejected, TypeMain, MainPC, Digis
  <2>3. QED  BY <2>1, <2>2
<1>2. CASE ArmCommand
  <2>1. ReaderInv' /\ ProcInv' /\ TypeRecord'  BY <1>2 DEF ArmCommand
  <2>2. TypeBoards'
    BY <1>2 DEF ArmCommand, TypeBoards, EnterStopRun, AllBoards
  <2>3. TypeMain'
    <3>1. armed' \in BOOLEAN /\ running' \in BOOLEAN
      BY <1>2, Zenon DEF ArmCommand, TypeMain
    <3>2. QED  BY <1>2, <3>1 DEF ArmCommand, TypeMain, MainPC, EnterStopRun
  <2>4. QED  BY <2>1, <2>2, <2>3
<1>3. CASE SleepCommand
  <2>1. ReaderInv' /\ ProcInv' /\ TypeRecord'  BY <1>3 DEF SleepCommand
  <2>2. TypeBoards'
    BY <1>3 DEF SleepCommand, TypeBoards, EnterStopRun, AllBoards
  <2>3. TypeMain'
    <3>1. armed' \in BOOLEAN /\ running' \in BOOLEAN
      BY <1>3, Zenon DEF SleepCommand, TypeMain
    <3>2. QED  BY <1>3, <3>1 DEF SleepCommand, TypeMain, MainPC, EnterStopRun
  <2>4. QED  BY <2>1, <2>2, <2>3
<1>4. CASE MasterLost
  <2>1. ReaderInv' /\ ProcInv' /\ TypeRecord'  BY <1>4 DEF MasterLost
  <2>2. TypeBoards'
    BY <1>4 DEF MasterLost, TypeBoards, EnterStopRun, AllBoards
  <2>3. TypeMain'
    BY <1>4 DEF MasterLost, TypeMain, MainPC, Digis, EnterStopRun
  <2>4. QED  BY <2>1, <2>2, <2>3
<1>5. CASE StopCommand
  <2>1. ReaderInv' /\ ProcInv' /\ TypeRecord'  BY <1>5 DEF StopCommand
  <2>2. TypeBoards'
    BY <1>5 DEF StopCommand, TypeBoards, EnterStopRun, AllBoards
  <2>3. TypeMain'
    BY <1>5 DEF StopCommand, TypeMain, MainPC, Digis, EnterStopRun
  <2>4. QED  BY <2>1, <2>2, <2>3
<1>6. CASE StartCommand
  <2>1. ReaderInv' /\ ProcInv' /\ TypeRecord'  BY <1>6 DEF StartCommand
  <2>2. TypeBoards'
    BY <1>6 DEF StartCommand, TypeBoards, AllBoards
  <2>3. TypeMain'
    BY <1>6 DEF StartCommand, TypeMain, MainPC, Digis
  <2>4. QED  BY <2>1, <2>2, <2>3
<1>7. QED  BY <1>1, <1>2, <1>3, <1>4, <1>5, <1>6 DEF Command

LEMMA MainTypeInv == TypeInv /\ MainThread => TypeInv'
<1> SUFFICES ASSUME TypeInv, MainThread PROVE TypeInv'
  OBVIOUS
<1> USE ReadoutAssumption, Frame DEF TypeInv
<1>1. CASE Deactivate
  <2>1. ReaderInv' /\ ProcInv' /\ TypeRecord'  BY <1>1 DEF Deactivate
  <2>2. TypeBoards'
    BY <1>1 DEF Deactivate, TypeBoards, TypeMain, MainPC
  <2>3. TypeMain'
    BY <1>1 DEF Deactivate, TypeMain, MainPC, Digis
  <2>4. QED  BY <2>1, <2>2, <2>3
<1>2. CASE JoinThreads
  <2>1. TypeBoards'  BY <1>2 DEF JoinThreads
  <2>2. ReaderInv'
    BY <1>2 DEF JoinThreads, ReaderInv, TypeReader, ReaderRan, ReaderIndex, ReaderPC, ReadNext, Digis
  <2>3. ProcInv'
    BY <1>2 DEF JoinThreads, ProcInv, TypeProcs, ProcIndex, ProcPC, ProcNext, Digis
  <2>4. TypeRecord'
    BY <1>2 DEF JoinThreads, TypeRecord
  <2>5. TypeMain'
    BY <1>2 DEF JoinThreads, TypeMain, MainPC, Digis
  <2>6. QED  BY <2>1, <2>2, <2>3, <2>4, <2>5
<1>3. CASE DeleteBoards
  <2>1. TypeBoards'
    <3>1. alive' \in BOOLEAN  BY <1>3, Zenon DEF DeleteBoards
    <3>2. QED  BY <1>3, <3>1 DEF DeleteBoards, TypeBoards, ClearBoards, AllBoards, TypeMain
  <2>2. ReaderInv'
    <3>1. rexit' \in BOOLEAN /\ ranOnce' \in BOOLEAN /\ ReaderRan'
      BY <1>3, Zenon DEF DeleteBoards, ClearThreads, ReaderRan
    <3>2. QED
      BY <1>3, <3>1
      DEF DeleteBoards, ReaderInv, TypeReader, ReaderIndex, ReaderPC, ClearThreads, AllBoards, Digis
  <2>3. ProcInv'
    BY <1>3 DEF DeleteBoards, ProcInv, TypeProcs, ProcIndex, ProcPC, ProcNext, Digis, ClearThreads, AllBoards, NothingHeld
  <2>4. TypeRecord'
    BY <1>3 DEF DeleteBoards, TypeRecord, ClearBoards, AllBoards
  <2>5. TypeMain'
    <3>1. armed' \in BOOLEAN /\ running' \in BOOLEAN
      BY <1>3, Zenon DEF DeleteBoards
    <3>2. QED  BY <1>3, <3>1 DEF DeleteBoards, TypeMain, MainPC
  <2>6. QED  BY <2>1, <2>2, <2>3, <2>4, <2>5
<1>4. CASE ArmFails
  <2>1. TypeBoards' /\ ReaderInv' /\ ProcInv' /\ TypeRecord'  BY <1>4 DEF ArmFails
  <2>2. TypeMain'
    BY <1>4 DEF ArmFails, TypeMain, MainPC, Digis
  <2>3. QED  BY <2>1, <2>2
<1>5. CASE ArmSucceeds
  <2>1. TypeBoards'
    BY <1>5 DEF ArmSucceeds, TypeBoards, ClearBoards, AllBoards, TypeMain
  <2>2. ReaderInv'
    <3>1. rexit' \in BOOLEAN /\ ranOnce' \in BOOLEAN /\ ReaderRan'
      BY <1>5, Zenon DEF ArmSucceeds, ClearThreads, ReaderRan
    <3>2. QED
      BY <1>5, <3>1 DEF ArmSucceeds, ReaderInv, TypeReader, ReaderIndex, ReaderPC, ClearThreads, AllBoards
  <2>3. ProcInv'
    BY <1>5 DEF ArmSucceeds, ProcInv, TypeProcs, ProcIndex, ProcPC, ProcNext, Digis, ClearThreads, AllBoards, NothingHeld
  <2>4. TypeRecord'
    BY <1>5 DEF ArmSucceeds, TypeRecord, ClearBoards, AllBoards
  <2>5. TypeMain'
    BY <1>5 DEF ArmSucceeds, TypeMain, MainPC, Digis
  <2>6. QED  BY <2>1, <2>2, <2>3, <2>4, <2>5
<1>6. QED  BY <1>1, <1>2, <1>3, <1>4, <1>5 DEF MainThread

LEMMA BoardTypeInv ==
  TypeInv /\ ((\E d \in Digis : Trigger(d)) \/ RemoteSIn) => TypeInv'
<1> USE ReadoutAssumption, Frame DEF TypeInv
<1>1. ASSUME TypeInv, NEW d \in Digis, Trigger(d) PROVE TypeInv'
  <2>1. ReaderInv' /\ ProcInv' /\ TypeRecord' /\ TypeMain'  BY <1>1 DEF Trigger
  <2>2. made[d] + 1 \in Events /\ made[d] + 1 \in 0 .. MaxEvents
    BY <1>1 DEF Trigger, TypeBoards, Events
  <2>3. TypeBoards'  BY <1>1, <2>2 DEF Trigger, TypeBoards
  <2>4. QED  BY <2>1, <2>3
<1>2. ASSUME TypeInv, RemoteSIn PROVE TypeInv'
  <2>1. ReaderInv' /\ ProcInv' /\ TypeRecord' /\ TypeMain'  BY <1>2 DEF RemoteSIn
  <2>2. TypeBoards'  BY <1>2 DEF RemoteSIn, TypeBoards, AllBoards
  <2>3. QED  BY <2>1, <2>2
<1>3. QED  BY <1>1, <1>2

LEMMA TypeInvStep == TypeInv /\ [Next]_vars => TypeInv'
<1>1. TypeInv /\ Next => TypeInv'
  BY ReaderTypeInv, ProcTypeInv, CommandTypeInv, MainTypeInv, BoardTypeInv DEF Next
<1>2. TypeInv /\ UNCHANGED vars => TypeInv'
  BY Frame DEF TypeInv, vars
<1>3. QED  BY <1>1, <1>2

\* Every reachable state is well typed: the loop indices of the read thread, of the
\* processors and of StopRun stay on the slave's boards whatever the interleaving.
THEOREM TypeCorrect == Spec => []TypeOK
<1>1. TypeInv => TypeOK
  BY DEF TypeInv, TypeOK, ReaderInv, ProcInv
<1>2. QED  BY <1>1, InitTypeInv, TypeInvStep, PTL DEF Spec
-----------------------------------------------------------------------------
(* Nothing is freed under a thread.                                        *)

\* While the main thread is past CloseThreads, and whenever the boards or the recorder's
\* connections do not exist, no thread is open.
CloseInv == mpc \in {"delete", "init"} \/ ~alive \/ recorder # "open" => ThreadsOff

LEMMA CloseInvStep == CloseInv /\ [Next]_vars => CloseInv'
<1> SUFFICES ASSUME CloseInv, [Next]_vars PROVE CloseInv'
  OBVIOUS
<1>1. CASE ReadThread
  <2>1. rpc # "off" /\ UNCHANGED <<alive, recorder, mpc>>
    BY <1>1 DEF ReadThread, ReadVisit, TransferBlock, TransferNothing, TransferRejected,
                TransferError, PushBuffer, PushSize, ReadRoundEnd, boardVars, recVars, mainVars
  <2>2. QED  BY <2>1 DEF CloseInv, ThreadsOff
<1>2. CASE \E p \in Procs : Process(p)
  <2>1. PICK p \in Procs : Process(p)  BY <1>2
  <2>2. ppc[p] # "off" /\ UNCHANGED <<alive, recorder, mpc>>
    BY <2>1 DEF Process, ProcStart, ProcVisit, ProcDefer, ProcTryLock, ProcSwapBuffers,
                ProcTakeSizes, ProcRecord, ProcRoundEnd, boardVars, recVars, mainVars
  <2>3. QED  BY <2>2 DEF CloseInv, ThreadsOff
<1>3. CASE Command
  <2>1. /\ mpc' \notin {"delete", "init"} /\ UNCHANGED <<alive, recorder, rpc, ppc>>
    BY <1>3 DEF Command, ArmRejected, ArmCommand, SleepCommand, MasterLost, StopCommand,
                StartCommand, EnterStopRun, boardVars, readerVars, procVars, recVars
  <2>2. QED  BY <2>1 DEF CloseInv, ThreadsOff
<1>4. CASE Deactivate
  <2>1. mpc' \in {"deactivate", "join"} /\ UNCHANGED <<alive, recorder, rpc, ppc>>
    BY <1>4 DEF Deactivate, readerVars, procVars, recVars
  <2>2. QED  BY <2>1 DEF CloseInv, ThreadsOff
<1>5. CASE JoinThreads
  BY <1>5 DEF JoinThreads, CloseInv, ThreadsOff
<1>6. CASE DeleteBoards
  BY <1>6 DEF DeleteBoards, CloseInv, ThreadsOff
<1>7. CASE ArmFails
  BY <1>7 DEF ArmFails, CloseInv, ThreadsOff, boardVars, readerVars, procVars, recVars
<1>8. CASE ArmSucceeds
  BY <1>8 DEF ArmSucceeds, CloseInv, ThreadsOff
<1>9. CASE (\E d \in Digis : Trigger(d)) \/ RemoteSIn \/ UNCHANGED vars
  <2>1. UNCHANGED <<alive, recorder, mpc, rpc, ppc>>
    BY <1>9 DEF Trigger, RemoteSIn, vars, boardVars, readerVars, procVars, recVars, mainVars
  <2>2. QED  BY <2>1 DEF CloseInv, ThreadsOff
<1>10. QED
  BY <1>1, <1>2, <1>3, <1>4, <1>5, <1>6, <1>7, <1>8, <1>9 DEF Next, MainThread

\* No interleaving of commands and threads frees the boards or the recorder's connections
\* while the read thread or a processor can still use them.
THEOREM NothingFreedEarly == Spec => []NoUseAfterFree
<1>1. Init => CloseInv  BY DEF Init, CloseInv, ThreadsOff
<1>2. CloseInv => NoUseAfterFree  BY DEF CloseInv, NoUseAfterFree
<1>3. QED  BY <1>1, <1>2, CloseInvStep, PTL DEF Spec

-----------------------------------------------------------------------------
(* fDataLock is a lock.                                                    *)

\* An action that neither touches a lock nor moves a thread into or out of one.
LEMMA LockFrame ==
  ASSUME LockExclusive, UNCHANGED lock,
         \A d \in Digis, t \in Procs \cup {Reader} : Owns(d, t)' <=> Owns(d, t)
  PROVE  LockExclusive'
  BY DEF LockExclusive

LEMMA ReaderLock == TypeInv /\ LockExclusive /\ ReadThread => LockExclusive'
<1> SUFFICES ASSUME TypeInv, LockExclusive, ReadThread PROVE LockExclusive'
  OBVIOUS
<1> USE ReadoutAssumption
<1>1. UNCHANGED <<ppc, px>>
  BY DEF ReadThread, ReadVisit, TransferBlock, TransferNothing, TransferRejected, TransferError,
         PushBuffer, PushSize, ReadRoundEnd, procVars
<1>2. CASE PushBuffer
  <2>1. rx \in Digis /\ rx' = rx /\ rpc' = "size" /\ rpc = "lock" /\ lock[rx] = None
        /\ lock' = [lock EXCEPT ![rx] = Reader]
    BY <1>2 DEF PushBuffer, TypeInv, ReaderInv, ReaderIndex
  <2>2. QED  BY <1>1, <2>1 DEF LockExclusive, Owns, TypeInv, TypeBoards
<1>3. CASE PushSize
  <2>1. rx \in Digis /\ rpc' = "visit" /\ rpc = "size" /\ lock' = [lock EXCEPT ![rx] = None]
    BY <1>3 DEF PushSize, ReadNext, TypeInv, ReaderInv, ReaderIndex
  <2>2. lock[rx] = Reader  BY <2>1 DEF LockExclusive, Owns
  <2>3. QED  BY <1>1, <2>1, <2>2 DEF LockExclusive, Owns, TypeInv, TypeBoards
<1>4. CASE ~(PushBuffer \/ PushSize)
  <2>1. rpc # "size" /\ rpc' # "size" /\ lock' = lock
    BY <1>4 DEF ReadThread, ReadVisit, TransferBlock, TransferNothing, TransferRejected,
                TransferError, ReadRoundEnd, ReadNext, boardVars
  <2>2. QED  BY <1>1, <2>1, LockFrame DEF Owns
<1>5. QED  BY <1>2, <1>3, <1>4

LEMMA ProcLock ==
  ASSUME NEW p \in Procs PROVE TypeInv /\ LockExclusive /\ Process(p) => LockExclusive'
<1> SUFFICES ASSUME TypeInv, LockExclusive, Process(p) PROVE LockExclusive'
  OBVIOUS
<1> USE ReadoutAssumption
<1>1. UNCHANGED <<rpc, rx>>
  BY DEF Process, ProcStart, ProcVisit, ProcDefer, ProcTryLock, ProcSwapBuffers, ProcTakeSizes,
         ProcRecord, ProcRoundEnd, readerVars
<1>2. \A q \in Procs \ {p} : ppc'[q] = ppc[q] /\ px'[q] = px[q]
  BY DEF Process, ProcStart, ProcVisit, ProcDefer, ProcTryLock, ProcSwapBuffers, ProcTakeSizes,
         ProcRecord, ProcRoundEnd, ProcNext, TypeInv, ProcInv, TypeProcs
<1>3. CASE ProcTryLock(p) /\ lock[px[p]] = None
  <2>1. px[p] \in Digis /\ px'[p] = px[p] /\ ppc'[p] = "swap" /\ ppc[p] = "try"
        /\ lock' = [lock EXCEPT ![px[p]] = p]
    BY <1>3 DEF ProcTryLock, TypeInv, ProcInv, TypeProcs, ProcIndex
  <2>2. SUFFICES ASSUME NEW d \in Digis, NEW t \in Procs \cup {Reader}
               PROVE  Owns(d, t)' <=> lock'[d] = t
    BY DEF LockExclusive
  <2>3. Owns(d, t) <=> lock[d] = t  BY DEF LockExclusive
  <2>4. lock'[d] = IF d = px[p] THEN p ELSE lock[d]
    BY <2>1 DEF TypeInv, TypeBoards
  <2>5. CASE t = p  BY <1>1, <1>2, <1>3, <2>1, <2>3, <2>4, <2>5 DEF Owns
  <2>6. CASE t = Reader  BY <1>1, <1>2, <1>3, <2>1, <2>3, <2>4, <2>6 DEF Owns
  <2>7. CASE t \in Procs \ {p}  BY <1>1, <1>2, <1>3, <2>1, <2>3, <2>4, <2>7 DEF Owns
  <2>8. QED  BY <2>5, <2>6, <2>7
<1>4. CASE ProcTakeSizes(p)
  <2>1. px[p] \in Digis /\ ppc'[p] = "parse" /\ ppc[p] = "take"
        /\ lock' = [lock EXCEPT ![px[p]] = None]
    BY <1>4 DEF ProcTakeSizes, TypeInv, ProcInv, TypeProcs, ProcIndex
  <2>2. lock[px[p]] = p  BY <2>1 DEF LockExclusive, Owns
  <2>3. SUFFICES ASSUME NEW d \in Digis, NEW t \in Procs \cup {Reader}
               PROVE  Owns(d, t)' <=> lock'[d] = t
    BY DEF LockExclusive
  <2>4. Owns(d, t) <=> lock[d] = t  BY DEF LockExclusive
  <2>5. lock'[d] = IF d = px[p] THEN None ELSE lock[d]
    BY <2>1 DEF TypeInv, TypeBoards
  <2>6. CASE t = p  BY <1>1, <1>2, <2>1, <2>2, <2>4, <2>5, <2>6 DEF Owns
  <2>7. CASE t = Reader  BY <1>1, <1>2, <2>1, <2>2, <2>4, <2>5, <2>7 DEF Owns
  <2>8. CASE t \in Procs \ {p}  BY <1>1, <1>2, <2>1, <2>2, <2>4, <2>5, <2>8 DEF Owns
  <2>9. QED  BY <2>6, <2>7, <2>8
<1>5. CASE ProcSwapBuffers(p)
  <2>1. ppc[p] = "swap" /\ ppc'[p] = "take" /\ px'[p] = px[p] /\ lock' = lock
    BY <1>5 DEF ProcSwapBuffers, TypeInv, ProcInv, TypeProcs
  <2>2. QED  BY <1>1, <1>2, <2>1, LockFrame DEF Owns
<1>6. CASE ~(ProcTakeSizes(p) \/ ProcSwapBuffers(p)) /\ ~(ProcTryLock(p) /\ lock[px[p]] = None)
  <2>1. ppc[p] \notin {"swap", "take"} /\ ppc'[p] \notin {"swap", "take"} /\ lock' = lock
    BY <1>6 DEF Process, ProcStart, ProcVisit, ProcDefer, ProcTryLock, ProcRecord, ProcRoundEnd,
                ProcNext, boardVars, TypeInv, ProcInv, TypeProcs
  <2>2. QED  BY <1>1, <1>2, <2>1, LockFrame DEF Owns
<1>7. QED  BY <1>3, <1>4, <1>5, <1>6

LEMMA LockStep == TypeInv /\ CloseInv /\ LockExclusive /\ [Next]_vars => LockExclusive'
<1> SUFFICES ASSUME TypeInv, CloseInv, LockExclusive, [Next]_vars PROVE LockExclusive'
  OBVIOUS
<1> USE ReadoutAssumption
<1>1. CASE JoinThreads
  <2>1. /\ lock' = lock /\ rpc # "size" /\ rpc' # "size"
        /\ \A p \in Procs : {ppc[p], ppc'[p]} \cap {"swap", "take"} = {}
    BY <1>1 DEF JoinThreads, boardVars
  <2>2. QED  BY <2>1, LockFrame DEF Owns
<1>2. CASE DeleteBoards \/ ArmSucceeds
  <2>1. /\ lock' = AllBoards(None) /\ rpc' # "size"
        /\ \A p \in Procs : ppc'[p] \notin {"swap", "take"}
    BY <1>2 DEF DeleteBoards, ArmSucceeds, ClearBoards, CloseInv, ThreadsOff
  <2>2. QED  BY <2>1 DEF LockExclusive, Owns, AllBoards
<1>3. CASE Command \/ Deactivate \/ ArmFails \/ RemoteSIn \/ (\E d \in Digis : Trigger(d))
           \/ UNCHANGED vars
  <2>1. UNCHANGED <<lock, rpc, rx, ppc, px>>
    BY <1>3 DEF Command, ArmRejected, ArmCommand, SleepCommand, MasterLost, StopCommand,
                StartCommand, Deactivate, ArmFails, RemoteSIn, Trigger, vars, boardVars,
                readerVars, procVars
  <2>2. QED  BY <2>1, LockFrame DEF Owns
<1>4. QED
  BY <1>1, <1>2, <1>3, ReaderLock, ProcLock DEF Next, MainThread

\* The read thread and the processors are never inside the same board's lock at once: the
\* swap of ReadoutBuffer excludes the two push_backs of ReadMBLT and every other swap.
THEOREM LockIsExclusive == Spec => []LockExclusive
<1>1. Init => LockExclusive
  BY ReadoutAssumption DEF Init, LockExclusive, Owns, AllBoards
<1>2. Init => CloseInv  BY DEF Init, CloseInv, ThreadsOff
<1>3. QED
  BY <1>1, <1>2, InitTypeInv, TypeInvStep, CloseInvStep, LockStep, PTL DEF Spec
-----------------------------------------------------------------------------
(* The two vectors of a board stay aligned.                                *)

\* What whoever holds the lock is in the middle of: the read thread has pushed a block and
\* not its size; a processor is about to take both vectors, or has taken the blocks only.
HalfDone ==
  /\ rpc = "size" => SizesOf(bufs[rx]) = Append(sizes[rx], Size(carry))
  /\ \A p \in Procs :
       /\ ppc[p] = "swap" => sizes[px[p]] = SizesOf(bufs[px[p]])
       /\ ppc[p] = "take" => sizes[px[p]] = SizesOf(held[p].bufs) /\ bufs[px[p]] = <<>>

AlignedInv == VectorsAligned /\ HalfDone
SafeInv == TypeInv /\ CloseInv /\ LockExclusive /\ AlignedInv

LEMMA SizesOfAppend ==
  ASSUME NEW s \in Seq(SUBSET Events), NEW b \in SUBSET Events
  PROVE  SizesOf(Append(s, b)) = Append(SizesOf(s), Size(b))
<1>1. SizesOf(s) \in Seq(Nat) /\ Len(SizesOf(s)) = Len(s)
  BY SizeType DEF SizesOf
<1>2. SizesOf(Append(s, b)) \in Seq(Nat) /\ Len(SizesOf(Append(s, b))) = Len(s) + 1
  BY SizeType DEF SizesOf
<1>3. Append(SizesOf(s), Size(b)) \in Seq(Nat) /\ Len(Append(SizesOf(s), Size(b))) = Len(s) + 1
  BY <1>1, SizeType
<1>4. ASSUME NEW i \in 1 .. Len(s) + 1
      PROVE  SizesOf(Append(s, b))[i] = Append(SizesOf(s), Size(b))[i]
  BY <1>1, SizeType DEF SizesOf
<1>5. QED  BY <1>2, <1>3, <1>4

\* An action that leaves the vectors and the lock alone, and starts no work on them.
LEMMA AlignedFrame ==
  ASSUME AlignedInv, UNCHANGED <<lock, bufs, sizes>>,
         rpc' = "size" => rpc = "size" /\ UNCHANGED <<rx, carry>>,
         \A p \in Procs : ppc'[p] \in {"swap", "take", "parse"}
                          => ppc'[p] = ppc[p] /\ px'[p] = px[p] /\ held'[p] = held[p]
  PROVE  AlignedInv'
  BY DEF AlignedInv, VectorsAligned, HalfDone

LEMMA ReaderAligned == SafeInv /\ ReadThread => AlignedInv'
<1> SUFFICES ASSUME SafeInv, ReadThread PROVE AlignedInv'
  OBVIOUS
<1> USE ReadoutAssumption DEF SafeInv
<1>1. UNCHANGED <<ppc, px, held>>
  BY DEF ReadThread, ReadVisit, TransferBlock, TransferNothing, TransferRejected, TransferError,
         PushBuffer, PushSize, ReadRoundEnd, procVars
<1>2. \A q \in Procs : ppc[q] \in {"swap", "take"} => px[q] \in Digis /\ lock[px[q]] = q
  BY DEF LockExclusive, Owns, TypeInv, ProcInv, ProcIndex
<1>3. CASE PushBuffer
  <2>1. rx \in Digis /\ rx' = rx /\ rpc' = "size" /\ rpc = "lock" /\ lock[rx] = None
        /\ lock' = [lock EXCEPT ![rx] = Reader] /\ UNCHANGED <<sizes, carry>>
        /\ bufs' = [bufs EXCEPT ![rx] = Append(@, carry)]
    BY <1>3 DEF PushBuffer, TypeInv, ReaderInv, ReaderIndex
  <2>2. SizesOf(bufs'[rx]) = Append(sizes[rx], Size(carry))
    BY <2>1, SizesOfAppend
    DEF AlignedInv, VectorsAligned, TypeInv, TypeBoards, ReaderInv, TypeReader
  <2>3. \A q \in Procs : ppc[q] \in {"swap", "take"} => px[q] # rx
    BY <1>2, <2>1
  <2>4. \A d \in Digis : d # rx => lock'[d] = lock[d] /\ bufs'[d] = bufs[d]
    BY <2>1 DEF TypeInv, TypeBoards
  <2>5. lock'[rx] # None  BY <2>1 DEF TypeInv, TypeBoards
  <2>6. VectorsAligned'
    BY <1>1, <2>1, <2>4, <2>5 DEF AlignedInv, VectorsAligned
  <2>7. HalfDone'
    BY <1>1, <1>2, <2>1, <2>2, <2>3, <2>4 DEF AlignedInv, HalfDone
  <2>8. QED  BY <2>6, <2>7 DEF AlignedInv
<1>4. CASE PushSize
  <2>1. rx \in Digis /\ rpc' = "visit" /\ rpc = "size" /\ lock' = [lock EXCEPT ![rx] = None]
        /\ sizes' = [sizes EXCEPT ![rx] = Append(@, Size(carry))] /\ bufs' = bufs
    BY <1>4 DEF PushSize, ReadNext, TypeInv, ReaderInv, ReaderIndex
  <2>2. lock[rx] = Reader  BY <2>1 DEF LockExclusive, Owns
  <2>3. sizes'[rx] = SizesOf(bufs'[rx])
    BY <2>1 DEF AlignedInv, HalfDone, TypeInv, TypeBoards
  <2>4. \A q \in Procs : ppc[q] \in {"swap", "take"} => px[q] # rx
    BY <1>2, <2>2
  <2>5. \A d \in Digis : d # rx => lock'[d] = lock[d] /\ sizes'[d] = sizes[d]
    BY <2>1 DEF TypeInv, TypeBoards
  <2>6. VectorsAligned'
    BY <1>1, <2>1, <2>3, <2>5 DEF AlignedInv, VectorsAligned
  <2>7. HalfDone'
    BY <1>1, <1>2, <2>1, <2>4, <2>5 DEF AlignedInv, HalfDone
  <2>8. QED  BY <2>6, <2>7 DEF AlignedInv
<1>5. CASE ~(PushBuffer \/ PushSize)
  <2>1. rpc' # "size" /\ UNCHANGED <<lock, bufs, sizes>>
    BY <1>5 DEF ReadThread, ReadVisit, TransferBlock, TransferNothing, TransferRejected,
                TransferError, ReadRoundEnd, ReadNext, boardVars
  <2>2. QED  BY <1>1, <2>1, AlignedFrame
<1>6. QED  BY <1>3, <1>4, <1>5

LEMMA ProcAligned == ASSUME NEW p \in Procs PROVE SafeInv /\ Process(p) => AlignedInv'
<1> SUFFICES ASSUME SafeInv, Process(p) PROVE AlignedInv'
  OBVIOUS
<1> USE ReadoutAssumption DEF SafeInv
<1>1. UNCHANGED <<rpc, rx, carry>>
  BY DEF Process, ProcStart, ProcVisit, ProcDefer, ProcTryLock, ProcSwapBuffers, ProcTakeSizes,
         ProcRecord, ProcRoundEnd, readerVars
<1>2. \A q \in Procs \ {p} : ppc'[q] = ppc[q] /\ px'[q] = px[q] /\ held'[q] = held[q]
  BY DEF Process, ProcStart, ProcVisit, ProcDefer, ProcTryLock, ProcSwapBuffers, ProcTakeSizes,
         ProcRecord, ProcRoundEnd, ProcNext, TypeInv, ProcInv, TypeProcs
<1>3. /\ \A q \in Procs : ppc[q] \in {"swap", "take"} => px[q] \in Digis /\ lock[px[q]] = q
      /\ rpc = "size" => rx \in Digis /\ lock[rx] = Reader
  BY DEF LockExclusive, Owns, TypeInv, ProcInv, ProcIndex, ReaderInv, ReaderIndex
<1>4. CASE ProcTryLock(p) /\ lock[px[p]] = None
  <2>1. px[p] \in Digis /\ px' = px /\ ppc' = [ppc EXCEPT ![p] = "swap"]
        /\ lock' = [lock EXCEPT ![px[p]] = p] /\ UNCHANGED <<bufs, sizes, held>>
    BY <1>4 DEF ProcTryLock, TypeInv, ProcInv, ProcIndex
  <2>2. ppc'[p] = "swap" /\ sizes[px[p]] = SizesOf(bufs[px[p]])
    BY <1>4, <2>1 DEF AlignedInv, VectorsAligned, TypeInv, ProcInv, TypeProcs
  <2>3. \A d \in Digis : lock'[d] = None => lock[d] = None
    BY <2>1 DEF TypeInv, TypeBoards
  <2>4. VectorsAligned'
    BY <1>2, <2>1, <2>2, <2>3 DEF AlignedInv, VectorsAligned
  <2>5. HalfDone'
    BY <1>1, <1>2, <2>1, <2>2 DEF AlignedInv, HalfDone
  <2>6. QED  BY <2>4, <2>5 DEF AlignedInv
<1>5. CASE ProcSwapBuffers(p)
  <2>1. px[p] \in Digis /\ px' = px /\ ppc[p] = "swap" /\ lock[px[p]] = p
        /\ bufs' = [bufs EXCEPT ![px[p]] = <<>>] /\ UNCHANGED <<lock, sizes>>
        /\ held' = [held EXCEPT ![p].bufs = bufs[px[p]]] /\ ppc' = [ppc EXCEPT ![p] = "take"]
    BY <1>3, <1>5 DEF ProcSwapBuffers
  <2>2. ppc'[p] = "take" /\ held'[p].bufs = bufs[px[p]] /\ bufs'[px[p]] = <<>>
    BY <2>1 DEF TypeInv, ProcInv, TypeProcs, TypeBoards
  <2>3. sizes[px[p]] = SizesOf(bufs[px[p]])  BY <2>1 DEF AlignedInv, HalfDone
  <2>4. \A d \in Digis : d # px[p] => bufs'[d] = bufs[d]
    BY <2>1 DEF TypeInv, TypeBoards
  <2>5. (\A q \in Procs \ {p} : ppc[q] \in {"swap", "take"} => px[q] # px[p])
        /\ (rpc = "size" => rx # px[p])
    BY <1>3, <2>1
  <2>6. VectorsAligned'
    BY <1>2, <2>1, <2>2, <2>4 DEF AlignedInv, VectorsAligned
  <2>7. HalfDone'
    BY <1>1, <1>2, <1>3, <2>1, <2>2, <2>3, <2>4, <2>5 DEF AlignedInv, HalfDone
  <2>8. QED  BY <2>6, <2>7 DEF AlignedInv
<1>6. CASE ProcTakeSizes(p)
  <2>1. px[p] \in Digis /\ px' = px /\ ppc[p] = "take" /\ lock[px[p]] = p
        /\ sizes' = [sizes EXCEPT ![px[p]] = <<>>] /\ bufs' = bufs
        /\ lock' = [lock EXCEPT ![px[p]] = None]
        /\ held' = [held EXCEPT ![p].sizes = sizes[px[p]]] /\ ppc' = [ppc EXCEPT ![p] = "parse"]
    BY <1>3, <1>6 DEF ProcTakeSizes
  <2>2. ppc'[p] = "parse" /\ held'[p].sizes = sizes[px[p]] /\ held'[p].bufs = held[p].bufs
        /\ sizes'[px[p]] = <<>>
    BY <2>1 DEF TypeInv, ProcInv, TypeProcs, TypeBoards
  <2>3. sizes[px[p]] = SizesOf(held[p].bufs) /\ bufs[px[p]] = <<>>
    BY <2>1 DEF AlignedInv, HalfDone
  <2>4. SizesOf(<<>>) = <<>>  BY DEF SizesOf
  <2>5. \A d \in Digis : d # px[p] => sizes'[d] = sizes[d] /\ lock'[d] = lock[d]
    BY <2>1 DEF TypeInv, TypeBoards
  <2>6. (\A q \in Procs \ {p} : ppc[q] \in {"swap", "take"} => px[q] # px[p])
        /\ (rpc = "size" => rx # px[p])
    BY <1>3, <2>1
  <2>7. VectorsAligned'
    BY <1>2, <2>1, <2>2, <2>3, <2>4, <2>5 DEF AlignedInv, VectorsAligned
  <2>8. HalfDone'
    BY <1>1, <1>2, <1>3, <2>1, <2>2, <2>5, <2>6 DEF AlignedInv, HalfDone
  <2>9. QED  BY <2>7, <2>8 DEF AlignedInv
<1>7. CASE ~(ProcTakeSizes(p) \/ ProcSwapBuffers(p)) /\ ~(ProcTryLock(p) /\ lock[px[p]] = None)
  <2>1. ppc'[p] \notin {"swap", "take", "parse"} /\ UNCHANGED <<lock, bufs, sizes>>
    BY <1>7 DEF Process, ProcStart, ProcVisit, ProcDefer, ProcTryLock, ProcRecord, ProcRoundEnd,
                ProcNext, boardVars, TypeInv, ProcInv, TypeProcs
  <2>2. QED  BY <1>1, <1>2, <2>1, AlignedFrame
<1>8. QED  BY <1>4, <1>5, <1>6, <1>7

LEMMA AlignedStep == SafeInv /\ [Next]_vars => AlignedInv'
<1> SUFFICES ASSUME SafeInv, [Next]_vars PROVE AlignedInv'
  OBVIOUS
<1>1. CASE JoinThreads
  <2>1. /\ UNCHANGED <<lock, bufs, sizes>> /\ rpc' = "off"
        /\ \A p \in Procs : ppc'[p] = "off"
    BY <1>1 DEF JoinThreads, boardVars
  <2>2. QED  BY <2>1, AlignedFrame DEF SafeInv
<1>2. CASE DeleteBoards \/ ArmSucceeds
  <2>1. /\ sizes' = AllBoards(<<>>) /\ bufs' = AllBoards(<<>>) /\ rpc' # "size"
        /\ \A p \in Procs : ppc'[p] \notin {"swap", "take", "parse"}
    BY <1>2 DEF DeleteBoards, ArmSucceeds, ClearBoards, SafeInv, CloseInv, ThreadsOff
  <2>2. SizesOf(<<>>) = <<>>  BY DEF SizesOf
  <2>3. QED  BY <2>1, <2>2 DEF AlignedInv, VectorsAligned, HalfDone, AllBoards
<1>3. CASE Command \/ Deactivate \/ ArmFails \/ RemoteSIn \/ (\E d \in Digis : Trigger(d))
           \/ UNCHANGED vars
  <2>1. UNCHANGED <<lock, bufs, sizes, rpc, rx, carry, ppc, px, held>>
    BY <1>3 DEF Command, ArmRejected, ArmCommand, SleepCommand, MasterLost, StopCommand,
                StartCommand, Deactivate, ArmFails, RemoteSIn, Trigger, vars, boardVars,
                readerVars, procVars
  <2>2. QED  BY <2>1, AlignedFrame DEF SafeInv
<1>4. QED
  BY <1>1, <1>2, <1>3, ReaderAligned, ProcAligned DEF Next, MainThread

LEMMA InitSafeInv == Init => SafeInv
<1>1. SizesOf(<<>>) = <<>>  BY DEF SizesOf
<1>2. Init => AlignedInv
  BY <1>1 DEF Init, AlignedInv, VectorsAligned, HalfDone, AllBoards
<1>3. Init => CloseInv  BY DEF Init, CloseInv, ThreadsOff
<1>4. Init => LockExclusive
  BY ReadoutAssumption DEF Init, LockExclusive, Owns, AllBoards
<1>5. QED  BY <1>2, <1>3, <1>4, InitTypeInv DEF SafeInv

LEMMA SafeInvStep == SafeInv /\ [Next]_vars => SafeInv'
  BY TypeInvStep, CloseInvStep, LockStep, AlignedStep DEF SafeInv

\* The parsers index a board's blocks by its sizes. Whatever the interleaving of the read
\* thread's push_backs with the processors' swaps, a processor's two vectors agree.
THEOREM VectorsStayAligned == Spec => []VectorsAligned
<1>1. SafeInv => VectorsAligned  BY DEF SafeInv, AlignedInv
<1>2. QED  BY <1>1, InitSafeInv, SafeInvStep, PTL DEF Spec

-----------------------------------------------------------------------------
(* EventFlow keeps its promises, with the pipeline's places for its own.   *)

LEMMA InitFlowInv == Flow!Init => Flow!FlowInv
  BY DEF Flow!Init, Flow!Clear, Flow!Nothing, Flow!FlowInv, Flow!TypeInv, Flow!Complete,
         Flow!Exclusive, Flow!Ordered, Flow!Older

\* A step of board d changes nothing that is said of another board.
LEMMA OtherBoards ==
  ASSUME Flow!FlowInv, NEW d \in Digis,
         made'[d] = made[d], Waiting'[d] = Waiting[d], Buffered'[d] = Buffered[d],
         recorded'[d] = recorded[d], dropped'[d] = dropped[d],
         \A p \in Procs : InHand'[p][d] = InHand[p][d]
  PROVE  Flow!Complete(d)' /\ Flow!Exclusive(d)' /\ Flow!Ordered(d)'
<1>1. Flow!Complete(d)'  BY DEF Flow!FlowInv, Flow!Complete
<1>2. Flow!Exclusive(d)'  BY DEF Flow!FlowInv, Flow!Exclusive
<1>3. Flow!Ordered(d)'  BY DEF Flow!FlowInv, Flow!Ordered, Flow!Older
<1>4. QED  BY <1>1, <1>2, <1>3

LEMMA ProduceInv == ASSUME NEW d \in Digis PROVE Flow!FlowInv /\ Flow!Produce(d) => Flow!FlowInv'
<1> SUFFICES ASSUME Flow!FlowInv, Flow!Produce(d) PROVE Flow!FlowInv'
  OBVIOUS
<1>1. Flow!TypeInv'
  BY DEF Flow!FlowInv, Flow!TypeInv, Flow!Produce, Flow!Add
<1>2. /\ made[d] \in Nat /\ made'[d] = made[d] + 1
      /\ Waiting'[d] = Waiting[d] \cup {made[d] + 1}
      /\ UNCHANGED <<Buffered, InHand, recorded, dropped>>
  BY DEF Flow!FlowInv, Flow!TypeInv, Flow!Produce, Flow!Add
<1>3. Flow!Complete(d) /\ Flow!Exclusive(d) /\ Flow!Ordered(d)  BY DEF Flow!FlowInv
<1>4. \A e : e \in 1 .. made'[d] <=> e \in 1 .. made[d] \/ e = made[d] + 1
  BY <1>2
<1>5. Flow!Complete(d)'  BY <1>2, <1>3, <1>4 DEF Flow!Complete
<1>6. made[d] + 1 \notin 1 .. made[d]  BY <1>2
<1>7. Flow!Exclusive(d)'  BY <1>2, <1>3, <1>6 DEF Flow!Complete, Flow!Exclusive
<1>8. \A e \in 1 .. made[d] : e < made[d] + 1  BY <1>2
<1>9. Flow!Ordered(d)'  BY <1>2, <1>3, <1>8 DEF Flow!Complete, Flow!Ordered, Flow!Older
<1>10. \A e \in Digis \ {d} : Flow!Complete(e)' /\ Flow!Exclusive(e)' /\ Flow!Ordered(e)'
  <2> SUFFICES ASSUME NEW e \in Digis \ {d}
               PROVE  Flow!Complete(e)' /\ Flow!Exclusive(e)' /\ Flow!Ordered(e)'
    OBVIOUS
  <2>1. made'[e] = made[e] /\ Waiting'[e] = Waiting[e]
    BY DEF Flow!FlowInv, Flow!TypeInv, Flow!Produce, Flow!Add
  <2>2. QED  BY <1>2, <2>1, OtherBoards
<1>11. QED  BY <1>1, <1>5, <1>7, <1>9, <1>10 DEF Flow!FlowInv

\* The older part of the board goes where it is older than nothing that matters.
LEMMA MovePart ==
  ASSUME NEW d \in Digis, NEW S \in SUBSET Waiting[d]
  PROVE  Flow!FlowInv /\ (Flow!Buffer(d, S) \/ Flow!Reject(d, S)) => Flow!FlowInv'
<1> SUFFICES ASSUME Flow!FlowInv, Flow!Buffer(d, S) \/ Flow!Reject(d, S) PROVE Flow!FlowInv'
  OBVIOUS
<1>1. Flow!Complete(d) /\ Flow!Exclusive(d) /\ Flow!Ordered(d)  BY DEF Flow!FlowInv
<1>2. UNCHANGED <<made, InHand, recorded>> /\ Flow!OlderPart(S, d)  BY DEF Flow!Buffer, Flow!Reject
<1>3. Waiting'[d] = Waiting[d] \ S /\ \A e \in Digis \ {d} : Waiting'[e] = Waiting[e]
  BY DEF Flow!FlowInv, Flow!TypeInv, Flow!Buffer, Flow!Reject, Flow!Del
<1>4. CASE Flow!Buffer(d, S)
  <2>1. Buffered'[d] = Buffered[d] \cup S /\ dropped' = dropped
        /\ \A e \in Digis \ {d} : Buffered'[e] = Buffered[e]
    BY <1>4 DEF Flow!FlowInv, Flow!TypeInv, Flow!Buffer, Flow!Add
  <2>2. Flow!TypeInv'  BY <1>4 DEF Flow!FlowInv, Flow!TypeInv, Flow!Buffer, Flow!Add, Flow!Del
  <2>3. Flow!Complete(d)'  BY <1>1, <1>2, <1>3, <2>1 DEF Flow!Complete
  <2>4. Flow!Exclusive(d)'  BY <1>1, <1>2, <1>3, <2>1 DEF Flow!Exclusive
  <2>5. Flow!Ordered(d)'  BY <1>1, <1>2, <1>3, <2>1 DEF Flow!Ordered, Flow!Older, Flow!OlderPart
  <2>6. \A e \in Digis \ {d} : Flow!Complete(e)' /\ Flow!Exclusive(e)' /\ Flow!Ordered(e)'
    BY <1>2, <1>3, <2>1, OtherBoards
  <2>7. QED  BY <2>2, <2>3, <2>4, <2>5, <2>6 DEF Flow!FlowInv
<1>5. CASE Flow!Reject(d, S)
  <2>1. dropped'[d] = dropped[d] \cup S /\ Buffered' = Buffered
        /\ \A e \in Digis \ {d} : dropped'[e] = dropped[e]
    BY <1>5 DEF Flow!FlowInv, Flow!TypeInv, Flow!Reject, Flow!Add
  <2>2. Flow!TypeInv'  BY <1>5 DEF Flow!FlowInv, Flow!TypeInv, Flow!Reject, Flow!Add, Flow!Del
  <2>3. Flow!Complete(d)'  BY <1>1, <1>2, <1>3, <2>1 DEF Flow!Complete
  <2>4. Flow!Exclusive(d)'  BY <1>1, <1>2, <1>3, <2>1 DEF Flow!Exclusive
  <2>5. Flow!Ordered(d)'  BY <1>1, <1>2, <1>3, <2>1 DEF Flow!Ordered, Flow!Older
  <2>6. \A e \in Digis \ {d} : Flow!Complete(e)' /\ Flow!Exclusive(e)' /\ Flow!Ordered(e)'
    BY <1>2, <1>3, <2>1, OtherBoards
  <2>7. QED  BY <2>2, <2>3, <2>4, <2>5, <2>6 DEF Flow!FlowInv
<1>6. QED  BY <1>4, <1>5

LEMMA TakeInv ==
  ASSUME NEW d \in Digis, NEW p \in Procs PROVE Flow!FlowInv /\ Flow!Take(p, d) => Flow!FlowInv'
<1> SUFFICES ASSUME Flow!FlowInv, Flow!Take(p, d) PROVE Flow!FlowInv'
  OBVIOUS
<1>1. Flow!Complete(d) /\ Flow!Exclusive(d) /\ Flow!Ordered(d)  BY DEF Flow!FlowInv
<1>2. UNCHANGED <<made, Waiting, recorded, dropped>> /\ InHand[p][d] = {}  BY
     DEF Flow!Take, Flow!Nothing
<1>3. /\ Buffered'[d] = {} /\ InHand'[p][d] = Buffered[d]
      /\ \A q \in Procs \ {p} : InHand'[q][d] = InHand[q][d]
  BY DEF Flow!FlowInv, Flow!TypeInv, Flow!Take
<1>4. Flow!TypeInv'
  <2>1. [InHand[p] EXCEPT ![d] = Buffered[d]] \in [Digis -> SUBSET Nat]
    BY DEF Flow!FlowInv, Flow!TypeInv
  <2>2. InHand' = [InHand EXCEPT ![p] = [InHand[p] EXCEPT ![d] = Buffered[d]]]
    BY DEF Flow!FlowInv, Flow!TypeInv, Flow!Take
  <2>3. InHand' \in [Procs -> [Digis -> SUBSET Nat]]
    BY <2>1, <2>2 DEF Flow!FlowInv, Flow!TypeInv
  <2>4. QED  BY <1>2, <2>3 DEF Flow!FlowInv, Flow!TypeInv, Flow!Take
<1>5. Flow!Complete(d)'  BY <1>1, <1>2, <1>3 DEF Flow!Complete
<1>6. Flow!Exclusive(d)'  BY <1>1, <1>2, <1>3 DEF Flow!Exclusive
<1>7. Flow!Ordered(d)'  BY <1>1, <1>2, <1>3 DEF Flow!Ordered, Flow!Older
<1>8. \A e \in Digis \ {d} : Flow!Complete(e)' /\ Flow!Exclusive(e)' /\ Flow!Ordered(e)'
  <2>1. \A e \in Digis \ {d} :
          Buffered'[e] = Buffered[e] /\ \A q \in Procs : InHand'[q][e] = InHand[q][e]
    BY DEF Flow!FlowInv, Flow!TypeInv, Flow!Take
  <2>2. QED  BY <1>2, <2>1, OtherBoards
<1>9. QED  BY <1>4, <1>5, <1>6, <1>7, <1>8 DEF Flow!FlowInv

LEMMA FinishInv ==
  ASSUME NEW d \in Digis, NEW p \in Procs PROVE Flow!FlowInv /\ Flow!Finish(p, d) => Flow!FlowInv'
<1> SUFFICES ASSUME Flow!FlowInv, Flow!Finish(p, d) PROVE Flow!FlowInv'
  OBVIOUS
<1>1. Flow!Complete(d) /\ Flow!Exclusive(d) /\ Flow!Ordered(d)  BY DEF Flow!FlowInv
<1>2. UNCHANGED <<made, Waiting, Buffered>>  BY DEF Flow!Finish
<1>3. InHand'[p][d] = {} /\ \A q \in Procs \ {p} : InHand'[q][d] = InHand[q][d]
  BY DEF Flow!FlowInv, Flow!TypeInv, Flow!Finish, Flow!Nothing
<1>4. \/ recorded'[d] = recorded[d] \cup InHand[p][d] /\ dropped'[d] = dropped[d]
      \/ dropped'[d] = dropped[d] \cup InHand[p][d] /\ recorded'[d] = recorded[d]
  BY DEF Flow!FlowInv, Flow!TypeInv, Flow!Finish, Flow!Add
<1>5. Flow!TypeInv'
  <2>1. InHand' \in [Procs -> [Digis -> SUBSET Nat]]
    BY DEF Flow!FlowInv, Flow!TypeInv, Flow!Finish, Flow!Nothing
  <2>2. InHand[p][d] \in SUBSET Nat  BY DEF Flow!FlowInv, Flow!TypeInv
  <2>3. QED  BY <1>2, <2>1, <2>2 DEF Flow!FlowInv, Flow!TypeInv, Flow!Finish, Flow!Add
<1>6. Flow!Complete(d)'  BY <1>1, <1>2, <1>3, <1>4 DEF Flow!Complete
<1>7. Flow!Exclusive(d)'  BY <1>1, <1>2, <1>3, <1>4 DEF Flow!Exclusive
<1>8. Flow!Ordered(d)'  BY <1>1, <1>2, <1>3 DEF Flow!Ordered, Flow!Older
<1>9. \A e \in Digis \ {d} : Flow!Complete(e)' /\ Flow!Exclusive(e)' /\ Flow!Ordered(e)'
  <2>1. \A e \in Digis \ {d} : recorded'[e] = recorded[e] /\ dropped'[e] = dropped[e]
    BY DEF Flow!FlowInv, Flow!TypeInv, Flow!Finish, Flow!Add
  <2>2. \A e \in Digis \ {d}, q \in Procs : InHand'[q][e] = InHand[q][e]
    BY DEF Flow!FlowInv, Flow!TypeInv, Flow!Finish, Flow!Nothing
  <2>3. QED  BY <1>2, <2>1, <2>2, OtherBoards
<1>10. QED  BY <1>5, <1>6, <1>7, <1>8, <1>9 DEF Flow!FlowInv

LEMMA FlowInvStep == Flow!FlowInv /\ [Flow!Next]_(Flow!vars) => Flow!FlowInv'
<1>1. Flow!FlowInv /\ Flow!NewBoards => Flow!FlowInv'
  BY DEF Flow!NewBoards, Flow!Clear, Flow!Nothing, Flow!FlowInv, Flow!TypeInv, Flow!Complete,
         Flow!Exclusive, Flow!Ordered, Flow!Older
<1>2. Flow!FlowInv /\ UNCHANGED Flow!vars => Flow!FlowInv'
  BY DEF Flow!vars, Flow!FlowInv, Flow!TypeInv, Flow!Complete, Flow!Exclusive, Flow!Ordered, Flow!Older
<1>3. QED  BY <1>1, <1>2, ProduceInv, MovePart, TakeInv, FinishInv DEF Flow!Next

\* Whatever follows EventFlow, every event of a run is in exactly one place at any time, and
\* a processor's events are older than all that it left.
THEOREM FlowIsExact == FlowSpec => []Flow!FlowInv
  BY InitFlowInv, FlowInvStep, PTL DEF FlowSpec, Flow!Spec

-----------------------------------------------------------------------------
(* Every step of Readout is a step of EventFlow.                           *)

\* A transfer that goes on has moved something, and all it left came later.
CarryOlder ==
  /\ rpc = "lock" => carry # {}
  /\ \A d \in Digis : Before(InCarry(d), fifo[d])

\* A processor that is not between its swap and its insert has nothing.
EmptyHands == \A p \in Procs : ppc[p] \notin {"take", "parse"} => held[p].bufs = <<>>

PathInv == CarryOlder /\ EmptyHands
PipeInv == SafeInv /\ PathInv /\ Flow!FlowInv

LEMMA NoBlocks == EventsOf(<<>>) = {}
  BY DEF EventsOf

LEMMA EventsOfAppend ==
  ASSUME NEW s \in Seq(SUBSET Events), NEW b \in SUBSET Events
  PROVE  EventsOf(Append(s, b)) = EventsOf(s) \cup b
<1>1. /\ Len(Append(s, b)) = Len(s) + 1 /\ Append(s, b)[Len(s) + 1] = b
      /\ \A i \in 1 .. Len(s) : Append(s, b)[i] = s[i]
  OBVIOUS
<1>2. DOMAIN Append(s, b) = 1 .. Len(s) + 1 /\ DOMAIN s = 1 .. Len(s)
  OBVIOUS
<1>3. Len(s) \in Nat  OBVIOUS
<1>4. ASSUME NEW e \in EventsOf(Append(s, b)) PROVE e \in EventsOf(s) \cup b
  BY <1>1, <1>2, <1>3 DEF EventsOf
<1>5. ASSUME NEW e \in EventsOf(s) PROVE e \in EventsOf(Append(s, b))
  BY <1>1, <1>2, <1>3 DEF EventsOf
<1>6. ASSUME NEW e \in b PROVE e \in EventsOf(Append(s, b))
  BY <1>1, <1>2, <1>3 DEF EventsOf
<1>7. QED  BY <1>4, <1>5, <1>6

\* An action that moves no event.
LEMMA NothingMoves ==
  ASSUME UNCHANGED <<made, fifo, recorded, dropped>>,
         \A d \in Digis : InCarry(d)' = InCarry(d),
         \A d \in Digis : EventsOf(bufs'[d]) = EventsOf(bufs[d]),
         \A d \in Digis, p \in Procs : HeldBy(d, p)' = HeldBy(d, p)
  PROVE  UNCHANGED Flow!vars
<1>1. [d \in Digis |-> fifo[d] \cup InCarry(d)]' = [d \in Digis |-> fifo[d] \cup InCarry(d)]
  OBVIOUS
<1>2. [d \in Digis |-> EventsOf(bufs[d])]' = [d \in Digis |-> EventsOf(bufs[d])]
  OBVIOUS
<1>3. [p \in Procs |-> [d \in Digis |-> HeldBy(d, p)]]'
        = [p \in Procs |-> [d \in Digis |-> HeldBy(d, p)]]
  OBVIOUS
<1>4. QED  BY <1>1, <1>2, <1>3 DEF Flow!vars, Waiting, Buffered, InHand

LEMMA PartMoves ==
  ASSUME NEW d \in Digis, NEW S, S \subseteq fifo[d] \cup InCarry(d),
         Flow!Buffer(d, S) \/ Flow!Reject(d, S)
  PROVE  Flow!Next
<1>1. S \in SUBSET Waiting[d]
  BY DEF Waiting
<1>2. \E T \in SUBSET Waiting[d] : Flow!Buffer(d, T) \/ Flow!Reject(d, T)
  BY <1>1, Zenon
<1>3. QED  BY <1>2, Zenon DEF Flow!Next

LEMMA TriggerFlow ==
  ASSUME NEW d \in Digis PROVE PipeInv /\ Trigger(d) => Flow!Produce(d) /\ PathInv'
<1> SUFFICES ASSUME PipeInv, Trigger(d) PROVE Flow!Produce(d) /\ PathInv'
  OBVIOUS
<1>1. /\ made[d] < MaxEvents /\ made' = [made EXCEPT ![d] = @ + 1]
      /\ fifo' = [fifo EXCEPT ![d] = @ \cup {made[d] + 1}]
      /\ UNCHANGED <<bufs, rpc, rx, carry, ppc, px, held, recorded, dropped>>
  BY DEF Trigger, readerVars, procVars, recVars
<1>2. /\ \A e \in Digis : InCarry(e)' = InCarry(e)
      /\ \A e \in Digis, p \in Procs : HeldBy(e, p)' = HeldBy(e, p)
  BY <1>1 DEF InCarry, HeldBy
<1>3. /\ fifo'[d] = fifo[d] \cup {made[d] + 1}
      /\ \A e \in Digis \ {d} : fifo'[e] = fifo[e]
  BY <1>1 DEF PipeInv, SafeInv, TypeInv, TypeBoards
<1>4. Flow!Produce(d)
  BY <1>1, <1>2, <1>3 DEF Flow!Produce, Flow!Add, Waiting, Buffered, InHand
<1>5. CarryOlder'
  <2>1. \A f \in InCarry(d) : f < made[d] + 1
    <3>1. made[d] \in Nat  BY DEF PipeInv, SafeInv, TypeInv, TypeBoards
    <3>2. \A f \in InCarry(d) : f \in 1 .. made[d]
      BY DEF PipeInv, Flow!FlowInv, Flow!Complete, Waiting, Buffered, InHand
    <3>3. QED  BY <3>1, <3>2
  <2>2. \A e \in Digis : Before(InCarry(e), fifo[e])  BY DEF PipeInv, PathInv, CarryOlder
  <2>3. \A e \in Digis : Before(InCarry(e), fifo'[e])
    BY <1>3, <2>1, <2>2 DEF Before
  <2>4. QED
    BY <1>1, <1>2, <2>3 DEF PipeInv, PathInv, CarryOlder, Before
<1>6. EmptyHands'  BY <1>1 DEF PipeInv, PathInv, EmptyHands
<1>7. QED  BY <1>4, <1>5, <1>6 DEF PathInv

\* Both vectors' part of a push_back that the processors can see.
LEMMA PushBufferFlow ==
  ASSUME PipeInv, PushBuffer, NEW d \in Digis, d = rx, NEW S, S = carry
  PROVE  Flow!Buffer(d, S) /\ S \subseteq fifo[d] \cup InCarry(d)
<1>1. /\ rx \in Digis /\ rpc = "lock" /\ rpc' = "size"
      /\ bufs' = [bufs EXCEPT ![rx] = Append(@, carry)]
      /\ UNCHANGED <<made, fifo, rx, carry, ppc, px, held, recorded, dropped>>
  BY DEF PipeInv, SafeInv, TypeInv, ReaderInv, ReaderIndex, PushBuffer, procVars, recVars
<1>2. /\ InCarry(rx) = carry /\ \A e \in Digis \ {rx} : InCarry(e) = {}
      /\ \A e \in Digis : InCarry(e)' = {}
  BY <1>1 DEF InCarry
<1>3. carry # {} /\ Before(carry, fifo[rx])
  BY <1>1, <1>2 DEF PipeInv, PathInv, CarryOlder
<1>4. carry \in SUBSET Events /\ fifo[rx] \in SUBSET Events /\ Events \subseteq Nat
  BY <1>1 DEF PipeInv, SafeInv, TypeInv, TypeBoards, ReaderInv, TypeReader, Events
<1>5. fifo[rx] \cap carry = {}
  <2>1. \A e \in Nat : ~(e < e)  OBVIOUS
  <2>2. QED  BY <1>3, <1>4, <2>1 DEF Before
<1>6. EventsOf(bufs'[rx]) = EventsOf(bufs[rx]) \cup carry
  BY <1>1, <1>4, EventsOfAppend DEF PipeInv, SafeInv, TypeInv, TypeBoards
<1>7. \A e \in Digis \ {rx} : EventsOf(bufs'[e]) = EventsOf(bufs[e])
  BY <1>1 DEF PipeInv, SafeInv, TypeInv, TypeBoards
<1>8. \A e \in Digis, p \in Procs : HeldBy(e, p)' = HeldBy(e, p)
  BY <1>1 DEF HeldBy
<1>9. Flow!OlderPart(S, d)
  BY <1>1, <1>2, <1>3, <1>5 DEF Flow!OlderPart, Before, Waiting, Buffered, InHand
<1>10. [e \in Digis |-> fifo[e] \cup InCarry(e)]'
         = [[e \in Digis |-> fifo[e] \cup InCarry(e)] EXCEPT ![d] = @ \ S]
  BY <1>1, <1>2, <1>5
<1>11. [e \in Digis |-> EventsOf(bufs[e])]'
         = [[e \in Digis |-> EventsOf(bufs[e])] EXCEPT ![d] = @ \cup S]
  BY <1>1, <1>6, <1>7
<1>12. Flow!Buffer(d, S)
  BY <1>1, <1>8, <1>9, <1>10, <1>11 DEF Flow!Buffer, Flow!Add, Flow!Del, Waiting, Buffered, InHand
<1>13. QED  BY <1>2, <1>12

LEMMA RejectFlow ==
  ASSUME PipeInv, TransferRejected, NEW d \in Digis, d = rx
  PROVE  \E S \in SUBSET fifo[d] : Flow!Reject(d, S)
<1>1. PICK S \in (SUBSET fifo[rx]) \ {{}} :
        /\ S = fifo[rx] \/ Before(S, fifo[rx] \ S)
        /\ fifo' = [fifo EXCEPT ![rx] = @ \ S]
        /\ dropped' = [dropped EXCEPT ![rx] = @ \cup S]
  BY DEF TransferRejected
<1>2. /\ rx \in Digis /\ rpc = "transfer" /\ rpc' = "visit"
      /\ UNCHANGED <<made, bufs, ppc, px, held, recorded>>
  BY DEF PipeInv, SafeInv, TypeInv, ReaderInv, ReaderIndex, TransferRejected, ReadNext, procVars
<1>3. \A e \in Digis : InCarry(e) = {} /\ InCarry(e)' = {}
  BY <1>2 DEF InCarry
<1>4. /\ fifo'[rx] = fifo[rx] \ S /\ \A e \in Digis \ {rx} : fifo'[e] = fifo[e]
  BY <1>1, <1>2 DEF PipeInv, SafeInv, TypeInv, TypeBoards
<1>5. \A e \in Digis, p \in Procs : HeldBy(e, p)' = HeldBy(e, p)
  BY <1>2 DEF HeldBy
<1>6. Flow!OlderPart(S, d)
  <2>1. [e \in Digis |-> fifo[e] \cup InCarry(e)][d] = fifo[d]  BY <1>3
  <2>2. S # {} /\ S \subseteq fifo[d]  BY <1>1
  <2>3. ASSUME NEW e \in S, NEW f \in fifo[d], f \notin S PROVE e < f
    BY <1>1, <2>2, <2>3 DEF Before
  <2>4. QED  BY <2>1, <2>2, <2>3 DEF Flow!OlderPart, Waiting, Buffered, InHand
<1>7. [e \in Digis |-> fifo[e] \cup InCarry(e)]'
         = [[e \in Digis |-> fifo[e] \cup InCarry(e)] EXCEPT ![d] = @ \ S]
  BY <1>2, <1>3, <1>4
<1>8. Flow!Reject(d, S)
  BY <1>1, <1>2, <1>5, <1>6, <1>7 DEF Flow!Reject, Flow!Add, Flow!Del, Waiting, Buffered, InHand
<1>9. QED  BY <1>1, <1>8

\* All the other steps of the read thread move nothing between the places of EventFlow.
LEMMA ReaderFlow == PipeInv /\ ReadThread => [Flow!Next]_(Flow!vars) /\ PathInv'
<1> SUFFICES ASSUME PipeInv, ReadThread PROVE [Flow!Next]_(Flow!vars) /\ PathInv'
  OBVIOUS
<1>1. UNCHANGED <<made, recorded, ppc, px, held>>
  BY DEF ReadThread, ReadVisit, TransferBlock, TransferNothing, TransferRejected, TransferError,
         PushBuffer, PushSize, ReadRoundEnd, procVars, recVars, boardVars
<1>2. \A d \in Digis, p \in Procs : HeldBy(d, p)' = HeldBy(d, p)
  BY <1>1 DEF HeldBy
<1>3. EmptyHands'  BY <1>1 DEF PipeInv, PathInv, EmptyHands
<1>4. \A d \in Digis : Before({}, fifo'[d]) /\ (\A S : Before(S, {}))
  BY DEF Before
<1>5. CASE PushBuffer
  <2>1. rpc' = "size"  BY <1>5 DEF PushBuffer
  <2>2. \A d \in Digis : InCarry(d)' = {}  BY <2>1 DEF InCarry
  <2>3. CarryOlder'  BY <1>4, <2>1, <2>2 DEF CarryOlder, Before
  <2>4. rx \in Digis  BY <1>5 DEF PushBuffer, PipeInv, SafeInv, TypeInv, ReaderInv, ReaderIndex
  <2>5. Flow!Next  BY <1>5, <2>4, PushBufferFlow, PartMoves
  <2>6. QED  BY <1>3, <2>3, <2>5 DEF PathInv
<1>6. CASE TransferRejected
  <2>1. rpc' = "visit"  BY <1>6 DEF TransferRejected, ReadNext
  <2>2. \A d \in Digis : InCarry(d)' = {}  BY <2>1 DEF InCarry
  <2>3. CarryOlder'  BY <1>4, <2>1, <2>2 DEF CarryOlder, Before
  <2>4. rx \in Digis
    BY <1>6 DEF TransferRejected, PipeInv, SafeInv, TypeInv, ReaderInv, ReaderIndex
  <2>5. PICK S \in SUBSET fifo[rx] : Flow!Reject(rx, S)  BY <1>6, <2>4, RejectFlow
  <2>6. Flow!Next  BY <2>4, <2>5, PartMoves
  <2>7. QED  BY <1>3, <2>3, <2>6 DEF PathInv
<1>7. CASE TransferBlock
  <2>1. /\ rpc = "transfer" /\ rpc' = "lock" /\ rx' = rx /\ fifo[rx] # {} /\ carry' = fifo[rx]
        /\ fifo' = [fifo EXCEPT ![rx] = {}] /\ bufs' = bufs /\ dropped' = dropped
        /\ rx \in Digis
    BY <1>7 DEF TransferBlock, recVars, PipeInv, SafeInv, TypeInv, ReaderInv, ReaderIndex
  <2>2. /\ fifo'[rx] = {} /\ \A d \in Digis \ {rx} : fifo'[d] = fifo[d]
    BY <2>1 DEF PipeInv, SafeInv, TypeInv, TypeBoards
  <2>3. /\ \A d \in Digis : InCarry(d) = {}
        /\ InCarry(rx)' = fifo[rx] /\ \A d \in Digis \ {rx} : InCarry(d)' = {}
    BY <2>1 DEF InCarry
  <2>4. [d \in Digis |-> fifo[d] \cup InCarry(d)]' = [d \in Digis |-> fifo[d] \cup InCarry(d)]
    BY <2>1, <2>2, <2>3
  <2>5. UNCHANGED Flow!vars
    <3>1. [p \in Procs |-> [d \in Digis |-> HeldBy(d, p)]]'
            = [p \in Procs |-> [d \in Digis |-> HeldBy(d, p)]]
      BY <1>2
    <3>2. [d \in Digis |-> EventsOf(bufs[d])]' = [d \in Digis |-> EventsOf(bufs[d])]
      BY <2>1
    <3>3. QED  BY <1>1, <2>1, <2>4, <3>1, <3>2 DEF Flow!vars, Waiting, Buffered, InHand
  <2>6. CarryOlder'  BY <1>4, <2>1, <2>2, <2>3 DEF CarryOlder, Before
  <2>7. QED  BY <1>3, <2>5, <2>6 DEF PathInv
<1>8. CASE ~(PushBuffer \/ TransferRejected \/ TransferBlock)
  <2>1. /\ rpc # "lock" /\ rpc' # "lock" /\ UNCHANGED <<fifo, bufs, dropped>>
    BY <1>8 DEF ReadThread, ReadVisit, TransferNothing, TransferError, PushSize, ReadRoundEnd,
                ReadNext, boardVars, recVars
  <2>2. \A d \in Digis : InCarry(d) = {} /\ InCarry(d)' = {}
    BY <2>1 DEF InCarry
  <2>3. UNCHANGED Flow!vars  BY <1>1, <1>2, <2>1, <2>2, NothingMoves
  <2>4. CarryOlder'  BY <1>4, <2>1, <2>2 DEF CarryOlder, Before
  <2>5. QED  BY <1>3, <2>3, <2>4 DEF PathInv
<1>9. QED  BY <1>5, <1>6, <1>7, <1>8

\* The swap is Take, the insert is Finish, and the rest of a processor's round moves nothing.
LEMMA SwapFlow ==
  ASSUME PipeInv, NEW p \in Procs, ProcSwapBuffers(p), NEW d \in Digis, d = px[p]
  PROVE  Flow!Take(p, d)
<1>1. /\ ppc[p] = "swap" /\ px' = px
      /\ held' = [held EXCEPT ![p].bufs = bufs[d]] /\ bufs' = [bufs EXCEPT ![d] = <<>>]
      /\ UNCHANGED <<made, fifo, rpc, rx, carry, recorded, dropped>>
  BY DEF ProcSwapBuffers, readerVars, recVars
<1>2. /\ held'[p].bufs = bufs[d] /\ bufs'[d] = <<>>
      /\ \A q \in Procs \ {p} : held'[q] = held[q]
      /\ \A e \in Digis \ {d} : bufs'[e] = bufs[e]
  BY <1>1 DEF PipeInv, SafeInv, TypeInv, TypeBoards, ProcInv, TypeProcs
<1>3. \A e \in Digis : HeldBy(e, p) = {}
  BY <1>1, NoBlocks DEF HeldBy, PipeInv, PathInv, EmptyHands
<1>4. \A e \in Digis : HeldBy(e, p)' = IF e = d THEN EventsOf(bufs[d]) ELSE {}
  BY <1>1, <1>2 DEF HeldBy
<1>5. \A q \in Procs \ {p}, e \in Digis : HeldBy(e, q)' = HeldBy(e, q)
  BY <1>1, <1>2 DEF HeldBy
<1>6. \A e \in Digis : InCarry(e)' = InCarry(e)
  BY <1>1 DEF InCarry
<1>7. [e \in Digis |-> EventsOf(bufs[e])]'
        = [[e \in Digis |-> EventsOf(bufs[e])] EXCEPT ![d] = {}]
  BY <1>2, NoBlocks
<1>8. [q \in Procs |-> [e \in Digis |-> HeldBy(e, q)]]'
        = [[q \in Procs |-> [e \in Digis |-> HeldBy(e, q)]] EXCEPT ![p][d] = EventsOf(bufs[d])]
  BY ZenonT(60), <1>3, <1>4, <1>5
<1>9. [q \in Procs |-> [e \in Digis |-> HeldBy(e, q)]][p] = [e \in Digis |-> {}]
  BY <1>3
<1>10. QED
  BY <1>1, <1>6, <1>7, <1>8, <1>9 DEF Flow!Take, Flow!Nothing, Waiting, Buffered, InHand

LEMMA RecordFlow ==
  ASSUME PipeInv, NEW p \in Procs, ProcRecord(p), NEW d \in Digis, d = px[p]
  PROVE  Flow!Finish(p, d)
<1>1. /\ held' = [held EXCEPT ![p] = NothingHeld] /\ px' = [px EXCEPT ![p] = @ + 1]
      /\ UNCHANGED <<made, fifo, bufs, rpc, rx, carry>>
      /\ \/ recorded' = [recorded EXCEPT ![d] = @ \cup EventsOf(held[p].bufs)]
            /\ dropped' = dropped
         \/ dropped' = [dropped EXCEPT ![d] = @ \cup EventsOf(held[p].bufs)]
            /\ recorded' = recorded
  BY DEF ProcRecord, ProcNext, readerVars, boardVars
<1>2. /\ held'[p].bufs = <<>> /\ \A q \in Procs \ {p} : held'[q] = held[q] /\ px'[q] = px[q]
  BY <1>1 DEF PipeInv, SafeInv, TypeInv, ProcInv, TypeProcs, NothingHeld
<1>3. /\ HeldBy(d, p) = EventsOf(held[p].bufs)
      /\ \A e \in Digis \ {d} : HeldBy(e, p) = {}
  BY DEF HeldBy
<1>4. /\ \A e \in Digis : HeldBy(e, p)' = {}
      /\ \A q \in Procs \ {p}, e \in Digis : HeldBy(e, q)' = HeldBy(e, q)
  BY <1>2, NoBlocks DEF HeldBy
<1>5. \A e \in Digis : InCarry(e)' = InCarry(e)
  BY <1>1 DEF InCarry
<1>6. [q \in Procs |-> [e \in Digis |-> HeldBy(e, q)]]'
        = [[q \in Procs |-> [e \in Digis |-> HeldBy(e, q)]] EXCEPT ![p] = [e \in Digis |-> {}]]
  BY <1>4
<1>7. [q \in Procs |-> [e \in Digis |-> HeldBy(e, q)]][p][d] = EventsOf(held[p].bufs)
      /\ \A e \in Digis \ {d} : [q \in Procs |-> [c \in Digis |-> HeldBy(c, q)]][p][e] = {}
  BY <1>3
<1>8. QED
  BY <1>1, <1>5, <1>6, <1>7 DEF Flow!Finish, Flow!Add, Flow!Nothing, Waiting, Buffered, InHand

LEMMA ProcFlow ==
  ASSUME NEW p \in Procs PROVE PipeInv /\ Process(p) => [Flow!Next]_(Flow!vars) /\ PathInv'
<1> SUFFICES ASSUME PipeInv, Process(p) PROVE [Flow!Next]_(Flow!vars) /\ PathInv'
  OBVIOUS
<1>1. UNCHANGED <<made, fifo, rpc, rx, carry>>
  BY DEF Process, ProcStart, ProcVisit, ProcDefer, ProcTryLock, ProcSwapBuffers, ProcTakeSizes,
         ProcRecord, ProcRoundEnd, readerVars, boardVars
<1>2. \A q \in Procs \ {p} : ppc'[q] = ppc[q] /\ px'[q] = px[q] /\ held'[q] = held[q]
  BY DEF Process, ProcStart, ProcVisit, ProcDefer, ProcTryLock, ProcSwapBuffers, ProcTakeSizes,
         ProcRecord, ProcRoundEnd, ProcNext, PipeInv, SafeInv, TypeInv, ProcInv, TypeProcs
<1>3. \A d \in Digis : InCarry(d)' = InCarry(d)
  BY <1>1 DEF InCarry
<1>4. CarryOlder'
  BY <1>1, <1>3 DEF PipeInv, PathInv, CarryOlder, Before
<1>5. CASE ProcSwapBuffers(p)
  <2>1. ppc'[p] = "take" /\ px[p] \in Digis
    BY <1>5 DEF ProcSwapBuffers, PipeInv, SafeInv, TypeInv, ProcInv, TypeProcs, ProcIndex
  <2>2. EmptyHands'  BY <1>2, <2>1 DEF PipeInv, PathInv, EmptyHands
  <2>3. Flow!Next  BY <1>5, <2>1, SwapFlow DEF Flow!Next
  <2>4. QED  BY <1>4, <2>2, <2>3 DEF PathInv
<1>6. CASE ProcRecord(p)
  <2>1. px[p] \in Digis /\ held'[p].bufs = <<>>
    BY <1>6 DEF ProcRecord, PipeInv, SafeInv, TypeInv, ProcInv, TypeProcs, ProcIndex, NothingHeld
  <2>2. EmptyHands'  BY <1>2, <2>1 DEF PipeInv, PathInv, EmptyHands
  <2>3. Flow!Next  BY <1>6, <2>1, RecordFlow DEF Flow!Next
  <2>4. QED  BY <1>4, <2>2, <2>3 DEF PathInv
<1>7. CASE ProcTakeSizes(p)
  <2>1. /\ px' = px /\ UNCHANGED <<bufs, recorded, dropped>> /\ ppc'[p] = "parse"
        /\ held'[p].bufs = held[p].bufs
    BY <1>7 DEF ProcTakeSizes, recVars, PipeInv, SafeInv, TypeInv, ProcInv, TypeProcs
  <2>2. EmptyHands'  BY <1>2, <2>1 DEF PipeInv, PathInv, EmptyHands
  <2>3. \A d \in Digis, q \in Procs : HeldBy(d, q)' = HeldBy(d, q)
    BY <1>2, <2>1 DEF HeldBy
  <2>4. UNCHANGED Flow!vars  BY <1>1, <1>3, <2>1, <2>3, NothingMoves
  <2>5. QED  BY <1>4, <2>2, <2>4 DEF PathInv
<1>8. CASE ~(ProcSwapBuffers(p) \/ ProcRecord(p) \/ ProcTakeSizes(p))
  <2>1. /\ ppc[p] \notin {"take", "parse"} /\ ppc'[p] \notin {"take", "parse"}
        /\ UNCHANGED <<held, bufs, recorded, dropped>>
    BY <1>8 DEF Process, ProcStart, ProcVisit, ProcDefer, ProcTryLock, ProcRoundEnd, ProcNext,
                boardVars, recVars, PipeInv, SafeInv, TypeInv, ProcInv, TypeProcs
  <2>2. held[p].bufs = <<>>  BY <2>1 DEF PipeInv, PathInv, EmptyHands
  <2>3. EmptyHands'  BY <1>2, <2>1, <2>2 DEF PipeInv, PathInv, EmptyHands
  <2>4. \A d \in Digis, q \in Procs : HeldBy(d, q)' = HeldBy(d, q)
    BY <1>2, <2>1, <2>2, NoBlocks DEF HeldBy
  <2>5. UNCHANGED Flow!vars  BY <1>1, <1>3, <2>1, <2>4, NothingMoves
  <2>6. QED  BY <1>4, <2>3, <2>5 DEF PathInv
<1>9. QED  BY <1>5, <1>6, <1>7, <1>8

\* New boards come when no thread runs, so no processor has anything of the old ones.
LEMMA NewBoardsFlow ==
  ASSUME PipeInv, DeleteBoards \/ ArmSucceeds PROVE Flow!NewBoards /\ PathInv'
<1>1. \A p \in Procs : ppc[p] = "off"
  BY DEF PipeInv, SafeInv, CloseInv, ThreadsOff, DeleteBoards, ArmSucceeds
<1>2. \A d \in Digis, p \in Procs : HeldBy(d, p) = {}
  BY <1>1, NoBlocks DEF PipeInv, PathInv, EmptyHands, HeldBy
<1>3. ClearBoards /\ ClearThreads /\ rpc' # "lock"
  BY DEF DeleteBoards, ArmSucceeds, PipeInv, SafeInv, CloseInv, ThreadsOff
<1>4. /\ made' = AllBoards(0) /\ fifo' = AllBoards({}) /\ bufs' = AllBoards(<<>>)
      /\ recorded' = AllBoards({}) /\ dropped' = AllBoards({})
      /\ \A p \in Procs : held'[p].bufs = <<>>
  BY <1>3 DEF ClearBoards, ClearThreads, NothingHeld
<1>5. \A d \in Digis : InCarry(d)' = {}  BY <1>3 DEF InCarry
<1>6. \A d \in Digis, p \in Procs : HeldBy(d, p)' = {}  BY <1>4, NoBlocks DEF HeldBy
<1>7. /\ [d \in Digis |-> fifo[d] \cup InCarry(d)]' = [d \in Digis |-> {}]
      /\ [d \in Digis |-> EventsOf(bufs[d])]' = [d \in Digis |-> {}]
      /\ [p \in Procs |-> [d \in Digis |-> HeldBy(d, p)]] = [p \in Procs |-> [d \in Digis |-> {}]]
      /\ [p \in Procs |-> [d \in Digis |-> HeldBy(d, p)]]' = [p \in Procs |-> [d \in Digis |-> {}]]
  BY <1>2, <1>4, <1>5, <1>6, NoBlocks DEF AllBoards
<1>8. Flow!NewBoards
  BY <1>4, <1>7 DEF Flow!NewBoards, Flow!Clear, Flow!Nothing, AllBoards, Waiting, Buffered, InHand
<1>9. PathInv'
  BY <1>3, <1>4, <1>5 DEF PathInv, CarryOlder, EmptyHands, Before
<1>10. QED  BY <1>8, <1>9

LEMMA FlowStep == PipeInv /\ [Next]_vars => [Flow!Next]_(Flow!vars) /\ PathInv'
<1> SUFFICES ASSUME PipeInv, [Next]_vars PROVE [Flow!Next]_(Flow!vars) /\ PathInv'
  OBVIOUS
<1>1. CASE \E d \in Digis : Trigger(d)
  BY <1>1, TriggerFlow DEF Flow!Next
<1>2. CASE DeleteBoards \/ ArmSucceeds
  BY <1>2, NewBoardsFlow DEF Flow!Next
<1>3. CASE Command \/ Deactivate \/ JoinThreads \/ ArmFails \/ RemoteSIn \/ UNCHANGED vars
  <2>1. /\ UNCHANGED <<made, fifo, bufs, px, held, recorded, dropped>>
        /\ UNCHANGED <<rpc, rx, carry, ppc>>
           \/ /\ rpc # "lock" /\ rpc' = "off" /\ rx' = rx /\ ppc' = [p \in Procs |-> "off"]
              /\ \A p \in Procs : ppc[p] \in {"off", "done"}
    BY <1>3 DEF Command, ArmRejected, ArmCommand, SleepCommand, MasterLost, StopCommand,
                StartCommand, Deactivate, JoinThreads, ArmFails, RemoteSIn, vars, boardVars,
                readerVars, procVars, recVars
  <2>2. /\ \A d \in Digis : InCarry(d)' = InCarry(d)
        /\ \A d \in Digis, p \in Procs : HeldBy(d, p)' = HeldBy(d, p)
    BY <2>1 DEF InCarry, HeldBy
  <2>3. UNCHANGED Flow!vars  BY <2>1, <2>2, NothingMoves
  <2>4. PathInv'
    BY <2>1, <2>2 DEF PipeInv, PathInv, CarryOlder, EmptyHands, Before
  <2>5. QED  BY <2>3, <2>4
<1>4. QED
  BY <1>1, <1>2, <1>3, ReaderFlow, ProcFlow DEF Next, MainThread

LEMMA InitFlow == Init => PathInv /\ Flow!Init
<1> SUFFICES ASSUME Init PROVE PathInv /\ Flow!Init
  OBVIOUS
<1>1. \A d \in Digis : fifo[d] = {} /\ InCarry(d) = {} /\ bufs[d] = <<>>
  BY DEF Init, AllBoards, InCarry
<1>2. \A p \in Procs : held[p].bufs = <<>>  BY DEF Init, NothingHeld
<1>3. \A d \in Digis, p \in Procs : HeldBy(d, p) = {}  BY <1>2, NoBlocks DEF HeldBy
<1>4. PathInv
  BY <1>1, <1>2 DEF Init, PathInv, CarryOlder, EmptyHands, Before
<1>5. /\ [d \in Digis |-> fifo[d] \cup InCarry(d)] = [d \in Digis |-> {}]
      /\ [d \in Digis |-> EventsOf(bufs[d])] = [d \in Digis |-> {}]
      /\ [p \in Procs |-> [d \in Digis |-> HeldBy(d, p)]] = [p \in Procs |-> [d \in Digis |-> {}]]
  BY <1>1, <1>3, NoBlocks
<1>6. Flow!Init
  BY <1>5 DEF Init, Flow!Init, Flow!Clear, Flow!Nothing, AllBoards, Waiting, Buffered, InHand
<1>7. QED  BY <1>4, <1>6

LEMMA PipeInvInit == Init => PipeInv
  BY InitSafeInv, InitFlow, InitFlowInv DEF PipeInv

LEMMA PipeInvStep == PipeInv /\ [Next]_vars => PipeInv'
  BY SafeInvStep, FlowStep, FlowInvStep DEF PipeInv

\* What the threads, their locks and their vectors do to the events of every board, under any
\* interleaving, is what EventFlow allows.
THEOREM ImplementsEventFlow == Spec => FlowSpec
<1>1. PipeInv /\ [Next]_vars => [Flow!Next]_(Flow!vars)  BY FlowStep
<1>2. Init => Flow!Init  BY InitFlow
<1>3. QED
  BY <1>1, <1>2, PipeInvInit, PipeInvStep, PTL DEF Spec, FlowSpec, Flow!Spec

-----------------------------------------------------------------------------
(* What EventFlow promises, said of the pipeline.                          *)

\* FlowInv in the pipeline's own terms.
LEMMA WhereEventsAre ==
  ASSUME PipeInv, NEW d \in Digis
  PROVE  /\ \A e : e \in 1 .. made[d] <=>
              \/ e \in fifo[d] \cup InCarry(d) \/ e \in EventsOf(bufs[d]) \/ e \in recorded[d]
              \/ e \in dropped[d] \/ \E p \in Procs : e \in HeldBy(d, p)
         /\ (fifo[d] \cup InCarry(d)) \cap (EventsOf(bufs[d]) \cup recorded[d] \cup dropped[d]) = {}
         /\ EventsOf(bufs[d]) \cap (recorded[d] \cup dropped[d]) = {}
         /\ recorded[d] \cap dropped[d] = {}
         /\ \A p \in Procs :
              /\ HeldBy(d, p) \cap (fifo[d] \cup InCarry(d) \cup EventsOf(bufs[d]) \cup recorded[d]
                                      \cup dropped[d]) = {}
              /\ \A q \in Procs \ {p} : HeldBy(d, p) \cap HeldBy(d, q) = {}
         /\ Before(EventsOf(bufs[d]), fifo[d] \cup InCarry(d))
         /\ \A p \in Procs :
              Before(HeldBy(d, p), EventsOf(bufs[d]) \cup fifo[d] \cup InCarry(d))
         /\ InCarry(d) \cap fifo[d] = {}
<1>1. Flow!Complete(d) /\ Flow!Exclusive(d) /\ Flow!Ordered(d)
  BY DEF PipeInv, Flow!FlowInv
<1>2. \A e : e \in 1 .. made[d] <=>
        \/ e \in fifo[d] \cup InCarry(d) \/ e \in EventsOf(bufs[d]) \/ e \in recorded[d]
        \/ e \in dropped[d] \/ \E p \in Procs : e \in HeldBy(d, p)
  BY <1>1 DEF Flow!Complete, Waiting, Buffered, InHand
<1>3. /\ (fifo[d] \cup InCarry(d)) \cap (EventsOf(bufs[d]) \cup recorded[d] \cup dropped[d]) = {}
      /\ EventsOf(bufs[d]) \cap (recorded[d] \cup dropped[d]) = {}
      /\ recorded[d] \cap dropped[d] = {}
  BY <1>1 DEF Flow!Exclusive, Waiting, Buffered, InHand
<1>4. \A p \in Procs :
        /\ HeldBy(d, p) \cap (fifo[d] \cup InCarry(d) \cup EventsOf(bufs[d]) \cup recorded[d]
                                \cup dropped[d]) = {}
        /\ \A q \in Procs \ {p} : HeldBy(d, p) \cap HeldBy(d, q) = {}
  BY <1>1 DEF Flow!Exclusive, Waiting, Buffered, InHand
<1>5. /\ Before(EventsOf(bufs[d]), fifo[d] \cup InCarry(d))
      /\ \A p \in Procs : Before(HeldBy(d, p), EventsOf(bufs[d]) \cup fifo[d] \cup InCarry(d))
  BY <1>1 DEF Flow!Ordered, Flow!Older, Before, Waiting, Buffered, InHand
<1>6. InCarry(d) \cap fifo[d] = {}
  <2>1. Before(InCarry(d), fifo[d])  BY DEF PipeInv, PathInv, CarryOlder
  <2>2. fifo[d] \subseteq Nat
    BY DEF PipeInv, SafeInv, TypeInv, TypeBoards, Events
  <2>3. \A e \in Nat : ~(e < e)  OBVIOUS
  <2>4. QED  BY <2>1, <2>2, <2>3 DEF Before
<1>7. QED  BY <1>2, <1>3, <1>4, <1>5, <1>6

\* Whatever the interleaving of triggers, transfers, push_backs, swaps, inserts and commands,
\* every event of a run is in exactly one place: none is recorded twice, none is lost silently.
THEOREM EventsAccountedFor == Spec => []EachEventOnce
<1>1. PipeInv => EachEventOnce
  <2> SUFFICES ASSUME PipeInv, NEW d \in Digis
               PROVE  /\ UNION {Places(d)[i] : i \in DOMAIN Places(d)} = 1 .. made[d]
                      /\ \A i, j \in DOMAIN Places(d) :
                           i # j => Places(d)[i] \cap Places(d)[j] = {}
                      /\ \A p, q \in Procs : p # q => HeldBy(d, p) \cap HeldBy(d, q) = {}
    BY DEF EachEventOnce
  <2> DEFINE H == UNION {HeldBy(d, p) : p \in Procs}
  <2>0. \A e : e \in H <=> \E p \in Procs : e \in HeldBy(d, p)
    OBVIOUS
  <2> HIDE DEF H
  <2>1. /\ DOMAIN Places(d) = {1, 2, 3, 4, 5, 6}
        /\ Places(d)[1] = fifo[d] /\ Places(d)[2] = InCarry(d) /\ Places(d)[3] = EventsOf(bufs[d])
        /\ Places(d)[4] = H /\ Places(d)[5] = recorded[d] /\ Places(d)[6] = dropped[d]
    BY DEF Places, H
  <2>2. UNION {Places(d)[i] : i \in DOMAIN Places(d)}
          = fifo[d] \cup InCarry(d) \cup EventsOf(bufs[d]) \cup H \cup recorded[d] \cup dropped[d]
    BY <2>1
  <2>3. UNION {Places(d)[i] : i \in DOMAIN Places(d)} = 1 .. made[d]
    BY <2>0, <2>2, WhereEventsAre
  <2>4. /\ fifo[d] \cap InCarry(d) = {}
        /\ (fifo[d] \cup InCarry(d)) \cap (EventsOf(bufs[d]) \cup recorded[d] \cup dropped[d]) = {}
        /\ EventsOf(bufs[d]) \cap (recorded[d] \cup dropped[d]) = {}
        /\ recorded[d] \cap dropped[d] = {}
    BY WhereEventsAre
  <2>5. H \cap (fifo[d] \cup InCarry(d) \cup EventsOf(bufs[d]) \cup recorded[d] \cup dropped[d])
          = {}
    BY <2>0, WhereEventsAre
  <2>6. \A i, j \in DOMAIN Places(d) : i # j => Places(d)[i] \cap Places(d)[j] = {}
    BY <2>1, <2>4, <2>5
  <2>7. QED  BY <2>3, <2>6, WhereEventsAre
<1>2. QED  BY <1>1, PipeInvInit, PipeInvStep, PTL DEF Spec

\* The blocks of a board wait in the order they were read.
BlocksInOrder ==
  \A d \in Digis : \A i, j \in DOMAIN bufs[d] : i < j => Before(bufs[d][i], bufs[d][j])

LEMMA BlocksInOrderStep == PipeInv /\ BlocksInOrder /\ [Next]_vars => BlocksInOrder'
<1> SUFFICES ASSUME PipeInv, BlocksInOrder, [Next]_vars PROVE BlocksInOrder'
  OBVIOUS
<1>1. CASE PushBuffer
  <2>1. rx \in Digis /\ rpc = "lock" /\ bufs' = [bufs EXCEPT ![rx] = Append(@, carry)]
    BY <1>1 DEF PushBuffer, PipeInv, SafeInv, TypeInv, ReaderInv, ReaderIndex
  <2>2. bufs[rx] \in Seq(SUBSET Events) /\ carry \in SUBSET Events
    BY <2>1 DEF PipeInv, SafeInv, TypeInv, TypeBoards, ReaderInv, TypeReader
  <2>3. /\ bufs'[rx] = Append(bufs[rx], carry)
        /\ \A d \in Digis \ {rx} : bufs'[d] = bufs[d]
    BY <2>1 DEF PipeInv, SafeInv, TypeInv, TypeBoards
  <2>4. Before(EventsOf(bufs[rx]), carry)
    <3>1. InCarry(rx) = carry  BY <2>1 DEF InCarry
    <3>2. Before(EventsOf(bufs[rx]), fifo[rx] \cup InCarry(rx))  BY <2>1, WhereEventsAre
    <3>3. QED  BY <3>1, <3>2 DEF Before
  <2>5. \A i \in DOMAIN bufs[rx] : Before(bufs[rx][i], carry)
    BY <2>4 DEF Before, EventsOf
  <2>6. /\ \A i \in 1 .. Len(bufs[rx]) : bufs'[rx][i] = bufs[rx][i]
        /\ bufs'[rx][Len(bufs[rx]) + 1] = carry /\ Len(bufs[rx]) \in Nat
        /\ DOMAIN bufs'[rx] = 1 .. Len(bufs[rx]) + 1 /\ DOMAIN bufs[rx] = 1 .. Len(bufs[rx])
    BY <2>2, <2>3
  <2>7. \A i, j \in DOMAIN bufs'[rx] : i < j => Before(bufs'[rx][i], bufs'[rx][j])
    <3> SUFFICES ASSUME NEW i \in 1 .. Len(bufs[rx]) + 1, NEW j \in 1 .. Len(bufs[rx]) + 1, i < j
                 PROVE  Before(bufs'[rx][i], bufs'[rx][j])
      BY <2>6
    <3>1. i \in 1 .. Len(bufs[rx])  BY <2>6
    <3>2. CASE j = Len(bufs[rx]) + 1  BY <2>5, <2>6, <3>1, <3>2
    <3>3. CASE j # Len(bufs[rx]) + 1
      <4>1. j \in 1 .. Len(bufs[rx])  BY <2>6, <3>3
      <4>2. QED  BY <2>1, <2>6, <3>1, <4>1 DEF BlocksInOrder
    <3>4. QED  BY <3>2, <3>3
  <2>8. QED  BY <2>3, <2>7 DEF BlocksInOrder, Before
<1>2. CASE bufs' = bufs
  BY <1>2 DEF BlocksInOrder, Before
<1>3. CASE \E p \in Procs : ProcSwapBuffers(p)
  <2>1. \A d \in Digis : bufs'[d] = bufs[d] \/ bufs'[d] = <<>>
    BY <1>3 DEF ProcSwapBuffers, PipeInv, SafeInv, TypeInv, TypeBoards
  <2>2. QED  BY <2>1 DEF BlocksInOrder, Before
<1>4. CASE DeleteBoards \/ ArmSucceeds
  <2>1. \A d \in Digis : bufs'[d] = <<>>
    BY <1>4 DEF DeleteBoards, ArmSucceeds, ClearBoards, AllBoards
  <2>2. QED  BY <2>1 DEF BlocksInOrder, Before
<1>5. bufs' = bufs \/ PushBuffer \/ (\E p \in Procs : ProcSwapBuffers(p)) \/ DeleteBoards
      \/ ArmSucceeds
  <2>1. ReadThread => bufs' = bufs \/ PushBuffer
    BY DEF ReadThread, ReadVisit, TransferBlock, TransferNothing, TransferRejected, TransferError,
           PushSize, ReadRoundEnd, boardVars
  <2>2. \A p \in Procs : Process(p) => bufs' = bufs \/ ProcSwapBuffers(p)
    BY DEF Process, ProcStart, ProcVisit, ProcDefer, ProcTryLock, ProcTakeSizes, ProcRecord,
           ProcRoundEnd, boardVars
  <2>3. Command \/ RemoteSIn \/ (\E d \in Digis : Trigger(d)) \/ UNCHANGED vars => bufs' = bufs
    BY DEF Command, ArmRejected, ArmCommand, SleepCommand, MasterLost, StopCommand, StartCommand,
           RemoteSIn, Trigger, vars, boardVars
  <2>4. MainThread => bufs' = bufs \/ DeleteBoards \/ ArmSucceeds
    BY DEF MainThread, Deactivate, JoinThreads, ArmFails, boardVars
  <2>5. QED  BY <2>1, <2>2, <2>3, <2>4 DEF Next
<1>6. QED  BY <1>1, <1>2, <1>3, <1>4, <1>5

\* A board's events reach its processors in the order in which they were produced, block after
\* block and readout after readout: the clock reset counter of ReadoutBuffer relies on it.
THEOREM BoardOrderKept == Spec => []BoardOrder
<1>1. Init => BlocksInOrder  BY DEF Init, AllBoards, BlocksInOrder
<1>2. PipeInv /\ BlocksInOrder => BoardOrder
  <2> SUFFICES ASSUME PipeInv, BlocksInOrder PROVE BoardOrder
    OBVIOUS
  <2>1. \A d \in Digis : Before(InCarry(d), fifo[d])  BY DEF PipeInv, PathInv, CarryOlder
  <2>2. \A d \in Digis : Before(EventsOf(bufs[d]), InCarry(d) \cup fifo[d])
    BY WhereEventsAre DEF Before
  <2>3. \A d \in Digis, p \in Procs :
          Before(HeldBy(d, p), EventsOf(bufs[d]) \cup InCarry(d) \cup fifo[d])
    BY WhereEventsAre DEF Before
  <2>4. QED  BY <2>1, <2>2, <2>3 DEF BoardOrder, BlocksInOrder
<1>3. QED
  BY <1>1, <1>2, PipeInvInit, PipeInvStep, BlocksInOrderStep, PTL DEF Spec

-----------------------------------------------------------------------------
(* fBufferOccSize counts what the buffers hold.                            *)

\* Between its two push_backs the read thread is one block ahead of the occupancy; a processor
\* that is about to take the vectors still finds it exact.
OccInv ==
  /\ OccupancyExact
  /\ rpc = "size" => occ[rx] + Size(carry) = Cardinality(EventsOf(bufs[rx]))
  /\ \A p \in Procs : ppc[p] = "swap" => occ[px[p]] = Cardinality(EventsOf(bufs[px[p]]))

\* An action that leaves occupancy, vectors and lock alone, and starts no work on them.
LEMMA OccFrame ==
  ASSUME OccInv, UNCHANGED <<lock, bufs, occ>>,
         rpc' = "size" => rpc = "size" /\ UNCHANGED <<rx, carry>>,
         \A p \in Procs : ppc'[p] = "swap" => ppc[p] = "swap" /\ px'[p] = px[p]
  PROVE  OccInv'
  BY DEF OccInv, OccupancyExact

LEMMA ReaderOcc == PipeInv /\ OccInv /\ ReadThread => OccInv'
<1> SUFFICES ASSUME PipeInv, OccInv, ReadThread PROVE OccInv'
  OBVIOUS
<1> USE ReadoutAssumption
<1>1. UNCHANGED <<ppc, px>>
  BY DEF ReadThread, ReadVisit, TransferBlock, TransferNothing, TransferRejected, TransferError,
         PushBuffer, PushSize, ReadRoundEnd, procVars
<1>2. \A p \in Procs : ppc[p] = "swap" => px[p] \in Digis /\ lock[px[p]] = p /\ p # Reader
                                          /\ p # None
  BY DEF PipeInv, SafeInv, LockExclusive, Owns, TypeInv, ProcInv, ProcIndex
<1>3. CASE PushBuffer
  <2>1. /\ rx \in Digis /\ rx' = rx /\ rpc' = "size" /\ rpc = "lock" /\ lock[rx] = None
        /\ lock' = [lock EXCEPT ![rx] = Reader] /\ UNCHANGED <<occ, carry>>
        /\ bufs' = [bufs EXCEPT ![rx] = Append(@, carry)]
    BY <1>3 DEF PushBuffer, PipeInv, SafeInv, TypeInv, ReaderInv, ReaderIndex
  <2>2. /\ lock'[rx] = Reader /\ bufs'[rx] = Append(bufs[rx], carry)
        /\ \A d \in Digis : d # rx => lock'[d] = lock[d] /\ bufs'[d] = bufs[d]
        /\ bufs[rx] \in Seq(SUBSET Events) /\ carry \in SUBSET Events
    BY <2>1 DEF PipeInv, SafeInv, TypeInv, TypeBoards, ReaderInv, TypeReader
  <2>3. Cardinality(EventsOf(bufs'[rx])) = occ'[rx] + Size(carry')
    <3>1. EventsOf(bufs'[rx]) = EventsOf(bufs[rx]) \cup carry
      BY <2>2, EventsOfAppend
    <3>2. EventsOf(bufs[rx]) \cap carry = {}
      <4>1. InCarry(rx) = carry  BY <2>1 DEF InCarry
      <4>2. QED  BY <2>1, <4>1, WhereEventsAre
    <3>3. IsFiniteSet(EventsOf(bufs[rx])) /\ IsFiniteSet(carry)
      <4>1. IsFiniteSet(Events)  BY FS_Interval, SMT DEF Events
      <4>2. QED  BY <2>2, <4>1, EventsOfType, FS_Subset
    <3>4. Cardinality(EventsOf(bufs[rx]) \cup carry)
            = Cardinality(EventsOf(bufs[rx])) + Cardinality(carry)
      <4>1. Cardinality(EventsOf(bufs[rx])) \in Nat /\ Cardinality(carry) \in Nat
        BY <3>3, FS_CardinalityType
      <4>2. Cardinality(EventsOf(bufs[rx]) \cap carry) = 0
        BY <3>2, FS_EmptySet
      <4>3. Cardinality(EventsOf(bufs[rx]) \cup carry)
              = Cardinality(EventsOf(bufs[rx])) + Cardinality(carry)
                - Cardinality(EventsOf(bufs[rx]) \cap carry)
        BY <3>3, FS_Union
      <4>4. QED  BY <4>1, <4>2, <4>3
    <3>5. occ[rx] = Cardinality(EventsOf(bufs[rx]))
      BY <2>1 DEF OccInv, OccupancyExact
    <3>6. QED  BY <2>1, <3>1, <3>4, <3>5 DEF Size
  <2>4. \A p \in Procs : ppc[p] = "swap" => px[p] # rx  BY <1>2, <2>1
  <2>5. QED
    BY <1>1, <1>2, <2>1, <2>2, <2>3, <2>4 DEF OccInv, OccupancyExact
<1>4. CASE PushSize
  <2>1. /\ rx \in Digis /\ rpc' = "visit" /\ rpc = "size" /\ lock' = [lock EXCEPT ![rx] = None]
        /\ occ' = [occ EXCEPT ![rx] = @ + Size(carry)] /\ bufs' = bufs
    BY <1>4 DEF PushSize, ReadNext, PipeInv, SafeInv, TypeInv, ReaderInv, ReaderIndex
  <2>2. /\ occ'[rx] = Cardinality(EventsOf(bufs[rx]))
        /\ \A d \in Digis : d # rx => lock'[d] = lock[d] /\ occ'[d] = occ[d]
    BY <2>1 DEF OccInv, PipeInv, SafeInv, TypeInv, TypeBoards
  <2>3. lock[rx] = Reader  BY <2>1 DEF PipeInv, SafeInv, LockExclusive, Owns
  <2>4. \A p \in Procs : ppc[p] = "swap" => px[p] # rx  BY <1>2, <2>3
  <2>5. QED
    BY <1>1, <1>2, <2>1, <2>2, <2>4 DEF OccInv, OccupancyExact
<1>5. CASE ~(PushBuffer \/ PushSize)
  <2>1. rpc' # "size" /\ UNCHANGED <<lock, bufs, occ>>
    BY <1>5 DEF ReadThread, ReadVisit, TransferBlock, TransferNothing, TransferRejected,
                TransferError, ReadRoundEnd, ReadNext, boardVars
  <2>2. QED  BY <1>1, <2>1, OccFrame
<1>6. QED  BY <1>3, <1>4, <1>5

LEMMA ProcOcc ==
  ASSUME NEW p \in Procs PROVE PipeInv /\ OccInv /\ Process(p) => OccInv'
<1> SUFFICES ASSUME PipeInv, OccInv, Process(p) PROVE OccInv'
  OBVIOUS
<1> USE ReadoutAssumption
<1>1. UNCHANGED <<rpc, rx, carry>>
  BY DEF Process, ProcStart, ProcVisit, ProcDefer, ProcTryLock, ProcSwapBuffers, ProcTakeSizes,
         ProcRecord, ProcRoundEnd, readerVars
<1>2. \A q \in Procs \ {p} : ppc'[q] = ppc[q] /\ px'[q] = px[q]
  BY DEF Process, ProcStart, ProcVisit, ProcDefer, ProcTryLock, ProcSwapBuffers, ProcTakeSizes,
         ProcRecord, ProcRoundEnd, ProcNext, PipeInv, SafeInv, TypeInv, ProcInv, TypeProcs
<1>3. /\ \A q \in Procs : ppc[q] \in {"swap", "take"} => px[q] \in Digis /\ lock[px[q]] = q
      /\ rpc = "size" => rx \in Digis /\ lock[rx] = Reader
  BY DEF PipeInv, SafeInv, LockExclusive, Owns, TypeInv, ProcInv, ProcIndex, ReaderInv,
         ReaderIndex
<1>4. CASE ProcTryLock(p) /\ lock[px[p]] = None
  <2>1. /\ px[p] \in Digis /\ px' = px /\ ppc'[p] = "swap"
        /\ lock' = [lock EXCEPT ![px[p]] = p] /\ UNCHANGED <<bufs, occ>>
    BY <1>4 DEF ProcTryLock, PipeInv, SafeInv, TypeInv, ProcInv, TypeProcs, ProcIndex
  <2>2. \A d \in Digis : lock'[d] = None => lock[d] = None
    BY <2>1 DEF PipeInv, SafeInv, TypeInv, TypeBoards
  <2>3. occ[px[p]] = Cardinality(EventsOf(bufs[px[p]]))
    BY <1>4, <2>1 DEF OccInv, OccupancyExact
  <2>4. QED  BY <1>1, <1>2, <2>1, <2>2, <2>3 DEF OccInv, OccupancyExact
<1>5. CASE ProcSwapBuffers(p)
  <2>1. /\ px[p] \in Digis /\ px' = px /\ ppc'[p] = "take" /\ lock[px[p]] = p
        /\ bufs' = [bufs EXCEPT ![px[p]] = <<>>] /\ UNCHANGED <<lock, occ>>
    BY <1>3, <1>5 DEF ProcSwapBuffers, PipeInv, SafeInv, TypeInv, ProcInv, TypeProcs
  <2>2. \A d \in Digis : d # px[p] => bufs'[d] = bufs[d]
    BY <2>1 DEF PipeInv, SafeInv, TypeInv, TypeBoards
  <2>3. /\ \A q \in Procs \ {p} : ppc[q] = "swap" => px[q] # px[p]
        /\ rpc = "size" => rx # px[p]
    BY <1>3, <2>1
  <2>4. QED
    BY <1>1, <1>2, <1>3, <2>1, <2>2, <2>3 DEF OccInv, OccupancyExact
<1>6. CASE ProcTakeSizes(p)
  <2>1. /\ px[p] \in Digis /\ px' = px /\ ppc'[p] = "parse" /\ lock[px[p]] = p
        /\ occ' = [occ EXCEPT ![px[p]] = 0] /\ bufs' = bufs
        /\ lock' = [lock EXCEPT ![px[p]] = None] /\ bufs[px[p]] = <<>>
    BY <1>3, <1>6 DEF ProcTakeSizes, PipeInv, SafeInv, TypeInv, ProcInv, TypeProcs, AlignedInv,
                      HalfDone
  <2>2. occ'[px[p]] = Cardinality(EventsOf(bufs'[px[p]]))
    BY <2>1, NoBlocks, FS_EmptySet DEF PipeInv, SafeInv, TypeInv, TypeBoards
  <2>3. \A d \in Digis : d # px[p] => occ'[d] = occ[d] /\ lock'[d] = lock[d]
    BY <2>1 DEF PipeInv, SafeInv, TypeInv, TypeBoards
  <2>4. /\ \A q \in Procs \ {p} : ppc[q] = "swap" => px[q] # px[p]
        /\ rpc = "size" => rx # px[p]
    BY <1>3, <2>1
  <2>5. QED
    BY <1>1, <1>2, <1>3, <2>1, <2>2, <2>3, <2>4 DEF OccInv, OccupancyExact
<1>7. CASE ~(ProcTakeSizes(p) \/ ProcSwapBuffers(p)) /\ ~(ProcTryLock(p) /\ lock[px[p]] = None)
  <2>1. ppc'[p] # "swap" /\ UNCHANGED <<lock, bufs, occ>>
    BY <1>7 DEF Process, ProcStart, ProcVisit, ProcDefer, ProcTryLock, ProcRecord, ProcRoundEnd,
                ProcNext, boardVars, PipeInv, SafeInv, TypeInv, ProcInv, TypeProcs
  <2>2. QED  BY <1>1, <1>2, <2>1, OccFrame
<1>8. QED  BY <1>4, <1>5, <1>6, <1>7

LEMMA OccStep == PipeInv /\ OccInv /\ [Next]_vars => OccInv'
<1> SUFFICES ASSUME PipeInv, OccInv, [Next]_vars PROVE OccInv'
  OBVIOUS
<1>1. CASE DeleteBoards \/ ArmSucceeds
  <2>1. /\ occ' = AllBoards(0) /\ bufs' = AllBoards(<<>>) /\ rpc' # "size"
        /\ \A p \in Procs : ppc'[p] # "swap"
    BY <1>1 DEF DeleteBoards, ArmSucceeds, ClearBoards, PipeInv, SafeInv, CloseInv, ThreadsOff
  <2>2. QED  BY <2>1, NoBlocks, FS_EmptySet DEF OccInv, OccupancyExact, AllBoards
<1>2. CASE Command \/ Deactivate \/ JoinThreads \/ ArmFails \/ RemoteSIn
           \/ (\E d \in Digis : Trigger(d)) \/ UNCHANGED vars
  <2>1. /\ UNCHANGED <<lock, bufs, occ, rx, carry, px>>
        /\ rpc' = "size" => rpc = "size"
        /\ \A p \in Procs : ppc'[p] = "swap" => ppc[p] = "swap"
    BY <1>2 DEF Command, ArmRejected, ArmCommand, SleepCommand, MasterLost, StopCommand,
                StartCommand, Deactivate, JoinThreads, ArmFails, RemoteSIn, Trigger, vars,
                boardVars, readerVars, procVars
  <2>2. QED  BY <2>1, OccFrame
<1>3. QED  BY <1>1, <1>2, ReaderOcc, ProcOcc DEF Next, MainThread

\* The occupancy a reader reports for a board is what its buffers hold whenever nobody is
\* inside the board's lock, through every interleaving of push_backs and swaps.
THEOREM OccupancyIsExact == Spec => []OccupancyExact
<1>1. Init => OccInv
  BY NoBlocks, FS_EmptySet DEF Init, AllBoards, OccInv, OccupancyExact
<1>2. OccInv => OccupancyExact  BY DEF OccInv
<1>3. QED
  BY <1>1, <1>2, PipeInvInit, PipeInvStep, OccStep, PTL DEF Spec

-----------------------------------------------------------------------------
(* The read thread's last visit of a board.                                *)

\* What the flags of the main thread say of the boards.
ArmedInv ==
  /\ armed => alive /\ hwMode = opts
  /\ running => armed
  /\ armed /\ mpc = "idle" => \A d \in Digis : active[d]
  /\ mpc = "init" => ~armed

\* How far StopRun has deactivated the boards.
StoppedInv ==
  /\ ~alive => \A d \in Digis : ~active[d]
  /\ mpc = "deactivate" => \A d \in Digis : d < mx => ~active[d]
  /\ mpc = "join" => \A d \in Digis : ~active[d]

\* A board this slave gates takes no data once it is inactive, or the run is over.
GatedInv ==
  hwMode # "sinRemote" =>
    /\ \A d \in Digis : acq[d] => active[d]
    /\ ~running => \A d \in Digis : ~acq[d]
    /\ mpc # "idle" /\ hwMode = "sinLocal" => \A d \in Digis : ~acq[d]

\* A board that had its last visit is inactive, and empty unless the visit is under way.
SweptInv ==
  hwMode # "sinRemote" =>
    \A d \in Digis : swept[d] =>
      /\ ~active[d]
      /\ fifo[d] = {} \/ (rx = d /\ rpc \in {"transfer", "hung"})

\* A round that met no active board has met only boards that had their last visit.
RoundInv ==
  /\ rexit => \A d \in Digis : d < rx => swept[d]
  /\ rexit /\ rpc \in {"transfer", "lock", "size", "hung"} => swept[rx]
  /\ rpc = "done" => \A d \in Digis : swept[d]

StopInv  == ArmedInv /\ StoppedInv /\ GatedInv
SweepInv == SweptInv /\ RoundInv

\* Steps of the boards and of the threads leave all that StopInv is about alone.
LEMMA StopFrame ==
  ASSUME StopInv, UNCHANGED <<mainVars, alive, hwMode, acq, active>> PROVE StopInv'
  BY DEF StopInv, ArmedInv, StoppedInv, GatedInv, mainVars

LEMMA StopStep == TypeInv /\ StopInv /\ [Next]_vars => StopInv'
<1> SUFFICES ASSUME TypeInv, StopInv, [Next]_vars PROVE StopInv'
  OBVIOUS
<1>0. /\ acq \in [Digis -> BOOLEAN] /\ active \in [Digis -> BOOLEAN]
      /\ mx \in 1 .. NDigi + 1 /\ NDigi \in Nat \ {0} /\ hwMode \in RunStarts
  BY ReadoutAssumption DEF TypeInv, TypeBoards, TypeMain
<1>1. CASE ReadThread \/ (\E p \in Procs : Process(p)) \/ (\E d \in Digis : Trigger(d))
           \/ UNCHANGED vars
  <2>1. UNCHANGED <<mainVars, alive, hwMode, acq, active>>
    BY <1>1 DEF ReadThread, ReadVisit, TransferBlock, TransferNothing, TransferRejected,
                TransferError, PushBuffer, PushSize, ReadRoundEnd, Process, ProcStart, ProcVisit,
                ProcDefer, ProcTryLock, ProcSwapBuffers, ProcTakeSizes, ProcRecord, ProcRoundEnd,
                Trigger, vars, boardVars
  <2>2. QED  BY <2>1, StopFrame
<1>2. CASE RemoteSIn
  BY <1>2 DEF RemoteSIn, StopInv, ArmedInv, StoppedInv, GatedInv, mainVars
<1>3. CASE ArmRejected
  BY <1>3 DEF ArmRejected, StopInv, ArmedInv, StoppedInv, GatedInv, boardVars
<1>4. CASE ArmCommand \/ SleepCommand
  <2>0. ~running /\ ~running' /\ ~armed'
    <3>1. ASSUME ArmCommand PROVE ~running /\ ~running' /\ ~armed'
      BY <3>1, Zenon DEF ArmCommand
    <3>2. ASSUME SleepCommand PROVE ~running /\ ~running' /\ ~armed'
      BY <3>2, Zenon DEF SleepCommand
    <3>3. QED  BY <1>4, <3>1, <3>2
  <2>1. /\ UNCHANGED <<alive, hwMode, active>> /\ mx' = 1 /\ mpc' = IF alive THEN "deactivate" ELSE "join"
        /\ acq' = IF alive /\ hwMode = "sinLocal" THEN AllBoards(FALSE) ELSE acq
    BY <1>4 DEF ArmCommand, SleepCommand, EnterStopRun
  <2>2. hwMode # "sinRemote" => \A d \in Digis : ~acq[d]  BY <2>0 DEF StopInv, GatedInv
  <2>3. hwMode # "sinRemote" => \A d \in Digis : ~acq'[d]  BY <2>1, <2>2 DEF AllBoards
  <2>4. ArmedInv'  BY <2>0, <2>1 DEF ArmedInv
  <2>5. StoppedInv'  BY <1>0, <2>1 DEF StopInv, StoppedInv, Digis
  <2>6. GatedInv'  BY <2>0, <2>1, <2>3 DEF GatedInv
  <2>7. QED  BY <2>4, <2>5, <2>6 DEF StopInv
<1>5. CASE MasterLost \/ StopCommand
  <2>1. /\ armed /\ mpc' # "idle" /\ mpc' # "init" /\ UNCHANGED <<alive, hwMode, active>>
        /\ UNCHANGED <<opts, armed, running>>
        /\ mx' = 1 /\ mpc' = IF alive THEN "deactivate" ELSE "join"
        /\ acq' = IF alive /\ hwMode = "sinLocal" THEN AllBoards(FALSE) ELSE acq
    BY <1>5 DEF MasterLost, StopCommand, EnterStopRun
  <2>2. alive  BY <2>1 DEF StopInv, ArmedInv
  <2>3. ArmedInv'  BY <2>1 DEF StopInv, ArmedInv
  <2>4. StoppedInv'  BY <1>0, <2>1, <2>2 DEF StopInv, StoppedInv, Digis
  <2>5. GatedInv'  BY <2>1, <2>2 DEF StopInv, GatedInv, AllBoards
  <2>6. QED  BY <2>3, <2>4, <2>5 DEF StopInv
<1>6. CASE StartCommand
  <2>1. /\ armed /\ mpc = "idle" /\ UNCHANGED <<mpc, mx, opts, armed, alive, hwMode>> /\ running'
        /\ acq' = IF opts = "sinRemote" THEN acq ELSE AllBoards(TRUE)
        /\ active' = IF opts = "register" THEN AllBoards(TRUE) ELSE active
    BY <1>6, Zenon DEF StartCommand
  <2>2. \A d \in Digis : active[d]  BY <2>1 DEF StopInv, ArmedInv
  <2>3. \A d \in Digis : active'[d]  BY <2>1, <2>2 DEF AllBoards
  <2>4. QED  BY <2>1, <2>3 DEF StopInv, ArmedInv, StoppedInv, GatedInv
<1>7. CASE Deactivate
  <2>1. /\ mpc = "deactivate" /\ mx \in Digis /\ mx' = mx + 1
        /\ mpc' = IF mx = NDigi THEN "join" ELSE mpc
        /\ UNCHANGED <<opts, armed, running, alive, hwMode>>
        /\ acq' = IF opts = "register" THEN [acq EXCEPT ![mx] = FALSE] ELSE acq
        /\ active' = [active EXCEPT ![mx] = FALSE]
    BY <1>7 DEF Deactivate
  <2>2. ~active'[mx] /\ \A d \in Digis \ {mx} : active'[d] = active[d]
    BY <1>0, <2>1
  <2>3. \A d \in Digis : d < mx => ~active[d]  BY <2>1 DEF StopInv, StoppedInv
  <2>4. \A d \in Digis : d < mx + 1 => ~active'[d]
    BY <1>0, <2>1, <2>2, <2>3 DEF Digis
  <2>5. ArmedInv'  BY <2>1 DEF StopInv, ArmedInv
  <2>6. StoppedInv'
    <3>1. ~alive => \A d \in Digis : ~active'[d]
      BY <1>0, <2>2 DEF StopInv, StoppedInv
    <3>2. mpc' = "join" => \A d \in Digis : d < mx + 1
      BY <1>0, <2>1 DEF Digis
    <3>3. QED  BY <2>1, <2>4, <3>1, <3>2 DEF StoppedInv
  <2>7. \A d \in Digis : acq'[d] => acq[d]  BY <1>0, <2>1
  <2>8. hwMode # "sinRemote" => ~acq'[mx]
    <3>1. CASE ~running  BY <2>1, <2>7, <3>1 DEF StopInv, GatedInv
    <3>2. CASE running
      <4>1. hwMode = opts  BY <3>2 DEF StopInv, ArmedInv
      <4>2. CASE opts = "register"  BY <1>0, <2>1, <4>2
      <4>3. CASE hwMode = "sinLocal"  BY <2>1, <2>7, <4>3 DEF StopInv, GatedInv
      <4>4. QED  BY <1>0, <4>1, <4>2, <4>3 DEF RunStarts
    <3>3. QED  BY <3>1, <3>2
  <2>9. GatedInv'
    BY <2>1, <2>2, <2>7, <2>8 DEF StopInv, GatedInv
  <2>10. QED  BY <2>5, <2>6, <2>9 DEF StopInv
<1>8. CASE JoinThreads
  <2>1. /\ mpc = "join" /\ mpc' = IF cont = "stop" THEN "idle" ELSE "delete"
        /\ armed' = IF cont = "stop" THEN FALSE ELSE armed
        /\ running' = IF cont = "stop" THEN FALSE ELSE running
        /\ UNCHANGED <<opts, alive, hwMode, acq, active>>
    BY <1>8, Zenon DEF JoinThreads, boardVars
  <2>2. \A d \in Digis : ~active[d]  BY <2>1 DEF StopInv, StoppedInv
  <2>3. hwMode # "sinRemote" => \A d \in Digis : ~acq[d]  BY <2>2 DEF StopInv, GatedInv
  <2>4. ArmedInv'  BY <2>1, Zenon DEF StopInv, ArmedInv
  <2>5. StoppedInv'  BY <2>1, <2>2 DEF StoppedInv
  <2>6. GatedInv'  BY <2>1, <2>3 DEF GatedInv
  <2>7. QED  BY <2>4, <2>5, <2>6 DEF StopInv
<1>9. CASE DeleteBoards
  BY <1>9 DEF DeleteBoards, AllBoards, StopInv, ArmedInv, StoppedInv, GatedInv
<1>10. CASE ArmFails
  BY <1>10 DEF ArmFails, boardVars, StopInv, ArmedInv, StoppedInv, GatedInv
<1>11. CASE ArmSucceeds
  BY <1>11 DEF ArmSucceeds, AllBoards, StopInv, ArmedInv, StoppedInv, GatedInv
<1>12. QED
  BY <1>1, <1>2, <1>3, <1>4, <1>5, <1>6, <1>7, <1>8, <1>9, <1>10, <1>11
  DEF Next, Command, MainThread

\* An action of anyone but the read thread that fills no memory and activates nothing swept.
LEMMA SweepFrame ==
  ASSUME SweepInv, UNCHANGED <<swept, rexit, rx>>,
         rpc' = rpc \/ (rpc' = "off" /\ rpc \in {"off", "done"}), hwMode' = hwMode,
         hwMode # "sinRemote" =>
           \A d \in Digis : swept[d] => fifo'[d] = fifo[d] /\ (active'[d] => active[d])
  PROVE  SweepInv'
  BY DEF SweepInv, SweptInv, RoundInv

\* Without read errors and oversize transfers every transfer goes on until the memory is empty
\* or the thread is stuck.
LEMMA ReaderSweep ==
  ASSUME {"readError", "oversize"} \cap Faults = {}, TypeInv, SweepInv, ReadThread PROVE SweepInv'
<1>0. /\ fifo \in [Digis -> SUBSET Events] /\ swept \in [Digis -> BOOLEAN]
      /\ rx \in 1 .. NDigi + 1 /\ NDigi \in Nat \ {0}
      /\ rpc \in {"transfer", "lock", "size", "hung"} => rx \in Digis
  BY ReadoutAssumption DEF TypeInv, TypeBoards, ReaderInv, TypeReader, ReaderIndex
<1>1. UNCHANGED <<active, hwMode>>
  BY DEF ReadThread, ReadVisit, TransferBlock, TransferNothing, TransferRejected, TransferError,
         PushBuffer, PushSize, ReadRoundEnd, boardVars
<1>2. CASE ReadVisit
  <2>1. /\ rpc = "visit" /\ rx \in Digis /\ UNCHANGED fifo
        /\ \/ /\ active[rx] /\ ~rexit' /\ swept' = [swept EXCEPT ![rx] = FALSE]
              /\ rpc' = "transfer" /\ rx' = rx
           \/ /\ ~active[rx] /\ swept' = [swept EXCEPT ![rx] = TRUE] /\ rexit' = rexit
              /\ rpc' = "transfer" /\ rx' = rx
           \/ /\ swept[rx] /\ rpc' = "visit" /\ rx' = rx + 1 /\ UNCHANGED <<swept, rexit>>
    BY <1>2 DEF ReadVisit, ReadNext, boardVars
  <2>2. CASE rpc' = "visit"
    <3>1. \A d \in Digis : d < rx + 1 => d < rx \/ d = rx  BY <1>0 DEF Digis
    <3>2. QED  BY <1>1, <2>1, <2>2, <3>1 DEF SweepInv, SweptInv, RoundInv
  <2>3. CASE active[rx] /\ rpc' = "transfer"
    <3>1. ~rexit' /\ \A d \in Digis : swept'[d] => swept[d] /\ d # rx
      BY <1>0, <2>1, <2>3
    <3>2. QED  BY <1>1, <2>1, <2>3, <3>1 DEF SweepInv, SweptInv, RoundInv
  <2>4. CASE ~active[rx] /\ rpc' = "transfer"
    <3>1. swept'[rx] /\ \A d \in Digis \ {rx} : swept'[d] = swept[d]  BY <1>0, <2>1, <2>4
    <3>2. rx' = rx /\ rexit' = rexit  BY <2>1, <2>4
    <3>3. \A d \in Digis : d < rx => d # rx  BY <1>0 DEF Digis
    <3>4. QED  BY <1>1, <2>1, <2>4, <3>1, <3>2, <3>3 DEF SweepInv, SweptInv, RoundInv
  <2>5. QED  BY <2>1, <2>2, <2>3, <2>4
<1>3. CASE ReadRoundEnd
  <2>1. /\ rpc = "visit" /\ rx = NDigi + 1 /\ rx' = 1 /\ UNCHANGED <<swept, fifo>>
        /\ rpc' \in {"done", "visit"} /\ (rpc' = "done" => rexit)
    BY <1>3 DEF ReadRoundEnd, boardVars
  <2>2. \A d \in Digis : d < NDigi + 1 /\ ~(d < 1)  BY <1>0 DEF Digis
  <2>3. QED  BY <1>1, <2>1, <2>2 DEF SweepInv, SweptInv, RoundInv
<1>4. CASE TransferBlock \/ TransferRejected
  <2>0. fifo' = [fifo EXCEPT ![rx] = {}]
    <3>1. CASE TransferBlock  BY <3>1 DEF TransferBlock
    <3>2. CASE TransferRejected
      <4>1. PICK S \in (SUBSET fifo[rx]) \ {{}} :
              S = fifo[rx] /\ fifo' = [fifo EXCEPT ![rx] = @ \ S]
        BY <3>2 DEF TransferRejected
      <4>2. QED  BY <4>1
    <3>3. QED  BY <1>4, <3>1, <3>2
  <2>1. /\ rpc = "transfer" /\ rx \in Digis /\ fifo' = [fifo EXCEPT ![rx] = {}]
        /\ UNCHANGED <<swept, rexit>>
        /\ \/ rpc' = "lock" /\ rx' = rx
           \/ rpc' = "visit" /\ rx' = rx + 1
    BY <1>0, <1>4, <2>0 DEF TransferBlock, TransferRejected, ReadNext
  <2>2. \A d \in Digis : fifo[d] = {} \/ d = rx => fifo'[d] = {}  BY <1>0, <2>1
  <2>3. \A d \in Digis : d < rx + 1 => d < rx \/ d = rx  BY <1>0 DEF Digis
  <2>4. QED  BY <1>1, <2>1, <2>2, <2>3 DEF SweepInv, SweptInv, RoundInv
<1>5. CASE TransferNothing \/ TransferError \/ PushBuffer \/ PushSize
  <2>1. /\ rpc \in {"transfer", "lock", "size"} /\ UNCHANGED <<swept, rexit, fifo>>
        /\ \/ rpc' = "visit" /\ rx' = rx + 1 /\ (rpc = "transfer" => fifo[rx] = {})
           \/ rpc' = "hung" /\ rx' = rx /\ rpc = "transfer"
           \/ rpc' = "size" /\ rx' = rx /\ rpc = "lock"
    BY <1>5 DEF TransferNothing, TransferError, PushBuffer, PushSize, ReadNext, boardVars
  <2>2. \A d \in Digis : d < rx + 1 => d < rx \/ d = rx  BY <1>0 DEF Digis
  <2>3. SweptInv'  BY <1>1, <2>1 DEF SweepInv, SweptInv
  <2>4. RoundInv'  BY <2>1, <2>2 DEF SweepInv, RoundInv
  <2>5. QED  BY <2>3, <2>4 DEF SweepInv
<1>6. QED  BY <1>2, <1>3, <1>4, <1>5 DEF ReadThread

LEMMA SweepStep ==
  ASSUME {"readError", "oversize"} \cap Faults = {}, TypeInv, CloseInv, StopInv, SweepInv, [Next]_vars
  PROVE  SweepInv'
<1>1. CASE DeleteBoards \/ ArmSucceeds
  <2>1. rx' = 1 /\ swept' = AllBoards(FALSE) /\ rpc' \in {"off", "visit"}
    BY <1>1 DEF DeleteBoards, ArmSucceeds, ClearThreads, CloseInv, ThreadsOff
  <2>2. \A d \in Digis : ~(d < 1)  BY ReadoutAssumption DEF Digis
  <2>3. QED  BY <2>1, <2>2 DEF AllBoards, SweepInv, SweptInv, RoundInv
<1>2. CASE \E d \in Digis : Trigger(d)
  <2>1. PICK d \in Digis : Trigger(d)  BY <1>2
  <2>2. /\ acq[d] /\ fifo' = [fifo EXCEPT ![d] = @ \cup {made[d] + 1}]
        /\ UNCHANGED <<hwMode, active, swept, rexit, rx, rpc>>
    BY <2>1 DEF Trigger, readerVars
  <2>3. hwMode # "sinRemote" => ~swept[d]
    BY <2>2 DEF StopInv, GatedInv, SweepInv, SweptInv
  <2>4. \A e \in Digis \ {d} : fifo'[e] = fifo[e]
    BY <2>2 DEF TypeInv, TypeBoards
  <2>5. QED  BY <2>2, <2>3, <2>4, SweepFrame
<1>3. CASE StartCommand
  <2>1. /\ armed /\ mpc = "idle" /\ UNCHANGED <<hwMode, fifo, swept, rexit, rx, rpc>>
    BY <1>3 DEF StartCommand, readerVars
  <2>2. \A d \in Digis : active[d]  BY <2>1 DEF StopInv, ArmedInv
  <2>3. QED  BY <2>1, <2>2, SweepFrame
<1>4. CASE Deactivate
  <2>1. /\ active' = [active EXCEPT ![mx] = FALSE]
        /\ UNCHANGED <<hwMode, fifo, swept, rexit, rx, rpc>>
    BY <1>4 DEF Deactivate, readerVars
  <2>2. \A d \in Digis : active'[d] => active[d]  BY <2>1 DEF TypeInv, TypeBoards
  <2>3. QED  BY <2>1, <2>2, SweepFrame
<1>5. CASE JoinThreads
  <2>1. /\ rpc \in {"off", "done"} /\ rpc' = "off"
        /\ UNCHANGED <<hwMode, fifo, active, swept, rexit, rx>>
    BY <1>5 DEF JoinThreads, boardVars
  <2>2. QED  BY <2>1, SweepFrame
<1>6. CASE (\E p \in Procs : Process(p)) \/ RemoteSIn \/ (Command /\ ~StartCommand) \/ ArmFails
           \/ UNCHANGED vars
  <2>1. UNCHANGED <<hwMode, fifo, active, swept, rexit, rx, rpc>>
    BY <1>6 DEF Process, ProcStart, ProcVisit, ProcDefer, ProcTryLock, ProcSwapBuffers,
                ProcTakeSizes, ProcRecord, ProcRoundEnd, RemoteSIn, Command, ArmRejected,
                ArmCommand, SleepCommand, MasterLost, StopCommand, ArmFails, vars, boardVars,
                readerVars
  <2>2. QED  BY <2>1, SweepFrame
<1>7. QED
  BY <1>1, <1>2, <1>3, <1>4, <1>5, <1>6, ReaderSweep DEF Next, MainThread

\* If no transfer is broken off, by a read error or because it exceeds fBufferSize, a read
\* thread that leaves has left no event behind in any board whose acquisition this slave gates:
\* every board was visited once more after it was stopped, whatever the run mode, whatever else
\* fails and however StopRun and the thread interleave.
THEOREM LastVisit ==
  ASSUME {"readError", "oversize"} \cap Faults = {} PROVE Spec => []FinalSweep
<1>1. Init => StopInv /\ SweepInv
  <2>1. Init => ~armed /\ ~running /\ \A d \in Digis : ~active[d] /\ ~acq[d] /\ ~swept[d]
    BY Zenon DEF Init, AllBoards
  <2>2. Init => rx = 1 /\ rpc = "off" /\ mpc = "idle"  BY DEF Init
  <2>3. \A d \in Digis : ~(d < 1)  BY ReadoutAssumption DEF Digis
  <2>4. QED
    BY <2>1, <2>2, <2>3
    DEF StopInv, ArmedInv, StoppedInv, GatedInv, SweepInv, SweptInv, RoundInv
<1>2. TypeInv /\ CloseInv /\ StopInv /\ SweepInv /\ [Next]_vars => StopInv' /\ SweepInv'
  BY StopStep, SweepStep
<1>3. SweepInv => FinalSweep
  BY DEF SweepInv, SweptInv, RoundInv, FinalSweep
<1>4. QED
  BY <1>1, <1>2, <1>3, InitSafeInv, SafeInvStep, PTL DEF Spec, SafeInv
=============================================================================
