------------------------------ MODULE RunSetup ------------------------------
(***************************************************************************)
(* From a Start command to the end of the run: the run mode is pulled and  *)
(* merged (RunModes), the board initializes itself as the merged options   *)
(* say (Baselines), the collections for the readers are prepared and kept  *)
(* ahead of their clocks (Collections).  MasterControl::CheckRemoteCommand *)
(* and Start make the calls one after the other; what they share is the    *)
(* options.  How commands travel, and how they fail there, is RunControl.  *)
(***************************************************************************)
EXTENDS Integers

CONSTANTS
  Names, Contents, Cyclic,                                     \* RunModes
  Channels, Offsets, Noise, BusySets, Start,                   \* Baselines
  MaxIterations, MaxTries, MaxFaults,
  Readers, MaxMake, MaxFails, MaxLag, MaxTime,                 \* Collections
  Commanded, \* the run modes that Start commands name
  MaxRuns    \* bound: Start commands

VARIABLES
  read, chain, res, pull,
  offset, dac, file, bl, mode, busy, values, finished, iteration, tries, ret, loaded, good,
  unsettled, faults,
  target, prep, made, missing, run, thread, counter, at, now, began,
  options, \* what PullRunMode delivered for the run; <<>> if there is none
  runs     \* Start commands so far

Modes == INSTANCE RunModes
Board == INSTANCE Baselines
Coll  == INSTANCE Collections

ASSUME SetupAssumption ==
  /\ Modes!ModesAssumption /\ Board!BaselinesParameters /\ Coll!CollectionsAssumption
  /\ \A c \in Contents : Modes!OptionOf(c, "baseline_mode") \in -1 .. 2
  /\ Commanded \subseteq Names /\ MaxRuns \in Nat

modes      == <<read, chain, res, pull>>
baselines  == <<offset, mode, busy, dac, file, bl, values, finished, iteration, tries, ret,
                loaded, good, unsettled, faults>>
collections == <<target, prep, made, missing, run, thread, counter, at, now, began>>

vars == <<modes, baselines, collections, options, runs>>

Init ==
  /\ Modes!Init /\ Board!Init /\ Coll!Init
  /\ options = <<>>
  /\ runs = 0

\* CheckForCommand: a Start command names a run mode.
StartCommand ==
  /\ options = <<>> /\ pull = "idle" /\ runs < MaxRuns
  /\ \E n \in Commanded : Modes!TopLevel(n)
  /\ runs' = runs + 1
  /\ UNCHANGED <<baselines, collections, options>>

PullRunMode == Modes!Pulling /\ UNCHANGED <<baselines, collections, options, runs>>

\* The command is delivered with its options, or there is none.  (The documents are forgotten:
\* they may have been edited when the next command comes.  Nobody looks at the field parent of
\* what was delivered.)
Deliver ==
  /\ pull \in {"done", "failed"}
  /\ pull' = "idle" /\ read' = Modes!NoFields /\ chain' = <<>> /\ res' = Modes!NoDoc
  /\ options' = IF pull = "done" THEN Modes!Without(res, "parent") ELSE <<>>
  /\ UNCHANGED <<baselines, collections, runs>>

\* What of the options says where to write.
TargetOf(o) ==
  LET mongo == Modes!MongoOptions(o)
  IN [rotating |-> Modes!OptionOf(o, "rotating_collections") = 1,
      hosts    |-> {mongo.hosts[r] : r \in DOMAIN mongo.hosts},
      base     |-> mongo.address,
      writes   |-> [r \in Readers |-> Modes!MongoOptions(Modes!ForReader(o, r)).address]]

\* DAQMonitor::Arm: the readers get their copies, and a reader initializes its board.
Arm ==
  /\ options # <<>> /\ bl = "off" /\ prep = "none"
  /\ \E b \in BusySets : Board!Initialize(Modes!OptionOf(options, "baseline_mode"), b)
  /\ UNCHANGED <<modes, collections, options, runs>>

InitializeBoard ==
  Board!Initializing /\ UNCHANGED <<modes, collections, options, runs>>

\* The dispatcher waits for ARMED; InsertRunDoc's result is thrown away.
Prepare ==
  /\ bl = "armed" /\ prep = "none"
  /\ \/ Coll!TellThread
     \/ Coll!InsertRunDoc(TargetOf(options))
  /\ UNCHANGED <<modes, baselines, options, runs>>

Running ==
  /\ \/ Coll!Begin
     \/ Coll!Tick
     \/ Coll!Look
     \/ Coll!Make
     \/ Coll!Leave
  /\ UNCHANGED <<modes, baselines, options, runs>>

\* MasterControl::Stop, of this detector or of all, and the board is closed.
Stop ==
  /\ prep # "none"
  /\ \E marked \in BOOLEAN : Coll!UpdateEndTime(marked)
  /\ Board!Close
  /\ options' = <<>>
  /\ UNCHANGED <<modes, runs>>

\* A board failed: the run is given up before it has a document.
GiveUp ==
  /\ bl = "failed"
  /\ Board!Close
  /\ options' = <<>>
  /\ UNCHANGED <<modes, collections, runs>>

Next ==
  \/ StartCommand \/ PullRunMode \/ Deliver
  \/ Arm \/ InitializeBoard
  \/ Prepare \/ Running
  \/ Stop \/ GiveUp

\* The main thread goes on while it is looking up documents: it waits for nobody there.
Spec == Init /\ [][Next]_vars /\ WF_vars(PullRunMode)

-----------------------------------------------------------------------------
(***************************************************************************)
(* Properties.  They belong to the parts; what the composition adds is     *)
(* where their inputs come from.                                           *)
(***************************************************************************)

\* Every variable has its type.
TypeOK == Modes!TypeOK /\ Board!TypeOK /\ Coll!TypeOK

\* PullRunMode: a field of the merged options is that of the nearest ancestor that has it.
NearestWins == Modes!NearestWins

\* PullRunMode returns.
PullReturns == Modes!PullReturns

\* Readers write to collections that were prepared.
WritesFindCollection == Coll!WritesFindCollection
=============================================================================
