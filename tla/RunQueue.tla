------------------------------ MODULE RunQueue ------------------------------
(***************************************************************************)
(* The dispatcher's run queue: MasterControl's loop over CheckRunQueue and *)
(* CheckRemoteCommand, with the two collections it shares with the web     *)
(* interface through MasterMongodbConnection (daq_queue, daq_control), the *)
(* run documents and the timers of the runs.  A detector is what RunControl *)
(* makes of it: it is told to run or not, and reports its state later.     *)
(***************************************************************************)
EXTENDS Integers, Sequences, FiniteSets

CONSTANTS
  InitialQueues, \* what may be in daq_queue when the dispatcher looks first
  MaxPushes,     \* bound: runs the web interface queues later on
  MaxCommands,   \* bound: commands of users
  MaxFatal       \* bound: runs that the polling thread ends

Detectors == {"tpc", "muon_veto"}
Names     == Detectors \cup {"all"}

\* A queued run: its field "position", its detector, and whether "running" is 1 (it is 2
\* otherwise).
Entries == [id : Nat, det : Names, active : BOOLEAN]

ASSUME QueueAssumption ==
  /\ InitialQueues \subseteq Seq(Entries)
  /\ \A q \in InitialQueues : \A i \in DOMAIN q : q[i].id = i /\ ~q[i].active
  /\ {MaxPushes, MaxCommands, MaxFatal} \subseteq Nat

\* The detectors a name stands for.
Of(n) == IF n = "all" THEN Detectors ELSE {n}

VARIABLES
  pc,        \* where the main loop is
  then,      \* where it goes on when the queue has been written back (queue if unused)
  current,   \* the detector of the Start command being carried out (all if none is)
  fDAQQueue, \* the dispatcher's copy of the queue
  daq_queue, \* the queue in the database
  daq_control, \* the commands in the database
  state,     \* DAQState of each detector: IDLE, RUNNING, or BUSY for ARMED, MIXED and ERROR
  wants,     \* what the readers have been told last: to run or not
  timer,     \* the names that fStartTimes and fExpireAfterSeconds have
  doc,       \* the latest run document of each detector: none, open, "cut" when the polling
             \* thread stopped the run without an end, or ended
  unclosed,  \* history: the detectors that got a document while the last one was open
  started,   \* history: the entries that a Start command has been given for
  queued,    \* history: the queue at first
  count      \* pushes, commands, fatal errors so far

history == <<started, queued, unclosed>>
loop == <<pc, then, current, fDAQQueue>>
det  == <<state, wants, timer, doc>>
vars == <<loop, daq_queue, daq_control, det, history, count>>

Commands == [command : {"Start", "Stop"}, det : Names]

-----------------------------------------------------------------------------
(***************************************************************************)
(* The queue.                                                              *)
(***************************************************************************)

\* What is left of a sequence when all but the positions in I are erased (SelectSeq, in a
\* form that can be reasoned about).
Left(q, I) ==
  LET order == CHOOSE f \in [1 .. Cardinality(I) -> I] :
                 /\ \A j, k \in DOMAIN f : j < k => f[j] < f[k]
                 /\ I = {f[k] : k \in DOMAIN f}
  IN [k \in DOMAIN order |-> q[order[k]]]

\* A bug for the mutation runs: runs of both detectors are left alone.
InTheWayOwn(e, n) == e.active /\ e.det = n

\* An entry that is running and concerns the detector n.
InTheWay(e, n) == e.active /\ (e.det = n \/ e.det = "all" \/ n = "all")

\* A bug for the mutation runs: the field "running" is not looked at.
PurgeQueued(q, n) ==
  Left(q, {i \in DOMAIN q : q[i].det # n /\ q[i].det # "all" /\ n # "all"})

\* ModifyRunQueue(n, -1): purge what is running.
Purge(q, n) == Left(q, {i \in DOMAIN q : ~InTheWay(q[i], n)})

\* ModifyRunQueue(n, id, on): mark one entry and purge the others that are running.
Mark(q, n, id, on) ==
  LET kept == Left(q, {i \in DOMAIN q : q[i].id = id \/ ~InTheWay(q[i], n)})
  IN [i \in DOMAIN kept |-> IF kept[i].id = id THEN [kept[i] EXCEPT !.active = on] ELSE kept[i]]

\* PutBackInQueue(n): the runs of the TPC first, and n's are queued again.
PutBack(q, n) ==
  LET sorted == Left(q, {i \in DOMAIN q : q[i].det = "tpc"})
                  \o Left(q, {i \in DOMAIN q : q[i].det # "tpc"})
  IN [i \in DOMAIN sorted |->
        IF sorted[i].det = n THEN [sorted[i] EXCEPT !.active = FALSE] ELSE sorted[i]]

\* Whether CheckRunQueue has seen a run of detector d (sawTPC, sawMV) before entry i: any
\* of d's own, or a queued one for all that came before any other.
Saw(q, i, d) ==
  \E j \in 1 .. i - 1 :
    \/ q[j].det = d
    \/ q[j].det = "all" /\ ~q[j].active /\ \A k \in 1 .. j - 1 : q[k].det = "all"

\* Marked as running although its detector is idle.
Stale(q, i) == q[i].active /\ q[i].det \in Detectors /\ state[q[i].det] = "IDLE"

\* The next run of its detectors, and they are free.
CanStart(q, i) ==
  /\ ~q[i].active
  /\ \A d \in Of(q[i].det) : ~Saw(q, i, d) /\ state[d] = "IDLE" /\ d \notin timer

\* A queued run for all behind one of a detector is taken for a run of an unknown detector
\* named "all", and erased.
Unknown(q, i) ==
  q[i].det = "all" /\ ~q[i].active /\ \E d \in Detectors : Saw(q, i, d)

\* What is left of the queue when the scan ends at entry n, and of all of it.
Scanned(q, n) == Left(q, {i \in DOMAIN q : i > n \/ ~Unknown(q, i)})

Decides(q, i, alert) ==
  LET Ends(j) == Stale(q, j) \/ (~alert /\ CanStart(q, j))
  IN Ends(i) /\ \A j \in 1 .. i - 1 : ~Ends(j)

\* SyncRunQueue drops the collection and writes it again.
Sync(next) == pc' = "drop" /\ then' = next

-----------------------------------------------------------------------------
(***************************************************************************)
(* Stopping.                                                               *)
(***************************************************************************)

\* UpdateEndTime. The run it is for is not forgotten, as the loop resets a copy of its
\* identifier: a document may get its end again.
Closed(d) == IF doc[d] = "none" THEN "none" ELSE "ended"

\* A bug for the mutation runs: only a detector that is seen running is closed.
StopRunning(n) ==
  /\ wants' = [d \in Detectors |-> wants[d] /\ d \notin Of(n)]
  /\ doc' = [d \in Detectors |->
       IF d \in Of(n) /\ state[d] = "RUNNING" THEN Closed(d) ELSE doc[d]]
  /\ timer' = IF n = "all" THEN {} ELSE timer \ {n}
  /\ fDAQQueue' = Purge(fDAQQueue, n)
  /\ UNCHANGED state

\* MasterControl::Stop: the end is written whatever state the detector is in.
Stop(n) ==
  /\ wants' = [d \in Detectors |-> wants[d] /\ d \notin Of(n)]
  /\ doc' = [d \in Detectors |-> IF d \in Of(n) THEN Closed(d) ELSE doc[d]]
  /\ timer' = IF n = "all" THEN {} ELSE timer \ {n}
  /\ fDAQQueue' = Purge(fDAQQueue, n)
  /\ UNCHANGED state

-----------------------------------------------------------------------------
(***************************************************************************)
(* CheckRunQueue.                                                          *)
(***************************************************************************)

\* The time of a run is over: stop it and leave.
Expire ==
  /\ pc = "queue"
  /\ \E n \in timer : Stop(n)
  /\ Sync("command")
  /\ UNCHANGED <<current, daq_queue, daq_control, history, count>>

GetRunQueue ==
  /\ pc = "queue"
  /\ fDAQQueue' = daq_queue /\ pc' = "scan"
  /\ UNCHANGED <<then, current, daq_queue, daq_control, det, history, count>>

\* Nothing can be started, or an unacknowledged error forbids it (CheckForAlerts).
NothingToStart ==
  /\ pc = "scan"
  /\ \E alert \in BOOLEAN : \A i \in DOMAIN fDAQQueue : ~Decides(fDAQQueue, i, alert)
  /\ fDAQQueue' = Scanned(fDAQQueue, Len(fDAQQueue)) /\ pc' = "command"
  /\ UNCHANGED <<then, current, daq_queue, daq_control, det, history, count>>

\* An entry that is marked without a run goes back into the queue after 30 seconds; until
\* then nothing behind it is looked at.
Requeue(old) ==
  /\ pc = "scan"
  /\ \E i \in DOMAIN fDAQQueue :
       LET e == fDAQQueue[i]
           q == Scanned(fDAQQueue, i)
       IN /\ \E alert \in BOOLEAN : Decides(fDAQQueue, i, alert)
          /\ Stale(fDAQQueue, i)
          /\ IF old THEN fDAQQueue' = Mark(q, e.det, e.id, FALSE) /\ Sync("command")
                    ELSE fDAQQueue' = q /\ pc' = "command" /\ UNCHANGED then
  /\ UNCHANGED <<current, daq_queue, daq_control, det, history, count>>

\* The first run that can be started becomes a Start command.
StartNext ==
  /\ pc = "scan"
  /\ \E i \in DOMAIN fDAQQueue :
       LET e == fDAQQueue[i] IN
       /\ Decides(fDAQQueue, i, FALSE) /\ CanStart(fDAQQueue, i)
       /\ daq_control' = Append(daq_control, [command |-> "Start", det |-> e.det])
       /\ fDAQQueue' = Mark(Scanned(fDAQQueue, i), e.det, e.id, TRUE)
       /\ started' = started \cup {e.id}
  /\ Sync("command")
  /\ UNCHANGED <<current, daq_queue, det, queued, unclosed, count>>

\* A bug for the mutation runs: the collection is not dropped.
DropNothing ==
  /\ pc = "drop"
  /\ pc' = "refill" /\ UNCHANGED daq_queue
  /\ UNCHANGED <<then, current, fDAQQueue, daq_control, det, history, count>>

Drop ==
  /\ pc = "drop"
  /\ daq_queue' = <<>> /\ pc' = "refill"
  /\ UNCHANGED <<then, current, fDAQQueue, daq_control, det, history, count>>

Refill ==
  /\ pc = "refill"
  /\ daq_queue' = daq_queue \o fDAQQueue /\ pc' = then /\ then' = "queue"
  /\ UNCHANGED <<current, fDAQQueue, daq_control, det, history, count>>

-----------------------------------------------------------------------------
(***************************************************************************)
(* CheckRemoteCommand.                                                     *)
(***************************************************************************)

\* CheckForCommand takes the first command and removes every command for its detector.
CheckForCommand ==
  LET c == Head(daq_control) IN
  /\ pc = "command"
  /\ IF daq_control = <<>>
     THEN pc' = "queue" /\ UNCHANGED <<then, current, fDAQQueue, daq_control, det>>
     ELSE /\ daq_control' = Left(daq_control, {i \in DOMAIN daq_control : daq_control[i].det # c.det})
          /\ IF c.command = "Stop"
             THEN Stop(c.det) /\ Sync("queue") /\ UNCHANGED current
             ELSE pc' = "start" /\ current' = c.det /\ UNCHANGED <<then, fDAQQueue, det>>
  /\ UNCHANGED <<daq_queue, history, count>>

\* MasterControl::Start returns -2: a detector is not idle, the network is down, the run
\* exists already.
Refused ==
  /\ pc = "start" /\ pc' = "queue" /\ current' = "all"
  /\ UNCHANGED <<then, fDAQQueue, daq_queue, daq_control, det, history, count>>

\* InsertRunDoc for the detectors of the run.
Documented ==
  /\ doc' = [d \in Detectors |-> IF d \in Of(current) THEN "open" ELSE doc[d]]
  /\ unclosed' = unclosed \cup {d \in Of(current) : doc[d] = "open"}

Accepted ==
  /\ pc = "start"
  /\ \A d \in Of(current) : state[d] = "IDLE"

\* It returns -1, before or after it has inserted the run document: PutBackInQueue, Stop.
Fails ==
  /\ Accepted
  /\ Documented \/ UNCHANGED <<doc, unclosed>>
  /\ state' = [d \in Detectors |-> IF d \in Of(current) THEN "BUSY" ELSE state[d]]
  /\ fDAQQueue' = PutBack(daq_queue, current)
  /\ Sync("stop")
  /\ UNCHANGED <<current, daq_queue, daq_control, wants, timer, started, queued, count>>

StopFailed ==
  /\ pc = "stop" /\ Stop(current) /\ Sync("queue") /\ current' = "all"
  /\ UNCHANGED <<daq_queue, daq_control, history, count>>

\* It returns 0: the readers have been sent START.  A run may have no time limit.
Succeeds ==
  /\ Accepted /\ Documented
  /\ state' = [d \in Detectors |-> IF d \in Of(current) THEN "BUSY" ELSE state[d]]
  /\ wants' = [d \in Detectors |-> wants[d] \/ d \in Of(current)]
  /\ timer' \in {timer, timer \cup {current}}
  /\ pc' = "queue" /\ current' = "all"
  /\ UNCHANGED <<then, fDAQQueue, daq_queue, daq_control, started, queued, count>>

-----------------------------------------------------------------------------
(***************************************************************************)
(* Around it.                                                              *)
(***************************************************************************)

\* ProcessStatus: what the packets of the readers make of the detector. Readers that were
\* told to run were armed (RunControl!StartFindsAllArmed) and none reports IDLE before it is
\* told to stop. A run that was seen running turns MIXED or ERROR with any of its readers
\* and may be RUNNING again; that a stopped one still is makes no difference.
Report(d) ==
  /\ \E s \in {"IDLE", "RUNNING", "BUSY"} :
       /\ s = "IDLE" => ~wants[d]
       /\ s = "RUNNING" => wants[d]
       /\ state' = [state EXCEPT ![d] = s]
  /\ state' # state
  /\ UNCHANGED <<loop, daq_queue, daq_control, wants, timer, doc, history, count>>

\* A reader of a run is silent for a minute: DAQMonitor::Stop of the polling thread. The end
\* is written only if the detector is RUNNING at that time.
Fatal(d) ==
  /\ wants[d] /\ count.fatal < MaxFatal
  /\ count' = [count EXCEPT !.fatal = @ + 1]
  /\ wants' = [wants EXCEPT ![d] = FALSE]
  /\ doc' = [doc EXCEPT ![d] = IF state[d] = "RUNNING" THEN Closed(d)
                               ELSE IF @ = "open" THEN "cut" ELSE @]
  /\ UNCHANGED <<loop, daq_queue, daq_control, state, timer, history>>

\* The web interface queues a run behind the others, or a user gives a command.
Push(n) ==
  /\ count.pushes < MaxPushes
  /\ count' = [count EXCEPT !.pushes = @ + 1]
  /\ daq_queue' = Append(daq_queue, [id |-> Len(queued) + count'.pushes, det |-> n, active |-> FALSE])
  /\ UNCHANGED <<loop, daq_control, det, history>>

UserCommand(c) ==
  /\ count.commands < MaxCommands
  /\ count' = [count EXCEPT !.commands = @ + 1]
  /\ daq_control' = Append(daq_control, c)
  /\ UNCHANGED <<loop, daq_queue, det, history>>

-----------------------------------------------------------------------------

Init ==
  /\ pc = "queue" /\ then = "queue" /\ current = "all"
  /\ fDAQQueue = <<>> /\ daq_queue \in InitialQueues /\ daq_control = <<>>
  /\ state = [d \in Detectors |-> "IDLE"] /\ wants = [d \in Detectors |-> FALSE]
  /\ timer = {} /\ doc = [d \in Detectors |-> "none"]
  /\ started = {} /\ unclosed = {} /\ queued = daq_queue
  /\ count = [pushes |-> 0, commands |-> 0, fatal |-> 0]

MasterLoop ==
  \/ Expire \/ GetRunQueue \/ NothingToStart \/ StartNext
  \/ \E old \in BOOLEAN : Requeue(old)
  \/ Drop \/ Refill \/ CheckForCommand \/ Refused \/ Fails \/ StopFailed \/ Succeeds

Next ==
  \/ MasterLoop
  \/ \E d \in Detectors : Report(d) \/ Fatal(d)
  \/ \E n \in Names : Push(n)
  \/ \E c \in Commands : UserCommand(c)

Spec == Init /\ [][Next]_vars

-----------------------------------------------------------------------------
(***************************************************************************)
(* Properties.                                                             *)
(***************************************************************************)

Distinct(q) == \A i, j \in DOMAIN q : q[i].id = q[j].id => i = j

\* Every variable has its type, and neither copy of the queue has an entry twice.
TypeOK ==
  /\ pc \in {"queue", "scan", "drop", "refill", "command", "start", "stop"}
  /\ then \in {"queue", "command", "stop"} /\ current \in Names
  /\ fDAQQueue \in Seq(Entries) /\ Distinct(fDAQQueue)
  /\ daq_queue \in Seq(Entries) /\ Distinct(daq_queue)
  /\ daq_control \in Seq(Commands)
  /\ state \in [Detectors -> {"IDLE", "RUNNING", "BUSY"}] /\ wants \in [Detectors -> BOOLEAN]
  /\ timer \subseteq Names
  /\ doc \in [Detectors -> {"none", "open", "cut", "ended"}]
  /\ started \subseteq Nat

Ids(q) == {q[i].id : i \in DOMAIN q}

\* "make sure at most one Run queue document is set to 'active' per detector": no two runs
\* marked as running concern the same detector, whatever starts, fails and stops between.
AtMostOneActive ==
  \A i, j \in DOMAIN daq_queue :
    daq_queue[i].active /\ daq_queue[j].active /\ i # j
      => Of(daq_queue[i].det) \cap Of(daq_queue[j].det) = {}

\* UpdateEndTime "when a run is ended": a detector's run document has an end before the
\* detector gets its next one, unless the polling thread stopped the run while its detector
\* was not RUNNING: not yet, or MIXED or in ERROR.
RunsAreClosed == unclosed = {}

\* The runs for these names that were queued at first and that no Start command has been
\* given for are still in the database when the dispatcher is not in the middle of writing the queue back.
KeptFor(names) ==
  pc \in {"queue", "scan", "command", "start"} =>
    \A i \in DOMAIN queued :
      queued[i].det \in names => queued[i].id \in started \cup Ids(daq_queue)

\* "Sync run queue with remote": dropping and rewriting the collection, erasing and purging
\* entries, putting failed runs back and stopping others never lose a queued run of one
\* detector that has not been given its Start command.
SingleRunsKept == KeptFor(Detectors)

\* "If it's 'all' it should wait for the TPC to finish": a queued run for all detectors is
\* kept as well.
QueuedRunsKept == KeptFor(Names)
=============================================================================
