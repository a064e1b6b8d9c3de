----------------------------- MODULE RunControl -----------------------------
(***************************************************************************)
(* One detector of the dispatcher and its readers.  The dispatcher's main  *)
(* thread (MasterControl, DAQMonitor) validates, arms, starts and stops    *)
(* runs; its polling thread (DAQMonitor::PollNetwork) drains the readers'  *)
(* status packets into the table the main thread decides from, and sends   *)
(* commands of its own; each reader (main() of koSlave) is a state machine *)
(* driven by the strings it takes off its command socket.  Nothing is      *)
(* acknowledged but the options file.                                      *)
(***************************************************************************)
EXTENDS Integers, Sequences, FiniteSets, FiniteSetsExt, SequencesExt

CONSTANTS
  N,            \* readers, numbered in the order of fSockets
  Net,          \* the koNetServer each reader connects to
  TornStatus,   \* the build lets others see ProcessStatus's first store, DAQState=IDLE
  ErrorsPersist,\* a thread that failed fails again within the second, as long as it runs
  Timely,       \* readers arm and answer within the limits of the dispatcher
  MaxRuns,      \* bound: start commands
  Events,       \* what happens from outside: a subset of AllEvents
  MaxEvents,    \* bound: how often
  MaxInFlight   \* bound: status packets in a data socket

Slaves   == 1 .. N
Networks == {Net[s] : s \in Slaves}

\* The network is put up, a user (or the end of the run's time) stops the run, a link fails,
\* a thread of a reader fails, the polling thread broadcasts something.
AllEvents == {"connect", "stop", "lost", "error", "polled"}

ASSUME ControlAssumption ==
  /\ N \in Nat \ {0}
  /\ Net \in [Slaves -> Nat] /\ \A s, t \in Slaves : s <= t => Net[s] <= Net[t]
  /\ TornStatus \in BOOLEAN /\ ErrorsPersist \in BOOLEAN /\ Timely \in BOOLEAN
  /\ Events \subseteq AllEvents /\ {MaxRuns, MaxEvents} \subseteq Nat
  /\ MaxInFlight \in Nat \ {0}

Runs     == 1 .. MaxRuns
States   == {"IDLE", "ARMED", "RUNNING", "ERROR"}
DAQStates == States \cup {"MIXED"}

\* What travels on a command socket: a command, a line of the options or "@".  The run is
\* the content of the options; of "@" it is history.
Commands == {"ARM", "START", "STOP", "SLEEP", "KEEPALIVE"}
Strings  == [kind : Commands \cup {"OPTIONS", "@"}, run : 0 .. MaxRuns]

Unread  == 0       \* an options file with nothing in it yet
Garbled == -1      \* one that starts with anything but the options

VARIABLES
  mpc,      \* where the main thread is
  at,       \* the reader its broadcast has reached
  run,      \* the run it starts, or started last
  failed,   \* SendOptionsStream: retval is -1
  stopped,  \* history: the main thread's last completed command was a stop
  netUp,    \* m_DAQStatus.NetworkUp
  member,   \* the readers with a socket in fSockets
  table,    \* m_DAQStatus.Slaves: the last status of each reader, or "none"
  daqState, \* m_DAQStatus.DAQState
  ppc, pat, \* the same for the polling thread
  spc,      \* where each reader is
  connected,\* bConnected
  armed,    \* bArmed
  running,  \* bRunning
  options,  \* fDAQOptions: the run they are for
  file,     \* the options file being received
  failing,  \* a thread has an error for RunError to find
  link,     \* the reader's two sockets are alive
  cmd, sts, \* strings and status packets in flight
  ack,      \* the acknowledgement in flight: of which run's "@", or 0
  count     \* how many events there have been

main    == <<mpc, at, run, failed, stopped>>
poll    == <<ppc, pat>>
status  == <<netUp, member, table, daqState>>
reader  == <<spc, connected, armed, running, options, file, failing>>
network == <<link, cmd, sts, ack>>
vars    == <<main, poll, status, reader, network, count>>

Event(e) == e \in Events /\ count < MaxEvents /\ count' = count + 1

-----------------------------------------------------------------------------
(***************************************************************************)
(* Sending.  A broadcast goes through fSockets one socket at a time.       *)
(***************************************************************************)

\* The readers of the broadcast still to come, and the first one of them.
After(x)  == {s \in member : s > x}
NextOf(x) == IF After(x) = {} THEN 0 ELSE Min(After(x))

String(k) == [kind |-> k, run |-> IF k \in Commands THEN 0 ELSE run]

\* SendCommandToSocket: a dead socket is only logged.
SendTo(s, k) ==
  cmd' = IF link[s] THEN [cmd EXCEPT ![s] = Append(@, String(k))] ELSE cmd

\* Bugs for the mutation runs: states that differ are no state of their own; one armed
\* reader is enough.
StateOfNoMixed(tab) ==
  LET known == {s \in Slaves : tab[s] # "none"}
      All(v) == known # {} /\ \A s \in known : tab[s] = v
  IN IF \E s \in known : tab[s] = "ERROR" THEN "ERROR"
     ELSE IF All("RUNNING") THEN "RUNNING" ELSE IF All("ARMED") THEN "ARMED" ELSE "IDLE"

StateOfSomeArmed(tab) ==
  LET known == {s \in Slaves : tab[s] # "none"}
      All(v) == known # {} /\ \A s \in known : tab[s] = v
  IN CASE \E s \in known : tab[s] = "ERROR" -> "ERROR"
       [] All("RUNNING") -> "RUNNING"
       [] \E s \in known : tab[s] = "ARMED" -> "ARMED"
       [] known = {} \/ All("IDLE") -> "IDLE"
       [] OTHER -> "MIXED"

\* The state of the whole detector, from the table (koHelper::ProcessStatus).
StateOf(tab) ==
  LET known == {s \in Slaves : tab[s] # "none"}
      All(v) == known # {} /\ \A s \in known : tab[s] = v
  IN CASE \E s \in known : tab[s] = "ERROR" -> "ERROR"
       [] All("RUNNING") -> "RUNNING"
       [] All("ARMED")   -> "ARMED"
       [] known = {} \/ All("IDLE") -> "IDLE"
       [] OTHER -> "MIXED"

\* m_DAQStatus is read without its mutex; TornStatus says whether the first store of
\* ProcessStatus can be seen.
ReadUnlocked == TornStatus \/ ppc # "computing"
Locked       == ppc # "computing"

\* A bug for the mutation runs: an idle reader says it is ready, which nobody handles.
OwnStatusReady(s) ==
  IF running[s] THEN "RUNNING" ELSE IF armed[s] THEN "ARMED" ELSE "RDY"

\* What a reader says of itself.
OwnStatus(s) == IF running[s] THEN "RUNNING" ELSE IF armed[s] THEN "ARMED" ELSE "IDLE"

\* Everything a reader was sent has been carried out, and the dispatcher knows.
Settled(s) ==
  /\ spc[s] = "listen" /\ cmd[s] = <<>>
  /\ table[s] = OwnStatus(s) /\ \A i \in DOMAIN sts[s] : sts[s][i] = OwnStatus(s)

\* When the dispatcher decides something that it cannot wait for any longer: any time, or
\* once every reader within reach has had the time to answer.
TimeIsUp == Timely => daqState = StateOf(table) /\ \A s \in member : link[s] => Settled(s)

-----------------------------------------------------------------------------
(***************************************************************************)
(* The main thread.                                                        *)
(***************************************************************************)

Broadcast(pc, k, next) ==
  /\ mpc = pc
  /\ IF NextOf(at) # 0
     THEN /\ SendTo(NextOf(at), k) /\ at' = NextOf(at)
          /\ UNCHANGED mpc
     ELSE /\ mpc' = next /\ at' = 0
          /\ UNCHANGED cmd
  /\ UNCHANGED <<run, failed, poll, status, reader, link, sts, ack, count>>

MainOnly == UNCHANGED <<poll, status, reader, network>>

\* MasterControl::Start: ValidateStartCommand of the detector.
Validate ==
  /\ mpc = "idle" /\ run < MaxRuns /\ TimeIsUp
  /\ ReadUnlocked /\ daqState = "IDLE" /\ netUp /\ \E s \in Slaves : table[s] # "none"
  /\ mpc' = "valid" /\ run' = run + 1 /\ stopped' = FALSE
  /\ UNCHANGED <<at, failed, count>> /\ MainOnly

\* DAQMonitor::Arm looks at the state once more.
Arm ==
  /\ mpc = "valid" /\ ReadUnlocked
  /\ mpc' = IF daqState = "IDLE" THEN "arm" ELSE "stop"
  /\ UNCHANGED <<at, run, failed, stopped, count>> /\ MainOnly

SendArm == Broadcast("arm", "ARM", "options") /\ UNCHANGED stopped

\* SendOptionsStream: the next socket; the error of a network ends Arm with it.
NextSocket ==
  LET s == NextOf(at) IN
  /\ mpc = "options"
  /\ IF failed /\ (s = 0 \/ Net[s] # Net[at])
     THEN mpc' = "stop" /\ at' = 0 /\ failed' = FALSE
     ELSE /\ mpc' = IF s = 0 THEN "waitArmed" ELSE "line"
          /\ at' = s
          /\ UNCHANGED failed
  /\ UNCHANGED <<run, stopped, count>> /\ MainOnly

\* SendStream: the options, then "@"; each fails on a dead socket.
SendOptions(pc, k, next) ==
  /\ mpc = pc
  /\ SendTo(at, k)
  /\ IF link[at] THEN mpc' = next /\ UNCHANGED failed
                 ELSE mpc' = "options" /\ failed' = TRUE
  /\ UNCHANGED <<at, run, stopped, poll, status, reader, link, sts, ack, count>>

SendLine == SendOptions("line", "OPTIONS", "end")
\* A bug for the mutation runs: the answer is not waited for.
SendEndNoWait == SendOptions("end", "@", "options")
SendEnd  == SendOptions("end", "@", "ack")

\* A bug for the mutation runs: the end of the connection is not noticed.
ReceiveAckDeaf ==
  /\ mpc = "ack" /\ ack[at] # 0
  /\ ack' = [ack EXCEPT ![at] = 0]
  /\ mpc' = "options"
  /\ UNCHANGED <<at, failed, run, stopped, poll, status, reader, link, cmd, sts, count>>

\* ReceiveAck blocks until the answer or the end of the connection.
ReceiveAck ==
  /\ mpc = "ack"
  /\ \/ ack[at] # 0 /\ ack' = [ack EXCEPT ![at] = 0] /\ UNCHANGED failed
     \/ ~link[at] /\ failed' = TRUE /\ UNCHANGED ack
  /\ mpc' = "options"
  /\ UNCHANGED <<at, run, stopped, poll, status, reader, link, cmd, sts, count>>

\* MasterControl::Start polls the state for 20 s, with the mutex.
WaitArmed ==
  /\ mpc = "waitArmed" /\ Locked
  /\ \/ daqState = "ARMED" /\ mpc' = "waitStart"
     \/ daqState # "ARMED" /\ TimeIsUp /\ mpc' = "stop"
  /\ UNCHANGED <<at, run, failed, stopped, count>> /\ MainOnly

\* DAQMonitor::Start looks again, for 15 s and without it.
WaitStart ==
  /\ mpc = "waitStart" /\ ReadUnlocked
  /\ \/ daqState = "ARMED" /\ mpc' = "start"
     \/ daqState # "ARMED" /\ TimeIsUp /\ mpc' = "stop"
  /\ UNCHANGED <<at, run, failed, stopped, count>> /\ MainOnly

SendStart == Broadcast("start", "START", "idle") /\ UNCHANGED stopped

\* MasterControl::Stop, of a user, of the web interface or when the run's time is over.
StopCommand ==
  /\ mpc = "idle" /\ Event("stop")
  /\ mpc' = "stop" /\ at' = 0
  /\ UNCHANGED <<run, failed, stopped>> /\ MainOnly

\* A bug for the mutation runs: only a detector that is all running is stopped.
SendStopIfRunning ==
  /\ IF daqState = "RUNNING" \/ at # 0
     THEN Broadcast("stop", "STOP", "sleep")
     ELSE /\ mpc = "stop" /\ mpc' = "sleep"
          /\ UNCHANGED <<at, run, failed, poll, status, reader, network, count>>
  /\ UNCHANGED stopped

\* DAQMonitor::Stop and Shutdown.
SendStop  == Broadcast("stop", "STOP", "sleep") /\ UNCHANGED stopped
SendSleep == /\ Broadcast("sleep", "SLEEP", "idle")
             /\ stopped' = (stopped \/ mpc' = "idle")

Fresh(new, f, v) == [s \in Slaves |-> IF s \in new THEN v ELSE f[s]]

\* koNetServer::AddConnection: two new sockets for each reader.
AddConnections(new) ==
  /\ member' = new /\ link' = Fresh(new, link, TRUE)
  /\ cmd' = Fresh(new, cmd, <<>>) /\ sts' = Fresh(new, sts, <<>>)
  /\ ack' = Fresh(new, ack, 0)

\* koNetClient::Connect returns to the reader's connection loop.
ConnectReaders(new) == connected' = Fresh(new, connected, TRUE)

\* DAQMonitor::Connect: the readers that are looking for the network and find it in time.
Connect ==
  /\ mpc = "idle" /\ ~netUp /\ Event("connect")
  /\ \E new \in SUBSET {s \in Slaves : ~connected[s]} :
       AddConnections(new) /\ ConnectReaders(new)
  /\ netUp' = TRUE
  /\ UNCHANGED <<main, poll, table, daqState, spc, armed, running, options, file, failing>>

\* DAQMonitor::Disconnect closes every socket, empties the status and joins the polling
\* thread, which is between two rounds then.
Disconnect ==
  /\ mpc = "idle" /\ netUp /\ ppc = "watch"
  /\ link' = [s \in Slaves |-> link[s] /\ s \notin member]
  /\ sts' = [s \in Slaves |-> <<>>] /\ ack' = [s \in Slaves |-> 0]
  /\ member' = {} /\ netUp' = FALSE
  /\ table' = [s \in Slaves |-> "none"] /\ daqState' = "IDLE"
  /\ UNCHANGED <<main, poll, reader, cmd, count>>

Dispatcher ==
  \/ Validate \/ Arm \/ SendArm \/ NextSocket \/ SendLine \/ SendEnd \/ ReceiveAck
  \/ WaitArmed \/ WaitStart \/ SendStart \/ StopCommand \/ SendStop \/ SendSleep
  \/ Connect \/ Disconnect

-----------------------------------------------------------------------------
(***************************************************************************)
(* The polling thread: DAQMonitor::PollNetwork.                            *)
(***************************************************************************)

PollOnly == UNCHANGED <<main, reader, link, ack, netUp, member>>

\* WatchDataPipe takes everything off the data sockets of one network, with the mutex,
\* and ProcessStatus begins by storing IDLE.
WatchDataPipe(net) ==
  LET heard == {s \in member : Net[s] = net /\ sts[s] # <<>>} IN
  /\ ppc = "watch" /\ netUp /\ heard # {}
  /\ table' = [s \in Slaves |-> IF s \in heard THEN Last(sts[s]) ELSE table[s]]
  /\ sts' = [s \in Slaves |-> IF s \in heard THEN <<>> ELSE sts[s]]
  /\ daqState' = "IDLE" /\ ppc' = "computing"
  /\ UNCHANGED <<pat, cmd, count>> /\ PollOnly

ProcessStatus ==
  /\ ppc = "computing"
  /\ daqState' = StateOf(table) /\ ppc' = "watch"
  /\ UNCHANGED <<pat, table, cmd, sts, count>> /\ PollOnly

\* A reader that has been silent for a minute is erased.  The name looked at next is the
\* one behind it, or beyond the end of the vector: the run may be stopped or not.
GiveUp(s) ==
  /\ ppc = "watch" /\ netUp
  /\ table[s] # "none" /\ (~link[s] \/ (spc[s] = "arming" /\ ~Timely))
  /\ Event("polled")
  /\ table' = [table EXCEPT ![s] = "none"]
  /\ ppc' \in {"watch", "stop"} /\ pat' = 0
  /\ UNCHANGED <<daqState, cmd, sts>> /\ PollOnly

KeepAlive ==
  /\ ppc = "watch" /\ netUp /\ Event("polled")
  /\ ppc' = "keepalive" /\ pat' = 0
  /\ UNCHANGED <<table, daqState, cmd, sts>> /\ PollOnly

PollBroadcast(pc, k, next) ==
  /\ ppc = pc
  /\ IF NextOf(pat) # 0
     THEN /\ SendTo(NextOf(pat), k) /\ pat' = NextOf(pat)
          /\ UNCHANGED ppc
     ELSE /\ ppc' = next /\ pat' = 0
          /\ UNCHANGED cmd
  /\ UNCHANGED <<table, daqState, sts, count>> /\ PollOnly

\* ThrowFatalError stops and shuts down; KEEPALIVE is for the routers.
PollStop      == PollBroadcast("stop", "STOP", "sleep")
PollSleep     == PollBroadcast("sleep", "SLEEP", "watch")
PollKeepAlive == PollBroadcast("keepalive", "KEEPALIVE", "watch")

PollNetwork ==
  \/ \E net \in Networks : WatchDataPipe(net)
  \/ ProcessStatus \/ \E s \in Slaves : GiveUp(s)
  \/ KeepAlive \/ PollStop \/ PollSleep \/ PollKeepAlive

-----------------------------------------------------------------------------
(***************************************************************************)
(* A reader: main() of koSlave.                                            *)
(***************************************************************************)

ReaderOnly == UNCHANGED <<main, poll, status, link>>

\* ListenForCommand takes one string; what a command does depends on bArmed and bRunning.
Obey(s, c) ==
  LET is(k) == c.kind = k IN
  /\ spc' = [spc EXCEPT ![s] = IF is("ARM") /\ ~running[s] THEN "file" ELSE @]
  /\ file' = [file EXCEPT ![s] = IF is("ARM") /\ ~running[s] THEN Unread ELSE @]
  /\ armed' = [armed EXCEPT ![s] =
       @ /\ ~(is("ARM") /\ ~running[s]) /\ ~(is("SLEEP") /\ ~running[s])
         /\ ~(is("STOP") /\ running[s])]
  /\ running' = [running EXCEPT ![s] =
       \/ is("START") /\ armed[s]
       \/ @ /\ ~(is("STOP") /\ armed[s])]

Listen(s) ==
  /\ spc[s] = "listen" /\ connected[s] /\ cmd[s] # <<>>
  /\ Obey(s, Head(cmd[s]))
  /\ cmd' = [cmd EXCEPT ![s] = Tail(@)]
  /\ UNCHANGED <<connected, options, failing, sts, ack, count>> /\ ReaderOnly

\* ReceiveFile takes every string for a line of the options, until "@".
ReceiveLine(s) ==
  LET c == Head(cmd[s]) IN
  /\ spc[s] = "file" /\ cmd[s] # <<>> /\ c.kind # "@"
  /\ file' = [file EXCEPT ![s] =
       IF @ # Unread THEN @ ELSE IF c.kind = "OPTIONS" THEN c.run ELSE Garbled]
  /\ cmd' = [cmd EXCEPT ![s] = Tail(@)]
  /\ UNCHANGED <<spc, connected, armed, running, options, failing, sts, ack, count>>
  /\ ReaderOnly

\* A bug for the mutation runs: a file that cannot be parsed leaves the old options in use.
FileEndUnparsed(s) ==
  LET c == Head(cmd[s]) IN
  /\ spc[s] = "file" /\ cmd[s] # <<>> /\ c.kind = "@"
  /\ ack' = IF link[s] THEN [ack EXCEPT ![s] = c.run] ELSE ack
  /\ options' = IF file[s] \in Runs THEN [options EXCEPT ![s] = file[s]] ELSE options
  /\ spc' = [spc EXCEPT ![s] = IF link[s] THEN "arming" ELSE "listen"]
  /\ file' = [file EXCEPT ![s] = Unread]
  /\ cmd' = [cmd EXCEPT ![s] = Tail(@)]
  /\ UNCHANGED <<connected, armed, running, failing, sts, count>> /\ ReaderOnly

\* The answer is sent before the file is parsed.  Without a way to send it, the options
\* are not used.
FileEnd(s) ==
  LET c == Head(cmd[s])
      loads == link[s] /\ file[s] \in Runs
  IN
  /\ spc[s] = "file" /\ cmd[s] # <<>> /\ c.kind = "@"
  /\ ack' = IF link[s] THEN [ack EXCEPT ![s] = c.run] ELSE ack
  /\ options' = IF loads THEN [options EXCEPT ![s] = file[s]] ELSE options
  /\ spc' = [spc EXCEPT ![s] = IF loads THEN "arming" ELSE "listen"]
  /\ file' = [file EXCEPT ![s] = Unread]
  /\ cmd' = [cmd EXCEPT ![s] = Tail(@)]
  /\ UNCHANGED <<connected, armed, running, failing, sts, count>> /\ ReaderOnly

FileLost(s) ==
  /\ spc[s] = "file" /\ cmd[s] = <<>> /\ ~link[s]
  /\ spc' = [spc EXCEPT ![s] = "listen"]
  /\ file' = [file EXCEPT ![s] = Unread]
  /\ UNCHANGED <<connected, armed, running, options, failing, cmd, sts, ack, count>>
  /\ ReaderOnly

\* DigiInterface::Arm, which may take minutes and may fail.
ArmBoards(s) ==
  /\ spc[s] = "arming"
  /\ spc' = [spc EXCEPT ![s] = "listen"]
  /\ \E ok \in BOOLEAN : armed' = [armed EXCEPT ![s] = ok]
  /\ UNCHANGED <<connected, running, options, file, failing, cmd, sts, ack, count>>
  /\ ReaderOnly

\* The status packet of the second.  RunError takes the error it reports away.
SendStatus(s) ==
  /\ spc[s] = "listen" /\ connected[s] /\ link[s] /\ Len(sts[s]) < MaxInFlight
  /\ sts' = [sts EXCEPT ![s] = Append(@, IF failing[s] THEN "ERROR" ELSE OwnStatus(s))]
  /\ failing' = [failing EXCEPT ![s] = @ /\ ErrorsPersist /\ running[s]]
  /\ UNCHANGED <<spc, connected, armed, running, options, file, cmd, ack, count>>
  /\ ReaderOnly

\* A bug for the mutation runs: the reader reconnects without ending the run.
SendFailsKeepsRunning(s) ==
  /\ spc[s] = "listen" /\ connected[s] /\ ~link[s]
  /\ failing' = [failing EXCEPT ![s] = @ /\ ErrorsPersist /\ running[s]]
  /\ connected' = [connected EXCEPT ![s] = failing[s]]
  /\ UNCHANGED <<spc, armed, running, options, file, cmd, sts, ack, count>> /\ ReaderOnly

\* The packet cannot be sent.  Behind an error nobody looks; otherwise the run ends and
\* the reader looks for a network again.
SendFails(s) ==
  /\ spc[s] = "listen" /\ connected[s] /\ ~link[s]
  /\ failing' = [failing EXCEPT ![s] = @ /\ ErrorsPersist /\ running[s]]
  /\ connected' = [connected EXCEPT ![s] = failing[s]]
  /\ armed' = [armed EXCEPT ![s] = @ /\ failing[s]]
  /\ running' = [running EXCEPT ![s] = @ /\ failing[s]]
  /\ UNCHANGED <<spc, options, file, cmd, sts, ack, count>> /\ ReaderOnly

\* A processor, the recorder or a board of a running reader fails.
ThreadFails(s) ==
  /\ running[s] /\ ~failing[s] /\ Event("error")
  /\ failing' = [failing EXCEPT ![s] = TRUE]
  /\ UNCHANGED <<spc, connected, armed, running, options, file, cmd, sts, ack>> /\ ReaderOnly

Slave(s) ==
  \/ Listen(s) \/ ReceiveLine(s) \/ FileEnd(s) \/ FileLost(s) \/ ArmBoards(s)
  \/ SendStatus(s) \/ SendFails(s)

\* The network fails or one of the two machines resets the connection.
LinkLost(s) ==
  /\ link[s] /\ Event("lost")
  /\ link' = [link EXCEPT ![s] = FALSE]
  /\ UNCHANGED <<main, poll, status, reader, cmd, sts, ack>>

-----------------------------------------------------------------------------

Init ==
  /\ mpc = "idle" /\ at = 0 /\ run = 0 /\ failed = FALSE /\ stopped = FALSE
  /\ netUp = FALSE /\ member = {} /\ daqState = "IDLE" /\ ppc = "watch" /\ pat = 0
  /\ table = [s \in Slaves |-> "none"]
  /\ spc = [s \in Slaves |-> "listen"]
  /\ connected = [s \in Slaves |-> FALSE] /\ armed = [s \in Slaves |-> FALSE]
  /\ running = [s \in Slaves |-> FALSE] /\ failing = [s \in Slaves |-> FALSE]
  /\ options = [s \in Slaves |-> 0] /\ file = [s \in Slaves |-> Unread]
  /\ link = [s \in Slaves |-> FALSE] /\ ack = [s \in Slaves |-> 0]
  /\ cmd = [s \in Slaves |-> <<>>] /\ sts = [s \in Slaves |-> <<>>]
  /\ count = 0

Next ==
  \/ Dispatcher \/ PollNetwork
  \/ \E s \in Slaves : Slave(s) \/ ThreadFails(s) \/ LinkLost(s)

Spec == Init /\ [][Next]_vars

\* Both threads of the dispatcher run and so do the readers, whose loops never stop
\* for good; a user's commands and the failures need not happen.  The main thread gets
\* the mutex some time, the polling thread sleeps without it in every round, and it
\* visits the networks in turn.
FairSpec ==
  /\ Spec
  /\ SF_vars(Dispatcher /\ mpc # "idle")
  /\ \A net \in Networks : SF_vars(WatchDataPipe(net))
  /\ WF_vars(ProcessStatus \/ PollStop \/ PollSleep \/ PollKeepAlive)
  /\ \A s \in Slaves :
       /\ WF_vars(Listen(s) \/ ReceiveLine(s) \/ FileEnd(s) \/ FileLost(s) \/ ArmBoards(s))
       /\ WF_vars(SendStatus(s) \/ SendFails(s))

-----------------------------------------------------------------------------
(***************************************************************************)
(* Properties.                                                             *)
(***************************************************************************)

\* Every variable has its type.
TypeOK ==
  /\ mpc \in {"idle", "valid", "arm", "options", "line", "end", "ack", "waitArmed",
              "waitStart", "start", "stop", "sleep"}
  /\ at \in 0 .. N /\ run \in 0 .. MaxRuns /\ failed \in BOOLEAN /\ stopped \in BOOLEAN
  /\ netUp \in BOOLEAN /\ member \subseteq Slaves /\ daqState \in DAQStates
  /\ table \in [Slaves -> States \cup {"none"}]
  /\ ppc \in {"watch", "computing", "stop", "sleep", "keepalive"} /\ pat \in 0 .. N
  /\ spc \in [Slaves -> {"listen", "file", "arming"}]
  /\ {connected, armed, running, failing, link} \subseteq [Slaves -> BOOLEAN]
  /\ options \in [Slaves -> 0 .. MaxRuns] /\ file \in [Slaves -> Garbled .. MaxRuns]
  /\ ack \in [Slaves -> 0 .. MaxRuns]
  /\ cmd \in [Slaves -> Seq(Strings)] /\ sts \in [Slaves -> Seq(States)]
  /\ count \in 0 .. MaxEvents

\* The readers of the detector that take data at the same time do so with the options of
\* the same run: koSlave runs with what its last options file said, and START names no run.
SameRun ==
  \A s, t \in member : running[s] /\ running[t] => options[s] = options[t]

Waiting(s, k) == {i \in DOMAIN cmd[s] : cmd[s][i].kind = k}

\* After a stop has returned, every reader still within reach that runs, or has a START to
\* come, has a STOP to come after it: MasterControl::Stop does not wait for an answer, and
\* a reader swallows commands while it waits for options.
StopOnItsWay ==
  mpc = "idle" /\ stopped =>
    \A s \in member :
      link[s] =>
        /\ running[s] => Waiting(s, "STOP") # {}
        /\ \A i \in Waiting(s, "START") : \E j \in Waiting(s, "STOP") : i < j

\* An acknowledgement is only ever on its way while Arm waits for it, and it is for the
\* options Arm has just sent: ReceiveAck cannot tell one "y!" from another.
AckIsTheAnswer ==
  \A s \in member : ack[s] # 0 /\ link[s] => mpc = "ack" /\ at = s /\ ack[s] = run

\* No reader meets an ARM while it takes data: it would throw away the command and the
\* options behind it, and the dispatcher would wait for the answer for ever.
ArmIsTaken ==
  \A s \in member :
    spc[s] = "listen" /\ cmd[s] # <<>> /\ Head(cmd[s]).kind = "ARM" => ~running[s]

\* "Check current state. DAQ must be armed": when START goes out, every reader of the
\* network has armed its boards.
StartFindsAllArmed ==
  mpc = "start" /\ at = 0 => \A s \in member : link[s] => armed[s]

\* A start or stop always comes back to the main loop, whatever fails: nothing the
\* dispatcher waits for without a limit stays away.
CommandReturns == []<>(mpc = "idle")

\* A reader that has lost its dispatcher does not run on.
LostLinkEndsRun ==
  \A s \in Slaves : connected[s] /\ ~link[s] ~> ~running[s]
=============================================================================
