--------------------------- MODULE RunControlProofs ---------------------------
(***************************************************************************)
(* Proofs about RunControl for any number of readers and networks, any     *)
(* number of runs and whatever happens from outside.  The inductive        *)
(* invariant says where the strings of a command can be: what is left of    *)
(* the options on a socket, which readers have answered the options of the  *)
(* run, what may stand before a START, and that one set of options is       *)
(* behind all readers that run or will.                                    *)
(***************************************************************************)
EXTENDS RunControl, WellFoundedInduction, TLAPS

-----------------------------------------------------------------------------
(* Queues and broadcasts.                                                  *)

LEMMA Appended ==
  ASSUME NEW S, NEW q \in Seq(S), NEW c \in S
  PROVE  /\ Append(q, c) \in Seq(S) /\ DOMAIN Append(q, c) = 1 .. Len(q) + 1
         /\ DOMAIN q = 1 .. Len(q) /\ Len(q) \in Nat
         /\ \A i \in DOMAIN q : Append(q, c)[i] = q[i] /\ i < Len(q) + 1
         /\ Append(q, c)[Len(q) + 1] = c
         /\ \A i \in DOMAIN Append(q, c) : i \in DOMAIN q \/ i = Len(q) + 1
  OBVIOUS

LEMMA Taken ==
  ASSUME NEW S, NEW q \in Seq(S), q # <<>>
  PROVE  /\ Tail(q) \in Seq(S) /\ Head(q) = q[1] /\ Head(q) \in S /\ 1 \in DOMAIN q
         /\ DOMAIN q \subseteq Nat \ {0} /\ DOMAIN Tail(q) \subseteq Nat \ {0}
         /\ \A i \in DOMAIN Tail(q) : i + 1 \in DOMAIN q /\ Tail(q)[i] = q[i + 1]
         /\ \A i \in DOMAIN q : i > 1 => i - 1 \in DOMAIN Tail(q) /\ Tail(q)[i - 1] = q[i]
  OBVIOUS

LEMMA LeastNumber ==
  ASSUME NEW T, T \subseteq Nat, T # {} PROVE \E n \in T : \A m \in T : n <= m
<1>1. PICK R : IsWellFoundedOn(R, Nat) /\ \A n, m \in Nat : n < m => <<n, m>> \in R
  <2>1. IsWellFoundedOn(OpToRel(<, Nat), Nat)  BY NatLessThanWellFounded
  <2>2. \A n, m \in Nat : n < m => <<n, m>> \in OpToRel(<, Nat)  BY DEF OpToRel
  <2>3. QED  BY <2>1, <2>2, Zenon
<1>2. PICK n \in T : \A m \in T : ~(<<m, n>> \in R)  BY ZenonT(60), <1>1, WFMin
<1>3. \A m \in T : ~(m < n)  BY <1>1, <1>2, Zenon
<1>4. QED  BY <1>3

\* The next reader of a broadcast: nobody is left out between two of them.
LEMMA NextReader ==
  ASSUME member \subseteq Slaves, NEW a \in 0 .. N
  PROVE  /\ NextOf(a) = 0 => \A s \in member : s <= a
         /\ NextOf(a) # 0 => /\ NextOf(a) \in member /\ NextOf(a) > a
                             /\ \A s \in member : s < NextOf(a) => s <= a
<1>0. \A s \in Slaves : s \in Nat \ {0}  BY DEF Slaves
<1>1. After(a) \subseteq Nat \ {0} /\ After(a) \subseteq member
  BY <1>0 DEF After
<1>2. CASE After(a) = {}
  <2>1. NextOf(a) = 0  BY <1>2 DEF NextOf
  <2>2. \A s \in member : s <= a  BY <1>0, <1>2 DEF After
  <2>3. QED  BY <2>1, <2>2
<1>3. CASE After(a) # {}
  <2>1. PICK m \in After(a) : \A s \in After(a) : m <= s  BY <1>1, <1>3, LeastNumber
  <2>2. NextOf(a) \in After(a) /\ \A s \in After(a) : NextOf(a) <= s
    BY <1>3, <2>1 DEF NextOf, Min
  <2>3. NextOf(a) # 0 /\ NextOf(a) \in member /\ NextOf(a) > a
    BY <1>1, <2>2 DEF After
  <2>4. \A s \in member : s < NextOf(a) => s <= a
    BY <1>0, <1>1, <2>2, <2>3 DEF After
  <2>5. QED  BY <2>3, <2>4
<1>4. QED  BY <1>2, <1>3

-----------------------------------------------------------------------------
(* The types.                                                              *)

LEMMA StringType ==
  ASSUME TypeOK, NEW k \in Commands \cup {"OPTIONS", "@"}
  PROVE  String(k) \in Strings /\ String(k).kind = k /\ (k \notin Commands => String(k).run = run)
<1>1. run \in 0 .. MaxRuns /\ 0 \in 0 .. MaxRuns  BY ControlAssumption DEF TypeOK
<1>2. QED  BY <1>1 DEF String, Strings

LEMMA SendType ==
  ASSUME TypeOK, NEW s \in Slaves, NEW k \in Commands \cup {"OPTIONS", "@"}, SendTo(s, k)
  PROVE  cmd' \in [Slaves -> Seq(Strings)]
<1>1. cmd \in [Slaves -> Seq(Strings)] /\ String(k) \in Strings  BY StringType DEF TypeOK
<1>2. Append(cmd[s], String(k)) \in Seq(Strings)  BY <1>1
<1>3. QED  BY <1>1, <1>2 DEF SendTo

LEMMA ReaderNumbers ==
  ASSUME TypeOK
  PROVE  /\ member \subseteq Slaves /\ Slaves \subseteq 0 .. N /\ 0 \in 0 .. N
         /\ \A s \in Slaves : s \in Nat \ {0}
         /\ NextOf(at) # 0 => NextOf(at) \in member /\ NextOf(at) \in 0 .. N
         /\ NextOf(pat) # 0 => NextOf(pat) \in member /\ NextOf(pat) \in 0 .. N
<1>1. /\ member \subseteq Slaves /\ Slaves \subseteq 0 .. N /\ 0 \in 0 .. N
      /\ at \in 0 .. N /\ pat \in 0 .. N
  BY ControlAssumption DEF TypeOK, Slaves
<1>2. \A s \in Slaves : s \in Nat \ {0}  BY DEF Slaves
<1>3. \A a \in 0 .. N : NextOf(a) # 0 => NextOf(a) \in member
  BY <1>1, NextReader
<1>4. QED  BY <1>1, <1>2, <1>3

MainPCs == {"idle", "valid", "arm", "options", "line", "end", "ack", "waitArmed",
            "waitStart", "start", "stop", "sleep"}

LEMMA BroadcastType ==
  ASSUME TypeOK, NEW pc, NEW k \in Commands, NEW next \in MainPCs, Broadcast(pc, k, next),
         stopped' \in BOOLEAN
  PROVE  TypeOK'
<1>1. at' \in 0 .. N /\ mpc' \in MainPCs /\ cmd' \in [Slaves -> Seq(Strings)]
  <2>1. CASE NextOf(at) # 0
    BY <2>1, ReaderNumbers, SendType DEF Broadcast, TypeOK, MainPCs
  <2>2. CASE NextOf(at) = 0
    BY <2>2, ReaderNumbers DEF Broadcast, TypeOK
  <2>3. QED  BY <2>1, <2>2
<1>2. QED  BY <1>1 DEF Broadcast, TypeOK, MainPCs, poll, status, reader

LEMMA PollBroadcastType ==
  ASSUME TypeOK, NEW pc, NEW k \in Commands, NEW next \in {"sleep", "watch"},
         PollBroadcast(pc, k, next)
  PROVE  TypeOK'
<1>1. /\ pat' \in 0 .. N /\ cmd' \in [Slaves -> Seq(Strings)]
      /\ ppc' \in {"watch", "computing", "stop", "sleep", "keepalive"}
  <2>1. CASE NextOf(pat) # 0
    BY <2>1, ReaderNumbers, SendType DEF PollBroadcast, TypeOK
  <2>2. CASE NextOf(pat) = 0
    BY <2>2, ReaderNumbers DEF PollBroadcast, TypeOK
  <2>3. QED  BY <2>1, <2>2
<1>2. QED  BY <1>1 DEF PollBroadcast, PollOnly, TypeOK, main, reader

LEMMA DispatcherType == ASSUME TypeOK, Dispatcher PROVE TypeOK'
<1>0. MaxRuns \in Nat /\ MaxEvents \in Nat  BY ControlAssumption
<1>1. CASE Validate
  <2>1. run' \in 0 .. MaxRuns
    BY <1>0, <1>1 DEF Validate, TypeOK
  <2>2. QED
    BY <1>1, <2>1 DEF Validate, MainOnly, TypeOK, poll, status, reader, network
<1>2. CASE Arm \/ WaitArmed \/ WaitStart
  BY <1>2 DEF Arm, WaitArmed, WaitStart, MainOnly, TypeOK, poll, status, reader, network
<1>3. CASE NextSocket
  BY <1>3, ReaderNumbers DEF NextSocket, MainOnly, TypeOK, poll, status, reader, network
<1>4. CASE SendLine \/ SendEnd
  <2>1. CASE at \in Slaves
    <3>1. cmd' \in [Slaves -> Seq(Strings)]
      BY <1>4, <2>1, SendType DEF SendLine, SendEnd, SendOptions
    <3>2. QED
      BY <1>4, <3>1 DEF SendLine, SendEnd, SendOptions, TypeOK, poll, status, reader
  <2>2. CASE at \notin Slaves
    <3>1. cmd' = cmd
      BY <1>4, <2>2 DEF SendLine, SendEnd, SendOptions, SendTo, TypeOK
    <3>2. QED
      BY <1>4, <3>1 DEF SendLine, SendEnd, SendOptions, TypeOK, poll, status, reader
  <2>3. QED  BY <2>1, <2>2
<1>5. CASE ReceiveAck
  <2>1. ack' \in [Slaves -> 0 .. MaxRuns]
    <3>1. ack \in [Slaves -> 0 .. MaxRuns] /\ 0 \in 0 .. MaxRuns  BY <1>0 DEF TypeOK
    <3>2. QED  BY <1>5, <3>1 DEF ReceiveAck
  <2>2. QED  BY <1>5, <2>1 DEF ReceiveAck, TypeOK, poll, status, reader
<1>6. CASE SendArm
  BY <1>6, BroadcastType DEF SendArm, Commands, MainPCs, TypeOK
<1>7. CASE SendStart
  BY <1>7, BroadcastType DEF SendStart, Commands, MainPCs, TypeOK
<1>8. CASE SendStop
  BY <1>8, BroadcastType DEF SendStop, Commands, MainPCs, TypeOK
<1>9. CASE SendSleep
  BY <1>9, BroadcastType DEF SendSleep, Commands, MainPCs, TypeOK
<1>10. CASE StopCommand
  BY <1>0, <1>10, ReaderNumbers
  DEF StopCommand, Event, MainOnly, TypeOK, poll, status, reader, network
<1>11. CASE Connect
  <2>1. PICK new \in SUBSET {s \in Slaves : ~connected[s]} :
          AddConnections(new) /\ ConnectReaders(new)
    BY <1>11 DEF Connect
  <2>2. /\ member' \subseteq Slaves /\ link' \in [Slaves -> BOOLEAN]
        /\ connected' \in [Slaves -> BOOLEAN] /\ ack' \in [Slaves -> 0 .. MaxRuns]
    <3>1. /\ link \in [Slaves -> BOOLEAN] /\ connected \in [Slaves -> BOOLEAN]
          /\ ack \in [Slaves -> 0 .. MaxRuns] /\ 0 \in 0 .. MaxRuns
      BY <1>0 DEF TypeOK
    <3>2. QED  BY <2>1, <3>1 DEF AddConnections, ConnectReaders, Fresh
  <2>3. cmd' \in [Slaves -> Seq(Strings)]
    <3>1. <<>> \in Seq(Strings) /\ cmd \in [Slaves -> Seq(Strings)]  BY DEF TypeOK
    <3>2. QED  BY <2>1, <3>1 DEF AddConnections, Fresh
  <2>4. sts' \in [Slaves -> Seq(States)]
    <3>1. <<>> \in Seq(States) /\ sts \in [Slaves -> Seq(States)]  BY DEF TypeOK
    <3>2. QED  BY <2>1, <3>1 DEF AddConnections, Fresh
  <2>5. QED  BY <1>0, <1>11, <2>2, <2>3, <2>4 DEF Connect, Event, TypeOK, main, poll
<1>12. CASE Disconnect
  <2>1. /\ member' \subseteq Slaves /\ link' \in [Slaves -> BOOLEAN]
        /\ ack' \in [Slaves -> 0 .. MaxRuns] /\ table' \in [Slaves -> States \cup {"none"}]
    BY <1>0, <1>12 DEF Disconnect, TypeOK
  <2>2. sts' \in [Slaves -> Seq(States)]
    <3>1. <<>> \in Seq(States)  OBVIOUS
    <3>2. QED  BY <1>12, <3>1 DEF Disconnect
  <2>3. QED  BY ZenonT(60), <1>12, <2>1, <2>2 DEF Disconnect, TypeOK, DAQStates, States, main, poll, reader
<1>13. QED
  BY <1>1, <1>2, <1>3, <1>4, <1>5, <1>6, <1>7, <1>8, <1>9, <1>10, <1>11, <1>12 DEF Dispatcher

LEMMA PollType == ASSUME TypeOK, PollNetwork PROVE TypeOK'
<1>0. MaxEvents \in Nat /\ 0 \in 0 .. N  BY ControlAssumption DEF TypeOK
<1>1. ASSUME NEW net \in Networks, WatchDataPipe(net) PROVE TypeOK'
  <2>1. sts \in [Slaves -> Seq(States)] /\ table \in [Slaves -> States \cup {"none"}]
        /\ <<>> \in Seq(States)
    BY DEF TypeOK
  <2>2. \A s \in Slaves : sts[s] # <<>> => Last(sts[s]) \in States
    BY <2>1 DEF Last
  <2>3. table' \in [Slaves -> States \cup {"none"}]
    BY <1>1, <2>1, <2>2 DEF WatchDataPipe
  <2>4. sts' \in [Slaves -> Seq(States)]  BY <1>1, <2>1 DEF WatchDataPipe
  <2>5. QED
    BY <1>1, <2>3, <2>4
    DEF WatchDataPipe, PollOnly, TypeOK, DAQStates, States, main, reader
<1>2. CASE ProcessStatus
  <2>1. StateOf(table) \in DAQStates  BY Zenon DEF StateOf, DAQStates, States
  <2>2. QED  BY <1>2, <2>1 DEF ProcessStatus, PollOnly, TypeOK, main, reader
<1>3. ASSUME NEW s \in Slaves, GiveUp(s) PROVE TypeOK'
  BY <1>0, <1>3 DEF GiveUp, Event, PollOnly, TypeOK, main, reader
<1>4. CASE KeepAlive
  BY <1>0, <1>4 DEF KeepAlive, Event, PollOnly, TypeOK, main, reader
<1>5. CASE PollStop
  BY <1>5, PollBroadcastType DEF PollStop, Commands
<1>6. CASE PollSleep
  BY <1>6, PollBroadcastType DEF PollSleep, Commands
<1>7. CASE PollKeepAlive
  BY <1>7, PollBroadcastType DEF PollKeepAlive, Commands
<1>8. QED  BY <1>1, <1>2, <1>3, <1>4, <1>5, <1>6, <1>7 DEF PollNetwork

\* What the steps of a reader read.
LEMMA ReaderTypes ==
  ASSUME TypeOK, NEW s \in Slaves
  PROVE  /\ cmd \in [Slaves -> Seq(Strings)] /\ cmd[s] \in Seq(Strings)
         /\ cmd[s] # <<>> => /\ Tail(cmd[s]) \in Seq(Strings) /\ Head(cmd[s]) \in Strings
                             /\ Head(cmd[s]).run \in 0 .. MaxRuns
                             /\ [cmd EXCEPT ![s] = Tail(@)] \in [Slaves -> Seq(Strings)]
         /\ armed \in [Slaves -> BOOLEAN] /\ running \in [Slaves -> BOOLEAN]
         /\ connected \in [Slaves -> BOOLEAN] /\ failing \in [Slaves -> BOOLEAN]
         /\ link \in [Slaves -> BOOLEAN] /\ ack \in [Slaves -> 0 .. MaxRuns]
         /\ spc \in [Slaves -> {"listen", "file", "arming"}]
         /\ options \in [Slaves -> 0 .. MaxRuns] /\ file \in [Slaves -> Garbled .. MaxRuns]
<1>1. cmd \in [Slaves -> Seq(Strings)] /\ cmd[s] \in Seq(Strings)  BY DEF TypeOK
<1>2. cmd[s] # <<>> => Tail(cmd[s]) \in Seq(Strings) /\ Head(cmd[s]) \in Strings
  BY <1>1, Taken
<1>3. cmd[s] # <<>> => [cmd EXCEPT ![s] = Tail(@)] \in [Slaves -> Seq(Strings)]
  BY <1>1, <1>2
<1>4. QED  BY <1>1, <1>2, <1>3 DEF TypeOK, Strings

LEMMA SlaveType == ASSUME TypeOK, NEW s \in Slaves, Slave(s) PROVE TypeOK'
<1>0. MaxRuns \in Nat  BY ControlAssumption
<1>1. CASE Listen(s)
  <2>1. cmd' \in [Slaves -> Seq(Strings)]  BY <1>1, ReaderTypes DEF Listen
  <2>2. /\ spc' \in [Slaves -> {"listen", "file", "arming"}]
        /\ file' \in [Slaves -> Garbled .. MaxRuns]
    BY <1>0, <1>1, ReaderTypes DEF Listen, Obey, Unread, Garbled
  <2>3. armed' \in [Slaves -> BOOLEAN] /\ running' \in [Slaves -> BOOLEAN]
    BY <1>1, ReaderTypes, Zenon DEF Listen, Obey
  <2>4. QED
    BY <1>1, <2>1, <2>2, <2>3 DEF Listen, ReaderOnly, TypeOK, main, poll, status
<1>2. CASE ReceiveLine(s)
  <2>1. cmd' \in [Slaves -> Seq(Strings)]  BY <1>2, ReaderTypes DEF ReceiveLine
  <2>2. file' \in [Slaves -> Garbled .. MaxRuns]
    BY <1>0, <1>2, ReaderTypes DEF ReceiveLine, Unread, Garbled
  <2>3. QED  BY <1>2, <2>1, <2>2 DEF ReceiveLine, ReaderOnly, TypeOK, main, poll, status
<1>3. CASE FileEnd(s)
  <2>1. cmd' \in [Slaves -> Seq(Strings)]  BY <1>3, ReaderTypes DEF FileEnd
  <2>2. /\ spc' \in [Slaves -> {"listen", "file", "arming"}]
        /\ file' \in [Slaves -> Garbled .. MaxRuns]
        /\ options' \in [Slaves -> 0 .. MaxRuns]
    BY <1>0, <1>3, ReaderTypes DEF FileEnd, Unread, Garbled, Runs
  <2>3. ack' \in [Slaves -> 0 .. MaxRuns]  BY <1>3, ReaderTypes DEF FileEnd
  <2>4. QED
    BY <1>3, <2>1, <2>2, <2>3 DEF FileEnd, ReaderOnly, TypeOK, main, poll, status
<1>4. CASE FileLost(s)
  <2>1. /\ spc' \in [Slaves -> {"listen", "file", "arming"}]
        /\ file' \in [Slaves -> Garbled .. MaxRuns]
    BY <1>0, <1>4, ReaderTypes DEF FileLost, Unread, Garbled
  <2>2. QED  BY <1>4, <2>1 DEF FileLost, ReaderOnly, TypeOK, main, poll, status
<1>5. CASE ArmBoards(s)
  <2>1. spc' \in [Slaves -> {"listen", "file", "arming"}] /\ armed' \in [Slaves -> BOOLEAN]
    BY <1>5, ReaderTypes DEF ArmBoards
  <2>2. QED  BY <1>5, <2>1 DEF ArmBoards, ReaderOnly, TypeOK, main, poll, status
<1>6. CASE SendStatus(s)
  <2>1. failing' \in [Slaves -> BOOLEAN]  BY <1>6, ReaderTypes, Zenon DEF SendStatus
  <2>2. sts' \in [Slaves -> Seq(States)]
    <3>1. sts \in [Slaves -> Seq(States)]  BY DEF TypeOK
    <3>2. PICK v \in States : sts' = [sts EXCEPT ![s] = Append(@, v)]
      BY <1>6 DEF SendStatus, OwnStatus, States
    <3>3. Append(sts[s], v) \in Seq(States)  BY <3>1
    <3>4. QED  BY <3>1, <3>2, <3>3
  <2>3. QED  BY <1>6, <2>1, <2>2 DEF SendStatus, ReaderOnly, TypeOK, main, poll, status
<1>7. CASE SendFails(s)
  <2>1. /\ failing' \in [Slaves -> BOOLEAN] /\ connected' \in [Slaves -> BOOLEAN]
        /\ armed' \in [Slaves -> BOOLEAN] /\ running' \in [Slaves -> BOOLEAN]
    BY <1>7, ReaderTypes, Zenon DEF SendFails
  <2>2. QED  BY <1>7, <2>1 DEF SendFails, ReaderOnly, TypeOK, main, poll, status
<1>8. QED  BY <1>1, <1>2, <1>3, <1>4, <1>5, <1>6, <1>7 DEF Slave

LEMMA TypeStep == TypeOK /\ [Next]_vars => TypeOK'
<1> SUFFICES ASSUME TypeOK, [Next]_vars PROVE TypeOK'
  OBVIOUS
<1>0. MaxEvents \in Nat  BY ControlAssumption
<1>1. ASSUME NEW s \in Slaves, ThreadFails(s) \/ LinkLost(s) PROVE TypeOK'
  <2>1. count' \in 0 .. MaxEvents
    BY <1>0, <1>1 DEF ThreadFails, LinkLost, Event, TypeOK
  <2>2. failing' \in [Slaves -> BOOLEAN] /\ link' \in [Slaves -> BOOLEAN]
    BY <1>1, ReaderTypes DEF ThreadFails, LinkLost, ReaderOnly, reader
  <2>3. QED
    BY <1>1, <2>1, <2>2
    DEF ThreadFails, LinkLost, ReaderOnly, TypeOK, main, poll, status, reader
<1>2. CASE UNCHANGED vars
  BY <1>2 DEF TypeOK, vars, main, poll, status, reader, network
<1>3. QED  BY <1>1, <1>2, DispatcherType, PollType, SlaveType DEF Next

LEMMA InitType == Init => TypeOK
<1> SUFFICES ASSUME Init PROVE TypeOK
  OBVIOUS
<1>1. MaxRuns \in Nat /\ MaxEvents \in Nat /\ 0 \in 0 .. N  BY ControlAssumption DEF Slaves
<1>2. cmd \in [Slaves -> Seq(Strings)] /\ sts \in [Slaves -> Seq(States)]
  <2>1. <<>> \in Seq(Strings) /\ <<>> \in Seq(States)  OBVIOUS
  <2>2. QED  BY <2>1 DEF Init
<1>3. /\ {connected, armed, running, failing, link} \subseteq [Slaves -> BOOLEAN]
      /\ options \in [Slaves -> 0 .. MaxRuns] /\ file \in [Slaves -> Garbled .. MaxRuns]
      /\ ack \in [Slaves -> 0 .. MaxRuns] /\ table \in [Slaves -> States \cup {"none"}]
      /\ spc \in [Slaves -> {"listen", "file", "arming"}]
  BY <1>1 DEF Init, Garbled, Unread
<1>4. /\ at \in 0 .. N /\ pat \in 0 .. N /\ run \in 0 .. MaxRuns /\ count \in 0 .. MaxEvents
      /\ member \subseteq Slaves /\ daqState \in DAQStates
  BY <1>1 DEF Init, DAQStates, States
<1>5. QED  BY <1>2, <1>3, <1>4 DEF Init, TypeOK

\* Every variable keeps its type, whatever strings reach a reader and whenever.
THEOREM TypeCorrect == Spec => []TypeOK
  BY InitType, TypeStep, PTL DEF Spec

-----------------------------------------------------------------------------
(* The invariant.                                                          *)

\* What the polling thread sends, and what it does not disturb.
Polled == {"STOP", "SLEEP", "KEEPALIVE"}

Has(s, k)  == \E i \in DOMAIN cmd[s] : cmd[s][i].kind = k
Only(s, K) == \A i \in DOMAIN cmd[s] : cmd[s][i].kind \in K

ReaderOK(s) ==
  /\ spc[s] # "listen" => connected[s] /\ ~armed[s]
  /\ running[s] => armed[s]
  /\ ~connected[s] => ~armed[s]

\* No part of an options file is on its way to the reader or in its hands, and no answer.
Clear(s) ==
  /\ ~Has(s, "OPTIONS") /\ ~Has(s, "@")
  /\ ~(spc[s] = "file" /\ file[s] \in Runs)
  /\ ack[s] = 0

\* All there is of an options file is of the run that is started.
Pending(s) ==
  /\ \A i \in DOMAIN cmd[s] :
       /\ cmd[s][i].kind = "OPTIONS" => cmd[s][i].run = run
       /\ cmd[s][i].kind = "@" =>
            /\ mpc = "ack" /\ cmd[s][i].run = run /\ ack[s] = 0
            /\ \A j \in DOMAIN cmd[s] : j > i => cmd[s][j].kind \in Polled
  /\ spc[s] = "file" /\ file[s] \in Runs => file[s] = run
  /\ ack[s] # 0 => mpc = "ack" /\ ack[s] = run

FileOK(s) == link[s] => Clear(s) \/ (mpc \in {"end", "ack"} /\ at = s /\ Pending(s))

\* The reader has taken the options of the run: if it is armed, it is for that run.
Ready(s) ==
  /\ Only(s, Polled) /\ spc[s] # "file" /\ ~running[s]
  /\ armed[s] \/ spc[s] = "arming" => options[s] = run

Answered(s) ==
  \/ mpc = "options" /\ ~failed /\ s <= at
  \/ mpc \in {"line", "end", "ack"} /\ ~failed /\ s < at
  \/ mpc = "ack" /\ s = at /\ ack[s] # 0
  \/ mpc \in {"waitArmed", "waitStart"}
  \/ mpc = "start" /\ s > at

\* Nothing that would rearm the reader stands before a START.
OrderOK(s) ==
  \A i \in DOMAIN cmd[s] : cmd[s][i].kind = "START" =>
    spc[s] # "file" /\ \A j \in DOMAIN cmd[s] : j < i => cmd[s][j].kind \in Commands \ {"ARM"}

\* A reader that runs, or that will, has a STOP to come.
WillStop(s) ==
  /\ running[s] => Has(s, "STOP")
  /\ \A i \in DOMAIN cmd[s] : cmd[s][i].kind = "START" =>
       \E j \in DOMAIN cmd[s] : i < j /\ cmd[s][j].kind = "STOP"

Passed(s) ==
  \/ mpc = "idle" /\ stopped
  \/ mpc = "sleep"
  \/ mpc = "stop" /\ s <= at

ReadyOK(s) == s \in member /\ Answered(s) => Ready(s)
StopOK(s)  == s \in member /\ link[s] /\ Passed(s) => WillStop(s)

Good(s) == ReaderOK(s) /\ FileOK(s) /\ OrderOK(s) /\ ReadyOK(s) /\ StopOK(s)

\* If the reader runs, or a START makes it run, it is with the options of run g.
RunsWith(s, g) ==
  running[s] \/ (Has(s, "START") /\ (armed[s] \/ spc[s] = "arming")) => options[s] = g

GenInv ==
  /\ \E g \in Nat : \A s \in member : RunsWith(s, g)
  /\ mpc = "start" => \A s \in member : RunsWith(s, run)

MainInv ==
  /\ mpc \in {"line", "end", "ack"} => at \in member
  /\ mpc \in {"idle", "valid", "waitArmed", "waitStart"} => at = 0
  /\ failed => mpc \in {"options", "line", "end", "ack"}
  /\ stopped => mpc \in {"idle", "stop", "sleep"}

ControlInv == TypeOK /\ MainInv /\ GenInv /\ \A s \in Slaves : Good(s)

-----------------------------------------------------------------------------
(* Steps that touch one reader and leave the main thread where it is.      *)

MainSame == UNCHANGED <<mpc, at, run, failed, stopped, member>>

Same(s) ==
  /\ spc'[s] = spc[s] /\ connected'[s] = connected[s] /\ armed'[s] = armed[s]
  /\ running'[s] = running[s] /\ options'[s] = options[s] /\ file'[s] = file[s]
  /\ link'[s] = link[s] /\ cmd'[s] = cmd[s] /\ ack'[s] = ack[s]

LEMMA Unaffected ==
  ASSUME NEW s, Same(s), MainSame
  PROVE  (Good(s) => Good(s)') /\ \A g : RunsWith(s, g) => RunsWith(s, g)'
<1>1. \A k : Has(s, k)' <=> Has(s, k)  BY DEF Same, Has
<1>2. ReaderOK(s) => ReaderOK(s)'  BY DEF Same, ReaderOK
<1>3. (Clear(s)' <=> Clear(s)) /\ (Pending(s)' <=> Pending(s))
  BY <1>1 DEF Same, MainSame, Clear, Pending
<1>4. FileOK(s) => FileOK(s)'  BY <1>3 DEF Same, MainSame, FileOK
<1>5. OrderOK(s) => OrderOK(s)'  BY DEF Same, OrderOK
<1>6. (Ready(s) => Ready(s)') /\ (Answered(s)' => Answered(s))
  BY DEF Same, MainSame, Ready, Only, Answered
<1>7. (WillStop(s) => WillStop(s)') /\ (Passed(s)' => Passed(s))
  BY <1>1 DEF Same, MainSame, WillStop, Passed
<1>8. ReadyOK(s) => ReadyOK(s)'  BY <1>6 DEF MainSame, ReadyOK
<1>9. StopOK(s) => StopOK(s)'  BY <1>7 DEF Same, MainSame, StopOK
<1>10. \A g : RunsWith(s, g) => RunsWith(s, g)'  BY <1>1 DEF Same, RunsWith
<1>11. QED  BY <1>2, <1>4, <1>5, <1>8, <1>9, <1>10 DEF Good

LEMMA OneReader ==
  ASSUME ControlInv, TypeOK', MainSame, NEW s \in Slaves,
         \A t \in Slaves \ {s} : Same(t),
         Good(s)', \A g : RunsWith(s, g) => RunsWith(s, g)'
  PROVE  ControlInv'
<1>1. \A t \in Slaves : Good(t)'
  <2> SUFFICES ASSUME NEW t \in Slaves, t # s PROVE Good(t)'
    OBVIOUS
  <2>1. QED  BY Unaffected DEF ControlInv
<1>2. \A t \in Slaves : \A g : RunsWith(t, g) => RunsWith(t, g)'
  <2> SUFFICES ASSUME NEW t \in Slaves, t # s PROVE \A g : RunsWith(t, g) => RunsWith(t, g)'
    OBVIOUS
  <2>1. QED  BY Unaffected
<1>3. member \subseteq Slaves /\ member' = member /\ mpc' = mpc /\ run' = run
  BY DEF MainSame, ControlInv, TypeOK
<1>4. GenInv'
  <2>1. PICK g \in Nat : \A t \in member : RunsWith(t, g)  BY DEF ControlInv, GenInv
  <2>2. \A t \in member' : RunsWith(t, g)'  BY <1>2, <1>3, <2>1
  <2>3. PICK r : r = run  OBVIOUS
  <2>4. mpc = "start" => \A t \in member' : RunsWith(t, r)'
    BY <1>2, <1>3, <2>3 DEF ControlInv, GenInv
  <2>5. mpc' = "start" => (\A t \in member : RunsWith(t, run))'
    BY <1>3, <2>3, <2>4 DEF RunsWith
  <2>6. QED  BY <2>2, <2>5 DEF GenInv
<1>5. MainInv'  BY DEF MainSame, ControlInv, MainInv
<1>6. QED  BY <1>1, <1>4, <1>5 DEF ControlInv

-----------------------------------------------------------------------------
(* The steps of a reader.                                                  *)

\* The reader takes the first string off its socket.
TakesOne(s) ==
  /\ cmd[s] # <<>> /\ cmd'[s] = Tail(cmd[s])
  /\ link' = link /\ MainSame

LEMMA Remaining ==
  ASSUME TypeOK, NEW s \in Slaves, TakesOne(s)
  PROVE  /\ 1 \in DOMAIN cmd[s] /\ Head(cmd[s]) = cmd[s][1] /\ Head(cmd[s]) \in Strings
         /\ DOMAIN cmd[s] \subseteq Nat \ {0} /\ DOMAIN cmd'[s] \subseteq Nat \ {0}
         /\ \A i \in DOMAIN cmd'[s] : i + 1 \in DOMAIN cmd[s] /\ cmd'[s][i] = cmd[s][i + 1]
         /\ \A i \in DOMAIN cmd[s] :
              i > 1 => i - 1 \in DOMAIN cmd'[s] /\ cmd'[s][i - 1] = cmd[s][i]
         /\ \A k : Has(s, k)' => Has(s, k)
         /\ \A k : Has(s, k) => Has(s, k)' \/ cmd[s][1].kind = k
<1>1. cmd[s] \in Seq(Strings) /\ cmd[s] # <<>> /\ cmd'[s] = Tail(cmd[s])
  BY ReaderTypes DEF TakesOne
<1>2. /\ 1 \in DOMAIN cmd[s] /\ Head(cmd[s]) = cmd[s][1] /\ Head(cmd[s]) \in Strings
      /\ DOMAIN cmd[s] \subseteq Nat \ {0} /\ DOMAIN cmd'[s] \subseteq Nat \ {0}
      /\ \A i \in DOMAIN cmd'[s] : i + 1 \in DOMAIN cmd[s] /\ cmd'[s][i] = cmd[s][i + 1]
      /\ \A i \in DOMAIN cmd[s] :
           i > 1 => i - 1 \in DOMAIN cmd'[s] /\ cmd'[s][i - 1] = cmd[s][i]
  BY <1>1, Taken
<1>3. \A i \in DOMAIN cmd[s] : i > 1 \/ i = 1  BY <1>2
<1>4. \A k : Has(s, k)' => Has(s, k)  BY <1>2 DEF Has
<1>5. \A k : Has(s, k) => Has(s, k)' \/ cmd[s][1].kind = k  BY <1>2, <1>3 DEF Has
<1>6. QED  BY <1>2, <1>4, <1>5

LEMMA ListenGood ==
  ASSUME ControlInv, NEW s \in Slaves, Listen(s)
  PROVE  Good(s)' /\ \A g : RunsWith(s, g) => RunsWith(s, g)'
<1> DEFINE c == Head(cmd[s])
<1>1. PICK k : k = Head(cmd[s]).kind  OBVIOUS
<1>2. TypeOK /\ Good(s)  BY DEF ControlInv
<1>3. /\ spc[s] = "listen" /\ connected[s] /\ TakesOne(s)
      /\ UNCHANGED <<connected, options, ack>>
  BY <1>2, ReaderTypes DEF Listen, ReaderOnly, TakesOne, MainSame, main, status
<1>4. /\ spc'[s] = IF k = "ARM" /\ ~running[s] THEN "file" ELSE "listen"
      /\ file'[s] = IF k = "ARM" /\ ~running[s] THEN Unread ELSE file[s]
  BY <1>1, <1>2, <1>3, ReaderTypes DEF Listen, Obey
<1>5. /\ armed'[s] <=> /\ armed[s] /\ ~(k = "ARM" /\ ~running[s])
                       /\ ~(k = "SLEEP" /\ ~running[s]) /\ ~(k = "STOP" /\ running[s])
      /\ running'[s] <=> (k = "START" /\ armed[s]) \/ (running[s] /\ ~(k = "STOP" /\ armed[s]))
  BY <1>1, <1>2, ReaderTypes DEF Listen, Obey
<1>6. /\ 1 \in DOMAIN cmd[s] /\ cmd[s][1].kind = k
      /\ DOMAIN cmd[s] \subseteq Nat \ {0} /\ DOMAIN cmd'[s] \subseteq Nat \ {0}
      /\ \A i \in DOMAIN cmd'[s] : i + 1 \in DOMAIN cmd[s] /\ cmd'[s][i] = cmd[s][i + 1]
      /\ \A i \in DOMAIN cmd[s] :
           i > 1 => i - 1 \in DOMAIN cmd'[s] /\ cmd'[s][i - 1] = cmd[s][i]
      /\ \A l : Has(s, l)' => Has(s, l)
      /\ \A l : Has(s, l) => Has(s, l)' \/ cmd[s][1].kind = l
  BY <1>1, <1>2, <1>3, Remaining
<1>7. ReaderOK(s)'
  BY <1>2, <1>3, <1>4, <1>5, Zenon DEF Good, ReaderOK
<1>8. FileOK(s)'
  <2>1. Unread \notin Runs  BY ControlAssumption DEF Unread, Runs
  <2>2. ~(spc'[s] = "file" /\ file'[s] \in Runs)  BY <1>4, <2>1
  <2>3. Clear(s) => Clear(s)'  BY <1>3, <1>6, <2>2 DEF Clear
  <2>4. Pending(s) => Pending(s)'
    <3>1. \A i, j \in DOMAIN cmd'[s] : j > i => j + 1 > i + 1  BY <1>6
    <3>2. mpc' = mpc /\ run' = run /\ ack' = ack  BY <1>3 DEF TakesOne, MainSame
    <3>3. QED  BY <1>6, <2>2, <3>1, <3>2 DEF Pending
  <2>5. link' = link /\ mpc' = mpc /\ at' = at  BY <1>3 DEF TakesOne, MainSame
  <2>6. QED  BY <1>2, <2>3, <2>4, <2>5 DEF Good, FileOK
<1>9. OrderOK(s)'
  <2> SUFFICES ASSUME NEW i \in DOMAIN cmd'[s], cmd'[s][i].kind = "START"
               PROVE  /\ spc'[s] # "file"
                      /\ \A j \in DOMAIN cmd'[s] : j < i => cmd'[s][j].kind \in Commands \ {"ARM"}
    BY DEF OrderOK
  <2>1. /\ i + 1 \in DOMAIN cmd[s] /\ cmd[s][i + 1].kind = "START" /\ 1 < i + 1
        /\ \A j \in DOMAIN cmd'[s] : j < i => j + 1 < i + 1
    BY <1>6
  <2>2. \A j \in DOMAIN cmd[s] : j < i + 1 => cmd[s][j].kind \in Commands \ {"ARM"}
    BY <1>2, <2>1 DEF Good, OrderOK
  <2>3. k # "ARM"  BY <1>6, <2>1, <2>2
  <2>4. QED  BY <1>4, <1>6, <2>1, <2>2, <2>3
<1>10. ReadyOK(s)'
  <2> SUFFICES ASSUME s \in member, Answered(s) PROVE Ready(s)'
    BY <1>3 DEF ReadyOK, Answered, TakesOne, MainSame
  <2>1. Ready(s)  BY <1>2 DEF Good, ReadyOK
  <2>2. k \in Polled  BY <1>6, <2>1 DEF Ready, Only
  <2>3. Only(s, Polled)'  BY <1>6, <2>1 DEF Ready, Only
  <2>4. spc'[s] = "listen" /\ ~running'[s] /\ (armed'[s] => armed[s])
    BY <1>4, <1>5, <2>1, <2>2 DEF Ready, Polled
  <2>5. QED  BY <1>3, <2>1, <2>3, <2>4 DEF Ready, TakesOne, MainSame
<1>11. StopOK(s)'
  <2> SUFFICES ASSUME s \in member, link[s], Passed(s) PROVE WillStop(s)'
    BY <1>3 DEF StopOK, Passed, TakesOne, MainSame
  <2>1. WillStop(s)  BY <1>2 DEF Good, StopOK
  <2>2. \A i \in DOMAIN cmd'[s] : cmd'[s][i].kind = "START" =>
          \E j \in DOMAIN cmd'[s] : i < j /\ cmd'[s][j].kind = "STOP"
    <3> SUFFICES ASSUME NEW i \in DOMAIN cmd'[s], cmd'[s][i].kind = "START"
                 PROVE  \E j \in DOMAIN cmd'[s] : i < j /\ cmd'[s][j].kind = "STOP"
      OBVIOUS
    <3>1. i + 1 \in DOMAIN cmd[s] /\ cmd[s][i + 1].kind = "START"  BY <1>6
    <3>2. PICK j \in DOMAIN cmd[s] : i + 1 < j /\ cmd[s][j].kind = "STOP"
      BY <2>1, <3>1 DEF WillStop
    <3>3. j - 1 \in DOMAIN cmd'[s] /\ cmd'[s][j - 1] = cmd[s][j] /\ i < j - 1
      BY <1>6, <3>2
    <3>4. QED  BY <3>2, <3>3
  <2>3. running'[s] => Has(s, "STOP")'
    <3>1. CASE k = "START"
      <4>1. PICK j \in DOMAIN cmd[s] : 1 < j /\ cmd[s][j].kind = "STOP"
        BY <1>6, <2>1, <3>1 DEF WillStop
      <4>2. j - 1 \in DOMAIN cmd'[s] /\ cmd'[s][j - 1] = cmd[s][j]
        BY <1>6, <4>1
      <4>3. QED  BY <4>1, <4>2 DEF Has
    <3>2. CASE k # "START"
      <4> SUFFICES ASSUME running'[s] PROVE Has(s, "STOP")'
        OBVIOUS
      <4>1. running[s] /\ k # "STOP"
        BY <1>2, <1>5, <3>2, Zenon DEF Good, ReaderOK
      <4>2. Has(s, "STOP")  BY <2>1, <4>1 DEF WillStop
      <4>3. QED  BY <1>6, <4>1, <4>2
    <3>3. QED  BY <3>1, <3>2
  <2>4. QED  BY <2>2, <2>3 DEF WillStop
<1>12. ASSUME NEW g, RunsWith(s, g) PROVE RunsWith(s, g)'
  <2>1. k = "START" => Has(s, "START")  BY <1>6 DEF Has
  <2>2. running'[s] => running[s] \/ (Has(s, "START") /\ armed[s])  BY <1>5, <2>1, Zenon
  <2>3. Has(s, "START")' /\ (armed'[s] \/ spc'[s] = "arming") => Has(s, "START") /\ armed[s]
    BY <1>4, <1>5, <1>6
  <2>4. QED  BY <1>3, <1>12, <2>2, <2>3 DEF RunsWith
<1>13. QED  BY <1>7, <1>8, <1>9, <1>10, <1>11, <1>12 DEF Good

LEMMA ReceiveLineGood ==
  ASSUME ControlInv, NEW s \in Slaves, ReceiveLine(s)
  PROVE  Good(s)' /\ \A g : RunsWith(s, g) => RunsWith(s, g)'
<1>1. PICK c : c = Head(cmd[s])  OBVIOUS
<1>2. TypeOK /\ Good(s)  BY DEF ControlInv
<1>3. /\ spc[s] = "file" /\ TakesOne(s)
      /\ UNCHANGED <<spc, connected, armed, running, options, ack>>
  BY <1>2, ReaderTypes DEF ReceiveLine, ReaderOnly, TakesOne, MainSame, main, status
<1>4. file'[s] = IF file[s] # Unread THEN file[s]
                 ELSE IF c.kind = "OPTIONS" THEN c.run ELSE Garbled
  BY <1>1, <1>2, ReaderTypes DEF ReceiveLine
<1>5. /\ 1 \in DOMAIN cmd[s] /\ cmd[s][1] = c
      /\ \A i \in DOMAIN cmd'[s] : i + 1 \in DOMAIN cmd[s] /\ cmd'[s][i] = cmd[s][i + 1]
      /\ DOMAIN cmd'[s] \subseteq Nat
      /\ \A l : Has(s, l)' => Has(s, l)
  BY <1>1, <1>2, <1>3, Remaining
<1>6. ~Has(s, "START") /\ ~Has(s, "START")' /\ ~running[s]
  BY <1>2, <1>3, <1>5 DEF Good, OrderOK, ReaderOK, Has
<1>7. ReaderOK(s)'  BY <1>2, <1>3 DEF Good, ReaderOK
<1>8. FileOK(s)'
  <2>1. Garbled \notin Runs /\ Unread \notin Runs  BY ControlAssumption DEF Garbled, Unread, Runs
  <2>2. file'[s] \in Runs => file'[s] = file[s] \/ (c.kind = "OPTIONS" /\ file'[s] = c.run)
    BY <1>4, <2>1
  <2>3. Clear(s) => Clear(s)'
    <3>1. Clear(s) => c.kind # "OPTIONS"  BY <1>5 DEF Clear, Has
    <3>2. QED  BY <1>3, <1>5, <2>2, <3>1 DEF Clear
  <2>4. Pending(s) => Pending(s)'
    <3>1. \A i, j \in DOMAIN cmd'[s] : j > i => j + 1 > i + 1  BY <1>5
    <3>2. mpc' = mpc /\ run' = run  BY <1>3 DEF TakesOne, MainSame
    <3>3. QED  BY <1>3, <1>5, <2>2, <3>1, <3>2 DEF Pending
  <2>5. link' = link /\ mpc' = mpc /\ at' = at  BY <1>3 DEF TakesOne, MainSame
  <2>6. QED  BY <1>2, <2>3, <2>4, <2>5 DEF Good, FileOK
<1>9. OrderOK(s)'  BY <1>6 DEF OrderOK, Has
<1>10. ReadyOK(s)'
  BY <1>2, <1>3 DEF Good, ReadyOK, Ready, Answered, TakesOne, MainSame
<1>11. StopOK(s)'  BY <1>3, <1>6 DEF StopOK, WillStop, Has
<1>12. \A g : RunsWith(s, g)'  BY <1>3, <1>6 DEF RunsWith
<1>13. QED  BY <1>7, <1>8, <1>9, <1>10, <1>11, <1>12 DEF Good

\* The end of the file: with a link, it is the file of the run, and the last thing sent.
LEMMA FileEndGood ==
  ASSUME ControlInv, NEW s \in Slaves, FileEnd(s)
  PROVE  Good(s)' /\ \A g : RunsWith(s, g) => RunsWith(s, g)'
<1>1. PICK c : c = Head(cmd[s])  OBVIOUS
<1>2. TypeOK /\ Good(s)  BY DEF ControlInv
<1>3. /\ spc[s] = "file" /\ TakesOne(s) /\ c.kind = "@"
      /\ UNCHANGED <<connected, armed, running>>
  BY <1>1, <1>2, ReaderTypes DEF FileEnd, ReaderOnly, TakesOne, MainSame, main, status
<1>4. /\ file'[s] = Unread
      /\ spc'[s] = IF link[s] /\ file[s] \in Runs THEN "arming" ELSE "listen"
      /\ options'[s] = IF link[s] /\ file[s] \in Runs THEN file[s] ELSE options[s]
      /\ ack'[s] = IF link[s] THEN c.run ELSE ack[s]
  BY <1>1, <1>2, ReaderTypes DEF FileEnd
<1>5. /\ 1 \in DOMAIN cmd[s] /\ cmd[s][1] = c
      /\ \A i \in DOMAIN cmd'[s] :
           i + 1 \in DOMAIN cmd[s] /\ i + 1 > 1 /\ cmd'[s][i] = cmd[s][i + 1]
      /\ \A l : Has(s, l)' => Has(s, l)
  BY <1>1, <1>2, <1>3, Remaining
<1>6. ~Has(s, "START") /\ ~Has(s, "START")' /\ ~running[s] /\ ~armed[s]
  BY <1>2, <1>3, <1>5 DEF Good, OrderOK, ReaderOK, Has
<1>7. ReaderOK(s)'  BY <1>2, <1>3, <1>4, <1>6 DEF Good, ReaderOK
<1>8. link'[s] = link[s] /\ MainSame  BY <1>3 DEF TakesOne
<1>9. link[s] => /\ mpc = "ack" /\ at = s /\ c.run = run /\ ack[s] = 0
                 /\ (file[s] \in Runs => file[s] = run)
                 /\ Only(s, Polled)'
  <2> SUFFICES ASSUME link[s]
               PROVE  /\ mpc = "ack" /\ at = s /\ c.run = run /\ ack[s] = 0
                      /\ (file[s] \in Runs => file[s] = run)
                      /\ Only(s, Polled)'
    OBVIOUS
  <2>1. ~Clear(s)  BY <1>3, <1>5 DEF Clear, Has
  <2>2. at = s /\ Pending(s)  BY <1>2, <2>1 DEF Good, FileOK
  <2>3. /\ mpc = "ack" /\ c.run = run /\ ack[s] = 0
        /\ \A j \in DOMAIN cmd[s] : j > 1 => cmd[s][j].kind \in Polled
    BY <1>3, <1>5, <2>2 DEF Pending
  <2>4. Only(s, Polled)'  BY <1>5, <2>3 DEF Only
  <2>5. QED  BY <1>3, <2>2, <2>3, <2>4 DEF Pending
<1>10. FileOK(s)'
  <2> SUFFICES ASSUME link[s] PROVE mpc \in {"end", "ack"} /\ at = s /\ Pending(s)'
    BY <1>8 DEF FileOK, MainSame
  <2>1. spc'[s] # "file" /\ ack'[s] = run /\ mpc' = "ack" /\ run' = run
    BY <1>4, <1>8, <1>9 DEF MainSame
  <2>2. Pending(s)'  BY <1>9, <2>1 DEF Pending, Only, Polled
  <2>3. QED  BY <1>9, <2>2
<1>11. OrderOK(s)'  BY <1>6 DEF OrderOK, Has
<1>12. ReadyOK(s)'
  <2>1. CASE link[s]
    BY <1>3, <1>4, <1>6, <1>8, <1>9, <2>1 DEF ReadyOK, Ready, MainSame
  <2>2. CASE ~link[s]
    BY <1>2, <1>3, <1>4, <1>8, <2>2 DEF Good, ReadyOK, Ready, Answered, MainSame
  <2>3. QED  BY <2>1, <2>2
<1>13. StopOK(s)'  BY <1>3, <1>6 DEF StopOK, WillStop, Has
<1>14. \A g : RunsWith(s, g)'  BY <1>3, <1>6 DEF RunsWith
<1>15. QED  BY <1>7, <1>10, <1>11, <1>12, <1>13, <1>14 DEF Good

LEMMA OtherStepsGood ==
  ASSUME ControlInv, NEW s \in Slaves, FileLost(s) \/ ArmBoards(s) \/ SendFails(s)
  PROVE  Good(s)' /\ \A g : RunsWith(s, g) => RunsWith(s, g)'
<1>1. TypeOK /\ Good(s)  BY DEF ControlInv
<1>2. UNCHANGED <<options, cmd, ack, link>> /\ MainSame
  BY DEF FileLost, ArmBoards, SendFails, ReaderOnly, MainSame, main, status
<1>3. CASE FileLost(s) \/ ArmBoards(s)
  <2>1. /\ spc[s] # "listen" /\ spc'[s] = "listen" /\ UNCHANGED <<connected, running>>
        /\ spc[s] = "file" => ~link[s] /\ UNCHANGED armed
    BY <1>1, <1>3, ReaderTypes DEF FileLost, ArmBoards
  <2>2. connected[s] /\ ~armed[s] /\ ~running[s]  BY <1>1, <2>1 DEF Good, ReaderOK
  <2>3. ReaderOK(s)'  BY <2>1, <2>2 DEF ReaderOK
  <2>4. FileOK(s)'
    BY <1>1, <1>2, <2>1 DEF Good, FileOK, Clear, Pending, Has, MainSame
  <2>5. OrderOK(s)'  BY <1>1, <1>2, <2>1 DEF Good, OrderOK
  <2>6. ReadyOK(s)'
    <3>1. Ready(s) => spc[s] = "arming"
      BY <1>1, <2>1, ReaderTypes DEF Ready
    <3>2. Ready(s) => Ready(s)'
      BY <1>2, <2>1, <2>2, <3>1 DEF Ready, Only, MainSame
    <3>3. QED  BY <1>1, <1>2, <3>2 DEF Good, ReadyOK, Answered, MainSame
  <2>7. StopOK(s)'
    BY <1>1, <1>2, <2>1 DEF Good, StopOK, Passed, WillStop, Has, MainSame
  <2>8. \A g : RunsWith(s, g) => RunsWith(s, g)'
    <3>1. Has(s, "START") => spc[s] = "arming"
      BY <1>1, <2>1, ReaderTypes DEF Good, OrderOK, Has
    <3>2. Has(s, "START")' => Has(s, "START")  BY <1>2 DEF Has
    <3>3. QED  BY <1>2, <2>1, <2>2, <3>1, <3>2 DEF RunsWith
  <2>9. QED  BY <2>3, <2>4, <2>5, <2>6, <2>7, <2>8 DEF Good
<1>4. CASE SendFails(s)
  <2>1. /\ spc[s] = "listen" /\ spc' = spc /\ connected[s] /\ ~link[s]
        /\ connected'[s] <=> failing[s]
        /\ armed'[s] <=> (armed[s] /\ failing[s])
        /\ running'[s] <=> (running[s] /\ failing[s])
    BY <1>1, <1>4, ReaderTypes DEF SendFails
  <2>2. ReaderOK(s)'  BY <1>1, <2>1, Zenon DEF Good, ReaderOK
  <2>3. ~link'[s]  BY <1>2, <2>1
  <2>4. FileOK(s)' /\ StopOK(s)'  BY <2>3 DEF FileOK, StopOK
  <2>5. OrderOK(s)'  BY <1>1, <1>2, <2>1 DEF Good, OrderOK
  <2>6. ReadyOK(s)'
    BY <1>1, <1>2, <2>1 DEF Good, ReadyOK, Ready, Only, Answered, MainSame
  <2>7. \A g : RunsWith(s, g) => RunsWith(s, g)'
    BY <1>2, <2>1 DEF RunsWith, Has
  <2>8. QED  BY <2>2, <2>4, <2>5, <2>6, <2>7 DEF Good
<1>5. QED  BY <1>3, <1>4

\* A step that changes nothing the invariant speaks of.
Quiet == MainSame /\ UNCHANGED <<spc, connected, armed, running, options, file, link, cmd, ack>>

LEMMA QuietStep == ASSUME ControlInv, TypeOK', Quiet PROVE ControlInv'
<1>1. \A t \in Slaves : Same(t) /\ MainSame  BY DEF Quiet, Same
<1>2. PICK s : s \in Slaves  BY SMTT(30), ControlAssumption DEF Slaves
<1>3. Good(s)' /\ \A g : RunsWith(s, g) => RunsWith(s, g)'
  BY <1>1, <1>2, Unaffected DEF ControlInv
<1>4. QED  BY <1>1, <1>2, <1>3, OneReader

LEMMA SlaveStep ==
  ASSUME ControlInv, NEW s \in Slaves, Slave(s) \/ ThreadFails(s) \/ LinkLost(s)
  PROVE  ControlInv'
<1>0. TypeOK /\ TypeOK'
  <2>1. TypeOK  BY DEF ControlInv
  <2>2. Next  BY Zenon DEF Next
  <2>3. QED  BY <2>1, <2>2, TypeStep
<1>1. CASE SendStatus(s) \/ ThreadFails(s)
  <2>1. Quiet
    BY <1>1 DEF SendStatus, ThreadFails, ReaderOnly, Quiet, MainSame, main, status
  <2>2. QED  BY <1>0, <2>1, QuietStep
<1>2. CASE Listen(s) \/ ReceiveLine(s) \/ FileEnd(s) \/ FileLost(s) \/ ArmBoards(s) \/ SendFails(s)
  <2>1. Good(s)' /\ \A g : RunsWith(s, g) => RunsWith(s, g)'
    BY <1>2, ListenGood, ReceiveLineGood, FileEndGood, OtherStepsGood
  <2>2. MainSame
    BY <1>2 DEF Listen, ReceiveLine, FileEnd, FileLost, ArmBoards, SendFails, ReaderOnly,
                MainSame, main, status
  <2>3. \A t \in Slaves \ {s} : Same(t)
    <3> SUFFICES ASSUME NEW t \in Slaves, t # s PROVE Same(t)
      OBVIOUS
    <3>1. CASE Listen(s)
      BY <1>0, <3>1, ReaderTypes DEF Listen, Obey, ReaderOnly, Same
    <3>2. CASE ReceiveLine(s) \/ FileEnd(s)
      BY <1>0, <3>2, ReaderTypes DEF ReceiveLine, FileEnd, ReaderOnly, Same
    <3>3. CASE FileLost(s) \/ ArmBoards(s) \/ SendFails(s)
      BY <1>0, <3>3, ReaderTypes DEF FileLost, ArmBoards, SendFails, ReaderOnly, Same
    <3>4. QED  BY <1>2, <3>1, <3>2, <3>3
  <2>4. QED  BY <1>0, <2>1, <2>2, <2>3, OneReader
<1>3. CASE LinkLost(s)
  <2>1. /\ MainSame /\ UNCHANGED <<spc, connected, armed, running, options, file, cmd, ack>>
        /\ ~link'[s] /\ \A t \in Slaves \ {s} : link'[t] = link[t]
    BY <1>0, <1>3, ReaderTypes DEF LinkLost, MainSame, main, status, reader
  <2>2. \A t \in Slaves \ {s} : Same(t)  BY <2>1 DEF Same
  <2>3. Good(s)  BY DEF ControlInv
  <2>4. ReaderOK(s)' /\ OrderOK(s)'  BY <2>1, <2>3 DEF Good, ReaderOK, OrderOK
  <2>5. FileOK(s)' /\ StopOK(s)'  BY <2>1 DEF FileOK, StopOK
  <2>6. ReadyOK(s)'
    BY <2>1, <2>3 DEF Good, ReadyOK, Ready, Only, Answered, MainSame
  <2>7. \A g : RunsWith(s, g) => RunsWith(s, g)'  BY <2>1 DEF RunsWith, Has
  <2>8. Good(s)'  BY <2>4, <2>5, <2>6 DEF Good
  <2>9. QED  BY <1>0, <2>1, <2>2, <2>7, <2>8, OneReader
<1>4. QED  BY <1>1, <1>2, <1>3 DEF Slave

-----------------------------------------------------------------------------
(* Sending.                                                                *)

\* What a reader finds on its socket after a string has been sent.
Got(s, k) ==
  LET q == cmd[s] IN
  /\ cmd'[s] = Append(q, String(k)) /\ String(k).kind = k
  /\ DOMAIN q \subseteq DOMAIN cmd'[s] /\ Len(q) + 1 \in DOMAIN cmd'[s]
  /\ \A i \in DOMAIN q : cmd'[s][i] = q[i] /\ i < Len(q) + 1
  /\ cmd'[s][Len(q) + 1] = String(k)
  /\ \A i \in DOMAIN cmd'[s] : i \in DOMAIN q \/ i = Len(q) + 1
  /\ DOMAIN q \subseteq Nat /\ Len(q) \in Nat

LEMMA Sending ==
  ASSUME TypeOK, NEW s \in Slaves, NEW k \in Commands \cup {"OPTIONS", "@"}, SendTo(s, k)
  PROVE  /\ \A t \in Slaves \ {s} : cmd'[t] = cmd[t]
         /\ ~link[s] => cmd'[s] = cmd[s]
         /\ link[s] => Got(s, k)
<1>1. cmd \in [Slaves -> Seq(Strings)] /\ cmd[s] \in Seq(Strings) /\ String(k) \in Strings
  BY ReaderTypes, StringType
<1>2. \A t \in Slaves \ {s} : cmd'[t] = cmd[t]  BY <1>1 DEF SendTo
<1>3. ~link[s] => cmd'[s] = cmd[s]  BY <1>1 DEF SendTo
<1>4. link[s] => cmd'[s] = Append(cmd[s], String(k))  BY <1>1 DEF SendTo
<1>5. String(k).kind = k  BY StringType
<1>6. link[s] => Got(s, k)
  <2>1. PICK q : q = cmd[s]  OBVIOUS
  <2>2. PICK c : c = String(k)  OBVIOUS
  <2>3. /\ DOMAIN Append(q, c) = 1 .. Len(q) + 1
        /\ DOMAIN q = 1 .. Len(q) /\ Len(q) \in Nat
        /\ \A i \in DOMAIN q : Append(q, c)[i] = q[i] /\ i < Len(q) + 1
        /\ Append(q, c)[Len(q) + 1] = c
        /\ \A i \in DOMAIN Append(q, c) : i \in DOMAIN q \/ i = Len(q) + 1
    BY <1>1, <2>1, <2>2, Appended
  <2>4. QED  BY <1>4, <1>5, <2>1, <2>2, <2>3 DEF Got
<1>7. QED  BY <1>2, <1>3, <1>6

\* A command of the polling thread disturbs nothing.
LEMMA PolledGood ==
  ASSUME NEW s, Good(s), NEW k \in Polled, Got(s, k), MainSame,
         UNCHANGED <<spc, connected, armed, running, options, file, link, ack>>
  PROVE  Good(s)' /\ \A g : RunsWith(s, g) => RunsWith(s, g)'
<1>1. k # "START" /\ k # "OPTIONS" /\ k # "@" /\ k \in Commands
  BY DEF Polled, Commands
<1>2. \A l : (l # k => (Has(s, l)' <=> Has(s, l))) /\ (Has(s, l) => Has(s, l)')
  BY DEF Got, Has
<1>3. ReaderOK(s)'  BY DEF Good, ReaderOK
<1>4. FileOK(s)'
  <2>1. Clear(s) => Clear(s)'  BY <1>1, <1>2 DEF Clear
  <2>2. Pending(s) => Pending(s)'  BY <1>1 DEF Pending, Got, MainSame
  <2>3. QED  BY <2>1, <2>2 DEF Good, FileOK, MainSame
<1>5. OrderOK(s)'  BY <1>1 DEF Good, OrderOK, Got
<1>6. ReadyOK(s)'
  <2>1. Only(s, Polled) => Only(s, Polled)'  BY DEF Only, Got
  <2>2. QED  BY <2>1 DEF Good, ReadyOK, Ready, Answered, MainSame
<1>7. StopOK(s)'
  <2>1. WillStop(s) => WillStop(s)'  BY <1>1, <1>2 DEF WillStop, Got
  <2>2. QED  BY <2>1 DEF Good, StopOK, Passed, MainSame
<1>8. \A g : RunsWith(s, g) => RunsWith(s, g)'  BY <1>1, <1>2 DEF RunsWith
<1>9. QED  BY <1>3, <1>4, <1>5, <1>6, <1>7, <1>8 DEF Good

LEMMA PollStep == ASSUME ControlInv, PollNetwork PROVE ControlInv'
<1>0. TypeOK /\ TypeOK'
  <2>1. TypeOK  BY DEF ControlInv
  <2>2. Next  BY DEF Next
  <2>3. QED  BY <2>1, <2>2, TypeStep
<1>1. CASE \/ \E net \in Networks : WatchDataPipe(net)
           \/ ProcessStatus \/ (\E s \in Slaves : GiveUp(s)) \/ KeepAlive
  <2>1. Quiet
    BY <1>1 DEF WatchDataPipe, ProcessStatus, GiveUp, KeepAlive, PollOnly, Quiet, MainSame,
                main, reader
  <2>2. QED  BY <1>0, <2>1, QuietStep
<1>2. ASSUME NEW pc, NEW k \in Polled, NEW next, PollBroadcast(pc, k, next) PROVE ControlInv'
  <2>1. /\ MainSame /\ UNCHANGED <<spc, connected, armed, running, options, file, link, ack>>
    BY <1>2 DEF PollBroadcast, PollOnly, MainSame, main, reader
  <2>2. CASE NextOf(pat) = 0
    <3>1. cmd' = cmd  BY <1>2, <2>2 DEF PollBroadcast
    <3>2. QED  BY <1>0, <2>1, <3>1, QuietStep DEF Quiet
  <2>3. CASE NextOf(pat) # 0
    <3>1. PICK s : s = NextOf(pat)  OBVIOUS
    <3>2. s \in Slaves /\ SendTo(s, k)
      BY <1>0, <1>2, <2>3, <3>1, ReaderNumbers DEF PollBroadcast
    <3>3. k \in Commands \cup {"OPTIONS", "@"}  BY DEF Polled, Commands
    <3>4. /\ \A t \in Slaves \ {s} : cmd'[t] = cmd[t]
          /\ ~link[s] => cmd'[s] = cmd[s]
          /\ link[s] => Got(s, k)
      BY <1>0, <3>2, <3>3, Sending
    <3>5. \A t \in Slaves \ {s} : Same(t)  BY <2>1, <3>4 DEF Same
    <3>6. Good(s)' /\ \A g : RunsWith(s, g) => RunsWith(s, g)'
      <4>1. Good(s)  BY <3>2 DEF ControlInv
      <4>2. CASE link[s]
        BY <2>1, <3>4, <4>1, <4>2, PolledGood
      <4>3. CASE ~link[s]
        <5>1. Same(s)  BY <2>1, <3>4, <4>3 DEF Same
        <5>2. QED  BY <2>1, <4>1, <5>1, Unaffected
      <4>4. QED  BY <4>2, <4>3
    <3>7. QED  BY <1>0, <2>1, <3>2, <3>5, <3>6, OneReader
  <2>4. QED  BY <2>2, <2>3
<1>3. CASE PollStop \/ PollSleep \/ PollKeepAlive
  BY <1>2, <1>3 DEF PollStop, PollSleep, PollKeepAlive, Polled
<1>4. QED  BY <1>1, <1>3 DEF PollNetwork

-----------------------------------------------------------------------------
(* The main thread.                                                        *)

\* Its commands leave the readers, their links and the members as they are.
Held == UNCHANGED <<member, spc, connected, armed, running, options, file, link>>

LEMMA HeldKeeps ==
  ASSUME NEW t, Held, Good(t), cmd'[t] = cmd[t]
  PROVE  /\ ReaderOK(t)' /\ OrderOK(t)'
         /\ ack'[t] = ack[t] /\ Clear(t) => Clear(t)'
         /\ run' = run /\ Ready(t) => Ready(t)'
         /\ WillStop(t) => WillStop(t)'
         /\ \A g : RunsWith(t, g) => RunsWith(t, g)'
<1>1. \A k : Has(t, k)' <=> Has(t, k)  BY DEF Has
<1>2. QED
  BY <1>1 DEF Held, Good, ReaderOK, OrderOK, Clear, Ready, Only, WillStop, RunsWith

LEMMA ReadyRuns ==
  ASSUME NEW s, Ready(s) PROVE \A g : RunsWith(s, g)
  BY DEF Ready, Only, RunsWith, Has, Polled

\* A move of the main thread that sends nothing and does not end the exchange of options.
LEMMA Move ==
  ASSUME ControlInv, TypeOK', MainInv', Held, UNCHANGED <<cmd, ack>>,
         mpc \notin {"end", "ack"},
         \A t \in member : Answered(t)' => Answered(t) /\ run' = run,
         \A t \in member : Passed(t)' => Passed(t),
         mpc' = "start" => mpc \in {"start", "waitStart"} /\ run' = run
  PROVE  ControlInv'
<1>1. member \subseteq Slaves /\ member' = member  BY DEF ControlInv, TypeOK, Held
<1>2. ASSUME NEW t \in Slaves PROVE Good(t)' /\ \A g : RunsWith(t, g) => RunsWith(t, g)'
  <2>1. Good(t)  BY DEF ControlInv
  <2>2. /\ ReaderOK(t)' /\ OrderOK(t)' /\ (Clear(t) => Clear(t)')
        /\ run' = run /\ Ready(t) => Ready(t)'
        /\ WillStop(t) => WillStop(t)'
        /\ \A g : RunsWith(t, g) => RunsWith(t, g)'
    BY <2>1, HeldKeeps
  <2>3. FileOK(t)'  BY <2>1, <2>2 DEF Good, FileOK, Held
  <2>4. ReadyOK(t)'  BY <1>1, <2>1, <2>2 DEF Good, ReadyOK
  <2>5. StopOK(t)'  BY <1>1, <2>1, <2>2 DEF Good, StopOK, Held
  <2>6. QED  BY <2>2, <2>3, <2>4, <2>5 DEF Good
<1>3. GenInv'
  <2>1. \E g \in Nat : \A t \in member' : RunsWith(t, g)'
    BY <1>1, <1>2 DEF ControlInv, GenInv
  <2>2. PICK r : r = run  OBVIOUS
  <2>3. ASSUME mpc' = "start" PROVE \A t \in member : RunsWith(t, r)
    <3>1. CASE mpc = "start"
      BY <2>2, <3>1 DEF ControlInv, GenInv
    <3>2. CASE mpc = "waitStart"
      <4>1. \A t \in member : Ready(t)
        BY <1>1, <3>2 DEF ControlInv, Good, ReadyOK, Answered
      <4>2. QED  BY <4>1, ReadyRuns
    <3>3. QED  BY <2>3, <3>1, <3>2
  <2>4. mpc' = "start" => \A t \in member : RunsWith(t, r)'  BY <1>1, <1>2, <2>3
  <2>5. (mpc = "start" => \A t \in member : RunsWith(t, run))'
    BY <1>1, <2>2, <2>4 DEF RunsWith
  <2>6. QED  BY <2>1, <2>5 DEF GenInv
<1>4. QED  BY <1>2, <1>3 DEF ControlInv

\* A string for reader s, and nothing on the sockets of the others.
LEMMA Send ==
  ASSUME ControlInv, TypeOK', MainInv', Held, ack' = ack, run' = run, mpc \notin {"end", "ack"},
         NEW s \in member, NEW k \in Commands \cup {"OPTIONS", "@"},
         \A t \in Slaves \ {s} : cmd'[t] = cmd[t],
         \A t \in member \ {s} : Answered(t)' => Answered(t),
         \A t \in member \ {s} : Passed(t)' => Passed(t),
         Good(s)',
         k # "START" => mpc' # "start",
         k = "START" => mpc = "start" /\ RunsWith(s, run)',
         k # "START" => \A g : RunsWith(s, g) => RunsWith(s, g)'
  PROVE  ControlInv'
<1>1. member \subseteq Slaves /\ member' = member /\ run \in Nat
  BY ControlAssumption DEF ControlInv, TypeOK, Held
<1>2. ASSUME NEW t \in Slaves, t # s
      PROVE  Good(t)' /\ \A g : RunsWith(t, g) => RunsWith(t, g)'
  <2>1. Good(t) /\ cmd'[t] = cmd[t]  BY <1>2 DEF ControlInv
  <2>2. /\ ReaderOK(t)' /\ OrderOK(t)' /\ (Clear(t) => Clear(t)')
        /\ Ready(t) => Ready(t)'
        /\ WillStop(t) => WillStop(t)'
        /\ \A g : RunsWith(t, g) => RunsWith(t, g)'
    BY <2>1, HeldKeeps
  <2>3. FileOK(t)'  BY <2>1, <2>2 DEF Good, FileOK, Held
  <2>4. ReadyOK(t)'  BY <1>1, <1>2, <2>1, <2>2 DEF Good, ReadyOK
  <2>5. StopOK(t)'  BY <1>1, <1>2, <2>1, <2>2 DEF Good, StopOK, Held
  <2>6. QED  BY <2>2, <2>3, <2>4, <2>5 DEF Good
<1>3. \A t \in Slaves : Good(t)'  BY <1>2
<1>4. GenInv'
  <2>1. PICK r \in Nat : r = run  BY <1>1
  <2>2. CASE k = "START"
    <3>1. \A t \in member : RunsWith(t, r)  BY <2>1, <2>2 DEF ControlInv, GenInv
    <3>2. RunsWith(s, r)'  BY <2>1, <2>2 DEF RunsWith
    <3>3. \A t \in member' : RunsWith(t, r)'  BY <1>1, <1>2, <3>1, <3>2
    <3>4. (\A t \in member : RunsWith(t, run))'  BY <2>1, <3>3 DEF RunsWith
    <3>5. QED  BY <2>1, <3>3, <3>4 DEF GenInv
  <2>3. CASE k # "START"
    <3>1. PICK g \in Nat : \A t \in member : RunsWith(t, g)  BY DEF ControlInv, GenInv
    <3>2. \A t \in member' : RunsWith(t, g)'  BY <1>1, <1>2, <2>3, <3>1
    <3>3. QED  BY <2>3, <3>2 DEF GenInv
  <2>4. QED  BY <2>2, <2>3
<1>5. QED  BY <1>3, <1>4 DEF ControlInv

LEMMA MovesStep ==
  ASSUME ControlInv, TypeOK',
         \/ Validate \/ Arm \/ NextSocket \/ WaitArmed \/ WaitStart \/ StopCommand
  PROVE  ControlInv'
<1>0. /\ MainInv /\ TypeOK /\ at \in 0 .. N /\ member \subseteq Slaves
      /\ \A t \in member : t \in Nat \ {0}
  BY ReaderNumbers DEF ControlInv, TypeOK
<1>1. Held /\ UNCHANGED <<cmd, ack>>
  BY DEF Validate, Arm, NextSocket, WaitArmed, WaitStart, StopCommand, MainOnly, Held,
         status, reader, network
<1>2. CASE Validate \/ Arm \/ WaitArmed \/ WaitStart \/ StopCommand
  <2>1. /\ mpc \notin {"end", "ack", "start"}
        /\ mpc' = "start" => mpc = "waitStart" /\ run' = run
        /\ MainInv'
        /\ \A t \in member : Answered(t)' => Answered(t) /\ run' = run
        /\ \A t \in member : Passed(t)' => Passed(t)
    BY <1>0, <1>2
    DEF Validate, Arm, WaitArmed, WaitStart, StopCommand, MainInv, Answered, Passed
  <2>2. QED  BY <1>1, <2>1, Move
<1>3. CASE NextSocket
  <2>1. PICK n : n = NextOf(at)  OBVIOUS
  <2>2. /\ n = 0 => \A t \in member : t <= at
        /\ n # 0 => n \in member /\ n > at /\ \A t \in member : t < n => t <= at
    BY <1>0, <2>1, NextReader
  <2>3. CASE mpc' = "stop" /\ at' = 0 /\ failed' = FALSE
    <3>1. /\ mpc = "options" /\ MainInv'
          /\ \A t \in member : ~Answered(t)' /\ ~Passed(t)'
      BY <1>0, <1>3, <2>3 DEF NextSocket, MainInv, Answered, Passed
    <3>2. QED  BY <1>1, <2>3, <3>1, Move
  <2>4. CASE /\ mpc' = IF n = 0 THEN "waitArmed" ELSE "line"
             /\ at' = n /\ failed' = failed /\ (n = 0 => ~failed)
    <3>1. mpc = "options" /\ mpc' # "start" /\ UNCHANGED <<run, stopped>> /\ MainInv'
      BY <1>0, <1>1, <1>3, <2>2, <2>4 DEF NextSocket, MainInv, Held
    <3>2. \A t \in member : Answered(t)' => Answered(t)
      BY <2>2, <2>4, <3>1 DEF Answered
    <3>3. \A t \in member : ~Passed(t)'  BY <2>4, <3>1 DEF Passed
    <3>4. QED  BY <1>1, <3>1, <3>2, <3>3, Move
  <2>5. QED  BY <1>3, <2>1, <2>3, <2>4 DEF NextSocket
<1>4. QED  BY <1>2, <1>3

LEMMA GotKeeps ==
  ASSUME NEW s, Held, ack' = ack, Good(s), NEW k \in Commands \cup {"OPTIONS", "@"}, Got(s, k)
  PROVE  /\ ReaderOK(s)'
         /\ k \in Commands /\ Clear(s) => Clear(s)'
         /\ k # "START" => /\ OrderOK(s)'
                           /\ WillStop(s) => WillStop(s)'
                           /\ \A g : RunsWith(s, g) => RunsWith(s, g)'
         /\ k = "STOP" => WillStop(s)'
<1>1. \A l : (l # k => (Has(s, l)' <=> Has(s, l))) /\ (Has(s, l) => Has(s, l)')
  BY DEF Got, Has
<1>2. ReaderOK(s)'  BY DEF Good, ReaderOK, Held
<1>3. k \in Commands /\ Clear(s) => Clear(s)'
  BY <1>1 DEF Clear, Held, Commands
<1>4. ASSUME k # "START"
      PROVE  /\ OrderOK(s)'
             /\ WillStop(s) => WillStop(s)'
             /\ \A g : RunsWith(s, g) => RunsWith(s, g)'
  <2>1. OrderOK(s)'  BY <1>4 DEF Good, OrderOK, Got, Held
  <2>2. WillStop(s) => WillStop(s)'  BY <1>1, <1>4 DEF WillStop, Got, Held
  <2>3. \A g : RunsWith(s, g) => RunsWith(s, g)'  BY <1>1, <1>4 DEF RunsWith, Held
  <2>4. QED  BY <2>1, <2>2, <2>3
<1>5. ASSUME k = "STOP" PROVE WillStop(s)'
  <2>1. PICK n : n = Len(cmd[s]) + 1  OBVIOUS
  <2>2. /\ n \in DOMAIN cmd'[s] /\ cmd'[s][n].kind = "STOP"
        /\ \A i \in DOMAIN cmd'[s] : cmd'[s][i].kind = "START" => i < n
    BY <1>5, <2>1 DEF Got
  <2>3. QED  BY <2>2 DEF WillStop, Has
<1>6. QED  BY <1>2, <1>3, <1>4, <1>5

\* The step of a broadcast that sends, and the one that ends it.
LEMMA BroadcastStep ==
  ASSUME ControlInv, TypeOK', SendArm \/ SendStart \/ SendStop \/ SendSleep
  PROVE  ControlInv'
<1>0. /\ MainInv /\ TypeOK /\ at \in 0 .. N /\ member \subseteq Slaves
      /\ \A t \in member : t \in Nat \ {0}
  BY ReaderNumbers DEF ControlInv, TypeOK
<1>1. PICK k : k = CASE mpc = "arm" -> "ARM" [] mpc = "start" -> "START"
                     [] mpc = "stop" -> "STOP" [] mpc = "sleep" -> "SLEEP"
  OBVIOUS
<1>2. PICK n : n = NextOf(at)  OBVIOUS
<1>3. /\ Held /\ ack' = ack /\ UNCHANGED <<run, failed>>
      /\ mpc \in {"arm", "start", "stop", "sleep"}
      /\ (mpc # "sleep" => stopped' = stopped) /\ (mpc = "sleep" => stopped' = (stopped \/ mpc' = "idle"))
  BY DEF SendArm, SendStart, SendStop, SendSleep, Broadcast, Held, status, reader
<1>4. /\ n # 0 => SendTo(n, k) /\ at' = n /\ mpc' = mpc
      /\ n = 0 => /\ at' = 0 /\ cmd' = cmd
                  /\ mpc' = CASE mpc = "arm" -> "options" [] mpc = "start" -> "idle"
                              [] mpc = "stop" -> "sleep" [] mpc = "sleep" -> "idle"
  BY <1>1, <1>2 DEF SendArm, SendStart, SendStop, SendSleep, Broadcast
<1>5. /\ n = 0 => \A t \in member : t <= at
      /\ n # 0 => n \in member /\ n > at /\ \A t \in member : t < n => t <= at
  BY <1>0, <1>2, NextReader
<1>6. CASE n = 0
  <2>1. MainInv'  BY <1>0, <1>3, <1>4, <1>6 DEF MainInv
  <2>2. \A t \in member : ~Answered(t)'
    BY <1>0, <1>3, <1>4, <1>6 DEF Answered
  <2>3. \A t \in member : Passed(t)' => Passed(t)
    BY <1>0, <1>3, <1>4, <1>5, <1>6 DEF Passed, MainInv
  <2>4. mpc' # "start" /\ mpc \notin {"end", "ack"}  BY <1>3, <1>4, <1>6
  <2>5. QED  BY <1>3, <1>4, <1>6, <2>1, <2>2, <2>3, <2>4, Move
<1>7. CASE n # 0
  <2>1. MainInv'  BY <1>0, <1>3, <1>4, <1>7 DEF MainInv
  <2>2. n \in Slaves /\ Good(n) /\ k \in Commands  BY <1>0, <1>1, <1>3, <1>5, <1>7 DEF ControlInv, Commands
  <2>3. /\ \A t \in Slaves \ {n} : cmd'[t] = cmd[t]
        /\ ~link[n] => cmd'[n] = cmd[n]
        /\ link[n] => Got(n, k)
    BY <1>0, <1>4, <1>7, <2>2, Sending
  <2>4. \A t \in member \ {n} : Answered(t)' => Answered(t)
    BY <1>0, <1>3, <1>4, <1>5, <1>7 DEF Answered
  <2>5. \A t \in member \ {n} : Passed(t)' => Passed(t)
    BY <1>0, <1>3, <1>4, <1>5, <1>7 DEF Passed
  <2>6. ~Answered(n)'
    BY <1>0, <1>3, <1>4, <1>5, <1>7 DEF Answered
  <2>7. FileOK(n) /\ (link[n] => Clear(n))  BY <1>3, <2>2 DEF Good, FileOK
  <2>8. CASE ~link[n]
    <3>1. /\ ReaderOK(n)' /\ OrderOK(n)' /\ \A g : RunsWith(n, g) => RunsWith(n, g)'
      BY <1>3, <2>2, <2>3, <2>8, HeldKeeps
    <3>2. ~link'[n]  BY <1>3, <2>8 DEF Held
    <3>3. Good(n)'  BY <2>6, <3>1, <3>2 DEF Good, FileOK, ReadyOK, StopOK
    <3>4. k = "START" => mpc = "start" /\ RunsWith(n, run)'
      <4>1. PICK r : r = run  OBVIOUS
      <4>2. k = "START" => mpc = "start"  BY <1>1, <1>3
      <4>3. mpc = "start" => RunsWith(n, r)
        BY <1>5, <1>7, <4>1 DEF ControlInv, GenInv
      <4>4. mpc = "start" => RunsWith(n, r)'  BY <3>1, <4>3
      <4>5. QED  BY <1>3, <4>1, <4>2, <4>4 DEF RunsWith
    <3>5. k # "START" => mpc' # "start"  BY <1>1, <1>4, <1>7
    <3>6. mpc \notin {"end", "ack"}  BY <1>3
    <3>7. n \in member  BY <1>5, <1>7
    <3>8. QED
      BY <1>3, <2>1, <2>2, <2>3, <2>4, <2>5, <3>1, <3>3, <3>4, <3>5, <3>6, <3>7, Send
  <2>9. CASE link[n]
    <3>1. /\ ReaderOK(n)' /\ Clear(n)'
          /\ k # "START" => /\ OrderOK(n)'
                            /\ WillStop(n) => WillStop(n)'
                            /\ \A g : RunsWith(n, g) => RunsWith(n, g)'
          /\ k = "STOP" => WillStop(n)'
      BY <1>3, <2>2, <2>3, <2>7, <2>9, GotKeeps
    <3>2. k = "START" => mpc = "start" /\ Ready(n)
      <4>1. k = "START" => mpc = "start"  BY <1>1, <1>3
      <4>2. mpc = "start" => Answered(n)  BY <1>5, <1>7 DEF Answered
      <4>3. QED  BY <1>5, <1>7, <2>2, <4>1, <4>2 DEF Good, ReadyOK
    <3>3. k = "START" => OrderOK(n)'
      <4> SUFFICES ASSUME k = "START" PROVE OrderOK(n)'
        OBVIOUS
      <4>1. Ready(n)  BY <3>2
      <4>2. Got(n, "START") /\ Polled \subseteq Commands \ {"ARM"}
        BY <2>3, <2>9 DEF Polled, Commands
      <4>3. spc'[n] # "file"  BY <1>3, <4>1 DEF Ready, Held
      <4>4. \A i \in DOMAIN cmd[n] : cmd[n][i].kind # "START" /\ cmd[n][i].kind \in Polled
        BY <4>1 DEF Ready, Only, Polled
      <4>5. \A i \in DOMAIN cmd'[n] : cmd'[n][i].kind = "START" => i = Len(cmd[n]) + 1
        BY <4>2, <4>4 DEF Got
      <4>6. \A j \in DOMAIN cmd'[n] : j < Len(cmd[n]) + 1 => cmd'[n][j].kind \in Polled
        BY <4>2, <4>4 DEF Got
      <4>7. QED  BY <4>2, <4>3, <4>5, <4>6 DEF OrderOK
    <3>4. k = "START" => RunsWith(n, run)'
      <4>1. Ready(n) => (running[n] \/ armed[n] \/ spc[n] = "arming" => options[n] = run)
        BY DEF Ready
      <4>2. QED  BY <1>3, <3>2, <4>1 DEF RunsWith, Held
    <3>5. FileOK(n)'  BY <3>1 DEF FileOK
    <3>6. ReadyOK(n)'  BY <2>6 DEF ReadyOK
    <3>7. StopOK(n)'
      <4>1. CASE mpc = "stop"
        <5>1. k = "STOP"  BY <1>1, <4>1
        <5>2. QED  BY <3>1, <5>1 DEF StopOK
      <4>2. CASE mpc = "sleep"
        <5>1. k = "SLEEP" /\ Passed(n)  BY <1>1, <4>2 DEF Passed
        <5>2. WillStop(n)  BY <1>5, <1>7, <2>2, <2>9, <5>1 DEF Good, StopOK
        <5>3. QED  BY <3>1, <5>1, <5>2 DEF StopOK
      <4>3. CASE mpc \in {"arm", "start"}
        <5>1. ~Passed(n)'  BY <1>4, <1>7, <4>3 DEF Passed
        <5>2. QED  BY <5>1 DEF StopOK
      <4>4. QED  BY <1>3, <4>1, <4>2, <4>3
    <3>8. Good(n)'  BY <3>1, <3>3, <3>5, <3>6, <3>7 DEF Good
    <3>9. k # "START" => mpc' # "start"  BY <1>1, <1>4, <1>7
    <3>10. mpc \notin {"end", "ack"} /\ n \in member  BY <1>3, <1>5, <1>7
    <3>11. QED
      BY <1>3, <2>1, <2>2, <2>3, <2>4, <2>5, <3>1, <3>2, <3>4, <3>8, <3>9, <3>10, Send
  <2>10. QED  BY <2>8, <2>9
<1>8. QED  BY <1>6, <1>7

\* The options and their end, to the reader the exchange has come to.
LEMMA OptionsStep == ASSUME ControlInv, TypeOK', SendLine \/ SendEnd PROVE ControlInv'
<1>0. /\ MainInv /\ TypeOK /\ member \subseteq Slaves
      /\ \A t \in member : t \in Nat \ {0}
  BY ReaderNumbers DEF ControlInv, TypeOK
<1>1. PICK s : s = at  OBVIOUS
<1>2. PICK k : k = IF mpc = "line" THEN "OPTIONS" ELSE "@"  OBVIOUS
<1>3. /\ Held /\ ack' = ack /\ UNCHANGED <<at, run, stopped>>
      /\ mpc \in {"line", "end"} /\ SendTo(s, k)
      /\ link[s] => mpc' = (IF mpc = "line" THEN "end" ELSE "ack") /\ failed' = failed
      /\ ~link[s] => mpc' = "options" /\ failed' = TRUE
  BY <1>1, <1>2 DEF SendLine, SendEnd, SendOptions, Held, status, reader
<1>4. s \in member /\ s \in Slaves /\ Good(s) /\ s \in Nat
  BY <1>0, <1>1, <1>3 DEF ControlInv, MainInv
<1>5. k \in Commands \cup {"OPTIONS", "@"} /\ k \notin Commands /\ k \notin Polled /\ k # "START"
  BY <1>2 DEF Commands, Polled
<1>6. /\ \A t \in Slaves \ {s} : cmd'[t] = cmd[t]
      /\ ~link[s] => cmd'[s] = cmd[s]
      /\ link[s] => Got(s, k)
  BY <1>0, <1>3, <1>4, <1>5, Sending
<1>7. MainInv'  BY <1>0, <1>3, <1>4 DEF MainInv, Held
<1>8. String(k).run = run /\ String(k).kind = k  BY <1>0, <1>5, StringType
<1>9. FileOK(s)'
  <2>1. CASE ~link[s]
    BY <1>3, <2>1 DEF FileOK, Held
  <2>2. CASE link[s]
    <3>1. Got(s, k) /\ ack[s] = 0 /\ (mpc = "end" => Clear(s) \/ Pending(s))
          /\ (mpc = "line" => Clear(s))
      BY <1>3, <1>4, <1>6, <2>2 DEF Good, FileOK, Clear, Pending
    <3>2. (Clear(s) \/ Pending(s)) => ~Has(s, "@")
      BY <1>3, <3>1 DEF Clear, Pending, Has
    <3>3. ~Has(s, "@")  BY <1>3, <3>1, <3>2
    <3>4. \A i \in DOMAIN cmd[s] : cmd[s][i].kind = "OPTIONS" => cmd[s][i].run = run
      BY <1>3, <3>1 DEF Clear, Pending, Has
    <3>5. spc[s] = "file" /\ file[s] \in Runs => file[s] = run
      BY <1>3, <3>1 DEF Clear, Pending
    <3>6. \A i \in DOMAIN cmd'[s] :
            /\ cmd'[s][i].kind = "OPTIONS" => cmd'[s][i].run = run
            /\ cmd'[s][i].kind = "@" => k = "@" /\ i = Len(cmd[s]) + 1 /\ cmd'[s][i].run = run
      BY <1>8, <3>1, <3>3, <3>4 DEF Got, Has
    <3>7. \A j \in DOMAIN cmd'[s] : ~(j > Len(cmd[s]) + 1)
      BY <3>1 DEF Got
    <3>8. k = "@" => mpc' = "ack"  BY <1>2, <1>3, <2>2
    <3>9. Pending(s)'
      BY <1>3, <3>1, <3>5, <3>6, <3>7, <3>8 DEF Pending, Held
    <3>10. mpc' \in {"end", "ack"} /\ at' = s  BY <1>1, <1>3, <2>2
    <3>11. QED  BY <3>9, <3>10 DEF FileOK
  <2>3. QED  BY <2>1, <2>2
<1>10. ReaderOK(s)' /\ OrderOK(s)' /\ \A g : RunsWith(s, g) => RunsWith(s, g)'
  <2>1. CASE link[s]
    BY <1>3, <1>4, <1>5, <1>6, <2>1, GotKeeps
  <2>2. CASE ~link[s]
    BY <1>3, <1>4, <1>6, <2>2, HeldKeeps
  <2>3. QED  BY <2>1, <2>2
<1>11. \A t \in member : ~Passed(t)' /\ (Answered(t)' => t # s /\ Answered(t))
  <2>1. link[s] => ack[s] = 0
    BY <1>3, <1>4 DEF Good, FileOK, Clear, Pending
  <2>2. \A t \in member : ~Passed(t)'  BY <1>3 DEF Passed
  <2>3. \A t \in member : Answered(t)' => t # s /\ Answered(t)
    BY <1>0, <1>1, <1>3, <1>4, <2>1 DEF Answered
  <2>4. QED  BY <2>2, <2>3
<1>12. ReadyOK(s)' /\ StopOK(s)'  BY <1>3, <1>4, <1>11 DEF ReadyOK, StopOK, Held
<1>13. Good(s)'  BY <1>9, <1>10, <1>12 DEF Good
<1>14. member' = member /\ mpc' # "start"  BY <1>3 DEF Held
\* The exchange with s is under way, and the sockets of the others are clear.
<1>15. ASSUME NEW t \in Slaves, t # s
       PROVE  Good(t)' /\ \A g : RunsWith(t, g) => RunsWith(t, g)'
  <2>1. Good(t) /\ cmd'[t] = cmd[t] /\ ack'[t] = ack[t]  BY <1>3, <1>6, <1>15 DEF ControlInv
  <2>2. /\ ReaderOK(t)' /\ OrderOK(t)' /\ (Clear(t) => Clear(t)')
        /\ Ready(t) => Ready(t)'
        /\ \A g : RunsWith(t, g) => RunsWith(t, g)'
    BY <1>3, <2>1, HeldKeeps
  <2>3. link[t] => Clear(t)  BY <1>1, <1>15, <2>1 DEF Good, FileOK
  <2>4. FileOK(t)'  BY <1>3, <2>2, <2>3 DEF FileOK, Held
  <2>5. ReadyOK(t)' /\ StopOK(t)'
    BY <1>11, <1>14, <2>1, <2>2 DEF Good, ReadyOK, StopOK
  <2>6. QED  BY <2>2, <2>4, <2>5 DEF Good
<1>16. GenInv'
  <2>1. PICK g \in Nat : \A t \in member : RunsWith(t, g)  BY DEF ControlInv, GenInv
  <2>2. \A t \in member' : RunsWith(t, g)'  BY <1>0, <1>10, <1>14, <1>15, <2>1
  <2>3. QED  BY <1>14, <2>2 DEF GenInv
<1>17. QED  BY <1>7, <1>13, <1>15, <1>16 DEF ControlInv

LEMMA AckStep == ASSUME ControlInv, TypeOK', ReceiveAck PROVE ControlInv'
<1>0. /\ MainInv /\ TypeOK /\ member \subseteq Slaves
      /\ \A t \in member : t \in Nat \ {0}
  BY ReaderNumbers DEF ControlInv, TypeOK
<1>1. PICK s : s = at  OBVIOUS
<1>2. /\ Held /\ UNCHANGED <<at, run, stopped, cmd>> /\ mpc = "ack" /\ mpc' = "options"
      /\ \/ ack[s] # 0 /\ ack' = [ack EXCEPT ![s] = 0] /\ failed' = failed
         \/ ~link[s] /\ failed' = TRUE /\ ack' = ack
  BY <1>1 DEF ReceiveAck, Held, status, reader
<1>3. s \in member /\ s \in Slaves /\ Good(s)
  BY <1>0, <1>1, <1>2 DEF ControlInv, MainInv
<1>4. ack \in [Slaves -> 0 .. MaxRuns]  BY <1>0 DEF TypeOK
<1>5. MainInv'  BY <1>0, <1>2 DEF MainInv
<1>6. ack[s] # 0 => Ready(s)
  BY <1>1, <1>2, <1>3 DEF Good, ReadyOK, Answered
<1>7. ASSUME NEW t \in Slaves PROVE Good(t)' /\ \A g : RunsWith(t, g) => RunsWith(t, g)'
  <2>1. Good(t)  BY DEF ControlInv
  <2>2. /\ ReaderOK(t)' /\ OrderOK(t)' /\ (ack'[t] = ack[t] /\ Clear(t) => Clear(t)')
        /\ Ready(t) => Ready(t)'
        /\ \A g : RunsWith(t, g) => RunsWith(t, g)'
    BY <1>2, <2>1, HeldKeeps
  <2>3. FileOK(t)'
    <3>1. CASE t # s
      <4>1. link[t] => Clear(t)  BY <1>1, <2>1, <3>1 DEF Good, FileOK
      <4>2. ack'[t] = ack[t]  BY <1>2, <1>4, <3>1
      <4>3. QED  BY <1>2, <2>2, <4>1, <4>2 DEF FileOK, Held
    <3>2. CASE t = s /\ link[s]
      <4>1. ack'[s] = 0 /\ Ready(s)  BY <1>2, <1>3, <1>4, <1>6, <3>2
      <4>2. Only(s, Polled)' /\ spc'[s] # "file"
        BY <1>2, <4>1 DEF Ready, Only, Held
      <4>3. Clear(s)'  BY <4>1, <4>2 DEF Clear, Only, Has, Polled
      <4>4. QED  BY <3>2, <4>3 DEF FileOK
    <3>3. CASE t = s /\ ~link[s]
      BY <1>2, <3>3 DEF FileOK, Held
    <3>4. QED  BY <3>1, <3>2, <3>3
  <2>4. ReadyOK(t)'
    <3> SUFFICES ASSUME t \in member, Answered(t)' PROVE Ready(t)'
      BY <1>2 DEF ReadyOK, Held
    <3>1. ~failed' /\ t <= s  BY <1>1, <1>2 DEF Answered
    <3>2. t = s \/ t < s  BY <1>0, <1>3, <3>1
    <3>3. ~failed /\ ack[s] # 0  BY <1>2, <3>1
    <3>4. Answered(t)  BY <1>1, <1>2, <3>2, <3>3 DEF Answered
    <3>5. QED  BY <2>1, <2>2, <3>4 DEF Good, ReadyOK
  <2>5. StopOK(t)'  BY <1>2 DEF StopOK, Passed
  <2>6. QED  BY <2>2, <2>3, <2>4, <2>5 DEF Good
<1>8. GenInv'
  <2>1. member' = member  BY <1>2 DEF Held
  <2>2. QED  BY <1>0, <1>2, <1>7, <2>1 DEF ControlInv, GenInv
<1>9. QED  BY <1>5, <1>7, <1>8 DEF ControlInv

LEMMA ConnectStep == ASSUME ControlInv, TypeOK', Connect \/ Disconnect PROVE ControlInv'
<1>0. MainInv /\ TypeOK  BY DEF ControlInv
<1>1. /\ mpc = "idle" /\ UNCHANGED <<mpc, at, run, failed, stopped>>
      /\ UNCHANGED <<spc, armed, running, options, file>>
  BY DEF Connect, Disconnect, main, reader
<1>2. MainInv'  BY <1>0, <1>1 DEF MainInv
<1>3. \A t : ReadyOK(t)'  BY <1>1 DEF ReadyOK, Answered
<1>4. CASE Connect
  <2>1. PICK new \in SUBSET {s \in Slaves : ~connected[s]} :
          AddConnections(new) /\ ConnectReaders(new)
    BY <1>4 DEF Connect
  <2>2. ASSUME NEW t \in Slaves, t \in new PROVE Good(t)' /\ \A g : RunsWith(t, g)'
    <3>1. cmd'[t] = <<>> /\ link'[t] /\ ack'[t] = 0 /\ connected'[t]
      BY <2>1, <2>2 DEF AddConnections, ConnectReaders, Fresh
    <3>2. spc[t] = "listen" /\ ~armed[t] /\ ~running[t]
      <4>1. Good(t) /\ ~connected[t]  BY <2>2 DEF ControlInv
      <4>2. QED  BY <4>1 DEF Good, ReaderOK
    <3>3. \A k : ~Has(t, k)'  BY <3>1 DEF Has
    <3>4. ReaderOK(t)' /\ OrderOK(t)'  BY <1>1, <3>1, <3>2 DEF ReaderOK, OrderOK
    <3>5. Clear(t)'  BY <1>1, <3>1, <3>2, <3>3 DEF Clear
    <3>6. WillStop(t)'  BY <1>1, <3>1, <3>2 DEF WillStop
    <3>7. QED  BY <1>1, <1>3, <3>2, <3>3, <3>4, <3>5, <3>6 DEF Good, FileOK, StopOK, RunsWith
  <2>3. ASSUME NEW t \in Slaves, t \notin new PROVE Good(t)'
    <3>1. /\ cmd'[t] = cmd[t] /\ link'[t] = link[t] /\ ack'[t] = ack[t]
          /\ connected'[t] = connected[t] /\ t \notin member'
      BY <2>1, <2>3 DEF AddConnections, ConnectReaders, Fresh
    <3>2. Good(t)  BY DEF ControlInv
    <3>3. ReaderOK(t)' /\ OrderOK(t)'  BY <1>1, <3>1, <3>2 DEF Good, ReaderOK, OrderOK
    <3>4. Clear(t) => Clear(t)'  BY <1>1, <3>1 DEF Clear, Has
    <3>5. FileOK(t)'  BY <1>1, <3>1, <3>2, <3>4 DEF Good, FileOK
    <3>6. QED  BY <1>3, <3>1, <3>3, <3>5 DEF Good, StopOK
  <2>4. member' = new  BY <2>1 DEF AddConnections
  <2>5. GenInv'
    <3>1. \A t \in member' : RunsWith(t, 0)'  BY <2>2, <2>4
    <3>2. mpc' # "start"  BY <1>1
    <3>3. QED  BY <3>1, <3>2 DEF GenInv
  <2>6. \A t \in Slaves : Good(t)'  BY <2>2, <2>3
  <2>7. QED  BY <1>2, <2>5, <2>6 DEF ControlInv
<1>5. CASE Disconnect
  <2>1. member' = {} /\ UNCHANGED <<connected, cmd>>
    BY <1>5 DEF Disconnect, reader
  <2>2. ASSUME NEW t \in Slaves PROVE Good(t)'
    <3>1. ack'[t] = 0 /\ (link'[t] => link[t])  BY <1>5 DEF Disconnect
    <3>2. Good(t)  BY DEF ControlInv
    <3>3. ReaderOK(t)' /\ OrderOK(t)'  BY <1>1, <2>1, <3>2 DEF Good, ReaderOK, OrderOK
    <3>4. Clear(t) => Clear(t)'  BY <1>1, <2>1, <3>1 DEF Clear, Has
    <3>5. FileOK(t)'  BY <1>1, <3>1, <3>2, <3>4 DEF Good, FileOK
    <3>6. QED  BY <1>3, <2>1, <3>3, <3>5 DEF Good, StopOK
  <2>3. GenInv'  BY <2>1 DEF GenInv
  <2>4. QED  BY <1>2, <2>2, <2>3 DEF ControlInv
<1>6. QED  BY <1>4, <1>5

LEMMA ControlStep == ControlInv /\ [Next]_vars => ControlInv'
<1> SUFFICES ASSUME ControlInv, [Next]_vars PROVE ControlInv'
  OBVIOUS
<1>0. TypeOK'  BY TypeStep DEF ControlInv
<1>1. CASE Dispatcher
  BY <1>0, <1>1, MovesStep, BroadcastStep, OptionsStep, AckStep, ConnectStep DEF Dispatcher
<1>2. CASE PollNetwork
  BY <1>2, PollStep
<1>3. CASE \E s \in Slaves : Slave(s) \/ ThreadFails(s) \/ LinkLost(s)
  BY <1>3, SlaveStep
<1>4. CASE UNCHANGED vars
  <2>1. Quiet
    BY <1>4 DEF vars, main, status, reader, network, Quiet, MainSame
  <2>2. QED  BY <1>0, <2>1, QuietStep
<1>5. QED  BY <1>1, <1>2, <1>3, <1>4 DEF Next

LEMMA InitControl == Init => ControlInv
<1> SUFFICES ASSUME Init PROVE ControlInv
  OBVIOUS
<1>1. MainInv /\ GenInv  BY DEF Init, MainInv, GenInv
<1>2. ASSUME NEW s \in Slaves PROVE Good(s)
  <2>1. /\ ~link[s] /\ ~armed[s] /\ ~running[s] /\ spc[s] = "listen" /\ cmd[s] = <<>>
        /\ member = {}
    BY DEF Init
  <2>2. QED  BY <2>1 DEF Good, ReaderOK, FileOK, OrderOK, ReadyOK, StopOK
<1>3. QED  BY <1>1, <1>2, InitType DEF ControlInv

-----------------------------------------------------------------------------
(* What follows from it.                                                   *)

\* The readers of the detector that take data at the same time have the options of the same
\* run, for any number of readers and networks, whatever links and threads fail and whenever
\* the polling thread sends commands between those of the main thread.
THEOREM OneRunAtATime == Spec => []SameRun
<1>1. ControlInv => SameRun
  <2> SUFFICES ASSUME ControlInv, NEW s \in member, NEW t \in member, running[s], running[t]
               PROVE  options[s] = options[t]
    BY DEF SameRun
  <2>1. PICK g \in Nat : \A u \in member : RunsWith(u, g)  BY DEF ControlInv, GenInv
  <2>2. QED  BY <2>1 DEF RunsWith
<1>2. QED  BY <1>1, InitControl, ControlStep, PTL DEF Spec

\* After a stop has returned, every reader within reach that runs, or will on a START it has
\* not taken yet, has a STOP to come after it.
THEOREM StopReachesAll == Spec => []StopOnItsWay
<1>1. ControlInv => StopOnItsWay
  <2> SUFFICES ASSUME ControlInv, mpc = "idle", stopped, NEW s \in member, link[s]
               PROVE  /\ running[s] => Waiting(s, "STOP") # {}
                      /\ \A i \in Waiting(s, "START") : \E j \in Waiting(s, "STOP") : i < j
    BY DEF StopOnItsWay
  <2>1. s \in Slaves  BY DEF ControlInv, TypeOK
  <2>2. WillStop(s)  BY <2>1 DEF ControlInv, Good, StopOK, Passed
  <2>3. QED  BY <2>2 DEF WillStop, Has, Waiting
<1>2. QED  BY <1>1, InitControl, ControlStep, PTL DEF Spec

\* An answer on its way is one that Arm waits for, to the options it has just sent: ReceiveAck
\* never takes the answer of an earlier run or of another reader for it.
THEOREM AnswersAreExpected == Spec => []AckIsTheAnswer
<1>1. ControlInv => AckIsTheAnswer
  <2> SUFFICES ASSUME ControlInv, NEW s \in member, ack[s] # 0, link[s]
               PROVE  mpc = "ack" /\ at = s /\ ack[s] = run
    BY DEF AckIsTheAnswer
  <2>1. s \in Slaves  BY DEF ControlInv, TypeOK
  <2>2. QED  BY <2>1 DEF ControlInv, Good, FileOK, Clear, Pending
<1>2. QED  BY <1>1, InitControl, ControlStep, PTL DEF Spec

-----------------------------------------------------------------------------
(* Readers that answer in time, and a polling thread that sends nothing.   *)

\* The state of the detector is what the table says, once it has been computed.
StatusInv ==
  /\ ppc \in {"watch", "computing"}
  /\ daqState = IF ppc = "computing" THEN "IDLE" ELSE StateOf(table)

\* An ARM is the first thing on a socket, and its reader is idle.
ArmOK(s) ==
  \A i \in DOMAIN cmd[s] :
    cmd[s][i].kind = "ARM" => i = 1 /\ ~running[s] /\ ~armed[s] /\ spc[s] = "listen"

\* The readers that ARM has still to be sent to are idle and have nothing to do.
IdleOK(s) ==
  mpc = "valid" \/ (mpc = "arm" /\ s > at) =>
    cmd[s] = <<>> /\ spc[s] = "listen" /\ ~running[s] /\ ~armed[s]

Starting == mpc \notin {"idle", "stop", "sleep"}

Reported(s) == table[s] = "ARMED" \/ \E i \in DOMAIN sts[s] : sts[s][i] = "ARMED"

\* While a run is started, the status of every reader is known, and one that has said it is
\* armed still is.
HereOK(s) ==
  Starting =>
    /\ Only(s, {"ARM", "OPTIONS", "@", "START"})
    /\ table[s] # "none"
    /\ Reported(s) => armed[s]
    /\ mpc = "start" => armed[s]

Timed(s) == ArmOK(s) /\ (s \in member /\ link[s] => IdleOK(s) /\ HereOK(s))

TimelyInv == ControlInv /\ StatusInv /\ \A s \in Slaves : Timed(s)

TimedSame(t) == table'[t] = table[t] /\ sts'[t] = sts[t] /\ UNCHANGED <<mpc, at, member>>

LEMMA TimedUnaffected ==
  ASSUME NEW t, Same(t), TimedSame(t), Timed(t) PROVE Timed(t)'
<1>1. ArmOK(t)'  BY DEF Same, Timed, ArmOK
<1>2. IdleOK(t) => IdleOK(t)'  BY DEF Same, TimedSame, IdleOK
<1>3. HereOK(t) => HereOK(t)'
  BY DEF Same, TimedSame, HereOK, Starting, Only, Reported
<1>4. QED  BY <1>1, <1>2, <1>3 DEF Same, TimedSame, Timed

LEMMA TimedListen == ASSUME ControlInv, NEW s \in Slaves, Timed(s), Listen(s) PROVE Timed(s)'
<1>1. PICK k : k = Head(cmd[s]).kind  OBVIOUS
<1>2. TypeOK /\ Good(s)  BY DEF ControlInv
<1>3. /\ TakesOne(s) /\ UNCHANGED <<table, sts>>
      /\ spc[s] = "listen"
  BY <1>2, ReaderTypes DEF Listen, ReaderOnly, TakesOne, MainSame, main, status
<1>4. armed'[s] <=> /\ armed[s] /\ ~(k = "ARM" /\ ~running[s])
                    /\ ~(k = "SLEEP" /\ ~running[s]) /\ ~(k = "STOP" /\ running[s])
  BY <1>1, <1>2, ReaderTypes DEF Listen, Obey
<1>5. /\ 1 \in DOMAIN cmd[s] /\ cmd[s][1].kind = k
      /\ \A i \in DOMAIN cmd'[s] :
           i \in Nat \ {0} /\ i + 1 \in DOMAIN cmd[s] /\ cmd'[s][i] = cmd[s][i + 1]
  BY <1>1, <1>2, <1>3, Remaining
<1>6. ArmOK(s)'
  <2>1. \A i \in DOMAIN cmd'[s] : cmd'[s][i].kind # "ARM"  BY <1>5 DEF Timed, ArmOK
  <2>2. QED  BY <2>1 DEF ArmOK
<1>7. ASSUME s \in member, link[s] PROVE IdleOK(s)' /\ HereOK(s)'
  <2>1. IdleOK(s) /\ HereOK(s) /\ cmd[s] # <<>>  BY <1>3, <1>7 DEF Timed, TakesOne
  <2>2. IdleOK(s)'  BY <1>3, <2>1 DEF IdleOK, TakesOne, MainSame
  <2>3. Starting => k \in {"ARM", "OPTIONS", "@", "START"} /\ (armed[s] => k # "ARM")
    BY <1>5, <2>1 DEF HereOK, Only, Timed, ArmOK
  <2>4. Starting /\ armed[s] => armed'[s]  BY <1>4, <2>3
  <2>5. (Reported(s)' <=> Reported(s)) /\ mpc' = mpc
    BY <1>3 DEF Reported, TakesOne, MainSame
  <2>6. Starting => Only(s, {"ARM", "OPTIONS", "@", "START"})'
    BY <1>5, <2>1 DEF HereOK, Only
  <2>7. HereOK(s)'  BY <1>3, <2>1, <2>4, <2>5, <2>6 DEF HereOK, Starting
  <2>8. QED  BY <2>2, <2>7
<1>8. QED  BY <1>3, <1>6, <1>7 DEF Timed, TakesOne, MainSame

LEMMA TimedFile ==
  ASSUME ControlInv, NEW s \in Slaves, Timed(s), ReceiveLine(s) \/ FileEnd(s) PROVE Timed(s)'
<1>1. TypeOK  BY DEF ControlInv
<1>2. /\ TakesOne(s) /\ UNCHANGED <<armed, table, sts>>
      /\ spc[s] = "file"
  BY <1>1, ReaderTypes
  DEF ReceiveLine, FileEnd, ReaderOnly, TakesOne, MainSame, main, status
<1>3. \A i \in DOMAIN cmd'[s] :
        i \in Nat \ {0} /\ i + 1 \in DOMAIN cmd[s] /\ cmd'[s][i] = cmd[s][i + 1]
  BY <1>1, <1>2, Remaining
<1>4. ArmOK(s)'
  <2>1. \A i \in DOMAIN cmd'[s] : cmd'[s][i].kind # "ARM"  BY <1>3 DEF Timed, ArmOK
  <2>2. QED  BY <2>1 DEF ArmOK
<1>5. IdleOK(s) => IdleOK(s)'  BY <1>2 DEF IdleOK, TakesOne, MainSame
<1>6. HereOK(s) => HereOK(s)'
  BY <1>2, <1>3 DEF HereOK, Starting, Only, Reported, TakesOne, MainSame
<1>7. QED  BY <1>2, <1>4, <1>5, <1>6 DEF Timed, TakesOne, MainSame

LEMMA TimedOther ==
  ASSUME ControlInv, NEW s \in Slaves, Timed(s),
         FileLost(s) \/ ArmBoards(s) \/ SendStatus(s) \/ SendFails(s) \/ ThreadFails(s) \/ LinkLost(s)
  PROVE  Timed(s)'
<1>1. TypeOK /\ Good(s)  BY DEF ControlInv
<1>2. UNCHANGED <<cmd, table, member, mpc, at>>
  BY DEF FileLost, ArmBoards, SendStatus, SendFails, ThreadFails, LinkLost, ReaderOnly,
         main, status
<1>3. CASE FileLost(s) \/ SendFails(s) \/ LinkLost(s)
  <2>1. /\ ~link'[s] /\ (running'[s] => running[s]) /\ (armed'[s] => armed[s])
        /\ (spc[s] = "listen" => spc'[s] = "listen")
    BY <1>1, <1>3, ReaderTypes DEF FileLost, SendFails, LinkLost, ReaderOnly, reader
  <2>2. QED  BY <1>2, <2>1 DEF Timed, ArmOK
<1>4. CASE ArmBoards(s)
  <2>1. /\ spc[s] = "arming" /\ UNCHANGED <<link, sts>>  BY <1>4 DEF ArmBoards, ReaderOnly
  <2>2. ~armed[s]  BY <1>1, <2>1 DEF Good, ReaderOK
  <2>3. ArmOK(s)'  BY <1>2, <2>1 DEF Timed, ArmOK
  <2>4. IdleOK(s) => IdleOK(s)'  BY <1>2, <2>1 DEF IdleOK
  <2>5. HereOK(s) => HereOK(s)'
    BY <1>2, <2>1, <2>2 DEF HereOK, Starting, Only, Reported
  <2>6. QED  BY <1>2, <2>1, <2>3, <2>4, <2>5 DEF Timed
<1>5. CASE ThreadFails(s)
  <2>1. Same(s) /\ TimedSame(s)
    BY <1>2, <1>5 DEF ThreadFails, ReaderOnly, Same, TimedSame, main, status
  <2>2. QED  BY <2>1, TimedUnaffected
<1>6. CASE SendStatus(s)
  <2>1. UNCHANGED <<spc, armed, running, link>>  BY <1>6 DEF SendStatus, ReaderOnly
  <2>2. Reported(s)' => Reported(s) \/ armed[s]
    <3>1. PICK v : /\ sts' = [sts EXCEPT ![s] = Append(@, v)]
                   /\ v = IF failing[s] THEN "ERROR" ELSE OwnStatus(s)
      BY <1>6 DEF SendStatus
    <3>2. sts[s] \in Seq(States) /\ v \in States /\ sts' [s] = Append(sts[s], v)
      BY <1>1, <3>1 DEF TypeOK, OwnStatus, States
    <3>3. \A i \in DOMAIN sts'[s] : (i \in DOMAIN sts[s] /\ sts'[s][i] = sts[s][i]) \/ sts'[s][i] = v
      BY <3>2, Appended
    <3>4. v = "ARMED" => armed[s]  BY <3>1 DEF OwnStatus
    <3>5. QED  BY <1>2, <3>3, <3>4 DEF Reported
  <2>3. ArmOK(s)'  BY <1>2, <2>1 DEF Timed, ArmOK
  <2>4. IdleOK(s) => IdleOK(s)'  BY <1>2, <2>1 DEF IdleOK
  <2>5. HereOK(s) => HereOK(s)'  BY <1>2, <2>1, <2>2 DEF HereOK, Starting, Only
  <2>6. QED  BY <1>2, <2>1, <2>3, <2>4, <2>5 DEF Timed
<1>7. QED  BY <1>3, <1>4, <1>5, <1>6

\* All the readers that are known are in the state of the detector.
LEMMA OneState ==
  ASSUME NEW tab, NEW v \in {"IDLE", "ARMED"}, StateOf(tab) = v
  PROVE  \A s \in Slaves : tab[s] \in {"none", v}
  BY DEF StateOf

\* A move of the main thread that sends nothing to t.
LEMMA TimedMove ==
  ASSUME NEW t, Held, UNCHANGED <<table, sts>>, cmd'[t] = cmd[t], Timed(t),
         mpc' = "valid" => mpc = "valid",
         mpc' = "arm" /\ t > at' => mpc = "valid" \/ (mpc = "arm" /\ t > at),
         Starting' => Starting,
         mpc' = "start" /\ t \in member /\ link[t] => mpc = "start" \/ armed[t]
  PROVE  Timed(t)'
<1>1. ArmOK(t)'  BY DEF Timed, ArmOK, Held
<1>2. IdleOK(t) => IdleOK(t)'  BY DEF IdleOK, Held
<1>3. ASSUME t \in member, link[t], HereOK(t) PROVE HereOK(t)'
  <2>1. Only(t, {"ARM", "OPTIONS", "@", "START"})' <=> Only(t, {"ARM", "OPTIONS", "@", "START"})
    BY DEF Only
  <2>2. Reported(t)' <=> Reported(t)  BY DEF Reported
  <2>3. QED  BY <1>3, <2>1, <2>2 DEF HereOK, Held
<1>4. QED  BY <1>1, <1>2, <1>3 DEF Timed, Held

\* A string for t.
LEMMA TimedSend ==
  ASSUME NEW t, NEW k, Held, UNCHANGED <<table, sts>>, Got(t, k), Timed(t), t \in member, link[t],
         k = "ARM" => cmd[t] = <<>> /\ spc[t] = "listen" /\ ~running[t] /\ ~armed[t],
         mpc' # "valid", ~(mpc' = "arm" /\ t > at'),
         Starting' => Starting /\ k \in {"ARM", "OPTIONS", "@", "START"},
         mpc' = "start" => mpc = "start"
  PROVE  Timed(t)'
<1>1. ArmOK(t)'
  <2>1. CASE k = "ARM"
    <3>1. /\ \A i \in DOMAIN cmd'[t] : i = 1
          /\ spc'[t] = "listen" /\ ~running'[t] /\ ~armed'[t]
      BY <2>1 DEF Got, Held
    <3>2. QED  BY <3>1 DEF ArmOK
  <2>2. CASE k # "ARM"
    <3>1. \A i \in DOMAIN cmd'[t] :
            cmd'[t][i].kind = "ARM" => i \in DOMAIN cmd[t] /\ cmd[t][i].kind = "ARM"
      BY <2>2 DEF Got
    <3>2. QED  BY <3>1 DEF Timed, ArmOK, Held
  <2>3. QED  BY <2>1, <2>2
<1>2. IdleOK(t)'  BY DEF IdleOK
<1>3. HereOK(t)'
  <2>1. Starting' => Only(t, {"ARM", "OPTIONS", "@", "START"})'
    BY DEF Timed, HereOK, Only, Got
  <2>2. Reported(t)' <=> Reported(t)  BY DEF Reported
  <2>3. QED  BY <2>1, <2>2 DEF Timed, HereOK, Held
<1>4. QED  BY <1>1, <1>2, <1>3 DEF Timed, Held

LEMMA TimedMoves ==
  ASSUME ControlInv, StatusInv, Timely, NEW t \in Slaves, Timed(t),
         Validate \/ Arm \/ NextSocket \/ ReceiveAck \/ WaitArmed \/ WaitStart \/ StopCommand
  PROVE  Timed(t)'
<1>0. MainInv /\ TypeOK /\ t \in Nat \ {0}  BY ReaderNumbers DEF ControlInv
<1>1. Held /\ UNCHANGED <<table, sts, cmd>>
  BY DEF Validate, Arm, NextSocket, ReceiveAck, WaitArmed, WaitStart, StopCommand, MainOnly,
         Held, status, reader, network
<1>2. CASE Arm \/ NextSocket \/ ReceiveAck \/ WaitArmed \/ StopCommand
  <2>1. /\ mpc' # "valid" /\ mpc' # "start" /\ (mpc' = "arm" => mpc = "valid")
        /\ Starting' => Starting
    BY <1>2 DEF Arm, NextSocket, ReceiveAck, WaitArmed, StopCommand, Starting
  <2>2. QED  BY <1>1, <2>1, TimedMove
<1>3. CASE WaitStart
  <2>1. mpc = "waitStart" /\ (mpc' = "start" => daqState = "ARMED") /\ mpc' \in {"start", "stop"}
    BY <1>3 DEF WaitStart
  <2>2. ASSUME mpc' = "start", t \in member, link[t] PROVE armed[t]
    <3>1. StateOf(table) = "ARMED"  BY <2>1, <2>2 DEF StatusInv
    <3>2. table[t] \in {"none", "ARMED"}  BY <3>1, OneState
    <3>3. QED  BY <2>1, <2>2, <3>2 DEF Timed, HereOK, Starting, Reported
  <2>3. Starting  BY <2>1 DEF Starting
  <2>4. QED  BY <1>1, <2>1, <2>2, <2>3, TimedMove
<1>4. CASE Validate
  <2>1. mpc' = "valid" /\ TimeIsUp /\ daqState = "IDLE"  BY <1>4 DEF Validate
  <2>2. ArmOK(t)'  BY <1>1 DEF Timed, ArmOK, Held
  <2>3. ASSUME t \in member, link[t] PROVE IdleOK(t)' /\ HereOK(t)'
    <3>1. Settled(t) /\ StateOf(table) = "IDLE"  BY <2>1, <2>3 DEF TimeIsUp
    <3>2. table[t] \in {"none", "IDLE"}  BY <3>1, OneState
    <3>3. OwnStatus(t) = "IDLE"  BY <3>1, <3>2 DEF Settled, OwnStatus
    <3>4. ~running[t] /\ ~armed[t]  BY <3>3 DEF OwnStatus
    <3>5. /\ spc[t] = "listen" /\ cmd[t] = <<>> /\ table[t] = "IDLE"
          /\ \A i \in DOMAIN sts[t] : sts[t][i] = "IDLE"
      BY <3>1, <3>3 DEF Settled
    <3>6. IdleOK(t)'  BY <1>1, <3>4, <3>5 DEF IdleOK, Held
    <3>7. Only(t, {"ARM", "OPTIONS", "@", "START"})'  BY <1>1, <3>5 DEF Only
    <3>8. ~Reported(t)'  BY <1>1, <3>5 DEF Reported
    <3>9. HereOK(t)'  BY <1>1, <2>1, <3>5, <3>7, <3>8 DEF HereOK
    <3>10. QED  BY <3>6, <3>9
  <2>4. QED  BY <1>1, <2>2, <2>3 DEF Timed, Held
<1>5. QED  BY <1>2, <1>3, <1>4

LEMMA TimedSends ==
  ASSUME ControlInv, NEW t \in Slaves, Timed(t),
         SendArm \/ SendStart \/ SendStop \/ SendSleep \/ SendLine \/ SendEnd
  PROVE  Timed(t)'
<1>0. /\ MainInv /\ TypeOK /\ at \in 0 .. N /\ member \subseteq Slaves /\ t \in Nat \ {0}
      /\ \A u \in member : u \in Nat \ {0}
  BY ReaderNumbers DEF ControlInv, TypeOK
<1>1. Held /\ UNCHANGED <<table, sts>>
  BY DEF SendArm, SendStart, SendStop, SendSleep, Broadcast, SendLine, SendEnd, SendOptions,
         Held, status, reader
<1>2. ASSUME NEW n \in member, NEW k \in Commands \cup {"OPTIONS", "@"}, SendTo(n, k),
             n = t /\ link[t] => (k = "ARM" => cmd[t] = <<>> /\ spc[t] = "listen"
                                                /\ ~running[t] /\ ~armed[t]),
             mpc' # "valid", mpc' = "start" => mpc = "start",
             mpc' = "arm" /\ t > at' => mpc = "arm" /\ t > at /\ t # n,
             Starting' => Starting /\ k \in {"ARM", "OPTIONS", "@", "START"}
      PROVE  Timed(t)'
  <2>1. CASE t = n /\ link[t]
    <3>1. Got(t, k)  BY <1>0, <1>2, <2>1, Sending
    <3>2. QED  BY <1>1, <1>2, <2>1, <3>1, TimedSend
  <2>2. CASE ~(t = n /\ link[t])
    <3>1. cmd'[t] = cmd[t]  BY <1>0, <1>2, <2>2, Sending
    <3>2. QED  BY <1>1, <1>2, <3>1, TimedMove
  <2>3. QED  BY <2>1, <2>2
<1>3. PICK n : n = NextOf(at)  OBVIOUS
<1>4. /\ n = 0 => \A u \in member : u <= at
      /\ n # 0 => n \in member /\ n > at /\ \A u \in member : u < n => u <= at
  BY <1>0, <1>3, NextReader
<1>5. ASSUME NEW pc, NEW k \in Commands, NEW next, Broadcast(pc, k, next),
             pc \in {"arm", "start", "stop", "sleep"}, next \in {"options", "idle", "sleep"},
             pc \in {"arm", "start"} => k \in {"ARM", "START"},
             k = "ARM" => pc = "arm", next = "options" => pc = "arm"
      PROVE  Timed(t)'
  <2>1. /\ mpc = pc /\ n # 0 => SendTo(n, k) /\ at' = n /\ mpc' = pc
        /\ n = 0 => mpc' = next /\ cmd' = cmd
    BY <1>3, <1>5 DEF Broadcast
  <2>2. CASE n = 0
    <3>1. mpc' # "valid" /\ mpc' # "start" /\ mpc' # "arm" /\ (Starting' => Starting)
      BY <1>5, <2>1, <2>2 DEF Starting, Broadcast
    <3>2. QED  BY <1>1, <2>1, <2>2, <3>1, TimedMove
  <2>3. CASE n # 0
    <3>1. n \in member /\ n > at /\ SendTo(n, k) /\ mpc' = mpc /\ at' = n /\ mpc = pc
      BY <1>4, <1>5, <2>1, <2>3 DEF Broadcast
    <3>2. k = "ARM" /\ n = t /\ link[t] =>
            cmd[t] = <<>> /\ spc[t] = "listen" /\ ~running[t] /\ ~armed[t]
      BY <1>5, <3>1 DEF Timed, IdleOK
    <3>3. mpc' = "arm" /\ t > at' => mpc = "arm" /\ t > at /\ t # n
      BY <1>0, <3>1
    <3>4. Starting' => Starting /\ k \in {"ARM", "OPTIONS", "@", "START"}
      BY <1>5, <3>1 DEF Starting
    <3>5. mpc' # "valid"  BY <1>5, <3>1
    <3>6. QED  BY <1>2, <3>1, <3>2, <3>3, <3>4, <3>5
  <2>4. QED  BY <2>2, <2>3
<1>6. CASE SendArm \/ SendStart \/ SendStop \/ SendSleep
  BY <1>5, <1>6 DEF SendArm, SendStart, SendStop, SendSleep, Commands
<1>7. ASSUME NEW pc \in {"line", "end"}, NEW k \in {"OPTIONS", "@"}, NEW next \in {"end", "ack"},
             SendOptions(pc, k, next)
      PROVE  Timed(t)'
  <2>1. PICK a : a = at  OBVIOUS
  <2>2. /\ SendTo(a, k) /\ mpc \in {"line", "end"} /\ mpc' \in {"end", "ack", "options"}
    BY <1>7, <2>1 DEF SendOptions
  <2>3. a \in member  BY <1>0, <2>1, <2>2 DEF MainInv
  <2>4. Starting /\ mpc' \notin {"valid", "start", "arm"} /\ k # "ARM"
    BY <1>7, <2>2 DEF Starting
  <2>5. QED  BY <1>2, <1>7, <2>2, <2>3, <2>4
<1>8. CASE SendLine \/ SendEnd
  BY <1>7, <1>8 DEF SendLine, SendEnd
<1>9. QED  BY <1>6, <1>8

LEMMA TimedConnect ==
  ASSUME NEW t \in Slaves, Timed(t), TypeOK, Connect \/ Disconnect PROVE Timed(t)'
<1>1. mpc = "idle" /\ mpc' = mpc /\ UNCHANGED <<spc, armed, running>>
  BY DEF Connect, Disconnect, main, reader
<1>2. cmd'[t] = cmd[t] \/ cmd'[t] = <<>>
  BY DEF Connect, Disconnect, AddConnections, Fresh
<1>3. ArmOK(t)'  BY <1>1, <1>2 DEF Timed, ArmOK
<1>4. QED  BY <1>1, <1>3 DEF Timed, IdleOK, HereOK, Starting

\* What the readers said before is not said later than what they say last.
LEMMA TimedWatch ==
  ASSUME NEW t \in Slaves, Timed(t), TypeOK, NEW net, WatchDataPipe(net) PROVE Timed(t)'
<1>1. UNCHANGED <<mpc, at, member, spc, armed, running, link, cmd>>
  BY DEF WatchDataPipe, PollOnly, main, reader
<1>2. sts[t] \in Seq(States) /\ table \in [Slaves -> States \cup {"none"}]  BY DEF TypeOK
<1>3. \/ sts'[t] = sts[t] /\ table'[t] = table[t]
      \/ sts[t] # <<>> /\ sts'[t] = <<>> /\ table'[t] = Last(sts[t])
  BY DEF WatchDataPipe
<1>4. sts[t] # <<>> =>
        \E i \in DOMAIN sts[t] : Last(sts[t]) = sts[t][i] /\ sts[t][i] \in States
  BY <1>2 DEF Last
<1>5. (table[t] # "none" => table'[t] # "none") /\ (Reported(t)' => Reported(t))
  BY <1>3, <1>4 DEF Reported, States
<1>6. ArmOK(t)'  BY <1>1 DEF Timed, ArmOK
<1>7. IdleOK(t) => IdleOK(t)'  BY <1>1 DEF IdleOK
<1>8. HereOK(t) => HereOK(t)'  BY <1>1, <1>5 DEF HereOK, Starting, Only
<1>9. QED  BY <1>1, <1>6, <1>7, <1>8 DEF Timed

LEMMA StatusStep ==
  ASSUME StatusInv, "polled" \notin Events, [Next]_vars
  PROVE  /\ StatusInv' /\ ~(\E s \in Slaves : GiveUp(s))
         /\ ~(KeepAlive \/ PollStop \/ PollSleep \/ PollKeepAlive)
<1>1. ~(\E s \in Slaves : GiveUp(s))  BY DEF GiveUp, Event
<1>2. ~(KeepAlive \/ PollStop \/ PollSleep \/ PollKeepAlive)
  BY DEF KeepAlive, Event, PollStop, PollSleep, PollKeepAlive, PollBroadcast, StatusInv
<1>3. StatusInv'
  <2>1. CASE UNCHANGED <<table, daqState, ppc>>
    BY <2>1 DEF StatusInv
  <2>2. CASE \E net \in Networks : WatchDataPipe(net)
    BY <2>2 DEF WatchDataPipe, StatusInv
  <2>3. CASE ProcessStatus
    <3>1. ppc' = "watch" /\ daqState' = StateOf(table) /\ table' = table
      BY <2>3 DEF ProcessStatus
    <3>2. StateOf(table)' = StateOf(table)  BY <3>1
    <3>3. QED  BY <3>1, <3>2 DEF StatusInv
  <2>4. CASE Disconnect
    <3>1. ppc' = "watch" /\ daqState' = "IDLE" /\ table' = [s \in Slaves |-> "none"]
      BY <2>4 DEF Disconnect, poll
    <3>2. StateOf(table') = "IDLE"  BY <3>1 DEF StateOf
    <3>3. QED  BY <3>1, <3>2 DEF StatusInv
  <2>5. CASE Dispatcher /\ ~Disconnect
    <3>1. UNCHANGED <<table, daqState, ppc>>
      BY <2>5 DEF Dispatcher, Validate, Arm, SendArm, NextSocket, SendLine, SendEnd,
                  ReceiveAck, WaitArmed, WaitStart, SendStart, StopCommand, SendStop, SendSleep,
                  Connect, Broadcast, SendOptions, MainOnly, poll, status
    <3>2. QED  BY <2>1, <3>1
  <2>6. CASE \E s \in Slaves : Slave(s) \/ ThreadFails(s) \/ LinkLost(s)
    <3>1. UNCHANGED <<table, daqState, ppc>>
      BY <2>6 DEF Slave, Listen, ReceiveLine, FileEnd, FileLost, ArmBoards, SendStatus,
                  SendFails, ThreadFails, LinkLost, ReaderOnly, poll, status
    <3>2. QED  BY <2>1, <3>1
  <2>7. CASE UNCHANGED vars
    BY <2>1, <2>7 DEF vars, poll, status
  <2>8. QED  BY <1>1, <1>2, <2>2, <2>3, <2>4, <2>5, <2>6, <2>7 DEF Next, PollNetwork
<1>4. QED  BY <1>1, <1>2, <1>3

LEMMA TimelyStep ==
  ASSUME Timely, "polled" \notin Events, TimelyInv, [Next]_vars PROVE TimelyInv'
<1>1. /\ ControlInv /\ StatusInv /\ ControlInv' /\ StatusInv' /\ TypeOK
      /\ ~(\E s \in Slaves : GiveUp(s))
      /\ ~(KeepAlive \/ PollStop \/ PollSleep \/ PollKeepAlive)
  <2>1. ControlInv /\ StatusInv  BY DEF TimelyInv
  <2>2. ControlInv'  BY <2>1, ControlStep
  <2>3. TypeOK  BY <2>1 DEF ControlInv
  <2>4. /\ StatusInv' /\ ~(\E s \in Slaves : GiveUp(s))
        /\ ~(KeepAlive \/ PollStop \/ PollSleep \/ PollKeepAlive)
    BY <2>1, StatusStep
  <2>5. QED  BY <2>1, <2>2, <2>3, <2>4
<1>2. ASSUME NEW t \in Slaves PROVE Timed(t)'
  <2>0. Timed(t)  BY DEF TimelyInv
  <2>1. CASE Dispatcher
    BY <1>1, <2>0, <2>1, TimedMoves, TimedSends, TimedConnect DEF Dispatcher
  <2>2. CASE PollNetwork
    <3>1. CASE \E net \in Networks : WatchDataPipe(net)
      BY <1>1, <2>0, <3>1, TimedWatch
    <3>2. CASE ProcessStatus
      <4>1. Same(t) /\ TimedSame(t)
        BY <3>2 DEF ProcessStatus, PollOnly, Same, TimedSame, main, reader
      <4>2. QED  BY <2>0, <4>1, TimedUnaffected
    <3>3. QED  BY <1>1, <2>2, <3>1, <3>2 DEF PollNetwork
  <2>3. ASSUME NEW s \in Slaves, Slave(s) \/ ThreadFails(s) \/ LinkLost(s) PROVE Timed(t)'
    <3>1. CASE t = s
      BY <1>1, <2>0, <2>3, <3>1, TimedListen, TimedFile, TimedOther DEF Slave
    <3>2. CASE t # s
      <4>1. ASSUME Listen(s) PROVE Same(t) /\ TimedSame(t)
        BY <1>1, <3>2, <4>1, ReaderTypes
        DEF Listen, Obey, ReaderOnly, Same, TimedSame, main, status
      <4>2. ASSUME ReceiveLine(s) \/ FileEnd(s) PROVE Same(t) /\ TimedSame(t)
        BY <1>1, <3>2, <4>2, ReaderTypes
        DEF ReceiveLine, FileEnd, ReaderOnly, Same, TimedSame, main, status
      <4>3. ASSUME FileLost(s) \/ ArmBoards(s) \/ SendFails(s) PROVE Same(t) /\ TimedSame(t)
        BY <1>1, <3>2, <4>3, ReaderTypes
        DEF FileLost, ArmBoards, SendFails, ReaderOnly, Same, TimedSame, main, status
      <4>4. ASSUME SendStatus(s) \/ ThreadFails(s) \/ LinkLost(s) PROVE Same(t) /\ TimedSame(t)
        <5>1. sts'[t] = sts[t] /\ link'[t] = link[t]
          BY <1>1, <3>2, <4>4 DEF SendStatus, ThreadFails, LinkLost, ReaderOnly, TypeOK
        <5>2. /\ UNCHANGED <<spc, connected, armed, running, options, file, cmd, ack>>
              /\ UNCHANGED <<mpc, at, member, table>>
          BY <4>4 DEF SendStatus, ThreadFails, LinkLost, ReaderOnly, main, status, reader
        <5>3. QED  BY <5>1, <5>2 DEF Same, TimedSame
      <4>5. Same(t) /\ TimedSame(t) => Timed(t)'  BY <2>0, TimedUnaffected
      <4>6. Same(t) /\ TimedSame(t)  BY <2>3, <4>1, <4>2, <4>3, <4>4 DEF Slave
      <4>7. QED  BY <4>5, <4>6
    <3>3. QED  BY <3>1, <3>2
  <2>4. CASE UNCHANGED vars
    <3>1. Same(t) /\ TimedSame(t)
      BY <2>4 DEF vars, main, status, reader, network, Same, TimedSame
    <3>2. QED  BY <2>0, <3>1, TimedUnaffected
  <2>5. QED  BY <2>1, <2>2, <2>3, <2>4 DEF Next
<1>3. QED  BY <1>1, <1>2 DEF TimelyInv

LEMMA InitTimely == Init => TimelyInv
<1> SUFFICES ASSUME Init PROVE TimelyInv
  OBVIOUS
<1>1. StatusInv
  <2>1. ppc = "watch" /\ daqState = "IDLE" /\ table = [s \in Slaves |-> "none"]  BY DEF Init
  <2>2. StateOf(table) = "IDLE"  BY <2>1 DEF StateOf
  <2>3. QED  BY <2>1, <2>2 DEF StatusInv
<1>2. \A s \in Slaves : Timed(s)
  BY DEF Init, Timed, ArmOK, IdleOK, HereOK, Starting
<1>3. QED  BY <1>1, <1>2, InitControl DEF TimelyInv

\* No reader meets an ARM while it takes data, as long as the readers answer within the limits
\* of the dispatcher and only its main thread sends commands.
THEOREM ArmIsNotLost ==
  ASSUME Timely, "polled" \notin Events PROVE Spec => []ArmIsTaken
<1>1. TimelyInv => ArmIsTaken
  <2> SUFFICES ASSUME TimelyInv, NEW s \in member, spc[s] = "listen", cmd[s] # <<>>,
                      Head(cmd[s]).kind = "ARM"
               PROVE  ~running[s]
    BY DEF ArmIsTaken
  <2>1. TypeOK /\ s \in Slaves  BY DEF TimelyInv, ControlInv, TypeOK
  <2>2. cmd[s] \in Seq(Strings)  BY <2>1 DEF TypeOK
  <2>3. Head(cmd[s]) = cmd[s][1] /\ 1 \in DOMAIN cmd[s]  BY <2>2, Taken
  <2>4. ArmOK(s)  BY <2>1 DEF TimelyInv, Timed
  <2>5. QED  BY <2>3, <2>4 DEF ArmOK
<1>2. TimelyInv /\ [Next]_vars => TimelyInv'  BY TimelyStep
<1>3. QED  BY <1>1, <1>2, InitTimely, PTL DEF Spec

\* START goes out to a detector all of whose readers within reach are armed, under the same
\* conditions: the state the dispatcher decides from is older than its decision, but a reader
\* that has said it is armed stays so until START.
THEOREM StartIsForTheArmed ==
  ASSUME Timely, "polled" \notin Events PROVE Spec => []StartFindsAllArmed
<1>1. TimelyInv => StartFindsAllArmed
  <2> SUFFICES ASSUME TimelyInv, mpc = "start", NEW s \in member, link[s] PROVE armed[s]
    BY DEF StartFindsAllArmed
  <2>1. s \in Slaves  BY DEF TimelyInv, ControlInv, TypeOK
  <2>2. QED  BY <2>1 DEF TimelyInv, Timed, HereOK, Starting
<1>2. TimelyInv /\ [Next]_vars => TimelyInv'  BY TimelyStep
<1>3. QED  BY <1>1, <1>2, InitTimely, PTL DEF Spec
=============================================================================
