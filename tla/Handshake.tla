------------------------------ MODULE Handshake -------------------------------
(***************************************************************************)
(* How readers connect to the dispatcher: koNetServer::PutUpNetwork,       *)
(* AddConnection, TakeDownNetwork and Disconnect, called by DAQMonitor's   *)
(* Connect and Disconnect, and koNetClient::Connect, called by koSlave     *)
(* again and again.  Every reader makes two connections, for commands and  *)
(* for data, on two ports.  The server takes the oldest of each port and   *)
(* never looks whether both come from one reader.                          *)
(*                                                                         *)
(* A connection is <<reader, attempt, port>>.  TCP keeps what was sent to  *)
(* a connection nobody accepted yet; a send to a connection that the other *)
(* side closed fails, or does not fail yet.                                *)
(***************************************************************************)
EXTENDS Integers, Sequences, FiniteSets

CONSTANTS
  Readers,
  Configs,     \* who is there: sets of [present, auto], auto having the ID 32000
  DataBacklog, \* connections that wait on the data port (one more than listen's argument)
  MaxAttempts, \* bound: calls of Connect of a reader
  MaxCrashes,  \* bound: readers that die while they connect
  MaxSessions  \* bound: calls of DAQMonitor::Connect

ASSUME HandshakeAssumption ==
  /\ DataBacklog \in Nat \ {0}
  /\ {MaxAttempts, MaxCrashes, MaxSessions} \subseteq Nat
  /\ \A c \in Configs :
       /\ c.auto \subseteq c.present /\ c.present \subseteq Readers
       \* A reader that waits for its ID on the data socket, which is paired with the command
       \* socket of another reader, waits for a pair behind the one the server waits for.
       /\ c.auto # {} => Cardinality(c.present) = 1

Ports == {"cmd", "data"}
Conns == Readers \X (1..MaxAttempts) \X Ports

VARIABLES
  config,   \* the readers
  pc,       \* pc[r]: apart, data, ids, number, names, connected
  attempt,  \* attempt[r]: calls of Connect so far
  sent,     \* sent[c]: the ID and then the name, as many as the reader sent
  numbered, \* connections on which the server sent an ID
  closed,   \* closed[c]: open, reader, server
  waiting,  \* waiting[port]: connections that were not accepted
  dataUp,   \* the data port listens
  server,   \* DAQMonitor: down, poll, wait, ids, number, names, online
  pair,     \* the sockets in AddConnection's hands
  sockets,  \* fSockets and fDataSockets
  sessions, crashes,
  cut       \* history: a connection of this session was lost to a crash or a limit, or a
            \* reader had not noticed the end of the session before

clientVars == <<pc, attempt>>
tcpVars    == <<sent, numbered, closed, waiting, dataUp>>
serverVars == <<server, pair, sockets, sessions>>
vars == <<config, clientVars, tcpVars, serverVars, crashes, cut>>

Up == server \notin {"down", "online"}
Cmd(r)  == <<r, attempt[r], "cmd">>
Data(r) == <<r, attempt[r], "data">>
ConnsOf(q) == {q[i] : i \in DOMAIN q}
NoPair == <<>>

Init ==
  /\ config \in Configs
  /\ pc = [r \in Readers |-> "apart"] /\ attempt = [r \in Readers |-> 0]
  /\ sent = [c \in Conns |-> 0] /\ numbered = {}
  /\ closed = [c \in Conns |-> "open"]
  /\ waiting = [p \in Ports |-> <<>>] /\ dataUp = FALSE
  /\ server = "down" /\ pair = NoPair /\ sockets = <<>> /\ sessions = 0
  /\ crashes = 0 /\ cut = FALSE

Close(conns, side) ==
  closed' = [c \in Conns |-> IF c \in conns /\ closed[c] = "open" THEN side ELSE closed[c]]

-----------------------------------------------------------------------------
(***************************************************************************)
(* koNetClient::Connect, called by koSlave until it succeeds.              *)
(***************************************************************************)

ConnectCommand(r) ==
  /\ pc[r] = "apart" /\ r \in config.present
  /\ attempt[r] < MaxAttempts
  /\ Up
  /\ attempt' = [attempt EXCEPT ![r] = @ + 1]
  /\ waiting' = [waiting EXCEPT !["cmd"] = Append(@, <<r, attempt[r] + 1, "cmd">>)]
  /\ pc' = [pc EXCEPT ![r] = "data"]
  /\ UNCHANGED <<config, sent, numbered, closed, dataUp, serverVars, crashes, cut>>

Full == Len(waiting["data"]) >= DataBacklog

ConnectData(r) ==
  /\ pc[r] = "data"
  /\ dataUp /\ ~Full
  /\ waiting' = [waiting EXCEPT !["data"] = Append(@, Data(r))]
  /\ pc' = [pc EXCEPT ![r] = "ids"]
  /\ UNCHANGED <<config, attempt, sent, numbered, closed, dataUp, serverVars, crashes, cut>>

\* Both sockets are closed.
Apart(r) ==
  /\ pc' = [pc EXCEPT ![r] = "apart"]
  /\ Close({Cmd(r), Data(r)}, "reader")

\* A bug for the mutation runs: a full port is tried as long as it takes.
GiveUpRefused(r) ==
  /\ pc[r] = "data" /\ ~dataUp
  /\ Apart(r)
  /\ UNCHANGED <<config, attempt, sent, numbered, waiting, dataUp, serverVars, crashes, cut>>

\* The data port refused the connection 20 times, or did not answer with its backlog full.
GiveUp(r) ==
  /\ pc[r] = "data" /\ (~dataUp \/ Full)
  /\ Apart(r)
  /\ UNCHANGED <<config, attempt, sent, numbered, waiting, dataUp, serverVars, crashes, cut>>

\* SendInt or SendString on the command socket and on the data socket.
SendBoth(r) ==
  sent' = [c \in Conns |->
             IF c \in {Cmd(r), Data(r)} /\ closed[c] = "open" THEN sent[c] + 1 ELSE sent[c]]

SendIds(r) ==
  /\ pc[r] = "ids"
  /\ SendBoth(r)
  /\ pc' = [pc EXCEPT ![r] = IF r \in config.auto THEN "number" ELSE "names"]
  /\ UNCHANGED <<config, attempt, numbered, closed, waiting, dataUp, serverVars, crashes, cut>>

\* The ID of the server, on both sockets.
ReceiveNumber(r) ==
  /\ pc[r] = "number"
  /\ {Cmd(r), Data(r)} \subseteq numbered
  /\ pc' = [pc EXCEPT ![r] = "names"]
  /\ UNCHANGED <<config, attempt, tcpVars, serverVars, crashes, cut>>

SendNames(r) ==
  /\ pc[r] = "names"
  /\ SendBoth(r)
  /\ pc' = [pc EXCEPT ![r] = "connected"]
  /\ UNCHANGED <<config, attempt, numbered, closed, waiting, dataUp, serverVars, crashes, cut>>

\* A send or receive fails, as the server closed the connection.
Fails(r) ==
  /\ pc[r] \in {"ids", "number", "names"}
  /\ "server" \in {closed[Cmd(r)], closed[Data(r)]}
  /\ Apart(r)
  /\ UNCHANGED <<config, attempt, sent, numbered, waiting, dataUp, serverVars, crashes, cut>>

\* The status update cannot be sent; the command socket alone would not be missed.
LosesServer(r) ==
  /\ pc[r] = "connected"
  /\ closed[Data(r)] = "server"
  /\ Apart(r)
  /\ UNCHANGED <<config, attempt, sent, numbered, waiting, dataUp, serverVars, crashes, cut>>

\* The process dies and is started again.
Crash(r) ==
  /\ crashes < MaxCrashes
  /\ pc[r] # "apart"
  /\ Apart(r)
  /\ crashes' = crashes + 1
  /\ cut' = TRUE
  /\ UNCHANGED <<config, attempt, sent, numbered, waiting, dataUp, serverVars>>

Client(r) ==
  \/ ConnectData(r) \/ GiveUp(r) \/ SendIds(r) \/ ReceiveNumber(r) \/ SendNames(r)
  \/ Fails(r) \/ LosesServer(r)

-----------------------------------------------------------------------------
(***************************************************************************)
(* DAQMonitor::Connect: rounds of AddConnection, until the time is over.   *)
(***************************************************************************)

PutUpNetwork ==
  /\ server = "down" /\ sessions < MaxSessions
  /\ server' = "poll"
  /\ sessions' = sessions + 1
  /\ cut' = (\E r \in Readers : pc[r] # "apart")
  /\ UNCHANGED <<config, clientVars, tcpVars, pair, sockets, crashes>>

Accept ==
  /\ server = "poll" /\ waiting["cmd"] # <<>>
  /\ pair' = <<Head(waiting["cmd"])>>
  /\ waiting' = [waiting EXCEPT !["cmd"] = Tail(@)]
  /\ dataUp' = TRUE
  /\ server' = "wait"
  /\ UNCHANGED <<config, clientVars, sent, numbered, closed, sockets, sessions, crashes, cut>>

\* The oldest data connection, of whatever reader.
AcceptData ==
  /\ server = "wait" /\ waiting["data"] # <<>>
  /\ pair' = Append(pair, Head(waiting["data"]))
  /\ waiting' = [waiting EXCEPT !["data"] = Tail(@)]
  /\ server' = "ids"
  /\ UNCHANGED <<config, clientVars, sent, numbered, closed, dataUp, sockets, sessions, crashes, cut>>

\* A bug for the mutation runs: the socket stays in hand.
WaitOverKeep ==
  /\ server = "wait" /\ waiting["data"] = <<>>
  /\ \A r \in Readers : pc[r] # "data"
  /\ Close(ConnsOf(pair), "server")
  /\ server' = "poll" /\ pair' = pair
  /\ cut' = TRUE
  /\ UNCHANGED <<config, clientVars, sent, numbered, waiting, dataUp, sockets, sessions, crashes>>

\* No data connection came within 11 seconds. Readers that are about to make theirs try
\* every second.
WaitOver ==
  /\ server = "wait" /\ waiting["data"] = <<>>
  /\ \A r \in Readers : pc[r] # "data"
  /\ Close(ConnsOf(pair), "server")
  /\ server' = "poll" /\ pair' = NoPair
  /\ cut' = TRUE
  /\ UNCHANGED <<config, clientVars, sent, numbered, waiting, dataUp, sockets, sessions, crashes>>

\* ReceiveInt or ReceiveString: the k-th item of the connection, or its end before it.
Has(c, k)   == sent[c] >= k
Ended(c, k) == sent[c] < k /\ closed[c] # "open"

ReadFails(k) ==
  /\ Ended(pair[1], k) \/ (Has(pair[1], k) /\ Ended(pair[2], k))
  /\ Close(ConnsOf(pair), "server")
  /\ server' = "poll" /\ pair' = NoPair
  /\ cut' = TRUE
  /\ UNCHANGED <<config, clientVars, sent, numbered, waiting, dataUp, sockets, sessions, crashes>>

ReceiveIds ==
  /\ server = "ids"
  /\ \/ ReadFails(1)
     \/ /\ \A c \in ConnsOf(pair) : Has(c, 1)
        /\ server' = IF \E c \in ConnsOf(pair) : c[1] \in config.auto THEN "number" ELSE "names"
        /\ UNCHANGED <<config, clientVars, tcpVars, pair, sockets, sessions, crashes, cut>>

\* The lowest unused ID goes out on both sockets; a failure leaves them open.
SendNumber ==
  /\ server = "number"
  /\ \/ /\ numbered' = numbered \cup ConnsOf(pair)
        /\ server' = "names" /\ UNCHANGED pair
     \/ /\ \E c \in ConnsOf(pair) : closed[c] = "reader"
        /\ server' = "poll" /\ pair' = NoPair /\ UNCHANGED numbered
  /\ UNCHANGED <<config, clientVars, sent, closed, waiting, dataUp, sockets, sessions, crashes, cut>>

\* A bug for the mutation runs: pairs of two readers are closed.
ReceiveNamesSameReader ==
  /\ server = "names"
  /\ \/ ReadFails(2)
     \/ /\ \A c \in ConnsOf(pair) : Has(c, 2)
        /\ IF pair[1][1] = pair[2][1]
           THEN sockets' = Append(sockets, pair) /\ UNCHANGED closed
           ELSE Close(ConnsOf(pair), "server") /\ UNCHANGED sockets
        /\ server' = "poll" /\ pair' = NoPair
        /\ UNCHANGED <<config, clientVars, sent, numbered, waiting, dataUp, sessions, crashes, cut>>

ReceiveNames ==
  /\ server = "names"
  /\ \/ ReadFails(2)
     \/ /\ \A c \in ConnsOf(pair) : Has(c, 2)
        /\ sockets' = Append(sockets, pair)
        /\ server' = "poll" /\ pair' = NoPair
        /\ UNCHANGED <<config, clientVars, tcpVars, sessions, crashes, cut>>

\* The rounds are counted, not the time they take: what waits now is reset.
TakeDownNetwork ==
  /\ server = "poll"
  /\ LET lost == ConnsOf(waiting["cmd"]) \cup ConnsOf(waiting["data"])
     IN /\ Close(lost, "server")
        /\ cut' = (cut \/ lost # {})
  /\ waiting' = [p \in Ports |-> <<>>]
  /\ dataUp' = FALSE
  /\ server' = "online"
  /\ UNCHANGED <<config, clientVars, sent, numbered, pair, sockets, sessions, crashes>>

Disconnect ==
  /\ server = "online"
  /\ Close(UNION {ConnsOf(sockets[i]) : i \in DOMAIN sockets}, "server")
  /\ sockets' = <<>>
  /\ server' = "down"
  /\ UNCHANGED <<config, clientVars, sent, numbered, waiting, dataUp, pair, sessions, crashes, cut>>

AddConnection == Accept \/ AcceptData \/ WaitOver \/ ReceiveIds \/ SendNumber \/ ReceiveNames

Next ==
  \/ \E r \in Readers : ConnectCommand(r) \/ Client(r) \/ Crash(r)
  \/ PutUpNetwork \/ AddConnection \/ TakeDownNetwork \/ Disconnect

\* Processes run on, and the rounds of Connect are finite. A reader that is asked to give
\* up after 20 seconds does so.
Fairness ==
  /\ \A r \in Readers : WF_vars(Client(r))
  /\ WF_vars(AddConnection)
  /\ SF_vars(TakeDownNetwork)

Spec == Init /\ [][Next]_vars /\ Fairness

-----------------------------------------------------------------------------
(***************************************************************************)
(* Properties.                                                             *)
(***************************************************************************)

Accepted == UNION {ConnsOf(sockets[i]) : i \in DOMAIN sockets}

TypeOK ==
  /\ config \in Configs
  /\ pc \in [Readers -> {"apart", "data", "ids", "number", "names", "connected"}]
  /\ attempt \in [Readers -> 0..MaxAttempts]
  /\ sent \in [Conns -> 0..2] /\ numbered \subseteq Conns
  /\ closed \in [Conns -> {"open", "reader", "server"}]
  /\ \A p \in Ports : \A i \in DOMAIN waiting[p] : waiting[p][i] \in Conns /\ waiting[p][i][3] = p
  /\ server \in {"down", "poll", "wait", "ids", "number", "names", "online"}
  /\ Len(pair) = CASE server = "wait" -> 1 [] server \in {"ids", "number", "names"} -> 2 [] OTHER -> 0
  /\ \A i \in DOMAIN sockets : sockets[i][1][3] = "cmd" /\ sockets[i][2][3] = "data"
  /\ sessions \in 0..MaxSessions /\ crashes \in 0..MaxCrashes
  /\ {dataUp, cut} \subseteq BOOLEAN

\* Whoever believes to be connected is: unless a crash or a limit cut a connection in this
\* session, both connections of every connected reader are among the sockets of the
\* dispatcher when the listening ends, even if they stand in different entries.
ConnectedAreKnown ==
  (server = "online" /\ ~cut) =>
    \A r \in Readers : pc[r] = "connected" => {Cmd(r), Data(r)} \subseteq Accepted

\* Calls of Connect, on both sides, come back, whatever dies on the way.
ConnectReturns ==
  /\ Up ~> ~Up
  /\ \A r \in Readers : pc[r] \notin {"apart", "connected"} ~> pc[r] \in {"apart", "connected"}
=============================================================================
