---------------------------- MODULE HandshakeProofs ----------------------------
(***************************************************************************)
(* Proofs about Handshake for any number of readers, with or without IDs,  *)
(* any backlog of the data port, and any number of attempts, crashes and   *)
(* sessions.  The inductive invariant says where both connections of a     *)
(* reader are while a session has lost none.                               *)
(***************************************************************************)
EXTENDS Handshake, TLAPS

\* The queues of both ports, the pair in hand and the sockets that were taken.  Between two
\* sessions nothing waits.
QueuesInv ==
  /\ waiting \in [Ports -> Seq(Conns)] /\ pair \in Seq(Conns) /\ sockets \in Seq(Seq(Conns))
  /\ pair # <<>> => pair[1][3] = "cmd"
  /\ Len(pair) = 2 => pair[2][3] = "data"
  /\ server = "down" => sockets = <<>>
  /\ ~Up => ~dataUp /\ \A p \in Ports : waiting[p] = <<>>

\* How much a reader has sent, by where it is in Connect.
SentInv ==
  /\ \A r \in Readers : pc[r] # "apart" => attempt[r] # 0
  /\ \A c \in Conns : c[2] > attempt[c[1]] => sent[c] = 0 /\ closed[c] = "open"
  /\ \A r \in Readers : pc[r] \in {"data", "ids"} => sent[Cmd(r)] = 0 /\ sent[Data(r)] = 0
  /\ \A r \in Readers : pc[r] \in {"number", "names"} => sent[Cmd(r)] <= 1 /\ sent[Data(r)] <= 1

PairInv == server \in {"number", "names"} => \A c \in ConnsOf(pair) : sent[c] # 0

\* What the dispatcher has of connections.
AtServer == ConnsOf(waiting["cmd"]) \cup ConnsOf(waiting["data"]) \cup ConnsOf(pair) \cup Accepted

ReachedInv == \A c \in AtServer : c[2] <= attempt[c[1]]

BaseInv == TypeOK /\ QueuesInv /\ SentInv /\ PairInv /\ ReachedInv

\* In a session that has lost no connection, those of a reader that connects or is connected
\* are open and known to the dispatcher, and no connection is closed once an ID was sent.
SessionInv ==
  ~cut /\ server # "down" =>
    /\ \A r \in Readers : pc[r] # "apart" =>
         /\ closed[Cmd(r)] = "open" /\ closed[Data(r)] = "open"
         /\ Cmd(r) \in AtServer
         /\ pc[r] # "data" => Data(r) \in AtServer
    /\ \A c \in AtServer : sent[c] # 0 => closed[c] = "open"

-----------------------------------------------------------------------------
(* Queues of connections.                                                  *)

LEMMA Joined ==
  ASSUME NEW S, NEW q \in Seq(S), NEW c \in S
  PROVE  /\ Append(q, c) \in Seq(S) /\ Len(Append(q, c)) = Len(q) + 1 /\ Len(q) \in Nat
         /\ ConnsOf(Append(q, c)) = ConnsOf(q) \cup {c}
         /\ \A i \in DOMAIN q : Append(q, c)[i] = q[i]
         /\ Append(q, c)[Len(q) + 1] = c /\ DOMAIN q = 1 .. Len(q)
<1>1. /\ DOMAIN Append(q, c) = 1 .. Len(q) + 1 /\ DOMAIN q = 1 .. Len(q) /\ Len(q) \in Nat
      /\ Len(Append(q, c)) = Len(q) + 1 /\ Append(q, c) \in Seq(S)
      /\ \A i \in DOMAIN q : Append(q, c)[i] = q[i]
      /\ Append(q, c)[Len(q) + 1] = c
  OBVIOUS
<1>2. ConnsOf(q) \cup {c} \subseteq ConnsOf(Append(q, c))  BY <1>1 DEF ConnsOf
<1>3. ConnsOf(Append(q, c)) \subseteq ConnsOf(q) \cup {c}
  <2> SUFFICES ASSUME NEW i \in 1 .. Len(q) + 1 PROVE Append(q, c)[i] \in ConnsOf(q) \cup {c}
    BY <1>1 DEF ConnsOf
  <2>1. i \in DOMAIN q \/ i = Len(q) + 1  BY <1>1
  <2>2. QED  BY <1>1, <2>1 DEF ConnsOf
<1>4. QED  BY <1>1, <1>2, <1>3

LEMMA Served ==
  ASSUME NEW S, NEW q \in Seq(S), q # <<>>
  PROVE  /\ Tail(q) \in Seq(S) /\ Head(q) \in S /\ Head(q) = q[1] /\ 1 \in DOMAIN q
         /\ ConnsOf(q) = ConnsOf(Tail(q)) \cup {Head(q)}
         /\ \A i \in DOMAIN Tail(q) : i + 1 \in DOMAIN q /\ Tail(q)[i] = q[i + 1]
<1>1. /\ Tail(q) \in Seq(S) /\ Head(q) \in S /\ Head(q) = q[1] /\ 1 \in DOMAIN q
      /\ DOMAIN q \subseteq Nat \ {0} /\ DOMAIN Tail(q) \subseteq Nat \ {0}
      /\ \A i \in DOMAIN Tail(q) : i + 1 \in DOMAIN q /\ Tail(q)[i] = q[i + 1]
      /\ \A i \in DOMAIN q : i > 1 => i - 1 \in DOMAIN Tail(q) /\ Tail(q)[i - 1] = q[i]
  OBVIOUS
<1>2. ConnsOf(Tail(q)) \cup {Head(q)} \subseteq ConnsOf(q)  BY <1>1 DEF ConnsOf
<1>3. ConnsOf(q) \subseteq ConnsOf(Tail(q)) \cup {Head(q)}
  <2> SUFFICES ASSUME NEW i \in DOMAIN q PROVE q[i] \in ConnsOf(Tail(q)) \cup {Head(q)}
    BY DEF ConnsOf
  <2>1. i = 1 \/ i > 1  BY <1>1
  <2>2. QED  BY <1>1, <2>1 DEF ConnsOf
<1>4. QED  BY <1>1, <1>2, <1>3

LEMMA Paired ==
  ASSUME NEW S, NEW q \in Seq(S), Len(q) = 1, NEW c \in S
  PROVE  /\ Append(q, c) \in Seq(S) /\ Len(Append(q, c)) = 2 /\ q # <<>>
         /\ Append(q, c)[1] = q[1] /\ Append(q, c)[2] = c
<1>1. /\ Append(q, c) \in Seq(S) /\ Len(Append(q, c)) = Len(q) + 1
      /\ \A i \in DOMAIN q : Append(q, c)[i] = q[i]
      /\ Append(q, c)[Len(q) + 1] = c /\ DOMAIN q = 1 .. Len(q)
  BY Joined
<1>2. 1 \in DOMAIN q  BY <1>1
<1>3. q # <<>>  BY <1>2
<1>4. Len(q) + 1 = 2  OBVIOUS
<1>5. QED  BY <1>1, <1>2, <1>3, <1>4

LEMMA Nothing == ConnsOf(<<>>) = {}
  BY DEF ConnsOf

LEMMA AtServerType ==
  ASSUME BaseInv
  PROVE  /\ AtServer \subseteq Conns /\ ConnsOf(pair) \subseteq Conns
         /\ \A i \in DOMAIN sockets : ConnsOf(sockets[i]) \subseteq Conns
<1>1. /\ waiting["cmd"] \in Seq(Conns) /\ waiting["data"] \in Seq(Conns) /\ pair \in Seq(Conns)
      /\ sockets \in Seq(Seq(Conns))
  BY DEF BaseInv, QueuesInv, Ports
<1>2. \A q \in Seq(Conns) : ConnsOf(q) \subseteq Conns
  <2> SUFFICES ASSUME NEW q \in Seq(Conns), NEW i \in DOMAIN q PROVE q[i] \in Conns
    BY DEF ConnsOf
  <2>1. QED  OBVIOUS
<1>3. \A i \in DOMAIN sockets : sockets[i] \in Seq(Conns)  BY <1>1
<1>4. QED  BY <1>1, <1>2, <1>3 DEF AtServer, Accepted

\* Both connections of a reader that is not apart.
LEMMA Own ==
  ASSUME BaseInv, NEW r \in Readers, pc[r] # "apart"
  PROVE  /\ Cmd(r) \in Conns /\ Data(r) \in Conns /\ Cmd(r) # Data(r)
         /\ \A t \in Readers : t # r => {Cmd(t), Data(t)} \cap {Cmd(r), Data(r)} = {}
<1>1. attempt[r] \in 1 .. MaxAttempts
  BY HandshakeAssumption DEF BaseInv, TypeOK, SentInv
<1>2. QED  BY <1>1 DEF Cmd, Data, Conns, Ports

LEMMA ClosedType ==
  ASSUME TypeOK, NEW S, NEW side \in {"reader", "server"}, Close(S, side)
  PROVE  /\ closed' \in [Conns -> {"open", "reader", "server"}]
         /\ \A c \in Conns : c \notin S \/ closed[c] # "open" => closed'[c] = closed[c]
  BY DEF TypeOK, Close

-----------------------------------------------------------------------------
(* Types, queues and what was sent.                                        *)

LEMMA ConnectCommandBase ==
  ASSUME BaseInv, NEW r \in Readers, ConnectCommand(r)
  PROVE  BaseInv' /\ AtServer' = AtServer \cup {Cmd(r)'}
<1> DEFINE new == <<r, attempt[r] + 1, "cmd">>
<1>1. /\ attempt[r] + 1 \in 1 .. MaxAttempts /\ attempt \in [Readers -> 0 .. MaxAttempts]
      /\ MaxAttempts \in Nat
  BY HandshakeAssumption DEF BaseInv, TypeOK, ConnectCommand
<1>2. new \in Conns /\ new[3] = "cmd"  BY <1>1 DEF Conns, Ports
<1>3. /\ waiting \in [Ports -> Seq(Conns)] /\ "cmd" \in Ports
      /\ waiting' = [waiting EXCEPT !["cmd"] = Append(@, new)]
  BY DEF BaseInv, QueuesInv, Ports, ConnectCommand
<1>4. waiting["cmd"] \in Seq(Conns) /\ Append(waiting["cmd"], new) \in Seq(Conns)
  BY <1>2, <1>3
<1>5. /\ attempt' \in [Readers -> 0 .. MaxAttempts]
      /\ \A t \in Readers : attempt'[t] = IF t = r THEN attempt[r] + 1 ELSE attempt[t]
      /\ \A t \in Readers : pc'[t] = IF t = r THEN "data" ELSE pc[t]
  BY <1>1 DEF BaseInv, TypeOK, ConnectCommand
<1>6. waiting' \in [Ports -> Seq(Conns)]  BY <1>3, <1>4
<1>7. QueuesInv'
  BY <1>6 DEF BaseInv, QueuesInv, ConnectCommand, serverVars, Up
<1>8. \A p \in Ports : \A i \in DOMAIN waiting'[p] :
        waiting'[p][i] \in Conns /\ waiting'[p][i][3] = p
  <2>1. \A i \in DOMAIN Append(waiting["cmd"], new) :
          (i \in DOMAIN waiting["cmd"] /\ Append(waiting["cmd"], new)[i] = waiting["cmd"][i])
            \/ Append(waiting["cmd"], new)[i] = new
    BY <1>4
  <2>2. QED  BY <1>2, <1>3, <2>1 DEF BaseInv, TypeOK, Ports
<1>9. TypeOK'
  BY <1>5, <1>8 DEF BaseInv, TypeOK, ConnectCommand, serverVars
<1>10. SentInv'
  <2>1. \A c \in Conns : c[1] \in Readers /\ c[2] \in 1 .. MaxAttempts  BY DEF Conns
  <2>2. UNCHANGED <<sent, closed>>  BY DEF ConnectCommand
  <2>3. \A c \in Conns : c[2] > attempt'[c[1]] => c[2] > attempt[c[1]]
    BY <1>1, <1>5, <2>1
  <2>4. \A c \in Conns : c[2] > attempt'[c[1]] => sent'[c] = 0 /\ closed'[c] = "open"
    BY <2>2, <2>3 DEF BaseInv, SentInv
  <2>5. Cmd(r)' = new /\ Data(r)' = <<r, attempt[r] + 1, "data">> /\ Data(r)' \in Conns
    BY <1>1, <1>5 DEF Cmd, Data, Conns, Ports
  <2>6. sent[Cmd(r)'] = 0 /\ sent[Data(r)'] = 0
    BY <1>1, <1>2, <2>5 DEF BaseInv, SentInv
  <2>7. \A t \in Readers \ {r} : Cmd(t)' = Cmd(t) /\ Data(t)' = Data(t)
    BY <1>5 DEF Cmd, Data
  <2>8. QED
    BY <1>1, <1>5, <2>2, <2>4, <2>6, <2>7 DEF BaseInv, SentInv
<1>11. PairInv'  BY DEF BaseInv, PairInv, ConnectCommand, serverVars
<1>12. AtServer' = AtServer \cup {new} /\ Cmd(r)' = new
  <2>1. /\ waiting'["cmd"] = Append(waiting["cmd"], new) /\ waiting'["data"] = waiting["data"]
    BY <1>3 DEF Ports
  <2>2. ConnsOf(waiting'["cmd"]) = ConnsOf(waiting["cmd"]) \cup {new}
    BY <1>2, <1>4, <2>1, Joined
  <2>3. pair' = pair /\ sockets' = sockets  BY DEF ConnectCommand, serverVars
  <2>4. Cmd(r)' = new  BY <1>5 DEF Cmd
  <2>5. QED  BY <2>1, <2>2, <2>3, <2>4 DEF AtServer, Accepted
<1>13. ReachedInv'
  <2>1. \A c \in AtServer : c[2] <= attempt'[c[1]]
    <3>1. \A c \in AtServer : c[1] \in Readers /\ c[2] \in Nat /\ c[2] <= attempt[c[1]]
      BY AtServerType DEF BaseInv, ReachedInv, Conns
    <3>2. QED  BY <1>1, <1>5, <3>1
  <2>2. new[2] <= attempt'[new[1]]  BY <1>1, <1>5
  <2>3. QED  BY <1>12, <2>1, <2>2 DEF ReachedInv
<1>14. QED  BY <1>7, <1>9, <1>10, <1>11, <1>12, <1>13 DEF BaseInv

LEMMA ConnectDataBase ==
  ASSUME BaseInv, NEW r \in Readers, ConnectData(r)
  PROVE  BaseInv' /\ AtServer' = AtServer \cup {Data(r)}
<1>1. Data(r) \in Conns /\ Data(r)[3] = "data"
  <2>1. pc[r] # "apart"  BY DEF ConnectData
  <2>2. QED  BY <2>1, Own DEF Data
<1>2. /\ waiting \in [Ports -> Seq(Conns)] /\ "data" \in Ports
      /\ waiting' = [waiting EXCEPT !["data"] = Append(@, Data(r))]
  BY DEF BaseInv, QueuesInv, Ports, ConnectData
<1>3. waiting["data"] \in Seq(Conns) /\ Append(waiting["data"], Data(r)) \in Seq(Conns)
  BY <1>1, <1>2
<1>4. \A t \in Readers : pc'[t] = IF t = r THEN "ids" ELSE pc[t]
  BY DEF BaseInv, TypeOK, ConnectData
<1>5. waiting' \in [Ports -> Seq(Conns)]  BY <1>2, <1>3
<1>6. QueuesInv'
  BY <1>5 DEF BaseInv, QueuesInv, ConnectData, serverVars, Up
<1>7. \A p \in Ports : \A i \in DOMAIN waiting'[p] :
        waiting'[p][i] \in Conns /\ waiting'[p][i][3] = p
  <2>1. \A i \in DOMAIN Append(waiting["data"], Data(r)) :
          (i \in DOMAIN waiting["data"]
             /\ Append(waiting["data"], Data(r))[i] = waiting["data"][i])
            \/ Append(waiting["data"], Data(r))[i] = Data(r)
    BY <1>1, <1>3
  <2>2. QED  BY <1>1, <1>2, <2>1 DEF BaseInv, TypeOK, Ports
<1>8. TypeOK'
  BY <1>4, <1>7 DEF BaseInv, TypeOK, ConnectData, serverVars
<1>9. SentInv'
  BY <1>4 DEF BaseInv, SentInv, ConnectData, Cmd, Data
<1>10. PairInv'  BY DEF BaseInv, PairInv, ConnectData, serverVars
<1>11. AtServer' = AtServer \cup {Data(r)}
  <2>1. /\ waiting'["data"] = Append(waiting["data"], Data(r)) /\ waiting'["cmd"] = waiting["cmd"]
    BY <1>2 DEF Ports
  <2>2. ConnsOf(waiting'["data"]) = ConnsOf(waiting["data"]) \cup {Data(r)}
    BY <1>1, <1>3, <2>1, Joined
  <2>3. pair' = pair /\ sockets' = sockets  BY DEF ConnectData, serverVars
  <2>4. QED  BY <2>1, <2>2, <2>3 DEF AtServer, Accepted
<1>12. ReachedInv'
  <2>1. attempt' = attempt /\ attempt[r] \in Nat
    BY HandshakeAssumption DEF BaseInv, TypeOK, ConnectData
  <2>2. Data(r)[2] <= attempt[Data(r)[1]]  BY <2>1 DEF Data
  <2>3. QED  BY <1>11, <2>1, <2>2 DEF BaseInv, ReachedInv
<1>13. QED  BY <1>6, <1>8, <1>9, <1>10, <1>11, <1>12 DEF BaseInv

\* Giving up, failing and dying close both connections.
LEMMA ApartBase ==
  ASSUME BaseInv, NEW r \in Readers, pc[r] # "apart", Apart(r),
         UNCHANGED <<config, attempt, sent, numbered, waiting, dataUp, serverVars>>,
         crashes' \in 0 .. MaxCrashes, cut' \in BOOLEAN
  PROVE  BaseInv'
<1>1. /\ closed' \in [Conns -> {"open", "reader", "server"}]
      /\ \A c \in Conns : c \notin {Cmd(r), Data(r)} => closed'[c] = closed[c]
  BY ClosedType DEF BaseInv, Apart
<1>2. \A t \in Readers : pc'[t] = IF t = r THEN "apart" ELSE pc[t]
  BY DEF BaseInv, TypeOK, Apart
<1>3. TypeOK'
  BY <1>1, <1>2 DEF BaseInv, TypeOK, serverVars, Apart
<1>4. QueuesInv'  BY DEF BaseInv, QueuesInv, serverVars, Up
<1>5. PairInv'  BY DEF BaseInv, PairInv, serverVars
<1>6. \A c \in Conns : c[2] > attempt[c[1]] => c \notin {Cmd(r), Data(r)}
  <2>1. attempt[r] \in Nat  BY HandshakeAssumption DEF BaseInv, TypeOK
  <2>2. Cmd(r)[1] = r /\ Cmd(r)[2] = attempt[r] /\ Data(r)[1] = r /\ Data(r)[2] = attempt[r]
    BY DEF Cmd, Data
  <2>3. ~(attempt[r] > attempt[r])  BY <2>1
  <2>4. QED  BY <2>2, <2>3
<1>7. \A t \in Readers : Cmd(t)' = Cmd(t) /\ Data(t)' = Data(t)  BY DEF Cmd, Data
<1>8. SentInv'
  BY <1>1, <1>2, <1>6, <1>7 DEF BaseInv, SentInv
<1>9. ReachedInv'
  <2>1. UNCHANGED <<waiting, pair, sockets, attempt>>  BY DEF serverVars
  <2>2. QED  BY <2>1 DEF BaseInv, ReachedInv, AtServer, Accepted
<1>10. QED  BY <1>3, <1>4, <1>5, <1>8, <1>9 DEF BaseInv

\* SendIds and SendNames.
LEMMA SendBase ==
  ASSUME BaseInv, NEW r \in Readers, SendBoth(r),
         UNCHANGED <<config, attempt, numbered, closed, waiting, dataUp, serverVars, crashes, cut>>,
         NEW next, pc' = [pc EXCEPT ![r] = next],
         \/ pc[r] = "ids" /\ next \in {"number", "names"}
         \/ pc[r] = "names" /\ next = "connected"
  PROVE  BaseInv'
<1>1. /\ sent \in [Conns -> 0 .. 2] /\ Cmd(r) \in Conns /\ Data(r) \in Conns
      /\ \A t \in Readers : t # r => {Cmd(t), Data(t)} \cap {Cmd(r), Data(r)} = {}
  BY Own DEF BaseInv, TypeOK
<1>2. /\ sent[Cmd(r)] <= 1 /\ sent[Data(r)] <= 1
      /\ next # "connected" => sent[Cmd(r)] = 0 /\ sent[Data(r)] = 0
  BY <1>1 DEF BaseInv, SentInv
<1>3. \A c \in Conns : sent'[c] = IF c \in {Cmd(r), Data(r)} /\ closed[c] = "open"
                                   THEN sent[c] + 1 ELSE sent[c]
  BY DEF SendBoth
<1>4. sent' \in [Conns -> 0 .. 2]
  <2>1. \A c \in Conns : sent'[c] \in 0 .. 2
    BY <1>1, <1>2, <1>3
  <2>2. DOMAIN sent' = Conns /\ sent' = [c \in Conns |-> sent'[c]]  BY DEF SendBoth
  <2>3. QED  BY <2>1, <2>2
<1>5. \A t \in Readers : pc'[t] = IF t = r THEN next ELSE pc[t]
  BY DEF BaseInv, TypeOK
<1>6. TypeOK'  BY <1>4, <1>5 DEF BaseInv, TypeOK, serverVars
<1>7. QueuesInv'  BY DEF BaseInv, QueuesInv, serverVars, Up
<1>8. PairInv'
  <2>1. \A c \in Conns : sent[c] # 0 => sent'[c] # 0  BY <1>1, <1>3
  <2>2. pair \in Seq(Conns) /\ ConnsOf(pair) \subseteq Conns
    <3>1. pair \in Seq(Conns)  BY DEF BaseInv, QueuesInv
    <3>2. \A i \in DOMAIN pair : pair[i] \in Conns  BY <3>1
    <3>3. QED  BY <3>1, <3>2 DEF ConnsOf
  <2>3. QED  BY <2>1, <2>2 DEF BaseInv, PairInv, serverVars
<1>9. SentInv'
  <2>1. \A t \in Readers : Cmd(t)' = Cmd(t) /\ Data(t)' = Data(t)  BY DEF Cmd, Data
  <2>2. \A c \in Conns : c[2] > attempt[c[1]] => c \notin {Cmd(r), Data(r)}
    <3>1. attempt[r] \in Nat  BY HandshakeAssumption DEF BaseInv, TypeOK
    <3>2. Cmd(r)[1] = r /\ Cmd(r)[2] = attempt[r] /\ Data(r)[1] = r /\ Data(r)[2] = attempt[r]
      BY DEF Cmd, Data
    <3>3. ~(attempt[r] > attempt[r])  BY <3>1
    <3>4. QED  BY <3>2, <3>3
  <2>3. \A c \in Conns : c[2] > attempt[c[1]] => sent'[c] = 0 /\ closed[c] = "open"
    BY <1>3, <2>2 DEF BaseInv, SentInv
  <2>4. \A t \in Readers \ {r} : pc'[t] # "apart" =>
          sent'[Cmd(t)] = sent[Cmd(t)] /\ sent'[Data(t)] = sent[Data(t)]
    BY <1>1, <1>3, <1>5, Own
  <2>5. pc'[r] \in {"number", "names"} => sent'[Cmd(r)] <= 1 /\ sent'[Data(r)] <= 1
    BY <1>1, <1>2, <1>3, <1>5
  <2>6. pc'[r] \notin {"data", "ids", "apart"} /\ pc[r] # "apart"
    BY <1>5
  <2>7. \A t \in Readers \ {r} :
          /\ pc'[t] \in {"data", "ids"} => sent'[Cmd(t)] = 0 /\ sent'[Data(t)] = 0
          /\ pc'[t] \in {"number", "names"} => sent'[Cmd(t)] <= 1 /\ sent'[Data(t)] <= 1
    BY <1>5, <2>4 DEF BaseInv, SentInv
  <2>8. \A t \in Readers : pc'[t] # "apart" => attempt[t] # 0
    BY <1>5, <2>6 DEF BaseInv, SentInv
  <2>9. QED  BY <2>1, <2>3, <2>5, <2>6, <2>7, <2>8 DEF SentInv
<1>10. ReachedInv'
  <2>1. UNCHANGED <<waiting, pair, sockets, attempt>>  BY DEF serverVars
  <2>2. QED  BY <2>1 DEF BaseInv, ReachedInv, AtServer, Accepted
<1>11. QED  BY <1>6, <1>7, <1>8, <1>9, <1>10 DEF BaseInv

LEMMA ReaderBase ==
  ASSUME BaseInv, NEW r \in Readers, ConnectCommand(r) \/ Client(r) \/ Crash(r)
  PROVE  BaseInv'
<1>1. CASE ConnectCommand(r)  BY <1>1, ConnectCommandBase
<1>2. CASE ConnectData(r)  BY <1>2, ConnectDataBase
<1>3. CASE GiveUp(r) \/ Fails(r) \/ LosesServer(r) \/ Crash(r)
  <2>1. /\ pc[r] # "apart" /\ Apart(r)
        /\ UNCHANGED <<config, attempt, sent, numbered, waiting, dataUp, serverVars>>
    BY <1>3 DEF GiveUp, Fails, LosesServer, Crash
  <2>2. crashes' \in 0 .. MaxCrashes
    BY <1>3, HandshakeAssumption DEF BaseInv, TypeOK, GiveUp, Fails, LosesServer, Crash
  <2>3. cut' \in BOOLEAN
    BY <1>3, Zenon DEF BaseInv, TypeOK, GiveUp, Fails, LosesServer, Crash
  <2>4. QED  BY <2>1, <2>2, <2>3, ApartBase
<1>4. CASE SendIds(r)
  <2>1. PICK next : next = IF r \in config.auto THEN "number" ELSE "names"  OBVIOUS
  <2>2. next \in {"number", "names"}  BY <2>1
  <2>3. QED  BY <1>4, <2>1, <2>2, SendBase DEF SendIds
<1>5. CASE SendNames(r)
  BY <1>5, SendBase DEF SendNames
<1>6. CASE ReceiveNumber(r)
  <2>1. /\ \A t \in Readers : pc'[t] = IF t = r THEN "names" ELSE pc[t]
        /\ pc' \in [Readers -> {"apart", "data", "ids", "number", "names", "connected"}]
        /\ pc[r] = "number"
    BY <1>6 DEF BaseInv, TypeOK, ReceiveNumber
  <2>2. UNCHANGED <<config, attempt, tcpVars, serverVars, crashes, cut>>  BY <1>6 DEF ReceiveNumber
  <2>3. TypeOK'  BY <2>1, <2>2 DEF BaseInv, TypeOK, tcpVars, serverVars
  <2>4. QueuesInv'  BY <2>2 DEF BaseInv, QueuesInv, tcpVars, serverVars, Up
  <2>5. PairInv'  BY <2>2 DEF BaseInv, PairInv, tcpVars, serverVars
  <2>6. SentInv'  BY <2>1, <2>2 DEF BaseInv, SentInv, tcpVars, Cmd, Data
  <2>7. ReachedInv'
    BY <2>2 DEF BaseInv, ReachedInv, AtServer, Accepted, tcpVars, serverVars
  <2>8. QED  BY <2>3, <2>4, <2>5, <2>6, <2>7 DEF BaseInv
<1>7. QED  BY <1>1, <1>2, <1>3, <1>4, <1>5, <1>6 DEF Client

\* Steps of the dispatcher leave the readers alone; they close connections that it knows.
LEMMA ServerFrame ==
  ASSUME BaseInv, UNCHANGED <<pc, attempt, sent>>, AtServer' \subseteq AtServer,
         NEW S, S \subseteq AtServer, UNCHANGED closed \/ Close(S, "server")
  PROVE  SentInv' /\ ReachedInv' /\ closed' \in [Conns -> {"open", "reader", "server"}]
<1>1. /\ closed' \in [Conns -> {"open", "reader", "server"}]
      /\ \A c \in Conns : c \notin S => closed'[c] = closed[c]
  BY ClosedType DEF BaseInv, TypeOK
<1>2. ReachedInv'  BY DEF BaseInv, ReachedInv
<1>3. \A c \in Conns : c[2] > attempt[c[1]] => c \notin S
  <2> SUFFICES ASSUME NEW c \in Conns, c[2] > attempt[c[1]], c \in S PROVE FALSE
    OBVIOUS
  <2>1. c[2] <= attempt[c[1]]  BY DEF BaseInv, ReachedInv
  <2>2. c[1] \in Readers /\ c[2] \in Nat  BY DEF Conns
  <2>3. attempt[c[1]] \in Nat  BY <2>2, HandshakeAssumption DEF BaseInv, TypeOK
  <2>4. QED  BY <2>1, <2>2, <2>3
<1>4. \A t \in Readers : Cmd(t)' = Cmd(t) /\ Data(t)' = Data(t)  BY DEF Cmd, Data
<1>5. SentInv'  BY <1>1, <1>3, <1>4 DEF BaseInv, SentInv
<1>6. QED  BY <1>1, <1>2, <1>5

\* What the step does to the queues is right.
LEMMA ServerTypes ==
  ASSUME BaseInv, UNCHANGED <<config, pc, attempt, sent, crashes>>, SentInv', ReachedInv',
         closed' \in [Conns -> {"open", "reader", "server"}],
         numbered' \subseteq Conns, sessions' \in 0 .. MaxSessions,
         dataUp' \in BOOLEAN, cut' \in BOOLEAN,
         server' \in {"down", "poll", "wait", "ids", "number", "names", "online"},
         Len(pair') = CASE server' = "wait" -> 1 [] server' \in {"ids", "number", "names"} -> 2
                      [] OTHER -> 0,
         \A p \in Ports : \A i \in DOMAIN waiting'[p] :
           waiting'[p][i] \in Conns /\ waiting'[p][i][3] = p,
         \A i \in DOMAIN sockets' : sockets'[i][1][3] = "cmd" /\ sockets'[i][2][3] = "data",
         QueuesInv', PairInv'
  PROVE  BaseInv'
<1>1. TypeOK'  BY DEF BaseInv, TypeOK
<1>2. QED  BY <1>1 DEF BaseInv

LEMMA EmptyPair ==
  ASSUME BaseInv, server \notin {"wait", "ids", "number", "names"}
  PROVE  pair = <<>> /\ ConnsOf(pair) = {}
<1>1. Len(pair) = 0 /\ pair \in Seq(Conns)  BY DEF BaseInv, TypeOK, QueuesInv
<1>2. pair = <<>>  BY <1>1
<1>3. QED  BY <1>2, Nothing

LEMMA AcceptBase == ASSUME BaseInv, Accept PROVE BaseInv' /\ AtServer' = AtServer
<1> DEFINE q == waiting["cmd"]
<1>1. /\ waiting \in [Ports -> Seq(Conns)] /\ "cmd" \in Ports /\ "data" \in Ports
      /\ waiting' = [waiting EXCEPT !["cmd"] = Tail(q)] /\ q # <<>>
      /\ pair' = <<Head(q)>> /\ dataUp' = TRUE /\ server' = "wait"
      /\ UNCHANGED <<config, clientVars, sent, numbered, closed, sockets, sessions, crashes, cut>>
  BY DEF BaseInv, QueuesInv, Ports, Accept
<1>2. q \in Seq(Conns) /\ \A i \in DOMAIN q : q[i] \in Conns /\ q[i][3] = "cmd"
  BY <1>1 DEF BaseInv, TypeOK
<1>3. waiting'["cmd"] = Tail(q) /\ waiting'["data"] = waiting["data"]  BY <1>1 DEF Ports
<1> HIDE DEF q
<1>4. /\ Tail(q) \in Seq(Conns) /\ Head(q) \in Conns /\ Head(q)[3] = "cmd"
      /\ ConnsOf(q) = ConnsOf(Tail(q)) \cup {Head(q)}
      /\ \A i \in DOMAIN Tail(q) : Tail(q)[i] \in Conns /\ Tail(q)[i][3] = "cmd"
  BY <1>1, <1>2, Served
<1>5. pair' \in Seq(Conns) /\ Len(pair') = 1 /\ pair'[1] = Head(q) /\ ConnsOf(pair') = {Head(q)}
  <2>1. pair' \in Seq(Conns) /\ Len(pair') = 1 /\ pair'[1] = Head(q) /\ DOMAIN pair' = {1}
    BY <1>1, <1>4
  <2>2. QED  BY <2>1 DEF ConnsOf
<1>6. ConnsOf(pair) = {}
  <2>1. server = "poll"  BY DEF Accept
  <2>2. QED  BY <2>1, EmptyPair
<1>7. AtServer' = AtServer
  <2>1. AtServer = ConnsOf(q) \cup ConnsOf(waiting["data"]) \cup ConnsOf(pair) \cup Accepted
    BY DEF AtServer, q
  <2>2. Accepted' = Accepted  BY <1>1 DEF Accepted
  <2>3. QED  BY <1>3, <1>4, <1>5, <1>6, <2>1, <2>2 DEF AtServer
<1>8. SentInv' /\ ReachedInv' /\ closed' \in [Conns -> {"open", "reader", "server"}]
  <2>1. UNCHANGED <<pc, attempt, sent, closed>>  BY <1>1 DEF clientVars
  <2>2. QED  BY <1>7, <2>1, ServerFrame
<1>9. QueuesInv'
  <2>1. waiting' \in [Ports -> Seq(Conns)]  BY <1>1, <1>4
  <2>2. QED  BY <1>1, <1>4, <1>5, <2>1 DEF BaseInv, QueuesInv, Up
<1>10. \A p \in Ports : \A i \in DOMAIN waiting'[p] :
         waiting'[p][i] \in Conns /\ waiting'[p][i][3] = p
  <2> SUFFICES ASSUME NEW p \in Ports, NEW i \in DOMAIN waiting'[p]
               PROVE  waiting'[p][i] \in Conns /\ waiting'[p][i][3] = p
    OBVIOUS
  <2>1. CASE p = "cmd"
    BY <1>3, <1>4, <2>1
  <2>2. CASE p = "data"
    BY <1>3, <2>2 DEF BaseInv, TypeOK
  <2>3. QED  BY <2>1, <2>2 DEF Ports
<1>11. PairInv'  BY <1>1 DEF PairInv
<1>12. BaseInv'
  BY <1>1, <1>5, <1>8, <1>9, <1>10, <1>11, ServerTypes DEF BaseInv, TypeOK, clientVars
<1>13. QED  BY <1>7, <1>12

LEMMA AcceptDataBase == ASSUME BaseInv, AcceptData PROVE BaseInv' /\ AtServer' = AtServer
<1> DEFINE q == waiting["data"]
<1>1. /\ waiting \in [Ports -> Seq(Conns)] /\ "cmd" \in Ports /\ "data" \in Ports
      /\ waiting' = [waiting EXCEPT !["data"] = Tail(q)] /\ q # <<>>
      /\ pair' = Append(pair, Head(q)) /\ server = "wait" /\ server' = "ids"
      /\ pair \in Seq(Conns) /\ Len(pair) = 1
      /\ UNCHANGED <<config, clientVars, sent, numbered, closed, dataUp, sockets, sessions,
                     crashes, cut>>
  BY DEF BaseInv, TypeOK, QueuesInv, Ports, AcceptData
<1>2. q \in Seq(Conns) /\ \A i \in DOMAIN q : q[i] \in Conns /\ q[i][3] = "data"
  BY <1>1 DEF BaseInv, TypeOK
<1>3. waiting'["data"] = Tail(q) /\ waiting'["cmd"] = waiting["cmd"]  BY <1>1 DEF Ports
<1> HIDE DEF q
<1>4. /\ Tail(q) \in Seq(Conns) /\ Head(q) \in Conns /\ Head(q)[3] = "data"
      /\ ConnsOf(q) = ConnsOf(Tail(q)) \cup {Head(q)}
      /\ \A i \in DOMAIN Tail(q) : Tail(q)[i] \in Conns /\ Tail(q)[i][3] = "data"
  BY <1>1, <1>2, Served
<1>5. /\ pair' \in Seq(Conns) /\ Len(pair') = 2 /\ pair'[1] = pair[1] /\ pair'[2] = Head(q)
      /\ pair # <<>>
  <2>1. pair \in Seq(Conns) /\ Len(pair) = 1 /\ pair' = Append(pair, Head(q))  BY <1>1
  <2>2. Head(q) \in Conns  BY <1>4
  <2>3. QED  BY <2>1, <2>2, Paired
<1>6. ConnsOf(pair') = ConnsOf(pair) \cup {Head(q)}  BY <1>1, <1>4, Joined
<1>7. AtServer' = AtServer
  <2>1. AtServer = ConnsOf(waiting["cmd"]) \cup ConnsOf(q) \cup ConnsOf(pair) \cup Accepted
    BY DEF AtServer, q
  <2>2. Accepted' = Accepted  BY <1>1 DEF Accepted
  <2>3. QED  BY <1>3, <1>4, <1>6, <2>1, <2>2 DEF AtServer
<1>8. SentInv' /\ ReachedInv' /\ closed' \in [Conns -> {"open", "reader", "server"}]
  <2>1. UNCHANGED <<pc, attempt, sent, closed>>  BY <1>1 DEF clientVars
  <2>2. QED  BY <1>7, <2>1, ServerFrame
<1>9. QueuesInv'
  <2>1. waiting' \in [Ports -> Seq(Conns)]  BY <1>1, <1>4
  <2>2. QED  BY <1>1, <1>4, <1>5, <2>1 DEF BaseInv, QueuesInv, Up
<1>10. \A p \in Ports : \A i \in DOMAIN waiting'[p] :
         waiting'[p][i] \in Conns /\ waiting'[p][i][3] = p
  <2> SUFFICES ASSUME NEW p \in Ports, NEW i \in DOMAIN waiting'[p]
               PROVE  waiting'[p][i] \in Conns /\ waiting'[p][i][3] = p
    OBVIOUS
  <2>1. CASE p = "data"
    BY <1>3, <1>4, <2>1
  <2>2. CASE p = "cmd"
    BY <1>3, <2>2 DEF BaseInv, TypeOK
  <2>3. QED  BY <2>1, <2>2 DEF Ports
<1>11. PairInv'  BY <1>1 DEF PairInv
<1>12. BaseInv'
  BY <1>1, <1>5, <1>8, <1>9, <1>10, <1>11, ServerTypes DEF BaseInv, TypeOK, clientVars
<1>13. QED  BY <1>7, <1>12

\* The dispatcher lets go of the pair in its hands, with or without closing it.
LEMMA DropBase ==
  ASSUME BaseInv, Up, server' = "poll", pair' = NoPair, cut' \in BOOLEAN,
         UNCHANGED closed \/ Close(ConnsOf(pair), "server"),
         UNCHANGED <<config, clientVars, sent, numbered, waiting, dataUp, sockets, sessions, crashes>>
  PROVE  BaseInv' /\ AtServer' \subseteq AtServer
<1>1. pair' \in Seq(Conns) /\ Len(pair') = 0 /\ pair' = <<>> /\ ConnsOf(pair') = {}
  BY Nothing DEF NoPair
<1>2. AtServer' \subseteq AtServer /\ ConnsOf(pair) \subseteq AtServer
  BY <1>1 DEF AtServer, Accepted
<1>3. SentInv' /\ ReachedInv' /\ closed' \in [Conns -> {"open", "reader", "server"}]
  <2>1. UNCHANGED <<pc, attempt, sent>>  BY DEF clientVars
  <2>2. QED  BY <1>2, <2>1, ServerFrame
<1>4. QueuesInv'  BY <1>1 DEF BaseInv, QueuesInv, Up
<1>5. PairInv'  BY DEF PairInv
<1>6. BaseInv'
  BY <1>1, <1>3, <1>4, <1>5, ServerTypes DEF BaseInv, TypeOK, clientVars
<1>7. QED  BY <1>2, <1>6

\* It keeps it.
LEMMA KeepBase ==
  ASSUME BaseInv, server \in {"ids", "number"}, server' \in {"number", "names"},
         numbered' \subseteq Conns, \A c \in ConnsOf(pair) : sent[c] # 0,
         UNCHANGED <<config, clientVars, sent, closed, waiting, dataUp, pair, sockets, sessions,
                     crashes, cut>>
  PROVE  BaseInv' /\ AtServer' = AtServer
<1>1. AtServer' = AtServer  BY DEF AtServer, Accepted
<1>2. SentInv' /\ ReachedInv' /\ closed' \in [Conns -> {"open", "reader", "server"}]
  <2>1. UNCHANGED <<pc, attempt, sent>>  BY DEF clientVars
  <2>2. QED  BY <1>1, <2>1, ServerFrame
<1>3. QueuesInv'  BY DEF BaseInv, QueuesInv, Up
<1>4. PairInv'  BY DEF PairInv
<1>5. Len(pair') = 2  BY DEF BaseInv, TypeOK
<1>6. BaseInv'
  BY <1>2, <1>3, <1>4, <1>5, ServerTypes DEF BaseInv, TypeOK, clientVars
<1>7. QED  BY <1>1, <1>6

LEMMA NamesBase ==
  ASSUME BaseInv, server = "names", server' = "poll", pair' = NoPair,
         sockets' = Append(sockets, pair),
         UNCHANGED <<config, clientVars, tcpVars, sessions, crashes, cut>>
  PROVE  BaseInv' /\ AtServer' = AtServer
<1>1. pair' \in Seq(Conns) /\ Len(pair') = 0 /\ pair' = <<>> /\ ConnsOf(pair') = {}
  BY Nothing DEF NoPair
<1>2. pair \in Seq(Conns) /\ Len(pair) = 2 /\ pair[1][3] = "cmd" /\ pair[2][3] = "data"
  <2>1. pair \in Seq(Conns) /\ Len(pair) = 2  BY DEF BaseInv, TypeOK, QueuesInv
  <2>2. pair = <<>> => Len(pair) = 0  OBVIOUS
  <2>3. pair # <<>>  BY <2>1, <2>2
  <2>4. QED  BY <2>1, <2>3 DEF BaseInv, QueuesInv
<1>3. sockets \in Seq(Seq(Conns))  BY DEF BaseInv, QueuesInv
<1>4. /\ sockets' \in Seq(Seq(Conns)) /\ ConnsOf(sockets') = ConnsOf(sockets) \cup {pair}
  BY <1>2, <1>3, Joined
<1>5. \A q \in ConnsOf(sockets') : q[1][3] = "cmd" /\ q[2][3] = "data"
  <2> SUFFICES ASSUME NEW q \in ConnsOf(sockets) PROVE q[1][3] = "cmd" /\ q[2][3] = "data"
    BY <1>2, <1>4
  <2>1. PICK i \in DOMAIN sockets : q = sockets[i]  BY DEF ConnsOf
  <2>2. QED  BY <2>1 DEF BaseInv, TypeOK
<1>6. Accepted' = Accepted \cup ConnsOf(pair)
  <2>1. Accepted = UNION {ConnsOf(q) : q \in ConnsOf(sockets)}  BY DEF Accepted, ConnsOf
  <2>2. Accepted' = UNION {ConnsOf(q) : q \in ConnsOf(sockets')}  BY DEF Accepted, ConnsOf
  <2>3. QED  BY <1>4, <2>1, <2>2
<1>7. AtServer' = AtServer
  BY <1>1, <1>6 DEF AtServer, tcpVars
<1>8. SentInv' /\ ReachedInv' /\ closed' \in [Conns -> {"open", "reader", "server"}]
  <2>1. UNCHANGED <<pc, attempt, sent, closed>>  BY DEF clientVars, tcpVars
  <2>2. QED  BY <1>7, <2>1, ServerFrame
<1>9. QueuesInv'  BY <1>1, <1>4 DEF BaseInv, QueuesInv, Up, tcpVars
<1>10. PairInv'  BY DEF PairInv
<1>11. \A i \in DOMAIN sockets' : sockets'[i][1][3] = "cmd" /\ sockets'[i][2][3] = "data"
  BY <1>5 DEF ConnsOf
<1>12. BaseInv'
  BY <1>1, <1>8, <1>9, <1>10, <1>11, ServerTypes DEF BaseInv, TypeOK, clientVars, tcpVars
<1>13. QED  BY <1>7, <1>12

LEMMA TakeDownBase == ASSUME BaseInv, TakeDownNetwork PROVE BaseInv' /\ AtServer' \subseteq AtServer
<1>1. /\ server = "poll" /\ server' = "online" /\ waiting' = [p \in Ports |-> <<>>] /\ dataUp' = FALSE
      /\ Close(ConnsOf(waiting["cmd"]) \cup ConnsOf(waiting["data"]), "server")
      /\ UNCHANGED <<config, clientVars, sent, numbered, pair, sockets, sessions, crashes>>
  BY DEF TakeDownNetwork
<1>2. cut' \in BOOLEAN  BY Zenon DEF BaseInv, TypeOK, TakeDownNetwork
<1>3. /\ waiting' \in [Ports -> Seq(Conns)] /\ \A p \in Ports : waiting'[p] = <<>>
      /\ waiting'["cmd"] = <<>> /\ waiting'["data"] = <<>>
  BY <1>1 DEF Ports
<1>4. /\ AtServer' \subseteq AtServer
      /\ ConnsOf(waiting["cmd"]) \cup ConnsOf(waiting["data"]) \subseteq AtServer
  BY <1>1, <1>3, Nothing DEF AtServer, Accepted
<1>5. SentInv' /\ ReachedInv' /\ closed' \in [Conns -> {"open", "reader", "server"}]
  <2>1. UNCHANGED <<pc, attempt, sent>>  BY <1>1 DEF clientVars
  <2>2. QED  BY <1>1, <1>4, <2>1, ServerFrame
<1>6. QueuesInv'
  <2>1. ~dataUp'  BY <1>1
  <2>2. QED  BY <1>1, <1>3, <2>1 DEF BaseInv, QueuesInv, Up
<1>7. PairInv'  BY <1>1 DEF PairInv
<1>8. Len(pair') = 0  BY <1>1 DEF BaseInv, TypeOK
<1>9. \A p \in Ports : \A i \in DOMAIN waiting'[p] :
        waiting'[p][i] \in Conns /\ waiting'[p][i][3] = p
  BY <1>3
<1>10. BaseInv'
  BY <1>1, <1>2, <1>5, <1>6, <1>7, <1>8, <1>9, ServerTypes DEF BaseInv, TypeOK, clientVars
<1>11. QED  BY <1>4, <1>10

LEMMA DisconnectBase == ASSUME BaseInv, Disconnect PROVE BaseInv'
<1>1. /\ server = "online" /\ server' = "down" /\ sockets' = <<>> /\ Close(Accepted, "server")
      /\ UNCHANGED <<config, clientVars, sent, numbered, waiting, dataUp, pair, sessions, crashes, cut>>
  BY DEF Disconnect, Accepted
<1>2. sockets' \in Seq(Seq(Conns)) /\ Accepted' = {} /\ \A i \in DOMAIN sockets' : FALSE
  BY <1>1 DEF Accepted
<1>3. AtServer' \subseteq AtServer /\ Accepted \subseteq AtServer
  BY <1>1, <1>2 DEF AtServer
<1>4. SentInv' /\ ReachedInv' /\ closed' \in [Conns -> {"open", "reader", "server"}]
  <2>1. UNCHANGED <<pc, attempt, sent>>  BY <1>1 DEF clientVars
  <2>2. QED  BY <1>1, <1>3, <2>1, ServerFrame
<1>5. QueuesInv'  BY <1>1, <1>2 DEF BaseInv, QueuesInv, Up
<1>6. PairInv'  BY <1>1 DEF PairInv
<1>7. Len(pair') = 0  BY <1>1 DEF BaseInv, TypeOK
<1>8. QED
  BY <1>1, <1>2, <1>4, <1>5, <1>6, <1>7, ServerTypes DEF BaseInv, TypeOK, clientVars

LEMMA PutUpBase == ASSUME BaseInv, PutUpNetwork PROVE BaseInv' /\ AtServer' = {}
<1>1. /\ server = "down" /\ server' = "poll" /\ sessions' = sessions + 1 /\ sessions < MaxSessions
      /\ UNCHANGED <<config, clientVars, tcpVars, pair, sockets, crashes>>
  BY DEF PutUpNetwork
<1>2. cut' \in BOOLEAN  BY Zenon DEF PutUpNetwork
<1>3. sessions' \in 0 .. MaxSessions  BY <1>1, HandshakeAssumption DEF BaseInv, TypeOK
<1>4. AtServer = {} /\ AtServer' = AtServer
  <2>1. /\ waiting["cmd"] = <<>> /\ waiting["data"] = <<>> /\ sockets = <<>>
    BY <1>1 DEF BaseInv, QueuesInv, Up, Ports
  <2>2. ConnsOf(pair) = {}  BY <1>1, EmptyPair
  <2>3. Accepted = {}  BY <2>1 DEF Accepted
  <2>4. QED  BY <1>1, <2>1, <2>2, <2>3, Nothing DEF AtServer, Accepted, tcpVars
<1>5. SentInv' /\ ReachedInv' /\ closed' \in [Conns -> {"open", "reader", "server"}]
  <2>1. UNCHANGED <<pc, attempt, sent, closed>>  BY <1>1 DEF clientVars, tcpVars
  <2>2. QED  BY <1>4, <2>1, ServerFrame
<1>6. QueuesInv'  BY <1>1 DEF BaseInv, QueuesInv, Up, tcpVars
<1>7. PairInv'  BY <1>1 DEF PairInv
<1>8. Len(pair') = 0  BY <1>1 DEF BaseInv, TypeOK
<1>9. BaseInv'
  BY <1>1, <1>2, <1>3, <1>5, <1>6, <1>7, <1>8, ServerTypes DEF BaseInv, TypeOK, clientVars, tcpVars
<1>10. QED  BY <1>4, <1>9

\* The ways in which a step of AddConnection ends.
LEMMA AddConnectionCases ==
  ASSUME BaseInv, AddConnection
  PROVE  \/ Accept \/ AcceptData
         \/ /\ Up /\ server' = "poll" /\ pair' = NoPair
            /\ \/ cut' = TRUE /\ Close(ConnsOf(pair), "server")
               \/ /\ server = "number" /\ UNCHANGED <<closed, cut>>
                  /\ \E c \in ConnsOf(pair) : closed[c] = "reader"
            /\ UNCHANGED <<config, clientVars, sent, numbered, waiting, dataUp, sockets, sessions, crashes>>
         \/ /\ server \in {"ids", "number"} /\ server' \in {"number", "names"}
            /\ numbered' \subseteq Conns /\ \A c \in ConnsOf(pair) : sent[c] # 0
            /\ UNCHANGED <<config, clientVars, sent, closed, waiting, dataUp, pair, sockets, sessions,
                           crashes, cut>>
         \/ /\ server = "names" /\ server' = "poll" /\ pair' = NoPair
            /\ sockets' = Append(sockets, pair)
            /\ UNCHANGED <<config, clientVars, tcpVars, sessions, crashes, cut>>
<1>1. CASE Accept \/ AcceptData  BY <1>1
<1>2. CASE WaitOver
  <2>1. Up  BY <1>2 DEF WaitOver, Up
  <2>2. QED  BY <1>2, <2>1, Zenon DEF WaitOver
<1>3. CASE ReceiveIds
  <2>1. Up  BY <1>3 DEF ReceiveIds, Up
  <2>2. CASE ReadFails(1)  BY <2>1, <2>2, Zenon DEF ReadFails
  <2>3. CASE ~ReadFails(1)
    <3>1. \A c \in ConnsOf(pair) : sent[c] # 0
      <4>1. \A c \in ConnsOf(pair) : sent[c] >= 1  BY <1>3, <2>3 DEF ReceiveIds, Has
      <4>2. ~(0 >= 1)  OBVIOUS
      <4>3. QED  BY <4>1, <4>2
    <3>2. /\ server = "ids" /\ server' \in {"number", "names"}
          /\ UNCHANGED <<config, clientVars, tcpVars, pair, sockets, sessions, crashes, cut>>
      BY <1>3, <2>3 DEF ReceiveIds
    <3>3. numbered' \subseteq Conns  BY <3>2 DEF BaseInv, TypeOK, tcpVars
    <3>4. QED  BY <3>1, <3>2, <3>3 DEF tcpVars
  <2>4. QED  BY <2>2, <2>3
<1>4. CASE SendNumber
  <2>1. Up  BY <1>4 DEF SendNumber, Up
  <2>2. CASE numbered' = numbered \cup ConnsOf(pair) /\ server' = "names" /\ UNCHANGED pair
    <3>1. numbered' \subseteq Conns  BY <2>2, AtServerType DEF BaseInv, TypeOK
    <3>2. \A c \in ConnsOf(pair) : sent[c] # 0  BY <1>4 DEF SendNumber, BaseInv, PairInv
    <3>3. QED  BY <1>4, <2>2, <3>1, <3>2 DEF SendNumber
  <2>3. CASE /\ \E c \in ConnsOf(pair) : closed[c] = "reader"
             /\ server' = "poll" /\ pair' = NoPair /\ UNCHANGED numbered
    BY <1>4, <2>1, <2>3, Zenon DEF SendNumber
  <2>4. QED  BY <1>4, <2>2, <2>3, Zenon DEF SendNumber
<1>5. CASE ReceiveNames
  <2>1. Up  BY <1>5 DEF ReceiveNames, Up
  <2>2. CASE ReadFails(2)  BY <2>1, <2>2, Zenon DEF ReadFails
  <2>3. CASE ~ReadFails(2)  BY <1>5, <2>3, Zenon DEF ReceiveNames
  <2>4. QED  BY <2>2, <2>3
<1>6. QED  BY <1>1, <1>2, <1>3, <1>4, <1>5 DEF AddConnection

LEMMA BaseStep == BaseInv /\ [Next]_vars => BaseInv'
<1> SUFFICES ASSUME BaseInv, [Next]_vars PROVE BaseInv'
  OBVIOUS
<1>1. CASE \E r \in Readers : ConnectCommand(r) \/ Client(r) \/ Crash(r)
  BY <1>1, ReaderBase
<1>2. CASE AddConnection
  <2>1. cut' = TRUE \/ UNCHANGED cut => cut' \in BOOLEAN  BY DEF BaseInv, TypeOK
  <2>2. QED
    BY <1>2, <2>1, AddConnectionCases, AcceptBase, AcceptDataBase, DropBase, KeepBase, NamesBase
<1>3. CASE PutUpNetwork  BY <1>3, PutUpBase
<1>4. CASE TakeDownNetwork  BY <1>4, TakeDownBase
<1>5. CASE Disconnect  BY <1>5, DisconnectBase
<1>6. CASE UNCHANGED vars
  BY <1>6 DEF BaseInv, TypeOK, QueuesInv, SentInv, PairInv, ReachedInv, AtServer, Accepted, Up,
              Cmd, Data, vars, clientVars, tcpVars, serverVars
<1>7. QED  BY <1>1, <1>2, <1>3, <1>4, <1>5, <1>6 DEF Next

LEMMA InitBase == Init => BaseInv
<1> SUFFICES ASSUME Init PROVE BaseInv
  OBVIOUS
<1>1. /\ pc = [r \in Readers |-> "apart"] /\ attempt = [r \in Readers |-> 0]
      /\ waiting = [p \in Ports |-> <<>>] /\ server = "down" /\ pair = <<>> /\ sockets = <<>>
  BY DEF Init, NoPair
<1>2. /\ waiting["cmd"] = <<>> /\ waiting["data"] = <<>> /\ \A p \in Ports : waiting[p] = <<>>
      /\ waiting \in [Ports -> Seq(Conns)] /\ sockets \in Seq(Seq(Conns)) /\ pair \in Seq(Conns)
      /\ Len(pair) = 0
  BY <1>1 DEF Ports
<1>3. TypeOK
  <2>1. 0 \in 0 .. MaxAttempts /\ 0 \in 0 .. MaxCrashes /\ 0 \in 0 .. MaxSessions
    BY HandshakeAssumption
  <2>2. /\ \A p \in Ports : \A i \in DOMAIN waiting[p] : FALSE
        /\ \A i \in DOMAIN sockets : FALSE
    BY <1>1
  <2>3. /\ sent \in [Conns -> 0 .. 2] /\ closed \in [Conns -> {"open", "reader", "server"}]
    BY DEF Init
  <2>4. /\ pc \in [Readers -> {"apart", "data", "ids", "number", "names", "connected"}]
        /\ attempt \in [Readers -> 0 .. MaxAttempts]
    BY <1>1, <2>1
  <2>5. {dataUp, cut} \subseteq BOOLEAN  BY Zenon DEF Init
  <2>6. /\ config \in Configs /\ numbered \subseteq Conns /\ sessions \in 0 .. MaxSessions
        /\ crashes \in 0 .. MaxCrashes
    BY <2>1 DEF Init
  <2>7. Len(pair) = CASE server = "wait" -> 1 [] server \in {"ids", "number", "names"} -> 2
                    [] OTHER -> 0
    BY <1>1, <1>2
  <2>8. QED  BY <1>1, <1>2, <2>1, <2>2, <2>3, <2>4, <2>5, <2>6, <2>7 DEF TypeOK
<1>4. QueuesInv  BY <1>1, <1>2 DEF Init, QueuesInv, Up
<1>5. SentInv  BY <1>1 DEF Init, SentInv, Conns
<1>6. PairInv  BY <1>1 DEF PairInv
<1>7. Accepted = {}  BY <1>1 DEF Accepted
<1>8. ReachedInv  BY <1>1, <1>2, <1>7, Nothing DEF ReachedInv, AtServer
<1>9. QED  BY <1>3, <1>4, <1>5, <1>6, <1>8 DEF BaseInv

\* Every variable keeps its type: in particular the dispatcher has as many sockets in its hands
\* as AddConnection says where it is, and never two of the same port.
THEOREM TypeCorrect == Spec => []TypeOK
<1>1. BaseInv => TypeOK  BY DEF BaseInv
<1>2. QED  BY <1>1, InitBase, BaseStep, PTL DEF Spec

-----------------------------------------------------------------------------
(* A session that loses no connection.                                     *)

LEMMA ReaderSession ==
  ASSUME BaseInv, SessionInv, NEW r \in Readers, ConnectCommand(r) \/ Client(r) \/ Crash(r)
  PROVE  SessionInv'
<1> SUFFICES ASSUME cut' = FALSE, server' # "down" PROVE SessionInv'
  <2>1. BaseInv'  BY ReaderBase
  <2>2. cut' \in BOOLEAN  BY <2>1 DEF BaseInv, TypeOK
  <2>3. QED  BY <2>2 DEF SessionInv
<1>1. ~Crash(r)  BY DEF Crash
<1>2. server' = server /\ cut' = cut
  BY <1>1 DEF ConnectCommand, Client, ConnectData, GiveUp, SendIds, ReceiveNumber, SendNames, Fails,
              LosesServer, serverVars
<1>3. /\ \A t \in Readers : pc[t] # "apart" =>
           /\ closed[Cmd(t)] = "open" /\ closed[Data(t)] = "open"
           /\ Cmd(t) \in AtServer
           /\ pc[t] # "data" => Data(t) \in AtServer
      /\ \A c \in AtServer : sent[c] # 0 => closed[c] = "open"
  BY <1>2 DEF SessionInv
<1>4. pc \in [Readers -> {"apart", "data", "ids", "number", "names", "connected"}] /\ AtServer \subseteq Conns
  BY AtServerType DEF BaseInv, TypeOK
<1>5. ~ConnectCommand(r) => \A t \in Readers : Cmd(t)' = Cmd(t) /\ Data(t)' = Data(t)
  <2>1. ~ConnectCommand(r) => attempt' = attempt
    BY <1>1 DEF Client, ConnectData, GiveUp, SendIds, ReceiveNumber, SendNames, Fails,
                LosesServer
  <2>2. QED  BY <2>1 DEF Cmd, Data
<1>6. CASE ConnectCommand(r)
  <2>1. AtServer' = AtServer \cup {Cmd(r)'} /\ BaseInv'  BY <1>6, ConnectCommandBase
  <2>2. /\ \A t \in Readers : pc'[t] = IF t = r THEN "data" ELSE pc[t]
        /\ \A t \in Readers \ {r} : Cmd(t)' = Cmd(t) /\ Data(t)' = Data(t)
        /\ UNCHANGED <<sent, closed>>
    BY <1>4, <1>6 DEF ConnectCommand, Cmd, Data, BaseInv, TypeOK
  <2>3. sent[Cmd(r)'] = 0 /\ closed[Cmd(r)'] = "open" /\ closed[Data(r)'] = "open"
    <3>1. attempt[r] \in Nat /\ attempt'[r] = attempt[r] + 1 /\ attempt'[r] \in 1 .. MaxAttempts
      BY <1>6, HandshakeAssumption DEF BaseInv, TypeOK, ConnectCommand
    <3>2. /\ Cmd(r)' \in Conns /\ Data(r)' \in Conns
          /\ Cmd(r)'[1] = r /\ Cmd(r)'[2] > attempt[r] /\ Data(r)'[1] = r /\ Data(r)'[2] > attempt[r]
      BY <3>1 DEF Cmd, Data, Conns, Ports
    <3>3. QED  BY <3>2 DEF BaseInv, SentInv
  <2>4. \A c \in AtServer' : sent'[c] # 0 => closed'[c] = "open"
    BY <1>3, <2>1, <2>2, <2>3
  <2>5. \A t \in Readers : pc'[t] # "apart" =>
           /\ closed'[Cmd(t)'] = "open" /\ closed'[Data(t)'] = "open"
           /\ Cmd(t)' \in AtServer'
           /\ pc'[t] # "data" => Data(t)' \in AtServer'
    BY <1>3, <2>1, <2>2, <2>3
  <2>6. QED  BY <2>4, <2>5 DEF SessionInv
<1>7. CASE ConnectData(r)
  <2>1. AtServer' = AtServer \cup {Data(r)}  BY <1>7, ConnectDataBase
  <2>2. /\ \A t \in Readers : pc'[t] = IF t = r THEN "ids" ELSE pc[t]
        /\ UNCHANGED <<sent, closed>> /\ pc[r] = "data" /\ ~ConnectCommand(r)
    BY <1>4, <1>7 DEF ConnectData, ConnectCommand
  <2>3. QED  BY <1>3, <1>5, <2>1, <2>2 DEF SessionInv
<1>8. CASE GiveUp(r)
  <2>1. /\ pc[r] = "data" /\ Apart(r) /\ ~ConnectCommand(r)
        /\ UNCHANGED <<sent, waiting, serverVars>>
    BY <1>8 DEF GiveUp, ConnectCommand
  <2>2. AtServer' = AtServer  BY <2>1 DEF AtServer, Accepted, serverVars
  <2>3. \A t \in Readers : pc'[t] = IF t = r THEN "apart" ELSE pc[t]  BY <1>4, <2>1 DEF Apart
  <2>4. \A c \in Conns : c \notin {Cmd(r), Data(r)} => closed'[c] = closed[c]
    BY <2>1, ClosedType DEF BaseInv, Apart
  <2>5. sent[Cmd(r)] = 0 /\ sent[Data(r)] = 0  BY <2>1 DEF BaseInv, SentInv
  <2>6. \A c \in AtServer' : sent'[c] # 0 => closed'[c] = "open"
    BY <1>3, <1>4, <2>1, <2>2, <2>4, <2>5
  <2>7. \A t \in Readers \ {r} : pc[t] # "apart" =>
          closed'[Cmd(t)] = closed[Cmd(t)] /\ closed'[Data(t)] = closed[Data(t)]
    BY <2>1, <2>4, Own
  <2>8. QED  BY <1>3, <1>5, <2>1, <2>2, <2>3, <2>6, <2>7 DEF SessionInv
<1>9. CASE SendIds(r) \/ SendNames(r)
  <2>1. /\ SendBoth(r) /\ UNCHANGED <<closed, waiting, serverVars>> /\ ~ConnectCommand(r)
        /\ pc[r] \in {"ids", "names"}
        /\ \A t \in Readers : pc'[t] = pc[t] \/ (t = r /\ pc'[t] # "data")
    BY <1>4, <1>9 DEF SendIds, SendNames, ConnectCommand
  <2>2. AtServer' = AtServer  BY <2>1 DEF AtServer, Accepted, serverVars
  <2>3. \A c \in Conns : sent'[c] = sent[c] \/ closed[c] = "open"  BY <2>1 DEF SendBoth
  <2>4. \A c \in AtServer' : sent'[c] # 0 => closed'[c] = "open"
    BY <1>3, <1>4, <2>1, <2>2, <2>3
  <2>5. QED  BY <1>3, <1>5, <2>1, <2>2, <2>4 DEF SessionInv
<1>10. CASE ReceiveNumber(r)
  <2>1. /\ UNCHANGED <<tcpVars, serverVars>> /\ ~ConnectCommand(r) /\ pc[r] = "number"
        /\ \A t \in Readers : pc'[t] = IF t = r THEN "names" ELSE pc[t]
    BY <1>4, <1>10 DEF ReceiveNumber, ConnectCommand
  <2>2. AtServer' = AtServer  BY <2>1 DEF AtServer, Accepted, serverVars, tcpVars
  <2>3. QED  BY <1>3, <1>5, <2>1, <2>2 DEF SessionInv, tcpVars
<1>11. CASE Fails(r) \/ LosesServer(r)
  <2>1. pc[r] # "apart" /\ "server" \in {closed[Cmd(r)], closed[Data(r)]}
    BY <1>11 DEF Fails, LosesServer
  <2>2. QED  BY <1>3, <2>1
<1>12. QED
  BY <1>1, <1>6, <1>7, <1>8, <1>9, <1>10, <1>11 DEF Client

\* A step that leaves the readers and what is closed alone, and lets go of no connection.
LEMMA SameSession ==
  ASSUME SessionInv, cut' => cut, cut => cut', server # "down",
         UNCHANGED <<clientVars, sent, closed>>, AtServer' = AtServer
  PROVE  SessionInv'
<1>1. \A t \in Readers : Cmd(t)' = Cmd(t) /\ Data(t)' = Data(t)  BY DEF clientVars, Cmd, Data
<1>2. QED  BY <1>1 DEF SessionInv, clientVars

LEMMA SessionStep == BaseInv /\ SessionInv /\ [Next]_vars => SessionInv'
<1> SUFFICES ASSUME BaseInv, SessionInv, [Next]_vars PROVE SessionInv'
  OBVIOUS
<1>1. CASE \E r \in Readers : ConnectCommand(r) \/ Client(r) \/ Crash(r)
  BY <1>1, ReaderSession
<1>2. CASE AddConnection
  <2>1. CASE Accept
    <3>1. server # "down" /\ UNCHANGED <<clientVars, sent, closed, cut>>  BY <2>1 DEF Accept
    <3>2. QED  BY <2>1, <3>1, AcceptBase, SameSession
  <2>2. CASE AcceptData
    <3>1. server # "down" /\ UNCHANGED <<clientVars, sent, closed, cut>>  BY <2>2 DEF AcceptData
    <3>2. QED  BY <2>2, <3>1, AcceptDataBase, SameSession
  <2>3. CASE cut' = TRUE  BY <2>3 DEF SessionInv
  <2>4. CASE /\ server = "number" /\ UNCHANGED <<closed, cut>>
             /\ \E c \in ConnsOf(pair) : closed[c] = "reader"
    <3>1. PICK c \in ConnsOf(pair) : closed[c] = "reader"  BY <2>4
    <3>2. c \in AtServer /\ sent[c] # 0  BY <2>4 DEF AtServer, BaseInv, PairInv
    <3>3. cut  BY <2>4, <3>1, <3>2 DEF SessionInv
    <3>4. QED  BY <2>4, <3>3 DEF SessionInv
  <2>5. CASE /\ server \in {"ids", "number"} /\ server' \in {"number", "names"}
             /\ numbered' \subseteq Conns /\ \A c \in ConnsOf(pair) : sent[c] # 0
             /\ UNCHANGED <<config, clientVars, sent, closed, waiting, dataUp, pair, sockets,
                            sessions, crashes, cut>>
    <3>1. AtServer' = AtServer  BY <2>5 DEF AtServer, Accepted
    <3>2. QED  BY <2>5, <3>1, SameSession
  <2>6. CASE /\ server = "names" /\ server' = "poll" /\ pair' = NoPair
             /\ sockets' = Append(sockets, pair)
             /\ UNCHANGED <<config, clientVars, tcpVars, sessions, crashes, cut>>
    <3>1. AtServer' = AtServer  BY <2>6, NamesBase
    <3>2. UNCHANGED <<sent, closed>> /\ server # "down"  BY <2>6 DEF tcpVars
    <3>3. QED  BY <2>6, <3>1, <3>2, SameSession
  <2>7. QED  BY <1>2, <2>1, <2>2, <2>3, <2>4, <2>5, <2>6, AddConnectionCases, Zenon
<1>3. CASE PutUpNetwork
  <2>1. AtServer' = {} /\ pc' = pc  BY <1>3, PutUpBase DEF PutUpNetwork, clientVars
  <2>2. ~cut' => \A r \in Readers : pc[r] = "apart"  BY <1>3, Zenon DEF PutUpNetwork
  <2>3. QED  BY <2>1, <2>2 DEF SessionInv
<1>4. CASE TakeDownNetwork
  <2> DEFINE lost == ConnsOf(waiting["cmd"]) \cup ConnsOf(waiting["data"])
  <2>1. CASE lost = {}
    <3>1. Close({}, "server") /\ UNCHANGED <<clientVars, sent, pair, sockets>> /\ server = "poll"
      BY <1>4, <2>1 DEF TakeDownNetwork
    <3>2. closed' = closed
      <4>1. closed \in [Conns -> {"open", "reader", "server"}]  BY DEF BaseInv, TypeOK
      <4>2. QED  BY <3>1, <4>1 DEF Close
    <3>3. AtServer' = AtServer
      <4>1. waiting'["cmd"] = <<>> /\ waiting'["data"] = <<>>  BY <1>4 DEF TakeDownNetwork, Ports
      <4>2. QED  BY <2>1, <3>1, <4>1, Nothing DEF AtServer, Accepted
    <3>4. (cut' => cut) /\ (cut => cut')  BY <1>4, <2>1, Zenon DEF TakeDownNetwork
    <3>5. QED  BY <3>1, <3>2, <3>3, <3>4, SameSession
  <2>2. CASE lost # {}
    <3>1. cut'  BY <1>4, <2>2, Zenon DEF TakeDownNetwork
    <3>2. QED  BY <3>1 DEF SessionInv
  <2>3. QED  BY <2>1, <2>2
<1>5. CASE Disconnect  BY <1>5 DEF Disconnect, SessionInv
<1>6. CASE UNCHANGED vars
  BY <1>6 DEF SessionInv, AtServer, Accepted, Cmd, Data, vars, clientVars, tcpVars, serverVars
<1>7. QED  BY <1>1, <1>2, <1>3, <1>4, <1>5, <1>6 DEF Next

\* When the listening ends, both connections of every reader that believes to be connected are
\* among the dispatcher's sockets, unless this session has lost one to a crash or a limit.
THEOREM ConnectedReadersAreKnown == Spec => []ConnectedAreKnown
<1>1. Init => SessionInv  BY DEF Init, SessionInv
<1>2. BaseInv /\ SessionInv => ConnectedAreKnown
  <2> SUFFICES ASSUME BaseInv, SessionInv, server = "online", ~cut, NEW r \in Readers,
                      pc[r] = "connected"
               PROVE  {Cmd(r), Data(r)} \subseteq Accepted
    BY DEF ConnectedAreKnown
  <2>1. Cmd(r) \in AtServer /\ Data(r) \in AtServer  BY DEF SessionInv
  <2>2. ConnsOf(pair) = {}  BY EmptyPair
  <2>3. waiting["cmd"] = <<>> /\ waiting["data"] = <<>>  BY DEF BaseInv, QueuesInv, Up, Ports
  <2>4. QED  BY <2>1, <2>2, <2>3, Nothing DEF AtServer
<1>3. QED  BY <1>1, <1>2, InitBase, BaseStep, SessionStep, PTL DEF Spec
==============================================================================
