-------------------------- MODULE ClockResetProofs --------------------------
(***************************************************************************)
(* Proofs about ClockReset for every clock, every pair of thresholds that   *)
(* satisfy ClockAssumption, and any number of channels, blocks and hits.   *)
(* The inductive invariant says how the headers of the blocks hang         *)
(* together, that the data of a buffer are ordered and span less than a    *)
(* turn, and where the scans of ReadoutBuffer and Process are in it.       *)
(***************************************************************************)
EXTENDS ClockReset, TLAPS

\* t is not later than u.
Leq(t, u) == t.turn < u.turn \/ (t.turn = u.turn /\ t.ts <= u.ts)

\* The blocks that matter: those that wait, then those the processor took.
Buffer == IF pc = "idle" THEN fBuffers ELSE taken

\* The good header before block i of the buffer.
Ahead(i) == IF i \in DOMAIN Buffer THEN Buffer[i].before ELSE latest

EmptyInv == pc # "idle" => fBuffers = <<>>

\* The headers form a chain in which good ones are at most MaxGap apart.
ChainInv ==
  \A i \in DOMAIN Buffer :
    /\ Ahead(i + 1) = IF Buffer[i].good THEN Buffer[i].head ELSE Buffer[i].before
    /\ Buffer[i].good => Within(Buffer[i].before, Buffer[i].head, MaxGap)

\* Where the header that was looked at last is in that chain.
ScanInv ==
  /\ pc = "idle" => lastGood = Ahead(1)
  /\ pc = "first" => lastGood = Ahead(x)
  /\ pc = "scan" =>
       \/ lastGood = Ahead(x)
       \/ x \in DOMAIN Buffer /\ Buffer[x].good /\ lastGood = Buffer[x].head
  /\ pc = "hits" => lastGood = latest

CountInv == TypeOK /\ EmptyInv /\ ChainInv /\ ScanInv /\ CounterExact

-----------------------------------------------------------------------------
(* Arithmetic of true times.                                               *)

LEMMA AfterTime ==
  ASSUME NEW t \in Times, NEW g \in 0 .. Wrap - 1
  PROVE  After(t, g) \in Times /\ Leq(t, After(t, g))
<1>1. t.turn \in Nat /\ t.ts \in 0 .. Wrap - 1  BY DEF Times, Ticks
<1>2. CASE t.ts + g < Wrap
  <2>1. After(t, g) = [turn |-> t.turn, ts |-> t.ts + g]  BY <1>2 DEF After
  <2>2. t.ts + g \in 0 .. Wrap - 1  BY <1>1, <1>2, ClockAssumption
  <2>3. QED  BY <1>1, <2>1, <2>2 DEF Leq, Times, Ticks
<1>3. CASE ~(t.ts + g < Wrap)
  <2>1. After(t, g) = [turn |-> t.turn + 1, ts |-> t.ts + g - Wrap]  BY <1>3 DEF After
  <2>2. t.ts + g - Wrap \in 0 .. Wrap - 1  BY <1>1, <1>3, ClockAssumption
  <2>3. QED  BY <1>1, <2>1, <2>2 DEF Leq, Times, Ticks
<1>4. QED  BY <1>2, <1>3

LEMMA AfterMonotone ==
  ASSUME NEW t \in Times, NEW g \in 0 .. Wrap - 1, NEW h \in 0 .. Wrap - 1, g <= h
  PROVE  Leq(After(t, g), After(t, h))
<1>1. t.turn \in Nat /\ t.ts \in 0 .. Wrap - 1  BY DEF Times, Ticks
<1>2. QED  BY <1>1, ClockAssumption DEF After, Leq

LEMMA LeqTransitive ==
  ASSUME NEW t \in Times, NEW u \in Times, NEW v \in Times, Leq(t, u), Leq(u, v)
  PROVE  Leq(t, v)
  BY DEF Leq, Times, Ticks

LEMMA LeqReflexive == ASSUME NEW t \in Times PROVE Leq(t, t)
  BY DEF Leq, Times, Ticks

\* The clock falls back by more than Near between headers that are at most MaxGap apart
\* exactly when it wrapped between them.
LEMMA FellBackIsWrap ==
  ASSUME NEW t \in Times, NEW u \in Times, Within(t, u, MaxGap)
  PROVE  u.turn = t.turn + (IF FellBack(t.ts, u.ts) THEN 1 ELSE 0)
<1>1. /\ t.turn \in Nat /\ t.ts \in 0 .. Wrap - 1 /\ u.turn \in Nat /\ u.ts \in 0 .. Wrap - 1
  BY DEF Times, Ticks
<1>2. QED  BY <1>1, ClockAssumption DEF Within, FellBack

\* What both lie between t and v are as near to each other as t and v.
LEMMA WithinSpan ==
  ASSUME NEW t \in Times, NEW u \in Times, NEW v \in Times, NEW w \in Times,
         Leq(t, u), Leq(u, v), Leq(v, w), Within(t, w, MaxSpan)
  PROVE  Within(u, v, MaxSpan)
<1>1. /\ t.turn \in Nat /\ t.ts \in 0 .. Wrap - 1 /\ u.turn \in Nat /\ u.ts \in 0 .. Wrap - 1
      /\ v.turn \in Nat /\ v.ts \in 0 .. Wrap - 1 /\ w.turn \in Nat /\ w.ts \in 0 .. Wrap - 1
  BY DEF Times, Ticks
<1>2. QED  BY <1>1, ClockAssumption DEF Within, Leq

-----------------------------------------------------------------------------
(* The types.                                                              *)

LEMMA BlockTypes ==
  ASSUME TypeOK, NEW i \in DOMAIN Buffer
  PROVE  /\ Buffer \in Seq(Blocks) /\ Buffer[i] \in Blocks
         /\ Buffer[i].head \in Times /\ Buffer[i].before \in Times /\ Buffer[i].good \in BOOLEAN
         /\ Buffer[i].hits \in Seq(Hits)
         /\ \A j \in DOMAIN Buffer[i].hits :
              /\ Buffer[i].hits[j] \in Hits
              /\ Buffer[i].hits[j].ch \in Channels /\ Buffer[i].hits[j].at \in Times
              /\ Buffer[i].hits[j].late \in BOOLEAN
<1>1. Buffer \in Seq(Blocks)  BY DEF TypeOK, Buffer
<1>2. Buffer[i] \in Blocks  BY <1>1
<1>3. Buffer[i].hits \in Seq(Hits)  BY <1>2 DEF Blocks
<1>4. \A j \in DOMAIN Buffer[i].hits : Buffer[i].hits[j] \in Hits  BY <1>3
<1>5. QED  BY <1>1, <1>2, <1>3, <1>4 DEF Blocks, Hits

LEMMA ReadBlockType == TypeOK /\ ReadBlock => TypeOK'
<1> SUFFICES ASSUME TypeOK, ReadBlock PROVE TypeOK'
  OBVIOUS
<1>0. PICK good \in BOOLEAN, g \in 0 .. MaxGap, e \in 0 .. MaxSpan, n \in 0 .. MaxHits :
        \E ch \in [1 .. n -> Channels], off \in [1 .. n -> 0 .. e], late \in [1 .. n -> BOOLEAN] :
          PushBlock(good, g, e, n, ch, off, late)
  BY Zenon DEF ReadBlock
<1>1. PICK ch \in [1 .. n -> Channels], off \in [1 .. n -> 0 .. e], late \in [1 .. n -> BOOLEAN] :
        /\ now' = After(After(now, g), e)
        /\ latest' = IF good THEN After(now, g) ELSE latest
        /\ fBuffers' = Append(fBuffers, NewBlock(good, g, n, ch, off, late))
  BY <1>0 DEF PushBlock
<1>2. g \in 0 .. Wrap - 1 /\ e \in 0 .. Wrap - 1 /\ \A i \in 1 .. n : off[i] \in 0 .. Wrap - 1
  BY ClockAssumption
<1>3. After(now, g) \in Times  BY <1>2, AfterTime DEF TypeOK
<1>4. now' \in Times /\ latest' \in Times  BY <1>1, <1>2, <1>3, AfterTime DEF TypeOK
<1>5. \A i \in 1 .. n : [ch |-> ch[i], at |-> After(After(now, g), off[i]), late |-> late[i]] \in Hits
  BY <1>2, <1>3, AfterTime DEF Hits
<1>6. [i \in 1 .. n |-> [ch |-> ch[i], at |-> After(After(now, g), off[i]), late |-> late[i]]] \in Seq(Hits)
  <2>1. n \in Nat  BY ClockAssumption
  <2>2. QED  BY <1>5, <2>1
<1>7. fBuffers' \in Seq(Blocks)
  <2>1. NewBlock(good, g, n, ch, off, late) \in Blocks
    BY <1>3, <1>6 DEF TypeOK, Blocks, NewBlock
  <2>2. QED  BY <1>1, <2>1 DEF TypeOK
<1>8. UNCHANGED <<whole, pc, readoutVars, hitVars>>  BY DEF ReadBlock
<1>9. QED  BY <1>4, <1>7, <1>8 DEF TypeOK, readoutVars, hitVars

LEMMA CollectType ==
  ASSUME TypeOK, NEW n \in Nat, Collect(n)
  PROVE  /\ pending' \in Seq(Nat) /\ lastReset' \in Nat
         /\ inserted' \subseteq [coll : Nat, docs : Seq(Nat)]
<1> DEFINE docs == Append(IF n # lastReset THEN <<>> ELSE pending, n)
<1>1. docs \in Seq(Nat)  BY DEF TypeOK
<1>2. lastReset' = n /\ pending' \in {<<>>, docs}  BY DEF Collect
<1>3. inserted' \subseteq {Bulk(lastReset, pending), Bulk(n, docs)}  BY DEF Collect
<1> HIDE DEF docs
<1>4. Bulk(lastReset, pending) \in [coll : Nat, docs : Seq(Nat)]
      /\ Bulk(n, docs) \in [coll : Nat, docs : Seq(Nat)]
  BY <1>1 DEF TypeOK, Bulk
<1>5. <<>> \in Seq(Nat)  OBVIOUS
<1>6. QED  BY <1>1, <1>2, <1>3, <1>4, <1>5

LEMMA StampHitType == TypeOK /\ StampHit => TypeOK'
<1> SUFFICES ASSUME TypeOK, StampHit PROVE TypeOK'
  OBVIOUS
<1>1. pc = "hits" /\ x \in DOMAIN Buffer /\ y \in DOMAIN Buffer[x].hits /\ Buffer = taken
  BY DEF StampHit, Buffer
<1> DEFINE c == taken[x].hits[y].ch
           t == Shows(taken[x], taken[x].hits[y])
<1>2. c \in Channels /\ t \in 0 .. 2 * Wrap - 1
  <2>1. c \in Channels /\ taken[x].hits[y].at.ts \in 0 .. Wrap - 1
    BY <1>1, BlockTypes DEF Times, Ticks
  <2>2. QED  BY <2>1, ClockAssumption DEF Shows
<1> HIDE DEF c, t
<1>3. Counted(c, t) \in Nat
  <2>1. counter[c] \in Nat  BY <1>2 DEF TypeOK
  <2>2. CorrectedOnce(c, t) \in Nat  BY <2>1 DEF CorrectedOnce
  <2>3. QED  BY <2>2 DEF Counted
<1>4. /\ counter' = [counter EXCEPT ![c] = Counted(c, t)] /\ seen' = [seen EXCEPT ![c] = TRUE]
      /\ prev' = [prev EXCEPT ![c] = t] /\ Collect(Counted(c, t)) /\ y' = y + 1
      /\ UNCHANGED <<whole, pc, boardVars, readoutVars>>
  BY DEF StampHit, c, t
<1>5. counter' \in [Channels -> Nat] /\ seen' \in [Channels -> BOOLEAN]
      /\ prev' \in [Channels -> 0 .. 2 * Wrap - 1] /\ y' \in Nat \ {0}
  BY <1>2, <1>3, <1>4 DEF TypeOK
<1>6. /\ pending' \in Seq(Nat) /\ lastReset' \in Nat
      /\ inserted' \subseteq [coll : Nat, docs : Seq(Nat)]
  BY <1>3, <1>4, CollectType
<1>7. QED  BY <1>4, <1>5, <1>6 DEF TypeOK, boardVars, readoutVars

LEMMA TypeStep == TypeOK /\ [Next]_vars => TypeOK'
<1> SUFFICES ASSUME TypeOK, [Next]_vars PROVE TypeOK'
  OBVIOUS
<1>1. CASE TakeBuffer
  BY <1>1 DEF TakeBuffer, TypeOK, hitVars
<1>2. CASE FirstHeader
  <2>1. pc = "first" /\ x \in DOMAIN Buffer /\ Buffer = taken  BY <1>2 DEF FirstHeader, Buffer
  <2>2. taken[x].head \in Times  BY <2>1, BlockTypes
  <2>3. /\ resets' \in Nat /\ batch' \in Nat /\ headerTime' \in Ticks /\ lastTime' \in Ticks
        /\ lastGood' \in Times
    BY <1>2, <2>2 DEF FirstHeader, TypeOK, Times
  <2>4. x' \in 1 .. Len(taken) + 1  BY <1>2 DEF FirstHeader, TypeOK
  <2>5. QED  BY <1>2, <2>3, <2>4 DEF FirstHeader, TypeOK, boardVars, hitVars
<1>3. CASE SkipGarbage
  BY <1>3 DEF SkipGarbage, TypeOK, boardVars, hitVars
<1>4. CASE AllGarbage
  BY <1>4, ClockAssumption DEF AllGarbage, BeginHits, TypeOK, Ticks, boardVars
<1>5. CASE ScanHeader
  <2>1. pc = "scan" /\ x \in DOMAIN Buffer /\ Buffer = taken  BY <1>5 DEF ScanHeader, Buffer
  <2>2. taken[x].head \in Times  BY <2>1, BlockTypes
  <2>3. resets' \in Nat /\ lastTime' \in Ticks /\ lastGood' \in Times
    BY <1>5, <2>2 DEF ScanHeader, TypeOK, Times
  <2>4. x' \in 1 .. Len(taken) + 1  BY <1>5 DEF ScanHeader, TypeOK
  <2>5. QED  BY <1>5, <2>3, <2>4 DEF ScanHeader, TypeOK, boardVars, hitVars
<1>6. CASE ScanDone
  BY <1>6, ClockAssumption DEF ScanDone, BeginHits, TypeOK, Ticks, boardVars
<1>7. CASE NextBlock
  BY <1>7 DEF NextBlock, TypeOK, boardVars
<1>8. CASE HitsDone
  BY <1>8, ClockAssumption DEF HitsDone, TypeOK, Ticks, boardVars
<1>9. CASE UNCHANGED vars
  BY <1>9 DEF TypeOK, vars, boardVars, readoutVars, hitVars
<1>10. QED
  BY <1>1, <1>2, <1>3, <1>4, <1>5, <1>6, <1>7, <1>8, <1>9, ReadBlockType, StampHitType DEF Next

LEMMA InitType == Init => TypeOK
  BY ClockAssumption DEF Init, TypeOK, Zero, Times, Ticks

\* Every variable keeps its type: the channel counters never go below zero, and the scans of
\* ReadoutBuffer and of the hit loop stay inside the buffer they took.
THEOREM TypeCorrect == Spec => []TypeOK
  BY InitType, TypeStep, PTL DEF Spec

-----------------------------------------------------------------------------
(* The reset counter of ReadoutBuffer.                                     *)

\* Hit h of a channel comes after hit g.
Follows(g, h) ==
  Leq(g.at, h.at) /\ (g.at.turn = h.at.turn /\ h.late => g.late)

\* A late hit lies behind a wrap.
LateInv(b) == \A j \in DOMAIN b.hits : b.hits[j].late => b.head.turn < b.hits[j].at.turn

\* What ReadBlock adds to the buffer.
Joins(b) ==
  /\ b \in Blocks /\ b.before = latest
  /\ b.good => Within(latest, b.head, MaxGap)
  /\ Leq(now, b.head) /\ Leq(b.head, now')
  /\ \A j \in DOMAIN b.hits : Leq(b.head, b.hits[j].at) /\ Leq(b.hits[j].at, now')
  /\ \A j, k \in DOMAIN b.hits :
       j < k /\ b.hits[j].ch = b.hits[k].ch => Follows(b.hits[j], b.hits[k])
  /\ LateInv(b)
  /\ Within(Origin(Append(fBuffers, b), latest), now', MaxSpan)
  /\ latest' = IF b.good THEN b.head ELSE latest
  /\ fBuffers' = Append(fBuffers, b)

LEMMA ReadBlockJoins == ASSUME TypeOK, ReadBlock PROVE \E b : Joins(b)
<1>0. PICK good \in BOOLEAN, g \in 0 .. MaxGap, e \in 0 .. MaxSpan, n \in 0 .. MaxHits :
        \E ch \in [1 .. n -> Channels], off \in [1 .. n -> 0 .. e], late \in [1 .. n -> BOOLEAN] :
          PushBlock(good, g, e, n, ch, off, late)
  BY Zenon DEF ReadBlock
<1>1. PICK ch \in [1 .. n -> Channels], off \in [1 .. n -> 0 .. e], late \in [1 .. n -> BOOLEAN] :
        PushBlock(good, g, e, n, ch, off, late)
  BY <1>0, Zenon
<1> DEFINE h == After(now, g)
           b == NewBlock(good, g, n, ch, off, late)
<1>2. /\ Ordered(b.hits)
      /\ \A i \in 1 .. n : late[i] => h.turn < b.hits[i].at.turn
      /\ good => Within(latest, h, MaxGap)
      /\ Within(Origin(Append(fBuffers, b), latest), After(h, e), MaxSpan)
      /\ now' = After(h, e) /\ latest' = IF good THEN h ELSE latest
      /\ fBuffers' = Append(fBuffers, b)
  BY <1>1, Zenon DEF PushBlock
<1>3. g \in 0 .. Wrap - 1 /\ e \in 0 .. Wrap - 1 /\ n \in Nat
      /\ \A i \in 1 .. n : off[i] \in 0 .. Wrap - 1 /\ off[i] <= e
  BY ClockAssumption
<1>4. h \in Times /\ Leq(now, h) /\ now \in Times  BY <1>3, AfterTime DEF TypeOK
<1>5. now' \in Times /\ Leq(h, now')  BY <1>2, <1>3, <1>4, AfterTime
<1>6. \A i \in 1 .. n : After(h, off[i]) \in Times /\ Leq(h, After(h, off[i]))
                        /\ Leq(After(h, off[i]), now')
  BY <1>2, <1>3, <1>4, AfterTime, AfterMonotone
<1>7. /\ b.head = h /\ b.good = good /\ b.before = latest /\ DOMAIN b.hits = 1 .. n
      /\ \A i \in 1 .. n :
           b.hits[i].ch = ch[i] /\ b.hits[i].at = After(h, off[i]) /\ b.hits[i].late = late[i]
  BY DEF NewBlock
<1>8. b \in Blocks
  <2>1. \A i \in 1 .. n : [ch |-> ch[i], at |-> After(h, off[i]), late |-> late[i]] \in Hits
    BY <1>6 DEF Hits
  <2>2. [i \in 1 .. n |-> [ch |-> ch[i], at |-> After(h, off[i]), late |-> late[i]]] \in Seq(Hits)
    BY <1>3, <2>1
  <2>3. QED  BY <1>4, <2>2 DEF TypeOK, Blocks, NewBlock
<1>9. \A j, k \in 1 .. n :
        j < k /\ b.hits[j].ch = b.hits[k].ch => Follows(b.hits[j], b.hits[k])
  <2> SUFFICES ASSUME NEW j \in 1 .. n, NEW k \in 1 .. n, j < k, b.hits[j].ch = b.hits[k].ch
               PROVE  Follows(b.hits[j], b.hits[k])
    OBVIOUS
  <2>1. b.hits[j].at \in Times /\ b.hits[k].at \in Times  BY <1>6, <1>7
  <2> HIDE DEF h, b
  <2>2. /\ b.hits[j].at.turn <= b.hits[k].at.turn
        /\ b.hits[j].at.turn = b.hits[k].at.turn =>
             b.hits[j].at.ts <= b.hits[k].at.ts /\ (b.hits[k].late => b.hits[j].late)
    BY <1>2, <1>7 DEF Ordered
  <2>3. /\ b.hits[j].at.turn \in Nat /\ b.hits[k].at.turn \in Nat
        /\ b.hits[j].at.ts \in Nat /\ b.hits[k].at.ts \in Nat
    BY <2>1, ClockAssumption DEF Times, Ticks
  <2>4. Leq(b.hits[j].at, b.hits[k].at)  BY SMTT(30), <2>2, <2>3 DEF Leq
  <2>5. QED  BY <2>2, <2>4, Zenon DEF Follows
<1>10. LateInv(b)  BY <1>2, <1>7 DEF LateInv
<1> HIDE DEF h, b
<1>11. b.good => Within(latest, b.head, MaxGap)  BY <1>2, <1>7
<1>12. Leq(now, b.head) /\ Leq(b.head, now')  BY <1>4, <1>5, <1>7
<1>13. \A j \in DOMAIN b.hits : Leq(b.head, b.hits[j].at) /\ Leq(b.hits[j].at, now')
  BY <1>6, <1>7
<1>14. \A j, k \in DOMAIN b.hits :
         j < k /\ b.hits[j].ch = b.hits[k].ch => Follows(b.hits[j], b.hits[k])
  BY <1>7, <1>9
<1>15. Within(Origin(Append(fBuffers, b), latest), now', MaxSpan)  BY <1>2
<1>16. latest' = IF b.good THEN b.head ELSE latest  BY <1>2, <1>7
<1>17. Joins(b)
  BY <1>2, <1>7, <1>8, <1>10, <1>11, <1>12, <1>13, <1>14, <1>15, <1>16, Zenon DEF Joins
<1>18. QED  BY <1>17

\* A buffer with a block at its end.
LEMMA BufferGrows ==
  ASSUME TypeOK, ReadBlock, NEW b, Joins(b)
  PROVE  /\ Buffer' = Append(Buffer, b) /\ Len(Buffer) \in Nat /\ pc = "idle" /\ pc' = "idle"
         /\ DOMAIN Buffer = 1 .. Len(Buffer) /\ DOMAIN Buffer' = 1 .. Len(Buffer) + 1
         /\ \A i \in DOMAIN Buffer : Buffer'[i] = Buffer[i]
         /\ Buffer'[Len(Buffer) + 1] = b
<1>1. pc = "idle" /\ pc' = "idle"  BY DEF ReadBlock
<1>2. Buffer = fBuffers /\ Buffer' = fBuffers'  BY <1>1 DEF Buffer
<1>3. fBuffers \in Seq(Blocks) /\ b \in Blocks /\ fBuffers' = Append(fBuffers, b)
  BY DEF TypeOK, Joins
<1>4. QED  BY <1>1, <1>2, <1>3

LEMMA CountRead == CountInv /\ ReadBlock => EmptyInv' /\ ChainInv' /\ ScanInv' /\ CounterExact'
<1> SUFFICES ASSUME CountInv, ReadBlock
             PROVE  EmptyInv' /\ ChainInv' /\ ScanInv' /\ CounterExact'
  OBVIOUS
<1>1. PICK b : Joins(b)  BY ReadBlockJoins DEF CountInv
<1>2. UNCHANGED readoutVars  BY DEF ReadBlock
<1>0. PICK n \in Nat : n = Len(Buffer)
  BY <1>1, BufferGrows DEF CountInv
<1>3. /\ pc = "idle" /\ pc' = "idle"
      /\ DOMAIN Buffer = 1 .. n /\ DOMAIN Buffer' = 1 .. n + 1
      /\ \A i \in 1 .. n : Buffer'[i] = Buffer[i]
      /\ Buffer'[n + 1] = b
  BY <1>0, <1>1, BufferGrows DEF CountInv
<1>4. Ahead(n + 1) = latest /\ Ahead(n + 1)' = b.before /\ Ahead(n + 2)' = latest'
  BY <1>3 DEF Ahead
<1>5. \A i \in 1 .. n : Ahead(i)' = Ahead(i)  BY <1>3 DEF Ahead
<1>6. \A i \in 1 .. n + 1 : Ahead(i)' = Ahead(i)
  <2>1. Ahead(n + 1)' = Ahead(n + 1)  BY <1>1, <1>4 DEF Joins
  <2>2. \A i \in 1 .. n + 1 : i \in 1 .. n \/ i = n + 1  BY <1>3
  <2>3. QED  BY <1>5, <2>1, <2>2
<1>7. ChainInv'
  <2> SUFFICES ASSUME NEW i \in 1 .. n + 1
               PROVE  /\ Ahead(i + 1)'
                           = IF Buffer'[i].good THEN Buffer'[i].head ELSE Buffer'[i].before
                      /\ Buffer'[i].good => Within(Buffer'[i].before, Buffer'[i].head, MaxGap)
    BY <1>3 DEF ChainInv
  <2>1. CASE i \in 1 .. n
    <3>1. i + 1 \in 1 .. n + 1  BY <1>3, <2>1
    <3>2. Ahead(i + 1)' = Ahead(i + 1)  BY <1>6, <3>1
    <3>3. QED  BY <1>3, <2>1, <3>2 DEF CountInv, ChainInv
  <2>2. CASE i = n + 1
    <3>1. Ahead(i + 1)' = latest'  BY <1>3, <1>4, <2>2
    <3>2. QED  BY <1>1, <1>3, <2>2, <3>1 DEF Joins
  <2>3. QED  BY <1>3, <2>1, <2>2
<1>8. ScanInv'
  <2>1. Ahead(1)' = Ahead(1)  BY <1>3, <1>6
  <2>2. QED  BY <1>2, <1>3, <2>1 DEF CountInv, ScanInv, readoutVars
<1>9. EmptyInv' /\ CounterExact'
  BY <1>2, <1>3 DEF CountInv, EmptyInv, CounterExact, readoutVars
<1>10. QED  BY <1>7, <1>8, <1>9

\* Every step but a read and the end of a buffer leaves the buffer as it is.
Works ==
  \/ TakeBuffer \/ FirstHeader \/ SkipGarbage \/ AllGarbage \/ ScanHeader \/ ScanDone
  \/ StampHit \/ NextBlock \/ UNCHANGED vars

LEMMA BufferKept ==
  ASSUME Works
  PROVE  /\ Buffer' = Buffer /\ UNCHANGED <<now, latest>>
         /\ \A i : Ahead(i)' = Ahead(i)
<1>1. Buffer' = Buffer /\ UNCHANGED <<now, latest>>
  BY DEF Works, TakeBuffer, FirstHeader, SkipGarbage, AllGarbage, ScanHeader, ScanDone, StampHit,
         NextBlock, BeginHits, Buffer, boardVars, readoutVars, vars
<1>2. QED  BY <1>1 DEF Ahead

LEMMA CountWorks == CountInv /\ Works => EmptyInv' /\ ChainInv' /\ ScanInv' /\ CounterExact'
<1> SUFFICES ASSUME CountInv, Works PROVE EmptyInv' /\ ChainInv' /\ ScanInv' /\ CounterExact'
  OBVIOUS
<1>1. Buffer' = Buffer /\ \A i : Ahead(i)' = Ahead(i)  BY BufferKept
<1>2. ChainInv'  BY <1>1 DEF CountInv, ChainInv
<1>3. EmptyInv'
  BY DEF CountInv, EmptyInv, Works, TakeBuffer, FirstHeader, SkipGarbage, AllGarbage, ScanHeader,
         ScanDone, StampHit, NextBlock, boardVars, vars
<1>4. PICK k : k = x  OBVIOUS
<1>5. x \in Nat /\ DOMAIN Buffer = 1 .. Len(Buffer)  BY DEF CountInv, TypeOK, Buffer
<1>6. CASE TakeBuffer
  <2>1. pc = "idle" /\ pc' = "first" /\ x' = 1 /\ UNCHANGED <<lastGood, resets, lastTime>>
    BY <1>6 DEF TakeBuffer
  <2>2. ScanInv'  BY <1>1, <2>1 DEF CountInv, ScanInv
  <2>3. QED  BY <1>2, <1>3, <2>1, <2>2 DEF CountInv, CounterExact
<1>7. CASE FirstHeader
  <2>1. /\ pc = "first" /\ pc' = "scan" /\ x \in DOMAIN Buffer /\ Buffer = taken
        /\ taken[x].good /\ lastGood' = taken[x].head /\ lastTime' = taken[x].head.ts
        /\ resets' = resets + (IF FellBack(lastTime, taken[x].head.ts) THEN 1 ELSE 0)
        /\ x' = IF x = 1 THEN 2 ELSE x
    BY <1>7 DEF FirstHeader, Buffer
  <2>2. lastGood = Buffer[x].before
    BY <2>1 DEF CountInv, ScanInv, Ahead
  <2>3. Within(lastGood, Buffer[x].head, MaxGap)
    BY <2>1, <2>2 DEF CountInv, ChainInv
  <2>4. lastGood \in Times /\ Buffer[x].head \in Times
    BY <2>1, BlockTypes DEF CountInv, TypeOK
  <2>5. Buffer[x].head.turn
          = lastGood.turn + (IF FellBack(lastGood.ts, Buffer[x].head.ts) THEN 1 ELSE 0)
    BY <2>3, <2>4, FellBackIsWrap
  <2>6. CounterExact'  BY <2>1, <2>5 DEF CountInv, CounterExact
  <2>7. Ahead(k + 1) = Buffer[x].head  BY <1>4, <2>1 DEF CountInv, ChainInv
  <2>8. ScanInv'
    <3>1. CASE x = 1
      <4>1. x' = k + 1  BY <1>4, <2>1, <3>1
      <4>2. lastGood' = Ahead(x)'  BY <1>1, <2>1, <2>7, <4>1
      <4>3. QED  BY <2>1, <4>2 DEF ScanInv
    <3>2. CASE x # 1
      BY <1>1, <2>1, <3>2 DEF ScanInv
    <3>3. QED  BY <3>1, <3>2
  <2>9. QED  BY <1>2, <1>3, <2>6, <2>8
<1>8. CASE ScanHeader
  <2>1. /\ pc = "scan" /\ pc' = "scan" /\ x \in DOMAIN Buffer /\ Buffer = taken /\ x' = x + 1
    BY <1>8 DEF ScanHeader, Buffer
  <2>2. CASE ~taken[x].good
    <3>1. UNCHANGED <<lastGood, resets, lastTime>>  BY <1>8, <2>2 DEF ScanHeader
    <3>2. lastGood = Ahead(x) /\ Ahead(x) = Buffer[x].before
      BY <2>1, <2>2 DEF CountInv, ScanInv, Ahead
    <3>3. Ahead(k + 1) = Buffer[x].before  BY <1>4, <2>1, <2>2 DEF CountInv, ChainInv
    <3>4. x' = k + 1  BY <1>4, <2>1
    <3>5. lastGood' = Ahead(x)'  BY <1>1, <3>1, <3>2, <3>3, <3>4
    <3>6. QED  BY <1>2, <1>3, <2>1, <3>1, <3>5 DEF CountInv, ScanInv, CounterExact
  <2>3. CASE taken[x].good
    <3>1. /\ lastGood' = taken[x].head /\ lastTime' = taken[x].head.ts
          /\ resets' = resets + (IF FellBack(lastTime, taken[x].head.ts) THEN 1 ELSE 0)
      BY <1>8, <2>3 DEF ScanHeader
    <3>2. lastGood \in Times /\ Buffer[x].head \in Times
      BY <2>1, BlockTypes DEF CountInv, TypeOK
    <3>3. Buffer[x].head.turn
            = lastGood.turn + (IF FellBack(lastGood.ts, Buffer[x].head.ts) THEN 1 ELSE 0)
      <4>1. CASE lastGood = Buffer[x].head
        BY <3>2, <4>1 DEF FellBack, Times, Ticks
      <4>2. CASE lastGood = Ahead(x)
        <5>1. Within(lastGood, Buffer[x].head, MaxGap)
          BY <2>1, <2>3, <4>2 DEF CountInv, ChainInv, Ahead
        <5>2. QED  BY <3>2, <5>1, FellBackIsWrap
      <4>3. QED  BY <2>1, <4>1, <4>2 DEF CountInv, ScanInv
    <3>4. CounterExact'  BY <2>1, <3>1, <3>3 DEF CountInv, CounterExact
    <3>5. Ahead(k + 1) = Buffer[x].head  BY <1>4, <2>1, <2>3 DEF CountInv, ChainInv
    <3>6. x' = k + 1  BY <1>4, <2>1
    <3>7. lastGood' = Ahead(x)'  BY <1>1, <2>1, <3>1, <3>5, <3>6
    <3>8. QED  BY <1>2, <1>3, <2>1, <3>4, <3>7 DEF ScanInv
  <2>4. QED  BY <2>2, <2>3
<1>9. CASE SkipGarbage
  <2>1. /\ pc = "first" /\ pc' = "first" /\ x \in DOMAIN Buffer /\ Buffer = taken /\ x' = x + 1
        /\ ~taken[x].good /\ UNCHANGED <<lastGood, resets, lastTime>>
    BY <1>9 DEF SkipGarbage, Buffer
  <2>2. lastGood = Ahead(x) /\ Ahead(x) = Buffer[x].before
    BY <2>1 DEF CountInv, ScanInv, Ahead
  <2>3. Ahead(k + 1) = Buffer[x].before  BY <1>4, <2>1 DEF CountInv, ChainInv
  <2>4. x' = k + 1  BY <1>4, <2>1
  <2>5. lastGood' = Ahead(x)'  BY <1>1, <2>1, <2>2, <2>3, <2>4
  <2>6. QED  BY <1>2, <1>3, <2>1, <2>5 DEF CountInv, ScanInv, CounterExact
<1>10. CASE AllGarbage \/ ScanDone
  <2>1. /\ pc' = "hits" /\ x \notin DOMAIN Buffer /\ UNCHANGED <<lastGood, resets, lastTime>>
        /\ latest' = latest /\ pc \in {"first", "scan"}
    BY <1>10 DEF AllGarbage, ScanDone, BeginHits, Buffer, boardVars
  <2>2. lastGood = latest  BY <2>1 DEF CountInv, ScanInv, Ahead
  <2>3. QED  BY <1>2, <1>3, <2>1, <2>2 DEF CountInv, ScanInv, CounterExact
<1>11. CASE StampHit \/ NextBlock
  <2>1. /\ pc = "hits" /\ pc' = "hits" /\ UNCHANGED <<lastGood, resets, lastTime, latest>>
    BY <1>11 DEF StampHit, NextBlock, boardVars, readoutVars
  <2>2. QED  BY <1>2, <1>3, <2>1 DEF CountInv, ScanInv, CounterExact
<1>12. CASE UNCHANGED vars
  <2>1. UNCHANGED <<pc, x, lastGood, resets, lastTime, latest>>
    BY <1>12 DEF vars, boardVars, readoutVars
  <2>2. Ahead(x)' = Ahead(x)  BY <1>1, <2>1
  <2>3. QED  BY <1>1, <1>2, <1>3, <2>1, <2>2 DEF CountInv, ScanInv, CounterExact
<1>13. QED
  BY <1>6, <1>7, <1>8, <1>9, <1>10, <1>11, <1>12 DEF Works

LEMMA CountDone == CountInv /\ HitsDone => EmptyInv' /\ ChainInv' /\ ScanInv' /\ CounterExact'
<1> SUFFICES ASSUME CountInv, HitsDone
             PROVE  EmptyInv' /\ ChainInv' /\ ScanInv' /\ CounterExact'
  OBVIOUS
<1>1. /\ pc = "hits" /\ pc' = "idle" /\ UNCHANGED <<fBuffers, latest, lastGood, resets, lastTime>>
  BY DEF HitsDone, boardVars
<1>2. Buffer' = <<>>  BY <1>1 DEF CountInv, EmptyInv, Buffer
<1>3. Ahead(1)' = latest  BY <1>1, <1>2 DEF Ahead
<1>4. QED
  BY <1>1, <1>2, <1>3 DEF CountInv, EmptyInv, ChainInv, ScanInv, CounterExact

LEMMA CountStep == CountInv /\ [Next]_vars => CountInv'
<1>1. [Next]_vars => ReadBlock \/ Works \/ HitsDone  BY DEF Next, Works
<1>2. QED
  BY <1>1, TypeStep, CountRead, CountWorks, CountDone DEF CountInv

LEMMA InitCount == Init => CountInv
<1> SUFFICES ASSUME Init PROVE CountInv
  OBVIOUS
<1>1. Buffer = <<>> /\ Ahead(1) = latest  BY DEF Init, Buffer, Ahead
<1>2. QED
  BY <1>1, InitType DEF Init, Zero, CountInv, EmptyInv, ChainInv, ScanInv, CounterExact

\* Whatever is garbage and however the blocks are grouped into readouts, the board's reset
\* counter is the number of turns of its clock at the last header that was looked at: one and
\* the same reset is counted once, between two readouts or inside one.
THEOREM CounterIsExact == Spec => []CounterExact
<1>1. CountInv => CounterExact  BY DEF CountInv
<1>2. QED  BY <1>1, InitCount, CountStep, PTL DEF Spec

-----------------------------------------------------------------------------
(* The bulk inserts of Process.                                            *)

Uniform(docs, n) == \A i \in DOMAIN docs : docs[i] = n

\* The documents that are collected all have the last reset count.
BulkInv == Uniform(pending, lastReset) /\ BulkUniform

LEMMA CollectUniform ==
  ASSUME TypeOK, BulkInv, NEW n \in Nat, Collect(n) PROVE BulkInv'
<1> DEFINE old  == IF n # lastReset THEN <<>> ELSE pending
           docs == Append(old, n)
<1>1. old \in Seq(Nat) /\ Uniform(old, n)  BY DEF TypeOK, BulkInv, Uniform
<1> HIDE DEF old
<1>2. Uniform(docs, n)  BY <1>1 DEF Uniform
<1>3. Uniform(<<>>, n)  BY DEF Uniform
<1> USE DEF old
<1>4. lastReset' = n /\ pending' \in {<<>>, docs}  BY DEF Collect
<1>5. inserted' \subseteq {Bulk(lastReset, pending), Bulk(n, docs)}  BY DEF Collect
<1> HIDE DEF docs
<1>6. Uniform(pending', lastReset')  BY <1>2, <1>3, <1>4
<1>7. \A b \in {Bulk(lastReset, pending), Bulk(n, docs)} : Uniform(b.docs, b.coll)
  BY <1>2 DEF BulkInv, Bulk
<1>8. BulkUniform'  BY <1>5, <1>7 DEF BulkUniform, Uniform
<1>9. QED  BY <1>6, <1>8 DEF BulkInv

LEMMA BulkStep == TypeOK /\ BulkInv /\ [Next]_vars => BulkInv'
<1> SUFFICES ASSUME TypeOK, BulkInv, [Next]_vars PROVE BulkInv'
  OBVIOUS
<1>1. CASE StampHit
  <2>1. TypeOK'  BY TypeStep
  <2>2. PICK n : Collect(n) /\ n = lastReset'
    BY <1>1, Zenon DEF StampHit, Collect
  <2>3. n \in Nat  BY <2>1, <2>2 DEF TypeOK
  <2>4. QED  BY <2>2, <2>3, CollectUniform
<1>2. CASE ~StampHit
  <2>1. UNCHANGED <<pending, lastReset>> /\ inserted' \in {inserted, {}}
    BY <1>2 DEF Next, ReadBlock, TakeBuffer, FirstHeader, SkipGarbage, AllGarbage, ScanHeader,
                ScanDone, BeginHits, NextBlock, HitsDone, vars, hitVars
  <2>2. QED  BY <2>1 DEF BulkInv, BulkUniform, Uniform
<1>3. QED  BY <1>1, <1>2

\* The documents of a bulk insert all belong to the collection they are inserted into,
\* whatever the order in which the channels of a buffer pass a reset.
THEOREM BulksAreUniform == Spec => []BulkUniform
<1>1. Init => BulkInv  BY DEF Init, BulkInv, BulkUniform, Uniform
<1>2. BulkInv => BulkUniform  BY DEF BulkInv
<1>3. QED  BY <1>1, <1>2, InitType, TypeStep, BulkStep, PTL DEF Spec

-----------------------------------------------------------------------------
(* The 64-bit time of a hit.                                               *)

\* The data of a buffer lie between its origin and the newest datum, the hits of a block after
\* its head and before the next block, those of a channel in their order.
SpanInv ==
  /\ Leq(latest, now)
  /\ \A i \in DOMAIN Buffer :
       /\ Leq(Buffer[i].before, Buffer[i].head) /\ Leq(Buffer[i].head, now)
       /\ \A j \in DOMAIN Buffer[i].hits :
            Leq(Buffer[i].head, Buffer[i].hits[j].at) /\ Leq(Buffer[i].hits[j].at, now)
       /\ \A j, k \in DOMAIN Buffer[i].hits :
            j < k /\ Buffer[i].hits[j].ch = Buffer[i].hits[k].ch
              => Follows(Buffer[i].hits[j], Buffer[i].hits[k])
       /\ LateInv(Buffer[i])
  /\ \A i, k \in DOMAIN Buffer : i < k =>
       /\ Leq(Buffer[i].head, Buffer[k].head)
       /\ \A j \in DOMAIN Buffer[i].hits : Leq(Buffer[i].hits[j].at, Buffer[k].head)
  /\ Buffer # <<>> => Within(Origin(Buffer, Buffer[1].before), now, MaxSpan)
  /\ Buffer # <<>> /\ ~SomeGood(Buffer) => latest = Buffer[1].before

\* What the header's time and the counter that goes with it stand for.
Reference == [turn |-> batch, ts |-> headerTime]

\* It is the first good header of the buffer or, when there is none, the one before it.
RefInv ==
  /\ pc # "idle" => Buffer # <<>>
  /\ pc = "first" =>
       lastGood = Buffer[1].before /\ \A i \in DOMAIN Buffer : i < x => ~Buffer[i].good
  /\ pc \in {"scan", "hits"} =>
       \/ \E i \in DOMAIN Buffer : Buffer[i].good /\ Reference = Buffer[i].head
       \/ ~SomeGood(Buffer) /\ Reference = Buffer[1].before

\* The last hit of a channel was late, and its true time.
WasLate(c) == prev[c] >= Wrap
Last(c) ==
  IF WasLate(c) THEN [turn |-> counter[c] + 1, ts |-> prev[c] - Wrap]
                ELSE [turn |-> counter[c], ts |-> prev[c]]

\* The hits the loop has still to look at.
ToCome(i, j) == i \in DOMAIN Buffer /\ j \in DOMAIN Buffer[i].hits /\ (i > x \/ (i = x /\ j >= y))

\* A channel that was not seen has the counter of the header; one that was seen has the time
\* of its last hit, and its next hits come later. So it is until a block counts as time 0.
HitInv ==
  pc = "hits" /\ NoZeroUpTo(x) => \A c \in Channels :
    /\ ~seen[c] => counter[c] = batch /\ prev[c] = 0
    /\ seen[c] =>
         /\ Leq(Origin(Buffer, Buffer[1].before), Last(c))
         /\ WasLate(c) => Origin(Buffer, Buffer[1].before).turn < Last(c).turn
         /\ \A i \in DOMAIN Buffer : \A j \in DOMAIN Buffer[i].hits :
              ToCome(i, j) /\ Buffer[i].hits[j].ch = c =>
                /\ Leq(Last(c), Buffer[i].hits[j].at)
                /\ Last(c).turn = Buffer[i].hits[j].at.turn /\ Buffer[i].hits[j].late => WasLate(c)

TimeInv == CountInv /\ SpanInv /\ RefInv /\ HitInv

\* What Process takes for the time of a hit and the turn it should have counted there.
Shown(t, late) == t.ts + (IF late THEN Wrap ELSE 0)
Base(t, late)  == t.turn - (IF late THEN 1 ELSE 0)

LEMMA TurnFromReference ==
  ASSUME NEW o \in Times, NEW r \in Times, NEW h \in Times, NEW n \in Times, NEW late \in BOOLEAN,
         Leq(o, r), Leq(r, n), Leq(o, h), Leq(h, n), Within(o, n, MaxSpan),
         late => o.turn < h.turn
  PROVE  Base(h, late) = IF Apart(r.ts, Shown(h, late)) <= Far THEN r.turn
                         ELSE IF Shown(h, late) > r.ts /\ r.turn # 0 THEN r.turn - 1
                         ELSE r.turn + 1
<1>1. /\ o.turn \in Nat /\ o.ts \in 0 .. Wrap - 1 /\ r.turn \in Nat /\ r.ts \in 0 .. Wrap - 1
      /\ h.turn \in Nat /\ h.ts \in 0 .. Wrap - 1 /\ n.turn \in Nat /\ n.ts \in 0 .. Wrap - 1
  BY DEF Times, Ticks
<1>2. Within(r, h, MaxSpan) \/ Within(h, r, MaxSpan)
  BY <1>1, ClockAssumption DEF Within, Leq
<1>3. CASE ~late
  <2>1. Base(h, late) = h.turn /\ Shown(h, late) = h.ts  BY <1>1, <1>3 DEF Base, Shown
  <2>2. Apart(r.ts, h.ts) = IF r.ts > h.ts THEN r.ts - h.ts ELSE h.ts - r.ts
    BY <1>1, ClockAssumption DEF Apart
  <2>3. QED  BY <1>1, <1>2, <2>1, <2>2, ClockAssumption DEF Within
<1>4. CASE late
  <2>1. Base(h, late) = h.turn - 1 /\ Shown(h, late) = h.ts + Wrap
    BY <1>4 DEF Base, Shown
  <2>2. h.turn = o.turn + 1 /\ (r.turn = o.turn \/ r.turn = o.turn + 1)
    BY <1>1, <1>4, ClockAssumption DEF Within, Leq
  <2>3. CASE r.turn = o.turn
    <3>1. h.ts + Wrap <= r.ts + MaxSpan  BY <1>1, <1>2, <2>2, <2>3, ClockAssumption DEF Within
    <3>2. Apart(r.ts, h.ts + Wrap) = h.ts + Wrap - r.ts
      BY <1>1, <3>1, ClockAssumption DEF Apart
    <3>3. QED  BY <1>1, <2>1, <2>2, <2>3, <3>1, <3>2, ClockAssumption
  <2>4. CASE r.turn = o.turn + 1
    <3>1. h.ts <= r.ts + MaxSpan /\ r.ts <= h.ts + MaxSpan
      BY <1>1, <1>2, <2>2, <2>4, ClockAssumption DEF Within
    <3>2. Apart(r.ts, h.ts + Wrap) > Far
      BY <1>1, <3>1, ClockAssumption DEF Apart
    <3>3. h.ts + Wrap > r.ts /\ r.turn # 0 /\ h.turn - 1 = r.turn - 1
      BY <1>1, <2>2, <2>4, ClockAssumption
    <3>4. Apart(r.ts, h.ts + Wrap) \in Int /\ Far \in Int
      BY <1>1, ClockAssumption DEF Apart
    <3>5. ~(Apart(r.ts, h.ts + Wrap) <= Far)  BY <3>2, <3>4
    <3>6. QED  BY <2>1, <3>3, <3>5
  <2>5. QED  BY <2>2, <2>3, <2>4
<1>5. QED  BY <1>3, <1>4

LEMMA TurnFromLast ==
  ASSUME NEW o \in Times, NEW l \in Times, NEW h \in Times, NEW n \in Times,
         NEW first \in BOOLEAN, NEW late \in BOOLEAN,
         Leq(o, l), Leq(l, h), Leq(h, n), Within(o, n, MaxSpan),
         first => o.turn < l.turn, l.turn = h.turn /\ late => first
  PROVE  Base(h, late)
           = Base(l, first) + (IF Shown(h, late) < Shown(l, first) THEN 1 ELSE 0)
<1>1. Within(l, h, MaxSpan)  BY WithinSpan
<1>2. /\ l.turn \in Nat /\ l.ts \in 0 .. Wrap - 1 /\ h.turn \in Nat /\ h.ts \in 0 .. Wrap - 1
      /\ o.turn \in Nat /\ n.turn \in Nat /\ o.ts \in 0 .. Wrap - 1 /\ n.ts \in 0 .. Wrap - 1
  BY DEF Times, Ticks
<1>3. h.turn <= o.turn + 1  BY <1>2 DEF Within, Leq
<1>4. CASE l.turn = h.turn
  <2>1. l.ts <= h.ts  BY <1>2, <1>4 DEF Leq
  <2>2. QED  BY <1>2, <1>4, <2>1, ClockAssumption DEF Base, Shown
<1>5. CASE h.turn = l.turn + 1
  <2>1. h.ts < l.ts  BY <1>1, <1>2, <1>5, ClockAssumption DEF Within
  <2>2. ~first  BY <1>2, <1>3, <1>5
  <2>3. QED  BY <1>2, <1>5, <2>1, <2>2, ClockAssumption DEF Base, Shown
<1>6. QED  BY <1>1, <1>4, <1>5 DEF Within

\* All that is in a buffer lies between its origin and the newest datum.
LEMMA BufferSpan ==
  ASSUME TypeOK, SpanInv, Buffer # <<>>, NEW o, o = Origin(Buffer, Buffer[1].before)
  PROVE  /\ o \in Times /\ now \in Times /\ Within(o, now, MaxSpan)
         /\ Leq(o, Buffer[1].before) \/ SomeGood(Buffer)
         /\ Leq(Buffer[1].before, now)
         /\ \A i \in DOMAIN Buffer :
              /\ Leq(o, Buffer[i].head) /\ Leq(Buffer[i].head, now)
              /\ \A j \in DOMAIN Buffer[i].hits :
                   /\ Leq(o, Buffer[i].hits[j].at) /\ Leq(Buffer[i].hits[j].at, now)
                   /\ Buffer[i].hits[j].late => o.turn < Buffer[i].hits[j].at.turn
<1>1. /\ Buffer \in Seq(Blocks) /\ 1 \in DOMAIN Buffer /\ now \in Times
      /\ \A i \in DOMAIN Buffer : i \in Nat /\ (1 < i \/ i = 1)
  BY DEF TypeOK, Buffer
<1>2. /\ Buffer[1].head \in Times /\ Buffer[1].before \in Times
      /\ Leq(Buffer[1].before, Buffer[1].head) /\ Leq(Buffer[1].head, now)
  BY <1>1, BlockTypes DEF SpanInv
<1>3. o \in Times /\ Leq(o, Buffer[1].head) /\ (o = Buffer[1].before \/ SomeGood(Buffer))
  BY <1>2, LeqReflexive DEF Origin
<1>4. Leq(Buffer[1].before, now) /\ Leq(Buffer[1].before, Buffer[1].before)
  BY <1>1, <1>2, LeqTransitive, LeqReflexive
<1>5. ASSUME NEW i \in DOMAIN Buffer
      PROVE  /\ Leq(o, Buffer[i].head) /\ Leq(Buffer[i].head, now)
             /\ \A j \in DOMAIN Buffer[i].hits :
                  /\ Leq(o, Buffer[i].hits[j].at) /\ Leq(Buffer[i].hits[j].at, now)
                  /\ Buffer[i].hits[j].late => o.turn < Buffer[i].hits[j].at.turn
  <2>1. Buffer[i].head \in Times /\ \A j \in DOMAIN Buffer[i].hits : Buffer[i].hits[j].at \in Times
    BY <1>5, BlockTypes
  <2>2. Leq(Buffer[1].head, Buffer[i].head)
    BY <1>1, <1>2, LeqReflexive DEF SpanInv
  <2>3. Leq(o, Buffer[i].head)  BY <1>2, <1>3, <2>1, <2>2, LeqTransitive
  <2>4. Leq(Buffer[i].head, now)
        /\ \A j \in DOMAIN Buffer[i].hits :
             Leq(Buffer[i].head, Buffer[i].hits[j].at) /\ Leq(Buffer[i].hits[j].at, now)
    BY DEF SpanInv
  <2>5. \A j \in DOMAIN Buffer[i].hits : Leq(o, Buffer[i].hits[j].at)
    BY <1>3, <2>1, <2>3, <2>4, LeqTransitive
  <2>7. \A j \in DOMAIN Buffer[i].hits :
          Buffer[i].hits[j].late => Buffer[i].head.turn < Buffer[i].hits[j].at.turn
    BY DEF SpanInv, LateInv
  <2>8. o.turn <= Buffer[i].head.turn  BY <1>3, <2>1, <2>3 DEF Leq, Times
  <2>9. \A j \in DOMAIN Buffer[i].hits :
          Buffer[i].hits[j].late => o.turn < Buffer[i].hits[j].at.turn
    BY <1>3, <2>1, <2>7, <2>8 DEF Times
  <2>6. QED  BY <2>3, <2>4, <2>5, <2>9
<1>6. Within(o, now, MaxSpan)  BY DEF SpanInv
<1>7. QED  BY <1>1, <1>3, <1>4, <1>5, <1>6

\* With the counter that Process gives to a hit, what it takes for the hit's time is true.
LEMMA HitIsExact ==
  ASSUME TimeInv, StampHit, NoZeroUpTo(x), NEW hit, hit = taken[x].hits[y]
  PROVE  /\ Shows(taken[x], hit) = Shown(hit.at, hit.late)
         /\ Counted(hit.ch, Shows(taken[x], hit)) = Base(hit.at, hit.late)
<1>1. /\ pc = "hits" /\ x \in DOMAIN Buffer /\ y \in DOMAIN Buffer[x].hits /\ Buffer = taken
      /\ Buffer # <<>>
  BY DEF StampHit, Buffer
<1>2. PICK o : o = Origin(Buffer, Buffer[1].before)  OBVIOUS
<1>3. PICK c, h, late : c = hit.ch /\ h = hit.at /\ late = hit.late  OBVIOUS
<1>4. c \in Channels /\ h \in Times /\ late \in BOOLEAN
  BY <1>1, <1>3, BlockTypes DEF TimeInv, CountInv
<1>11. x \in Nat /\ y \in Nat  BY DEF TimeInv, CountInv, TypeOK
<1>12. Shows(taken[x], hit) = Shown(h, late)
  <2>1. whole => taken[x].good  BY <1>1, <1>11 DEF NoZeroUpTo
  <2>2. QED  BY <1>3, <2>1 DEF Shows, Shown
<1>5. /\ o \in Times /\ now \in Times /\ Within(o, now, MaxSpan)
      /\ Leq(o, Buffer[1].before) \/ SomeGood(Buffer)
      /\ Leq(Buffer[1].before, now)
      /\ \A i \in DOMAIN Buffer :
           /\ Leq(o, Buffer[i].head) /\ Leq(Buffer[i].head, now)
           /\ \A j \in DOMAIN Buffer[i].hits :
                /\ Leq(o, Buffer[i].hits[j].at) /\ Leq(Buffer[i].hits[j].at, now)
                /\ Buffer[i].hits[j].late => o.turn < Buffer[i].hits[j].at.turn
  BY <1>1, <1>2, BufferSpan DEF TimeInv, CountInv
<1>6. Leq(o, h) /\ Leq(h, now) /\ (late => o.turn < h.turn)  BY <1>1, <1>3, <1>5
<1>7. /\ counter[c] \in Nat /\ prev[c] \in 0 .. 2 * Wrap - 1 /\ batch \in Nat
      /\ headerTime \in Ticks
  BY <1>4 DEF TimeInv, CountInv, TypeOK
<1>13. Shown(h, late) \in Nat  BY <1>4, ClockAssumption DEF Shown, Times, Ticks
<1>8. CASE ~seen[c]
  <2>1. counter[c] = batch /\ prev[c] = 0  BY <1>1, <1>4, <1>8 DEF TimeInv, HitInv
  <2>2. Reference \in Times /\ Leq(o, Reference) /\ Leq(Reference, now)
    BY <1>1, <1>5, <1>7 DEF TimeInv, RefInv, Reference, Times
  <2>3. Reference.turn = batch /\ Reference.ts = headerTime  BY DEF Reference
  <2>4. Base(h, late) = IF Apart(headerTime, Shown(h, late)) <= Far THEN batch
                        ELSE IF Shown(h, late) > headerTime /\ batch # 0 THEN batch - 1
                        ELSE batch + 1
    BY <1>4, <1>5, <1>6, <2>2, <2>3, TurnFromReference
  <2>5. ~(Shown(h, late) < prev[c])  BY <1>13, <2>1
  <2>6. Counted(c, Shown(h, late)) = CorrectedOnce(c, Shown(h, late))
    <3>1. CorrectedOnce(c, Shown(h, late)) \in Int  BY <1>7 DEF CorrectedOnce
    <3>2. QED  BY <2>5, <3>1 DEF Counted
  <2>7. QED  BY <1>3, <1>8, <1>12, <2>1, <2>4, <2>6 DEF CorrectedOnce
<1>9. CASE seen[c]
  <2>1. /\ Leq(o, Last(c)) /\ Leq(Last(c), h)
        /\ WasLate(c) => o.turn < Last(c).turn
        /\ Last(c).turn = h.turn /\ late => WasLate(c)
    <3>1. Leq(o, Last(c)) /\ (WasLate(c) => o.turn < Last(c).turn)
      BY <1>1, <1>2, <1>4, <1>9 DEF TimeInv, HitInv
    <3>2. ToCome(x, y)  BY <1>1, <1>11 DEF ToCome
    <3>3. Leq(Last(c), h) /\ (Last(c).turn = h.turn /\ late => WasLate(c))
      BY <1>1, <1>3, <1>4, <1>9, <3>2 DEF TimeInv, HitInv
    <3>4. QED  BY <3>1, <3>3
  <2>2. /\ Last(c) \in Times /\ WasLate(c) \in BOOLEAN
        /\ Base(Last(c), WasLate(c)) = counter[c] /\ Shown(Last(c), WasLate(c)) = prev[c]
    BY <1>7, ClockAssumption DEF Last, WasLate, Times, Ticks, Base, Shown
  <2>3. Base(h, late) = counter[c] + (IF Shown(h, late) < prev[c] THEN 1 ELSE 0)
    BY <1>4, <1>5, <1>6, <2>1, <2>2, TurnFromLast
  <2>4. QED  BY <1>3, <1>9, <1>12, <2>3 DEF Counted, CorrectedOnce
<1>10. QED  BY <1>8, <1>9

-----------------------------------------------------------------------------
(* TimeInv is inductive.                                                   *)

LEMMA SpanRead == ASSUME TypeOK, SpanInv, ReadBlock PROVE SpanInv'
<1>1. PICK b : Joins(b)  BY ReadBlockJoins
<1>2. PICK n \in Nat : n = Len(Buffer)  BY <1>1, BufferGrows
<1>3. /\ pc = "idle" /\ Buffer = fBuffers /\ Buffer' = Append(fBuffers, b)
      /\ DOMAIN Buffer = 1 .. n /\ DOMAIN Buffer' = 1 .. n + 1
      /\ \A i \in 1 .. n : Buffer'[i] = Buffer[i]
      /\ Buffer'[n + 1] = b
      /\ \A i \in 1 .. n + 1 : i \in 1 .. n \/ i = n + 1
  BY <1>1, <1>2, BufferGrows DEF Buffer
<1>4. /\ b.before = latest /\ Leq(now, b.head) /\ Leq(b.head, now')
      /\ \A j \in DOMAIN b.hits : Leq(b.head, b.hits[j].at) /\ Leq(b.hits[j].at, now')
      /\ \A j, k \in DOMAIN b.hits :
           j < k /\ b.hits[j].ch = b.hits[k].ch => Follows(b.hits[j], b.hits[k])
      /\ LateInv(b)
      /\ Within(Origin(Append(fBuffers, b), latest), now', MaxSpan)
      /\ latest' = IF b.good THEN b.head ELSE latest
  BY <1>1 DEF Joins
<1>5. /\ b.head \in Times /\ now \in Times /\ now' \in Times /\ latest \in Times
      /\ \A j \in DOMAIN b.hits : b.hits[j].at \in Times
  <2>1. TypeOK'  BY ReadBlockType
  <2>2. b \in Blocks  BY <1>1 DEF Joins
  <2>3. b.hits \in Seq(Hits) /\ b.head \in Times  BY <2>2 DEF Blocks
  <2>4. \A j \in DOMAIN b.hits : b.hits[j] \in Hits  BY <2>3
  <2>5. now \in Times /\ now' \in Times /\ latest \in Times  BY <2>1 DEF TypeOK
  <2>6. QED  BY <2>3, <2>4, <2>5 DEF Hits
<1>6. Leq(now, now')  BY <1>4, <1>5, LeqTransitive
<1>7. Leq(latest, now) /\ Leq(latest, b.head)
  BY <1>4, <1>5, LeqTransitive DEF SpanInv
<1>8. Leq(latest', now')  BY <1>4, <1>5, <1>6, <1>7, LeqTransitive
<1>9. ASSUME NEW i \in 1 .. n + 1
      PROVE  /\ Leq(Buffer'[i].before, Buffer'[i].head) /\ Leq(Buffer'[i].head, now')
             /\ \A j \in DOMAIN Buffer'[i].hits :
                  Leq(Buffer'[i].head, Buffer'[i].hits[j].at) /\ Leq(Buffer'[i].hits[j].at, now')
             /\ \A j, k \in DOMAIN Buffer'[i].hits :
                  j < k /\ Buffer'[i].hits[j].ch = Buffer'[i].hits[k].ch
                    => Follows(Buffer'[i].hits[j], Buffer'[i].hits[k])
             /\ LateInv(Buffer'[i])
  <2>1. CASE i \in 1 .. n
    <3>1. /\ Buffer'[i] = Buffer[i] /\ i \in DOMAIN Buffer /\ Buffer[i].head \in Times
          /\ \A j \in DOMAIN Buffer[i].hits : Buffer[i].hits[j].at \in Times
      BY <1>3, <2>1, BlockTypes
    <3>2. /\ Leq(Buffer[i].before, Buffer[i].head) /\ Leq(Buffer[i].head, now)
          /\ \A j \in DOMAIN Buffer[i].hits :
               Leq(Buffer[i].head, Buffer[i].hits[j].at) /\ Leq(Buffer[i].hits[j].at, now)
          /\ \A j, k \in DOMAIN Buffer[i].hits :
               j < k /\ Buffer[i].hits[j].ch = Buffer[i].hits[k].ch
                 => Follows(Buffer[i].hits[j], Buffer[i].hits[k])
          /\ LateInv(Buffer[i])
      BY <3>1 DEF SpanInv
    <3>3. /\ Leq(Buffer[i].head, now')
          /\ \A j \in DOMAIN Buffer[i].hits : Leq(Buffer[i].hits[j].at, now')
      BY <1>5, <1>6, <3>1, <3>2, LeqTransitive
    <3>4. QED  BY <3>1, <3>2, <3>3
  <2>2. CASE i = n + 1
    BY <1>3, <1>4, <1>7, <2>2
  <2>3. QED  BY <1>3, <2>1, <2>2
<1>10. ASSUME NEW i \in 1 .. n + 1, NEW k \in 1 .. n + 1, i < k
       PROVE  /\ Leq(Buffer'[i].head, Buffer'[k].head)
              /\ \A j \in DOMAIN Buffer'[i].hits : Leq(Buffer'[i].hits[j].at, Buffer'[k].head)
  <2>1. i \in 1 .. n  BY <1>2, <1>10
  <2>2. /\ Buffer'[i] = Buffer[i] /\ i \in DOMAIN Buffer /\ Buffer[i].head \in Times
        /\ \A j \in DOMAIN Buffer[i].hits : Buffer[i].hits[j].at \in Times
    BY <1>3, <2>1, BlockTypes
  <2>3. CASE k \in 1 .. n
    <3>1. Buffer'[k] = Buffer[k] /\ k \in DOMAIN Buffer  BY <1>3, <2>3
    <3>2. QED  BY <1>10, <2>2, <3>1 DEF SpanInv
  <2>4. CASE k = n + 1
    <3>1. /\ Leq(Buffer[i].head, now)
          /\ \A j \in DOMAIN Buffer[i].hits : Leq(Buffer[i].hits[j].at, now)
      BY <2>2 DEF SpanInv
    <3>2. /\ Leq(Buffer[i].head, b.head)
          /\ \A j \in DOMAIN Buffer[i].hits : Leq(Buffer[i].hits[j].at, b.head)
      BY <1>4, <1>5, <2>2, <3>1, LeqTransitive
    <3>3. QED  BY <1>3, <2>2, <2>4, <3>2
  <2>5. QED  BY <1>3, <2>3, <2>4
<1>11. ~SomeGood(Buffer') => Buffer'[1].before = latest /\ latest' = latest
  <2> SUFFICES ASSUME ~SomeGood(Buffer') PROVE Buffer'[1].before = latest /\ latest' = latest
    OBVIOUS
  <2>1. n + 1 \in 1 .. n + 1 /\ \A i \in 1 .. n : i \in 1 .. n + 1  BY <1>2
  <2>2. ~b.good /\ \A i \in 1 .. n : ~Buffer[i].good  BY <1>3, <2>1 DEF SomeGood
  <2>3. latest' = latest  BY <1>4, <2>2
  <2>4. CASE n = 0
    BY <1>3, <1>4, <2>3, <2>4
  <2>5. CASE n # 0
    <3>1. 1 \in 1 .. n  BY <1>2, <2>5
    <3>2. Buffer # <<>> /\ ~SomeGood(Buffer)  BY <1>3, <2>2, <3>1 DEF SomeGood
    <3>3. QED  BY <1>3, <2>3, <3>1, <3>2 DEF SpanInv
  <2>6. QED  BY <2>4, <2>5
<1>12. Within(Origin(Buffer', Buffer'[1].before), now', MaxSpan)
  BY <1>3, <1>4, <1>11 DEF Origin
<1>13. ~SomeGood(Buffer') => latest' = Buffer'[1].before
  BY <1>11
<1>14. QED
  BY <1>3, <1>8, <1>9, <1>10, <1>12, <1>13 DEF SpanInv

LEMMA SpanStep == ASSUME CountInv, SpanInv, [Next]_vars PROVE SpanInv'
<1>1. CASE ReadBlock
  BY <1>1, SpanRead DEF CountInv
<1>2. CASE Works
  <2>1. Buffer' = Buffer /\ UNCHANGED <<now, latest>>  BY <1>2, BufferKept
  <2>2. QED  BY <2>1 DEF SpanInv
<1>3. CASE HitsDone
  <2>1. Buffer' = <<>> /\ UNCHANGED <<now, latest>>
    BY <1>3 DEF HitsDone, CountInv, EmptyInv, Buffer, boardVars
  <2>2. QED  BY <2>1 DEF SpanInv
<1>4. QED  BY <1>1, <1>2, <1>3 DEF Next, Works

LEMMA RefStep == ASSUME CountInv, SpanInv, RefInv, [Next]_vars PROVE RefInv'
<1>1. CASE ReadBlock \/ HitsDone
  BY <1>1 DEF ReadBlock, HitsDone, RefInv
<1>2. CASE Works
  <2>1. Buffer' = Buffer  BY <1>2, BufferKept
  <2>2. SomeGood(Buffer)' = SomeGood(Buffer)  BY <2>1 DEF SomeGood
  <2>3. CASE TakeBuffer
    <3>1. /\ pc = "idle" /\ pc' = "first" /\ x' = 1 /\ lastGood' = lastGood
          /\ Buffer = fBuffers /\ Buffer # <<>>
      BY <2>3 DEF TakeBuffer, Buffer
    <3>2. Buffer \in Seq(Blocks)  BY DEF CountInv, TypeOK, Buffer
    <3>3. 1 \in DOMAIN Buffer /\ \A i \in DOMAIN Buffer : ~(i < 1)  BY <3>1, <3>2
    <3>4. lastGood = Buffer[1].before  BY <3>1, <3>3 DEF CountInv, ScanInv, Ahead
    <3>5. QED  BY <2>1, <3>1, <3>3, <3>4 DEF RefInv
  <2>4. CASE FirstHeader
    <3>1. /\ pc = "first" /\ pc' = "scan" /\ x \in DOMAIN Buffer /\ Buffer = taken
          /\ Buffer[x].good /\ lastGood' = Buffer[x].head
          /\ batch' = resets' /\ headerTime' = lastTime'
      BY <2>4 DEF FirstHeader, Buffer
    <3>2. CounterExact'  BY CountStep DEF CountInv
    <3>3. Buffer[x].head \in Times  BY <3>1, BlockTypes DEF CountInv
    <3>4. Reference' = Buffer[x].head
      BY <3>1, <3>2, <3>3 DEF CounterExact, Reference, Times
    <3>5. QED  BY <2>1, <3>1, <3>4 DEF RefInv
  <2>5. CASE SkipGarbage
    <3>1. /\ pc = "first" /\ pc' = "first" /\ x \in DOMAIN Buffer /\ Buffer = taken
          /\ ~Buffer[x].good /\ x' = x + 1 /\ lastGood' = lastGood
      BY <2>5 DEF SkipGarbage, Buffer
    <3>2. x \in Nat /\ DOMAIN Buffer \subseteq Nat  BY DEF CountInv, TypeOK, Buffer
    <3>3. \A i \in DOMAIN Buffer : i < x' => ~Buffer[i].good
      BY <3>1, <3>2 DEF RefInv
    <3>4. QED  BY <2>1, <3>1, <3>3 DEF RefInv
  <2>6. CASE AllGarbage
    <3>1. /\ pc = "first" /\ pc' = "hits" /\ x \notin DOMAIN Buffer /\ Buffer = taken
          /\ headerTime' = lastTime /\ batch' = resets
      BY <2>6 DEF AllGarbage, BeginHits, Buffer
    <3>2. x \in 1 .. Len(Buffer) + 1 /\ DOMAIN Buffer = 1 .. Len(Buffer)
      BY <3>1 DEF CountInv, TypeOK, Buffer
    <3>3. \A i \in DOMAIN Buffer : i < x  BY <3>1, <3>2
    <3>4. ~SomeGood(Buffer)  BY <3>1, <3>3 DEF RefInv, SomeGood
    <3>5. lastGood \in Times /\ lastGood = Buffer[1].before
      BY <3>1 DEF RefInv, CountInv, TypeOK
    <3>6. Reference' = Buffer[1].before
      BY <3>1, <3>5 DEF CountInv, CounterExact, Reference, Times
    <3>7. QED  BY <2>1, <2>2, <3>1, <3>4, <3>6 DEF RefInv
  <2>7. CASE ScanHeader \/ ScanDone \/ StampHit \/ NextBlock
    <3>1. /\ pc \in {"scan", "hits"} /\ pc' \in {"scan", "hits"}
          /\ UNCHANGED <<batch, headerTime>>
      BY <2>7 DEF ScanHeader, ScanDone, StampHit, NextBlock, BeginHits, readoutVars
    <3>2. Reference' = Reference  BY <3>1 DEF Reference
    <3>3. QED  BY <2>1, <2>2, <3>1, <3>2 DEF RefInv
  <2>8. CASE UNCHANGED vars
    <3>1. UNCHANGED <<pc, x, lastGood, batch, headerTime>>
      BY <2>8 DEF vars, boardVars, readoutVars
    <3>2. Reference' = Reference  BY <3>1 DEF Reference
    <3>3. QED  BY <2>1, <2>2, <3>1, <3>2 DEF RefInv
  <2>9. QED  BY <1>2, <2>3, <2>4, <2>5, <2>6, <2>7, <2>8 DEF Works
<1>3. QED  BY <1>1, <1>2 DEF Next, Works

LEMMA HitStamped == ASSUME TimeInv, StampHit PROVE HitInv'
<1>1. /\ pc = "hits" /\ pc' = "hits" /\ x \in DOMAIN Buffer /\ y \in DOMAIN Buffer[x].hits
      /\ Buffer = taken /\ Buffer # <<>> /\ x' = x /\ y' = y + 1
      /\ UNCHANGED <<whole, batch, taken>>
  BY DEF StampHit, Buffer, readoutVars
<1>2. Buffer' = Buffer  BY <1>1 DEF Buffer
<1>13. SUFFICES ASSUME NoZeroUpTo(x) PROVE HitInv'
  BY <1>1 DEF NoZeroUpTo, HitInv
<1>3. PICK o : o = Origin(Buffer, Buffer[1].before)  OBVIOUS
<1>4. PICK h : h = taken[x].hits[y]  OBVIOUS
<1>5. h.ch \in Channels /\ h.at \in Times /\ h.late \in BOOLEAN
  BY <1>1, <1>4, BlockTypes DEF TimeInv, CountInv
<1>6. /\ counter' = [counter EXCEPT ![h.ch] = Base(h.at, h.late)]
      /\ seen' = [seen EXCEPT ![h.ch] = TRUE]
      /\ prev' = [prev EXCEPT ![h.ch] = Shown(h.at, h.late)]
  BY <1>4, <1>13, HitIsExact DEF StampHit
<1>7. /\ x \in Nat /\ y \in Nat /\ counter \in [Channels -> Nat]
      /\ prev \in [Channels -> 0 .. 2 * Wrap - 1]
      /\ seen \in [Channels -> BOOLEAN] /\ DOMAIN Buffer \subseteq Nat
      /\ \A i \in DOMAIN Buffer : DOMAIN Buffer[i].hits \subseteq Nat
  <2>1. \A i \in DOMAIN Buffer : DOMAIN Buffer[i].hits \subseteq Nat
    <3>1. \A i \in DOMAIN Buffer : Buffer[i].hits \in Seq(Hits)
      BY BlockTypes DEF TimeInv, CountInv
    <3>2. QED  BY <3>1
  <2>2. QED  BY <2>1 DEF TimeInv, CountInv, TypeOK, Buffer
<1>8. Leq(o, h.at) /\ (h.late => o.turn < h.at.turn)
  BY <1>1, <1>3, <1>4, BufferSpan DEF TimeInv, CountInv
<1>9. ASSUME NEW i \in DOMAIN Buffer, NEW j \in DOMAIN Buffer[i].hits, ToCome(i, j)'
      PROVE  ToCome(i, j) /\ (Buffer[i].hits[j].ch = h.ch => Follows(h, Buffer[i].hits[j]))
  <2>1. i > x \/ (i = x /\ j >= y + 1)  BY <1>1, <1>2, <1>9 DEF ToCome
  <2>2. i \in Nat /\ j \in Nat  BY <1>7
  <2>3. ToCome(i, j)  BY <1>7, <2>1, <2>2 DEF ToCome
  <2>4. CASE i > x
    <3>1. Leq(h.at, Buffer[i].head) /\ Leq(Buffer[i].head, Buffer[i].hits[j].at)
      BY <1>1, <1>4, <1>7, <2>2, <2>4 DEF TimeInv, SpanInv
    <3>2. Buffer[i].head \in Times /\ Buffer[i].hits[j].at \in Times
      BY BlockTypes DEF TimeInv, CountInv
    <3>3. Leq(h.at, Buffer[i].hits[j].at)  BY <1>5, <3>1, <3>2, LeqTransitive
    <3>4. Buffer[i].hits[j].late => Buffer[i].head.turn < Buffer[i].hits[j].at.turn
      BY DEF TimeInv, SpanInv, LateInv
    <3>5. h.at.turn <= Buffer[i].head.turn  BY <1>5, <3>1, <3>2 DEF Leq, Times
    <3>6. Buffer[i].hits[j].late => h.at.turn # Buffer[i].hits[j].at.turn
      BY <1>5, <3>2, <3>4, <3>5 DEF Times
    <3>7. QED  BY <2>3, <3>3, <3>6 DEF Follows
  <2>5. CASE i = x /\ j >= y + 1
    <3>1. y < j  BY <1>7, <2>2, <2>5
    <3>2. QED  BY <1>1, <1>4, <2>3, <2>5, <3>1 DEF TimeInv, SpanInv
  <2>6. QED  BY <2>1, <2>4, <2>5
<1>10. ASSUME NEW c \in Channels
       PROVE  /\ ~seen'[c] => counter'[c] = batch' /\ prev'[c] = 0
              /\ seen'[c] =>
                   /\ Leq(o, Last(c)')
                   /\ WasLate(c)' => o.turn < Last(c)'.turn
                   /\ \A i \in DOMAIN Buffer : \A j \in DOMAIN Buffer[i].hits :
                        ToCome(i, j)' /\ Buffer[i].hits[j].ch = c =>
                          /\ Leq(Last(c)', Buffer[i].hits[j].at)
                          /\ Last(c)'.turn = Buffer[i].hits[j].at.turn /\ Buffer[i].hits[j].late
                               => WasLate(c)'
  <2>1. CASE c = h.ch
    <3>1. seen'[c] /\ counter'[c] = Base(h.at, h.late) /\ prev'[c] = Shown(h.at, h.late)
      BY <1>5, <1>6, <1>7, <2>1
    <3>2. h.at.turn \in Nat /\ h.at.ts \in 0 .. Wrap - 1 /\ h.at = [turn |-> h.at.turn, ts |-> h.at.ts]
      BY <1>5 DEF Times, Ticks
    <3>3. WasLate(c)' <=> h.late
      BY <1>5, <3>1, <3>2, ClockAssumption DEF WasLate, Shown
    <3>4. Last(c)' = h.at
      <4>1. CASE h.late
        <5>1. counter'[c] + 1 = h.at.turn /\ prev'[c] - Wrap = h.at.ts
          BY <3>1, <3>2, <4>1, ClockAssumption DEF Base, Shown
        <5>2. QED  BY <3>2, <3>3, <4>1, <5>1 DEF Last
      <4>2. CASE ~h.late
        <5>1. counter'[c] = h.at.turn /\ prev'[c] = h.at.ts
          BY <3>1, <3>2, <4>2 DEF Base, Shown
        <5>2. QED  BY <3>2, <3>3, <4>2, <5>1 DEF Last
      <4>3. QED  BY <4>1, <4>2
    <3>5. QED  BY <1>8, <1>9, <2>1, <3>1, <3>3, <3>4 DEF Follows
  <2>2. CASE c # h.ch
    <3>1. seen'[c] = seen[c] /\ counter'[c] = counter[c] /\ prev'[c] = prev[c]
      BY <1>6, <1>7, <2>2
    <3>2. WasLate(c)' = WasLate(c)  BY <3>1 DEF WasLate
    <3>3. Last(c)' = Last(c)  BY <3>1, <3>2 DEF Last
    <3>4. QED  BY <1>1, <1>3, <1>9, <1>13, <3>1, <3>2, <3>3 DEF TimeInv, HitInv
  <2>3. QED  BY <2>1, <2>2
<1>11. Origin(Buffer, Buffer[1].before)' = o  BY <1>2, <1>3 DEF Origin, SomeGood
<1>12. QED  BY <1>2, <1>10, <1>11, Zenon DEF HitInv

LEMMA HitStep == ASSUME TimeInv, [Next]_vars PROVE HitInv'
<1>1. CASE ReadBlock \/ TakeBuffer \/ FirstHeader \/ SkipGarbage \/ ScanHeader \/ HitsDone
  BY <1>1 DEF ReadBlock, TakeBuffer, FirstHeader, SkipGarbage, ScanHeader, HitsDone, HitInv
<1>2. CASE AllGarbage \/ ScanDone
  <2>1. /\ seen' = [c \in Channels |-> FALSE] /\ counter' = [c \in Channels |-> batch']
        /\ prev' = [c \in Channels |-> 0]
    BY <1>2 DEF AllGarbage, ScanDone, BeginHits
  <2>2. QED  BY <2>1 DEF HitInv
<1>3. CASE StampHit
  BY <1>3, HitStamped
<1>4. CASE NextBlock \/ UNCHANGED vars
  <2>1. Works  BY <1>4 DEF Works
  <2>2. Buffer' = Buffer /\ UNCHANGED <<pc, batch, seen, counter, prev>>
        /\ ((x' = x + 1 /\ y' = 1) \/ UNCHANGED <<x, y>>)
    BY <1>4, <2>1, BufferKept DEF NextBlock, vars, boardVars, readoutVars, hitVars
  <2>3. ASSUME NEW i \in DOMAIN Buffer, NEW j \in DOMAIN Buffer[i].hits, ToCome(i, j)'
        PROVE  ToCome(i, j)
    <3>1. x \in Nat /\ i \in Nat  BY DEF TimeInv, CountInv, TypeOK, Buffer
    <3>2. CASE UNCHANGED <<x, y>>  BY <2>2, <2>3, <3>2 DEF ToCome
    <3>3. CASE x' = x + 1 /\ y' = 1  BY <2>2, <2>3, <3>1, <3>3 DEF ToCome
    <3>4. QED  BY <2>2, <3>2, <3>3
  <2>4. Origin(Buffer, Buffer[1].before)' = Origin(Buffer, Buffer[1].before)
    BY <2>2 DEF Origin, SomeGood
  <2>5. \A c \in Channels : WasLate(c)' = WasLate(c) /\ Last(c)' = Last(c)
    BY <2>2 DEF Last, WasLate
  <2>6. pc = "hits" /\ NoZeroUpTo(x)' => NoZeroUpTo(x)
    <3>1. x \in Nat /\ DOMAIN taken \subseteq Nat  BY DEF TimeInv, CountInv, TypeOK
    <3>2. UNCHANGED <<whole, taken>>
      BY <1>4 DEF NextBlock, vars, readoutVars
    <3>3. x' = x \/ x' = x + 1  BY <2>2
    <3>4. QED  BY <3>1, <3>2, <3>3 DEF NoZeroUpTo
  <2>7. QED  BY <2>2, <2>3, <2>4, <2>5, <2>6 DEF TimeInv, HitInv
<1>5. QED  BY <1>1, <1>2, <1>3, <1>4 DEF Next

LEMMA TimeStep == TimeInv /\ [Next]_vars => TimeInv'
  BY CountStep, SpanStep, RefStep, HitStep DEF TimeInv

LEMMA InitTime == Init => TimeInv
<1> SUFFICES ASSUME Init PROVE TimeInv
  OBVIOUS
<1>1. Buffer = <<>> /\ pc = "idle" /\ now = Zero /\ latest = Zero  BY DEF Init, Buffer
<1>2. Leq(latest, now)  BY <1>1, ClockAssumption DEF Leq, Zero
<1>3. QED  BY <1>1, <1>2, InitCount DEF TimeInv, SpanInv, RefInv, HitInv

LEMMA NextTurn == ASSUME NEW n \in Int, NEW t \in Int PROVE (n - 1) * Wrap + (t + Wrap) = n * Wrap + t
  BY ClockAssumption

\* Every hit that Process stamps gets its true time, as a 64-bit number: on whichever side of
\* a reset the buffer's header and the channel's earlier hits lie, whichever headers are
\* garbage, however the hits of the channels are mixed, and also when the time of a piece
\* exceeds the 31 bits of the clock. Where whole blocks are the documents it holds up to the
\* first block of the buffer whose header cannot be read. The thresholds of the code need no
\* more than ClockAssumption says of the data.
THEOREM Time64IsExact == Spec => Time64Exact
<1>1. TimeInv /\ [Next]_vars
        => [StampHit /\ NoZeroUpTo(x) =>
              LET hit == taken[x].hits[y] IN
                Time64(counter'[hit.ch], Shows(taken[x], hit)) = hit.at.turn * Wrap + hit.at.ts]_vars
  <2> SUFFICES ASSUME TimeInv, StampHit, NoZeroUpTo(x), NEW hit, hit = taken[x].hits[y]
               PROVE  Time64(counter'[hit.ch], Shows(taken[x], hit)) = hit.at.turn * Wrap + hit.at.ts
    OBVIOUS
  <2>1. /\ hit.ch \in Channels /\ hit.late \in BOOLEAN
        /\ hit.at.turn \in Nat /\ hit.at.ts \in 0 .. Wrap - 1
    BY BlockTypes DEF TimeInv, CountInv, StampHit, Buffer, Times, Ticks
  <2>2. counter \in [Channels -> Nat]  BY DEF TimeInv, CountInv, TypeOK
  <2>3. /\ counter'[hit.ch] = Base(hit.at, hit.late)
        /\ Shows(taken[x], hit) = Shown(hit.at, hit.late)
    BY <2>1, <2>2, HitIsExact DEF StampHit
  <2>4. CASE hit.late
    <3>1. (hit.at.turn - 1) * Wrap + (hit.at.ts + Wrap) = hit.at.turn * Wrap + hit.at.ts
      BY <2>1, NextTurn
    <3>2. QED  BY <2>3, <2>4, <3>1 DEF Time64, Base, Shown
  <2>5. CASE ~hit.late
    <3>1. Base(hit.at, hit.late) = hit.at.turn /\ Shown(hit.at, hit.late) = hit.at.ts
      BY <2>1, <2>5 DEF Base, Shown
    <3>2. QED  BY <2>3, <3>1 DEF Time64
  <2>6. QED  BY <2>1, <2>4, <2>5
<1>2. QED  BY <1>1, InitTime, TimeStep, PTL DEF Spec, Time64Exact
=============================================================================
