----------------------------- MODULE ClockReset -----------------------------
(***************************************************************************)
(* From the board's 31-bit clock to the 64-bit time of a recorded hit.     *)
(* CBV1724::ReadoutBuffer counts the resets of the clock from the header of *)
(* each block (GetTimeStamp), and DataProcessor::Process gives every hit a  *)
(* per-channel counter that starts from the one of the buffer's header.    *)
(* With rotating collections the documents of a bulk insert go into the    *)
(* collection named after their reset count.                               *)
(*                                                                         *)
(* A true time is a pair of the number of times the clock has wrapped and   *)
(* what the clock shows: [turn |-> n, ts |-> t] is n * Wrap + t ticks.  What *)
(* Process takes for the time of a hit need not be what the clock showed:  *)
(* the time of a piece is that of its trigger plus the samples before it,  *)
(* without wrapping, and in processing_mode 0, where a document is a whole *)
(* block, a block whose header cannot be read counts as time 0.            *)
(***************************************************************************)
EXTENDS Integers, Sequences

CONSTANTS
  Wrap,      \* ticks of a turn of the clock (2^31 in the code)
  Near,      \* a header counts as a reset when it falls back by more (5E8)
  Far,       \* a hit is on the header's side of a reset unless further away (10E8)
  MaxGap,    \* ticks between two good headers of a board: what the detector provides
  MaxSpan,   \* ticks between the hits a processor takes at once
  Channels,  \* channels of the board, by number (0 .. 7)
  MaxTurn,   \* bound: turns of the clock
  MaxBlocks, \* bound: blocks waiting in fBuffers
  MaxHits,   \* bound: hits in a block
  InsertSize \* the option min_insert_size

\* What the thresholds need: data at least every MaxGap, and a buffer that is taken away
\* before it spans more than MaxSpan.
ASSUME ClockAssumption ==
  /\ Wrap \in Nat \ {0} /\ Near \in Nat /\ Far \in Nat
  /\ MaxGap \in Nat /\ MaxSpan \in Nat
  /\ MaxGap + Near < Wrap
  /\ MaxSpan <= Far /\ MaxSpan + Far < Wrap
  /\ Channels \subseteq Nat /\ 0 \in Channels
  /\ MaxTurn \in Nat /\ MaxBlocks \in Nat /\ MaxHits \in Nat
  /\ InsertSize \in Nat

Ticks == 0 .. Wrap - 1
Times == [turn : Nat, ts : Ticks]
Zero  == [turn |-> 0, ts |-> 0]

\* g ticks later, for g < Wrap.
After(t, g) ==
  IF t.ts + g < Wrap THEN [turn |-> t.turn, ts |-> t.ts + g]
                     ELSE [turn |-> t.turn + 1, ts |-> t.ts + g - Wrap]

\* u is within g ticks after t, for g < Wrap.
Within(t, u, g) ==
  \/ u.turn = t.turn /\ t.ts <= u.ts /\ u.ts <= t.ts + g
  \/ u.turn = t.turn + 1 /\ u.ts + Wrap <= t.ts + g

\* A block: the true time of its first event, whether that event's header can be read
\* ("CAEN fart" if not), the hits the parsers find in it, and, as history, the true time
\* of the good header before it. A hit is late when the clock wrapped between the header
\* of its trigger and the hit.
Hits   == [ch : Channels, at : Times, late : BOOLEAN]
Blocks == [head : Times, good : BOOLEAN, hits : Seq(Hits), before : Times]

VARIABLES
  whole,     \* processing_mode is 0: the documents are whole blocks
  now,       \* true time of the newest datum the board produced
  latest,    \* true time of the board's newest good header
  fBuffers,  \* blocks the read thread pushed
  pc,        \* "idle", "first", "scan": ReadoutBuffer; "hits": Process
  taken,     \* buffvec: the blocks the processor took
  x, y,      \* positions in taken and in the hits of a block
  lastTime,  \* i64_blt_last_time
  resets,    \* i_clockResetCounter
  lastGood,  \* history: the true time of the header lastTime was read from
  headerTime, \* what ReadoutBuffer returns with the blocks: the header's time
  batch,     \* resetCounterStart: the reset counter at that header
  seen,      \* SawThisChannelOnce
  counter,   \* ChannelResetCounters
  prev,      \* PrevTime
  pending,   \* reset counts of the documents in vMongoInsertVec
  lastReset, \* LAST_RESET_COUNT
  inserted   \* the bulk inserts of the last step: collection, and counts of the documents

boardVars   == <<now, latest, fBuffers>>
readoutVars == <<taken, x, lastTime, resets, lastGood, headerTime, batch>>
hitVars     == <<y, seen, counter, prev, pending, lastReset, inserted>>
vars == <<whole, boardVars, pc, readoutVars, hitVars>>

-----------------------------------------------------------------------------
(* The board and the read thread. A block that is pushed while a buffer is  *)
(* parsed is not looked at before the next readout: it arrives before that. *)

\* Whether GetTimeStamp finds a header at the start of one of the blocks.
SomeGood(blocks) == \E i \in DOMAIN blocks : blocks[i].good

\* Where the span of a buffer starts: its first datum; if none of its headers can be
\* read, the header before it, which ReadoutBuffer falls back to.
Origin(blocks, before) == IF SomeGood(blocks) THEN blocks[1].head ELSE before

\* The block whose first header comes g ticks after the newest datum.
NewBlock(good, g, n, ch, off, late) ==
  [head |-> After(now, g), good |-> good, before |-> latest,
   hits |-> [i \in 1 .. n |->
              [ch |-> ch[i], at |-> After(After(now, g), off[i]), late |-> late[i]]]]

\* Only the hits of one channel are ordered, and so are their triggers: once a trigger began
\* behind a wrap, no later one began before it.
Ordered(hits) ==
  \A i, j \in DOMAIN hits : i < j /\ hits[i].ch = hits[j].ch =>
    /\ hits[i].at.turn <= hits[j].at.turn
    /\ hits[i].at.turn = hits[j].at.turn =>
         hits[i].at.ts <= hits[j].at.ts /\ (hits[j].late => hits[i].late)

\* Such a block is pushed. Its data extend over e ticks. A whole block is one hit of
\* channel 0, and a hit is late only if the clock wrapped behind the block's first header.
PushBlock(good, g, e, n, ch, off, late) ==
  LET head  == After(now, g)
      end   == After(head, e)
      block == NewBlock(good, g, n, ch, off, late)
  IN /\ Ordered(block.hits)
     /\ whole => n = 1 /\ ch[1] = 0 /\ off[1] = 0
     /\ \A i \in 1 .. n : late[i] => head.turn < block.hits[i].at.turn
     /\ e = 0 \/ \E i \in 1 .. n : off[i] = e
     /\ good => Within(latest, head, MaxGap)
     /\ Within(Origin(Append(fBuffers, block), latest), end, MaxSpan)
     /\ end.turn <= MaxTurn
     /\ now' = end /\ latest' = IF good THEN head ELSE latest
     /\ fBuffers' = Append(fBuffers, block)

ReadBlock ==
  /\ pc = "idle" /\ Len(fBuffers) < MaxBlocks
  /\ \E good \in BOOLEAN, g \in 0 .. MaxGap, e \in 0 .. MaxSpan, n \in 0 .. MaxHits :
     \E ch \in [1 .. n -> Channels], off \in [1 .. n -> 0 .. e], late \in [1 .. n -> BOOLEAN] :
       PushBlock(good, g, e, n, ch, off, late)
  /\ UNCHANGED <<whole, pc, readoutVars, hitVars>>

-----------------------------------------------------------------------------
(* CBV1724::ReadoutBuffer.                                                 *)

\* A header that shows much less than the last one: the clock was reset between them.
FellBack(from, to) == from > to /\ from - to > Near

TakeBuffer ==
  /\ pc = "idle" /\ fBuffers # <<>>
  /\ taken' = fBuffers /\ fBuffers' = <<>>
  /\ x' = 1 /\ pc' = "first"
  /\ UNCHANGED <<whole, now, latest, lastTime, resets, lastGood, headerTime, batch, hitVars>>

\* Process begins the buffer: the locals of the hit loop.
BeginHits(b) ==
  /\ pc' = "hits" /\ x' = 1 /\ y' = 1
  /\ seen' = [c \in Channels |-> FALSE] /\ counter' = [c \in Channels |-> b]
  /\ prev' = [c \in Channels |-> 0]
  /\ UNCHANGED <<pending, lastReset, inserted>>

\* The first good header of the buffer gives its time and, with the one before it (case
\* 1), its reset counter. The headers before it are skipped.
FirstHeader ==
  /\ pc = "first" /\ x \in DOMAIN taken /\ taken[x].good
  /\ LET t == taken[x].head.ts
         n == resets + (IF FellBack(lastTime, t) THEN 1 ELSE 0)
     IN /\ resets' = n /\ batch' = n
        /\ headerTime' = t /\ lastTime' = t
  /\ lastGood' = taken[x].head
  /\ x' = IF x = 1 THEN 2 ELSE x
  /\ pc' = "scan"
  /\ UNCHANGED <<whole, taken, boardVars, hitVars>>

SkipGarbage ==
  /\ pc = "first" /\ x \in DOMAIN taken /\ ~taken[x].good
  /\ x' = x + 1
  /\ UNCHANGED <<whole, pc, taken, lastTime, resets, lastGood, headerTime, batch,
                 boardVars, hitVars>>

\* No good header at all: the buffer gets the last time and counter known.
AllGarbage ==
  /\ pc = "first" /\ x \notin DOMAIN taken
  /\ headerTime' = lastTime /\ batch' = resets
  /\ BeginHits(resets)
  /\ UNCHANGED <<whole, taken, lastTime, resets, lastGood, boardVars>>

\* Mutant of ScanHeader: resets inside the buffer are not counted.
ScanHeaderNoCount ==
  /\ pc = "scan" /\ x \in DOMAIN taken
  /\ lastTime' = IF taken[x].good THEN taken[x].head.ts ELSE lastTime
  /\ lastGood' = IF taken[x].good THEN taken[x].head ELSE lastGood
  /\ x' = x + 1
  /\ UNCHANGED <<whole, resets, taken, headerTime, batch, pc, boardVars, hitVars>>

\* The resets inside the buffer (case 2). Headers that cannot be read are skipped.
ScanHeader ==
  /\ pc = "scan" /\ x \in DOMAIN taken
  /\ IF taken[x].good
     THEN LET t == taken[x].head.ts IN
            /\ resets' = resets + (IF FellBack(lastTime, t) THEN 1 ELSE 0)
            /\ lastTime' = t /\ lastGood' = taken[x].head
     ELSE UNCHANGED <<resets, lastTime, lastGood>>
  /\ x' = x + 1
  /\ UNCHANGED <<whole, taken, headerTime, batch, pc, boardVars, hitVars>>

ScanDone ==
  /\ pc = "scan" /\ x \notin DOMAIN taken
  /\ BeginHits(batch)
  /\ UNCHANGED <<whole, taken, lastTime, resets, lastGood, headerTime, batch, boardVars>>

-----------------------------------------------------------------------------
(* DataProcessor::Process, one hit after the other.                        *)

\* What Process takes for the time of a hit.
Shows(block, hit) ==
  IF whole /\ ~block.good THEN 0 ELSE hit.at.ts + (IF hit.late THEN Wrap ELSE 0)

\* The 64-bit time.
Time64(n, t) == n * Wrap + t

\* How far two times are apart, as a difference of int (32 bits, that is two turns).
Apart(s, t) == LET d == IF s > t THEN s - t ELSE t - s IN IF d <= Wrap THEN d ELSE 2 * Wrap - d

\* The channel's counter when it shows t: corrected once per buffer against the header,
\* then counted up whenever the channel falls back.
CorrectedOnce(c, t) ==
  IF seen[c] \/ Apart(headerTime, t) <= Far THEN counter[c]
  ELSE IF t > headerTime /\ counter[c] # 0 THEN counter[c] - 1 ELSE counter[c] + 1

\* Mutant of Counted: the counter is not corrected against the header.
CountedUncorrected(c, t) == counter[c] + (IF t < prev[c] THEN 1 ELSE 0)

Counted(c, t) == CorrectedOnce(c, t) + (IF t < prev[c] THEN 1 ELSE 0)

LastHit ==
  y = Len(taken[x].hits) /\ \A i \in DOMAIN taken : i > x => taken[i].hits = <<>>

Bulk(n, docs) == [coll |-> n, docs |-> docs]

\* Mutant of Collect: the documents collected so far are not flushed first.
CollectMixed(n) ==
  LET docs  == Append(pending, n)
      flush == Len(docs) > InsertSize \/ LastHit
  IN /\ inserted' = IF flush THEN {Bulk(n, docs)} ELSE {}
     /\ pending' = IF flush THEN <<>> ELSE docs
     /\ lastReset' = n

\* The document joins the bulk insert of its reset count. A new count flushes the old
\* bulk first; a full bulk, and the last hit of the buffer, flush it after.
Collect(n) ==
  LET docs  == Append(IF n # lastReset THEN <<>> ELSE pending, n)
      flush == Len(docs) > InsertSize \/ LastHit
  IN /\ inserted' = (IF n # lastReset /\ pending # <<>> THEN {Bulk(lastReset, pending)} ELSE {})
                    \cup (IF flush THEN {Bulk(n, docs)} ELSE {})
     /\ pending' = IF flush THEN <<>> ELSE docs
     /\ lastReset' = n

StampHit ==
  /\ pc = "hits" /\ x \in DOMAIN taken /\ y \in DOMAIN taken[x].hits
  /\ LET hit == taken[x].hits[y]
         t   == Shows(taken[x], hit)
         n   == Counted(hit.ch, t)
     IN /\ counter' = [counter EXCEPT ![hit.ch] = n]
        /\ seen' = [seen EXCEPT ![hit.ch] = TRUE]
        /\ prev' = [prev EXCEPT ![hit.ch] = t]
        /\ Collect(n)
  /\ y' = y + 1
  /\ UNCHANGED <<whole, pc, boardVars, readoutVars>>

NextBlock ==
  /\ pc = "hits" /\ x \in DOMAIN taken /\ y \notin DOMAIN taken[x].hits
  /\ x' = x + 1 /\ y' = 1 /\ inserted' = {}
  /\ UNCHANGED <<whole, pc, taken, lastTime, resets, lastGood, headerTime, batch,
                 boardVars, seen, counter, prev, pending, lastReset>>

\* Mutant of HitsDone: the position in the next buffer is not reset.
HitsDoneKeepsPosition ==
  /\ pc = "hits" /\ x \notin DOMAIN taken
  /\ pc' = "idle" /\ taken' = <<>> /\ x' = x /\ y' = 1 /\ inserted' = {}
  /\ UNCHANGED <<whole, lastTime, resets, lastGood, headerTime, batch, boardVars,
                 seen, counter, prev, pending, lastReset>>

\* The buffer is done, and the locals of its loop are gone.
HitsDone ==
  /\ pc = "hits" /\ x \notin DOMAIN taken
  /\ pc' = "idle" /\ taken' = <<>> /\ x' = 1 /\ y' = 1 /\ inserted' = {}
  /\ headerTime' = 0 /\ batch' = 0
  /\ seen' = [c \in Channels |-> FALSE] /\ counter' = [c \in Channels |-> 0]
  /\ prev' = [c \in Channels |-> 0]
  /\ UNCHANGED <<whole, lastTime, resets, lastGood, pending, lastReset, boardVars>>

-----------------------------------------------------------------------------
\* The constructor's values: a run starts with the clock at zero.
Init ==
  /\ whole \in BOOLEAN
  /\ now = Zero /\ latest = Zero /\ fBuffers = <<>>
  /\ pc = "idle" /\ taken = <<>> /\ x = 1 /\ y = 1
  /\ lastTime = 0 /\ resets = 0 /\ lastGood = Zero
  /\ headerTime = 0 /\ batch = 0
  /\ seen = [c \in Channels |-> FALSE] /\ counter = [c \in Channels |-> 0]
  /\ prev = [c \in Channels |-> 0]
  /\ pending = <<>> /\ lastReset = 0 /\ inserted = {}

Next ==
  \/ ReadBlock
  \/ TakeBuffer \/ FirstHeader \/ SkipGarbage \/ AllGarbage \/ ScanHeader \/ ScanDone
  \/ StampHit \/ NextBlock \/ HitsDone

Spec == Init /\ [][Next]_vars

-----------------------------------------------------------------------------
(* Properties.                                                             *)

\* Every variable has its type.
TypeOK ==
  /\ whole \in BOOLEAN
  /\ now \in Times /\ latest \in Times /\ fBuffers \in Seq(Blocks)
  /\ pc \in {"idle", "first", "scan", "hits"}
  /\ taken \in Seq(Blocks) /\ x \in 1 .. Len(taken) + 1 /\ y \in Nat \ {0}
  /\ lastTime \in Ticks /\ resets \in Nat /\ lastGood \in Times
  /\ headerTime \in Ticks /\ batch \in Nat
  /\ seen \in [Channels -> BOOLEAN] /\ counter \in [Channels -> Nat]
  /\ prev \in [Channels -> 0 .. 2 * Wrap - 1]
  /\ pending \in Seq(Nat) /\ lastReset \in Nat
  /\ inserted \subseteq [coll : Nat, docs : Seq(Nat)]

\* The reset counter of the board is the number of turns its clock has made at the last
\* header looked at, however the blocks were grouped into readouts and whichever headers
\* were garbage.
CounterExact == resets = lastGood.turn /\ lastTime = lastGood.ts

\* No block of the buffer before the end of block i was given the time 0 because its
\* header cannot be read.
NoZeroUpTo(i) == whole => \A j \in DOMAIN taken : j <= i => taken[j].good

\* Every recorded hit has its true time, on whichever side of the buffer's header it lies
\* and whichever headers were garbage; in processing_mode 0, where a block without a
\* readable header counts as time 0, up to the first such block of its buffer.
Time64Exact ==
  [][StampHit /\ NoZeroUpTo(x) =>
       LET hit == taken[x].hits[y] IN
         Time64(counter'[hit.ch], Shows(taken[x], hit)) = hit.at.turn * Wrap + hit.at.ts]_vars

\* All documents of a bulk insert have the reset count their collection is named after.
BulkUniform == \A b \in inserted : \A i \in DOMAIN b.docs : b.docs[i] = b.coll
=============================================================================
