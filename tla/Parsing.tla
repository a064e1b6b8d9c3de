------------------------------- MODULE Parsing --------------------------------
(***************************************************************************)
(* The parsers of DataProcessor: SplitBlocks, SplitChannels with and       *)
(* without zero length encoding (ZLE) and SplitChannelsNewFW cut the       *)
(* blocks of one bulk into pieces, and DataProcessor::Process adds the     *)
(* pieces to the events of the output file.  Each step is a round of a     *)
(* loop over the words of a block.                                         *)
(*                                                                         *)
(* Before that the digitizer stores the bulk part by part.  A word is what *)
(* the parsers can tell of it: a filler, a header, a control word of good  *)
(* data, or any other, with the number in its low bits.  A piece is the    *)
(* place of the words that were copied.                                    *)
(*                                                                         *)
(* With the new firmware a channel may give any size.  The check for that  *)
(* compares words with bytes: a parser that believes a wrong size may take *)
(* its next sizes from anywhere, in the block or behind it.                *)
(***************************************************************************)
EXTENDS Integers, Sequences, FiniteSets

CONSTANTS
  Modes,      \* the parsers looked at: blocks (1), zle (2), plain (3), newfw (4)
  Channels,   \* channels of the board
  Lengths,    \* words of data a channel may have without ZLE
  Segments,   \* segments of a channel with ZLE: n words of data, or as many that were skipped
  Gaps,       \* what may stand behind a trigger: sequences of fillers and other words
  WrongSizes, \* sizes that a damaged channel of the new firmware gives; 0 stands for 2^32 - 1 too
  Strays,     \* what samples, or memory behind a block, may be when read as a number
  MaxEvents,  \* bound: triggers of a bulk
  MaxSegments, \* bound: segments of a channel
  MaxWords    \* bound: words of a block

ASSUME ParsingAssumption ==
  /\ Modes \subseteq {"blocks", "zle", "plain", "newfw"}
  /\ Channels \subseteq 0..7
  /\ Lengths \subseteq Nat
  /\ \A s \in Segments : s.good \in BOOLEAN /\ s.n \in Nat \ {0}
  /\ \A g \in Gaps : g \in Seq({"filler", "plain"})
  /\ WrongSizes \subseteq Nat /\ Strays \subseteq Nat
  /\ MaxEvents \in Nat /\ MaxSegments \in Nat
  \* The masks of the header's length hold it: 0x3FFFC in SplitBlocks, 0xFFFFFF elsewhere.
  /\ MaxWords \in Nat /\ MaxWords < 262144

VARIABLES
  mode,    \* processing_mode
  blocks,  \* the digitizer: the lengths of the blocks it stored
  events,  \* its triggers; places[c] is where the words of channel c begin, or what follows
  parts,   \* what it stored of the channels, from the word at
  fillers, \* where it stored fillers
  left,    \* channels of the last trigger that are not stored
  clock,   \* with ZLE: the time of the next sample of the lowest of them
  buffvec, \* the blocks as words
  x, idx,  \* the block and the word that are looked at
  at,      \* store, then the loops: scan, channel, words, write, done; or aborted
  todo,    \* channels of the mask that the loop over the channels has not reached
  header,  \* headerTime
  size,    \* channelSize
  word,    \* wordCnt
  sample,  \* sampleCnt
  out,     \* retbuff, retsize, channels and timeStamps
  indices, \* eventIndices
  current, \* currentEventIndex
  written, \* pieces that were added to the file
  file     \* the events of the output file: sequences of indices into out

storeVars == <<blocks, events, parts, fillers, left, clock>>
inputVars == <<mode, storeVars, buffvec>>
scanVars  == <<x, idx, at, todo, header, size, word, sample, out, indices>>
fileVars  == <<current, written, file>>
vars == <<inputVars, scanVars, fileVars>>

-----------------------------------------------------------------------------
(***************************************************************************)
(* What the digitizer sends: for each trigger a header of four words, the  *)
(* first of which has its length, and the channels in its mask.            *)
(***************************************************************************)

Init ==
  /\ mode \in Modes
  /\ blocks = <<0>> /\ events = <<>> /\ parts = {} /\ fillers = {} /\ left = {} /\ clock = 0
  /\ buffvec = <<>> /\ x = 1 /\ idx = 0
  /\ at = "store"
  /\ todo = {}
  /\ header = 0 /\ size = 0 /\ word = 0 /\ sample = 0
  /\ out = <<>> /\ indices = <<>>
  /\ current = 1 /\ written = 0 /\ file = <<>>

Lowest(S) == CHOOSE c \in S : \A d \in S : c <= d

End == blocks[Len(blocks)]
Newest == events[Len(events)]
Grow(k) == End + k <= MaxWords /\ blocks' = [blocks EXCEPT ![Len(blocks)] = @ + k]

\* Without ZLE all channels are of one length.
StoreTrigger(mask, n) ==
  /\ at = "store" /\ left = {} /\ Len(events) < MaxEvents
  /\ Grow(4)
  /\ events' = Append(events,
       [block |-> Len(blocks), first |-> End, mask |-> mask, length |-> n,
        time |-> 100 * (Len(events) + 1), places |-> [c \in 0..8 |-> End + 4]])
  /\ left' = mask
  /\ UNCHANGED <<mode, parts, fillers, clock, buffvec, scanVars, fileVars>>

\* The first channel that is left gets k more words.
Extend(k) ==
  /\ at = "store" /\ left # {}
  /\ Grow(k)
  /\ events' = [events EXCEPT ![Len(events)].places =
                  [d \in 0..8 |-> IF d > Lowest(left) THEN End + k ELSE @[d]]]

Part(n, good, says, t) ==
  [event |-> Len(events), channel |-> Lowest(left), at |-> End,
   n |-> n, good |-> good, says |-> says, time |-> t]

\* Words in front of the data of a part: with ZLE its control word, with the new firmware the
\* size and the time of the channel.
Lead == CASE mode = "zle" -> 1 [] mode = "plain" -> 0 [] OTHER -> 2

Says(n) == {Lead + n} \cup IF mode = "newfw" THEN WrongSizes ELSE {}

StoreChannel(n) ==
  /\ mode # "zle"
  /\ Extend(Lead + n)
  /\ mode = "plain" => n = Newest.length
  /\ \E says \in Says(n) :
       parts' = parts \cup {Part(n, mode = "plain" => n > 0, says,
                                  Newest.time + IF mode = "plain" THEN 0 ELSE Lowest(left))}
  /\ left' = left \ {Lowest(left)}
  /\ UNCHANGED <<mode, fillers, clock, buffvec, scanVars, fileVars>>

\* With ZLE: the word for the size of the channel, then its segments.
StoreSize ==
  /\ mode = "zle"
  /\ Extend(1)
  /\ Newest.places[Lowest(left)] = End
  /\ clock' = Newest.time
  /\ UNCHANGED <<mode, parts, fillers, left, buffvec, scanVars, fileVars>>

StoreSegment(s, last) ==
  /\ mode = "zle"
  /\ Extend(IF s.good THEN 1 + s.n ELSE 1)
  /\ Newest.places[Lowest(left)] < End
  /\ Cardinality({p \in parts : p.event = Len(events) /\ p.channel = Lowest(left)})
       < IF last THEN MaxSegments ELSE MaxSegments - 1
  /\ parts' = parts \cup {Part(s.n, s.good, s.n, clock)}
  /\ clock' = clock + 2 * s.n
  /\ left' = IF last THEN left \ {Lowest(left)} ELSE left
  /\ UNCHANGED <<mode, fillers, buffvec, scanVars, fileVars>>

\* Words behind a trigger that belong to none.
StoreGap(g) ==
  /\ at = "store" /\ left = {}
  /\ events # <<>> /\ Newest.block = Len(blocks) /\ Newest.places[8] = End
  /\ Grow(Len(g))
  /\ fillers' = fillers \cup
       {<<Len(blocks), End + k - 1>> : k \in {j \in DOMAIN g : g[j] = "filler"}}
  /\ UNCHANGED <<mode, events, parts, left, clock, buffvec, scanVars, fileVars>>

NextBlock ==
  /\ at = "store" /\ left = {} /\ End > 0 /\ Len(events) < MaxEvents
  /\ blocks' = Append(blocks, 0)
  /\ UNCHANGED <<mode, events, parts, fillers, left, clock, buffvec, scanVars, fileVars>>

Unknown == -1

Word(kind, number) == [is |-> kind, n |-> number, mask |-> {}]

HeaderWord(e, k) ==
  CASE k = 0 -> Word("head", e.places[8] - e.first)
    [] k = 1 -> [Word("plain", Unknown) EXCEPT !.mask = e.mask]
    [] k = 2 -> Word("plain", Unknown)
    [] k = 3 -> Word("plain", e.time)

ControlWord(p, k) ==
  Word(IF mode = "zle" /\ p.good THEN "good" ELSE "plain", IF k = 0 THEN p.says ELSE p.time)

\* What the digitizer stored as word j of block b.
WordAt(b, j) ==
  LET of    == {i \in DOMAIN events : events[i].block = b}
      heads == {i \in of : j \in events[i].first .. events[i].first + 3}
      leads == {p \in parts : p.event \in of /\ j \in p.at .. p.at + Lead - 1}
      sizes == {s \in of \X Channels : mode = "zle" /\ s[2] \in events[s[1]].mask
                                       /\ j = events[s[1]].places[s[2]]}
  IN IF heads # {} THEN LET e == events[CHOOSE i \in heads : TRUE] IN HeaderWord(e, j - e.first)
     ELSE IF leads # {} THEN LET p == CHOOSE q \in leads : TRUE IN ControlWord(p, j - p.at)
     ELSE IF sizes # {} THEN LET s == CHOOSE t \in sizes : TRUE
                             IN Word("plain", events[s[1]].places[s[2] + 1] - j)
     ELSE IF <<b, j>> \in fillers THEN Word("filler", 0)
     ELSE Word("plain", Unknown)

\* ReadoutBuffer hands the bulk to the processor.
HandOver ==
  /\ at = "store" /\ left = {} /\ End > 0
  /\ buffvec' = [b \in DOMAIN blocks |-> [j \in 1..blocks[b] |-> WordAt(b, j - 1)]]
  /\ at' = "scan"
  /\ UNCHANGED <<mode, storeVars, x, idx, todo, header, size, word, sample, out, indices, fileVars>>

-----------------------------------------------------------------------------
(***************************************************************************)
(* The loop over the words of a block.                                     *)
(***************************************************************************)

Here(i) == buffvec[x][i + 1]
InBlock == idx < Len(buffvec[x])
Piece(first, n, c, t) == [block |-> x, first |-> first, n |-> n, channel |-> c, time |-> t]

\* SplitBlocks looks no further than the first filler.
BlockEnds ==
  /\ at = "scan"
  /\ InBlock => mode = "blocks" /\ Here(idx).is = "filler"
  /\ idx' = 0
  /\ IF x < Len(buffvec) THEN x' = x + 1 /\ at' = at ELSE x' = x /\ at' = "write"
  /\ UNCHANGED <<inputVars, fileVars, todo, header, size, word, sample, out, indices>>

SkipWord ==
  /\ at = "scan" /\ InBlock
  /\ \/ Here(idx).is = "plain" \/ Here(idx).is = "good"
     \/ Here(idx).is = "filler" /\ mode # "blocks"
     \/ Here(idx).is = "head" /\ mode = "plain" /\ Here(idx + 1).mask = {}
  /\ idx' = idx + 1
  /\ UNCHANGED <<inputVars, fileVars, x, at, todo, header, size, word, sample, out, indices>>

\* A bug for the mutation runs: the size is rounded up.
TriggerRoundedUp ==
  /\ at = "scan" /\ InBlock /\ mode = "blocks"
  /\ Here(idx).is = "head"
  /\ LET n == 4 * ((Here(idx).n + 3) \div 4)
     IN /\ out' = Append(out, Piece(idx, n, 0, Here(idx + 3).n))
        /\ idx' = idx + n
  /\ UNCHANGED <<inputVars, fileVars, x, at, todo, header, size, word, sample, indices>>

\* SplitBlocks: & binds weaker than *, so that the mask is 0x3FFFC.
Trigger ==
  /\ at = "scan" /\ InBlock /\ mode = "blocks"
  /\ Here(idx).is = "head"
  /\ LET n == 4 * (Here(idx).n \div 4)
     IN /\ out' = Append(out, Piece(idx, n, 0, Here(idx + 3).n))
        /\ idx' = idx + n
  /\ UNCHANGED <<inputVars, fileVars, x, at, todo, header, size, word, sample, indices>>

\* A header that the channels of the mask follow.
EventHeader ==
  /\ at = "scan" /\ InBlock /\ mode # "blocks"
  /\ Here(idx).is = "head"
  /\ mode = "plain" => Here(idx + 1).mask # {}
  /\ todo' = Here(idx + 1).mask
  /\ size' = IF mode = "plain" THEN (Here(idx).n - 4) \div Cardinality(todo') ELSE size
  /\ indices' = IF mode = "newfw" THEN indices ELSE Append(indices, Len(out) + 1)
  /\ header' = Here(idx + 3).n
  /\ idx' = idx + 4
  /\ at' = "channel"
  /\ UNCHANGED <<inputVars, fileVars, x, word, sample, out>>

EventDone ==
  /\ at = "channel"
  /\ todo = {}
  /\ at' = "scan"
  /\ UNCHANGED <<inputVars, fileVars, x, idx, todo, header, size, word, sample, out, indices>>

-----------------------------------------------------------------------------
(***************************************************************************)
(* SplitChannelsNewFW: one piece per channel.                              *)
(***************************************************************************)

Huge == 4 * MaxWords

\* Word i read as a number.  A header is one past all blocks, a filler wraps as 0 does.
Reads(i) ==
  IF i < Len(buffvec[x]) /\ Here(i).n # Unknown
  THEN {IF Here(i).is = "head" THEN Huge ELSE Here(i).n}
  ELSE Strays

\* A bug for the mutation runs: the end is compared in words, but as if it were the last index.
FitsWords(n) == idx + n < Len(buffvec[x])

\* The data would end before sizevec, which is in bytes.
Fits(n) == idx + n < 4 * Len(buffvec[x])

\* A bug for the mutation runs: the words of size and time are counted as data.
KeepChannelWhole ==
  /\ at = "channel" /\ mode = "newfw" /\ todo # {}
  /\ \E n \in Reads(idx), t \in Reads(idx + 1) :
       /\ n >= 2 /\ Fits(n)
       /\ out' = Append(out, Piece(idx + 2, n, Lowest(todo), t))
       /\ idx' = idx + n
  /\ todo' = todo \ {Lowest(todo)}
  /\ UNCHANGED <<inputVars, fileVars, x, at, header, size, word, sample, indices>>

KeepChannel ==
  /\ at = "channel" /\ mode = "newfw" /\ todo # {}
  /\ \E n \in Reads(idx), t \in Reads(idx + 1) :
       /\ n >= 2 /\ Fits(n)
       /\ out' = Append(out, Piece(idx + 2, n - 2, Lowest(todo), t))
       /\ idx' = idx + n
  /\ todo' = todo \ {Lowest(todo)}
  /\ UNCHANGED <<inputVars, fileVars, x, at, header, size, word, sample, indices>>

\* The next channel is looked for where the data would have been.
DropChannel ==
  /\ at = "channel" /\ mode = "newfw" /\ todo # {}
  /\ \E n \in Reads(idx) : ~Fits(n)
  /\ idx' = idx + 2
  /\ todo' = todo \ {Lowest(todo)}
  /\ UNCHANGED <<inputVars, fileVars, x, at, header, size, word, sample, out, indices>>

\* For a size below two, 2^32 words less one or two are asked for; and the process may end
\* where words from behind the block are copied, or more are asked for than there is memory.
Abort ==
  /\ at = "channel" /\ mode = "newfw" /\ todo # {}
  /\ \E n \in Reads(idx) : n < 2 \/ idx + n > Len(buffvec[x])
  /\ at' = "aborted"
  /\ UNCHANGED <<inputVars, fileVars, x, idx, todo, header, size, word, sample, out, indices>>

-----------------------------------------------------------------------------
(***************************************************************************)
(* SplitChannels: with ZLE a piece per good segment.                       *)
(***************************************************************************)

BeginChannel ==
  /\ at = "channel" /\ mode \in {"zle", "plain"} /\ todo # {}
  /\ IF mode = "zle"
     THEN size' = Here(idx).n /\ idx' = idx + 1 /\ word' = 1
     ELSE word' = 0 /\ UNCHANGED <<size, idx>>
  /\ sample' = 0
  /\ at' = "words"
  /\ UNCHANGED <<inputVars, fileVars, x, todo, header, out, indices>>

SkipSamples ==
  /\ at = "words" /\ word < size
  /\ mode = "zle" /\ Here(idx).is # "good"
  /\ sample' = sample + 2 * Here(idx).n
  /\ idx' = idx + 1 /\ word' = word + 1
  /\ UNCHANGED <<inputVars, fileVars, x, at, todo, header, size, out, indices>>

KeepWords ==
  /\ at = "words" /\ word < size
  /\ mode = "zle" => Here(idx).is = "good"
  /\ LET control == IF mode = "zle" THEN 1 ELSE 0
         good    == IF mode = "zle" THEN Here(idx).n ELSE size
     IN /\ out' = Append(out, Piece(idx + control, good, Lowest(todo), header + sample))
        /\ idx' = idx + control + good
        /\ word' = word + control + good
        /\ sample' = sample + 2 * good
  /\ UNCHANGED <<inputVars, fileVars, x, at, todo, header, size, indices>>

ChannelDone ==
  /\ at = "words" /\ word >= size
  /\ todo' = todo \ {Lowest(todo)}
  /\ at' = "channel"
  /\ UNCHANGED <<inputVars, fileVars, x, idx, header, size, word, sample, out, indices>>

-----------------------------------------------------------------------------
(***************************************************************************)
(* Process: the pieces go to the events of the file.  Without eventIndices *)
(* each is an event of its own.                                            *)
(***************************************************************************)

\* A bug for the mutation runs: the comparison is with the piece before.
BeginsEventLate(b) ==
  \/ mode \in {"blocks", "newfw"} \/ file = <<>>
  \/ current <= Len(indices) /\ indices[current] = b - 1

BeginsEvent(b) ==
  \/ mode \in {"blocks", "newfw"}
  \/ current <= Len(indices) /\ indices[current] = b

WritePiece ==
  /\ at = "write" /\ written < Len(out)
  /\ written' = written + 1
  /\ IF BeginsEvent(written + 1)
     THEN file' = Append(file, <<written + 1>>) /\ current' = current + 1
     ELSE file' = [file EXCEPT ![Len(file)] = Append(@, written + 1)] /\ UNCHANGED current
  /\ UNCHANGED <<inputVars, scanVars>>

BulkDone ==
  /\ at = "write" /\ written = Len(out)
  /\ at' = "done"
  /\ UNCHANGED <<inputVars, fileVars, x, idx, todo, header, size, word, sample, out, indices>>

Store ==
  \/ \E mask \in SUBSET Channels, n \in IF mode = "plain" THEN Lengths ELSE {0} :
       StoreTrigger(mask, n)
  \/ \E n \in Lengths : StoreChannel(n)
  \/ StoreSize
  \/ \E s \in Segments, last \in BOOLEAN : StoreSegment(s, last)
  \/ \E g \in Gaps : StoreGap(g)
  \/ NextBlock \/ HandOver
Scan == BlockEnds \/ SkipWord \/ Trigger \/ EventHeader \/ EventDone
SplitChannels == BeginChannel \/ SkipSamples \/ KeepWords \/ ChannelDone
SplitChannelsNewFW == KeepChannel \/ DropChannel \/ Abort

Next == Store \/ Scan \/ SplitChannels \/ SplitChannelsNewFW \/ WritePiece \/ BulkDone
Spec == Init /\ [][Next]_vars

-----------------------------------------------------------------------------
(***************************************************************************)
(* Properties.                                                             *)
(***************************************************************************)

\* The piece that a reader of the digitizer's manual expects of a part.
PieceOf(p) ==
  [block |-> events[p.event].block, first |-> p.at + Lead, n |-> p.n,
   channel |-> p.channel, time |-> p.time]

ExpectedOf(i) == {PieceOf(p) : p \in {q \in parts : q.event = i /\ q.good}}

\* The piece is of the words of a trigger.  An empty one stands behind the words of its channel.
Inside(piece, e) ==
  /\ piece.block = e.block
  /\ e.first <= piece.first /\ piece.first + piece.n <= e.places[8]
  /\ piece.n = 0 => e.first < piece.first

Damaged(i) == mode = "newfw" /\ \E p \in parts : p.event = i /\ p.says # Lead + p.n

\* Word j of block b is behind the header of a damaged trigger.
Astray(b, j) == \E i \in DOMAIN events : Damaged(i) /\ events[i].block = b /\ events[i].first < j

Parsed == at \in {"write", "done"}

TypeOK ==
  /\ mode \in Modes
  /\ at \in {"store", "scan", "channel", "words", "write", "done", "aborted"}
  \* No parser goes past the end of a block, but behind a damaged trigger.
  /\ at = "store" => idx = 0
  /\ at # "store" => x \in DOMAIN buffvec /\ idx \in Nat
                       /\ (idx <= Len(buffvec[x]) \/ Astray(x, idx))
  /\ todo \subseteq Channels
  /\ {header, size, word, sample} \subseteq Nat
  \* What is copied begins in the block but behind a damaged trigger, and then it ends
  \* before four times the block's length.
  /\ \A b \in DOMAIN out :
       /\ out[b].block \in DOMAIN buffvec /\ out[b].channel \in 0..7
       /\ {out[b].first, out[b].n} \subseteq Nat
       /\ \/ out[b].first + out[b].n <= Len(buffvec[out[b].block])
          \/ /\ Astray(out[b].block, out[b].first)
             /\ out[b].first + out[b].n < 4 * Len(buffvec[out[b].block])
  /\ \A k \in DOMAIN indices : indices[k] \in 1..(Len(out) + 1)
  /\ current \in 1..(written + 1) /\ written \in 0..Len(out)

\* No piece mixes the words of two triggers, whatever parser made it, and none holds words
\* from between them, but for the pieces that begin in or behind a damaged trigger: what a
\* wrong size costs, it costs from its own trigger to the end of its block.
PiecesInsideTriggers ==
  Parsed => \A b \in DOMAIN out :
    \/ Astray(out[b].block, out[b].first)
    \/ \E i \in DOMAIN events : Inside(out[b], events[i])

\* Every trigger that is stored before the first damaged one of its block gives exactly the
\* pieces that the digitizer stored, with their channels and the times of their first
\* samples, also behind fillers, behind words that belong to nothing and behind blocks with
\* damaged triggers; and all pieces come in the order of the blocks.
PiecesComplete ==
  (Parsed /\ mode # "blocks") =>
    /\ \A i \in DOMAIN events : ~Astray(events[i].block, events[i].places[8]) =>
         {out[b] : b \in {k \in DOMAIN out : Inside(out[k], events[i])}} = ExpectedOf(i)
    /\ \A b, d \in DOMAIN out : b < d =>
         \/ out[b].block < out[d].block
         \/ out[b].block = out[d].block /\ out[b].first < out[d].first

\* The events of the file that have pieces of trigger i.
FileOf(i) == {k \in DOMAIN file : \E j \in DOMAIN file[k] : Inside(out[file[k][j]], events[i])}

HasPieces(i) == ExpectedOf(i) # {}

\* Up to the first trigger without pieces, the events of the file are the triggers, one for
\* each and in their order: eventIndices and the loop that follows them agree.
FileEvents ==
  (at = "done" /\ mode \in {"zle", "plain"}) =>
    \A i \in DOMAIN events :
      (\A j \in DOMAIN events : j <= i => HasPieces(j)) => FileOf(i) = {i}
=============================================================================
