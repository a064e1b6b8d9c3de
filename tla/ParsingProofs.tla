---------------------------- MODULE ParsingProofs -----------------------------
(***************************************************************************)
(* Proofs about Parsing for any channels, lengths, segments and any number *)
(* of triggers and blocks.  The inductive invariant has three parts: how   *)
(* the digitizer laid out what it stored; where a parser is between the    *)
(* triggers and the channels; and what it made of the words it has passed. *)
(***************************************************************************)
EXTENDS Parsing, FiniteSetTheorems, TLAPS

Block(i)    == events[i].block
First(i)    == events[i].first
Mask(i)     == events[i].mask
Time(i)     == events[i].time
Length(i)   == events[i].length
Place(i, c) == events[i].places[c]
Behind(i)   == events[i].places[8]
Width(p)    == Lead + IF p.good THEN p.n ELSE 0

-----------------------------------------------------------------------------
(* How the digitizer laid out what it stored.                              *)

TriggerRec == [block : Nat, first : Nat, mask : SUBSET Channels, length : Nat,
             time : Nat, places : [0..8 -> Nat]]
PartRec == [event : Nat, channel : Channels, at : Nat, n : Nat, good : BOOLEAN,
          says : Nat, time : Nat]

StoreType ==
  /\ mode \in Modes
  /\ blocks \in Seq(Nat) /\ blocks # <<>>
  /\ events \in Seq(TriggerRec)
  /\ parts \subseteq PartRec
  /\ fillers \subseteq Nat \X Nat
  /\ left \subseteq Channels
  /\ clock \in Nat

\* Triggers are stored one behind the other.
Before(i, j) == Block(i) < Block(j) \/ (Block(i) = Block(j) /\ Behind(i) <= First(j))

Spaces ==
  /\ \A b \in DOMAIN blocks : blocks[b] <= MaxWords
  /\ \A i \in DOMAIN events :
       /\ Block(i) \in DOMAIN blocks /\ Behind(i) <= blocks[Block(i)]
       /\ Place(i, 0) = First(i) + 4
  /\ \A i, j \in DOMAIN events : i < j => Before(i, j)

\* Channels are stored one behind the other, those of the mask and no others.
Places ==
  \A i \in DOMAIN events :
    /\ \A c, d \in 0..8 : c <= d => Place(i, c) <= Place(i, d)
    /\ \A c, d \in 0..8 :
         (c <= d /\ \A m \in Mask(i) : m < c \/ d <= m) => Place(i, c) = Place(i, d)

Open(i, c) == i = Len(events) /\ c \in left

\* The last trigger grows at the end of the last block.
Growing ==
  left # {} =>
    /\ events # <<>>
    /\ Block(Len(events)) = Len(blocks) /\ left \subseteq Mask(Len(events))
    /\ \A c \in Mask(Len(events)) \ left, d \in left : c < d
    /\ \A c \in left, d \in 0..8 :
         c < d \/ (c = d /\ mode # "zle") => Place(Len(events), d) = End

\* A part has its place in its channel.
PartFits(p) ==
  IF mode = "zle"
  THEN /\ Place(p.event, p.channel) < p.at
       /\ p.at + Width(p) <= Place(p.event, p.channel + 1)
       /\ p.says = p.n /\ p.n > 0
  ELSE /\ ~Open(p.event, p.channel)
       /\ p.at = Place(p.event, p.channel)
       /\ p.at + Width(p) = Place(p.event, p.channel + 1)
       /\ p.time = Time(p.event) + IF mode = "plain" THEN 0 ELSE p.channel
       /\ mode = "plain" => p.n = Length(p.event) /\ (p.good <=> p.n > 0)
       /\ mode # "plain" => p.good
       /\ \/ p.says = Lead + p.n
          \/ mode = "newfw" /\ p.says \in WrongSizes

PartsFit ==
  /\ \A p \in parts :
       p.event \in DOMAIN events /\ p.channel \in Mask(p.event) /\ PartFits(p)
  /\ \A p, q \in parts :
       p.event = q.event /\ p.channel = q.channel /\ p.at = q.at => p = q

Apart ==
  \A p, q \in parts : p.event = q.event /\ p.channel = q.channel =>
    p = q \/ p.at + Width(p) <= q.at \/ q.at + Width(q) <= p.at

\* Every channel that is stored has its part, or with ZLE the word for its size.
Stored ==
  \A i \in DOMAIN events : \A c \in Mask(i) :
    ~Open(i, c) =>
      IF mode = "zle" THEN Place(i, c) < Place(i, c + 1)
      ELSE \E p \in parts : p.event = i /\ p.channel = c

\* With ZLE: word j is the first of a segment at time t, or behind the channel.
Follows(i, c, j, t) ==
  \/ j = Place(i, c + 1)
  \/ \E p \in parts : p.event = i /\ p.channel = c /\ p.at = j /\ p.time = t

Chain ==
  mode = "zle" =>
    /\ \A i \in DOMAIN events : \A c \in Mask(i) :
         Place(i, c) < Place(i, c + 1) => Follows(i, c, Place(i, c) + 1, Time(i))
    /\ \A p \in parts : Follows(p.event, p.channel, p.at + Width(p), p.time + 2 * p.n)
    /\ \A c \in left :
         /\ Place(Len(events), c) + 1 = End => clock = Time(Len(events))
         /\ \A p \in parts :
              p.event = Len(events) /\ p.channel = c /\ p.at + Width(p) = End
                => clock = p.time + 2 * p.n

\* Without ZLE the length of the trigger is that of its channels.
Even ==
  mode = "plain" =>
    \A i \in DOMAIN events :
      Behind(i) = First(i) + 4
        + Length(i) * (Cardinality(Mask(i)) - IF i = Len(events) THEN Cardinality(left) ELSE 0)

FillersApart ==
  \A f \in fillers :
    /\ f[1] \in DOMAIN blocks /\ f[2] < blocks[f[1]]
    /\ \A i \in DOMAIN events : Block(i) = f[1] => f[2] < First(i) \/ Behind(i) <= f[2]

Layout ==
  StoreType /\ Spaces /\ Places /\ Growing /\ PartsFit /\ Stored /\ Chain /\ Even /\ FillersApart

-----------------------------------------------------------------------------
(* Where the parsers are.                                                  *)

\* The parser is behind the header of a damaged trigger of its block.
Gone == Astray(x, idx)

\* A damaged trigger of its block was stored before it, or it is one.
Spoilt(i) == Astray(Block(i), Behind(i))

\* Before the hand-over nothing has been read.
Fresh ==
  at = "store" =>
    /\ buffvec = <<>> /\ x = 1 /\ idx = 0 /\ out = <<>> /\ indices = <<>>
    /\ todo = {} /\ header = 0 /\ size = 0 /\ word = 0 /\ sample = 0

Handed ==
  at # "store" =>
    /\ left = {}
    /\ buffvec = [b \in DOMAIN blocks |-> [j \in 1..blocks[b] |-> WordAt(b, j - 1)]]
    /\ x \in DOMAIN blocks /\ (idx \in 0..blocks[x] \/ (idx \in Nat /\ Gone))
    /\ todo \subseteq Channels /\ {header, size, word, sample} \subseteq Nat
    /\ Parsed => x = Len(blocks)

\* Between the triggers, the parsers are within one only if they cannot read it, or have lost
\* their place.
Outside ==
  at = "scan" =>
    \A i \in DOMAIN events :
      Block(i) = x /\ First(i) < idx /\ idx < Behind(i) =>
        mode = "blocks" \/ Gone \/ (mode = "plain" /\ Mask(i) = {})

\* The loop over the channels of trigger i.
Loop(i) ==
  /\ Block(i) = x
  /\ todo \subseteq Mask(i) /\ \A c \in Mask(i) \ todo, d \in todo : c < d
  /\ mode # "blocks"
  /\ mode # "newfw" => header = Time(i)
  /\ mode = "plain" => Mask(i) # {} /\ size = Length(i)

\* The next channel is where the parser looks for it.
OnTrack(i) == idx = IF todo = {} THEN Behind(i) ELSE Place(i, Lowest(todo))

InChannel(i) ==
  LET c == Lowest(todo)
  IN /\ todo # {}
     /\ idx = Place(i, c) + word
     /\ mode = "zle" =>
          /\ size = Place(i, c + 1) - Place(i, c) /\ word > 0
          /\ Follows(i, c, idx, header + sample)
     /\ mode # "zle" => mode = "plain" /\ (word = 0 \/ word = size) /\ (word = 0 => sample = 0)

Reading ==
  /\ at = "channel" => Gone \/ \E i \in DOMAIN events : Loop(i) /\ OnTrack(i)
  /\ at = "words" => \E i \in DOMAIN events : Loop(i) /\ InChannel(i)

-----------------------------------------------------------------------------
(* What the parsers have read.                                             *)

Passed(b, j) == b < x \/ (b = x /\ (j < idx \/ Parsed))

PieceType == [block : Nat, first : Nat, n : Nat, channel : 0..7, time : Nat]

\* A piece is of one trigger, and it is a part that was stored.
Sound(piece, i) ==
  /\ Inside(piece, events[i])
  /\ \/ mode = "blocks"
     \/ \E p \in parts : p.event = i /\ p.good /\ piece = PieceOf(p)

\* Behind a wrong size a piece may be of anything, but the check limits it.
Wild(piece) ==
  /\ piece.block \in DOMAIN blocks /\ Astray(piece.block, piece.first)
  /\ piece.first + piece.n < 4 * blocks[piece.block]

Right(piece) == Wild(piece) \/ \E i \in DOMAIN events : Sound(piece, i)

OutSound ==
  /\ out \in Seq(PieceType)
  /\ \A b \in DOMAIN out : Right(out[b])

\* All pieces are of what was read.
OutRead ==
  \A b \in DOMAIN out :
    \/ out[b].block < x
    \/ /\ out[b].block = x
       /\ \/ Parsed
          \/ out[b].first + out[b].n <= idx /\ (mode # "newfw" => out[b].n > 0)

OutOrdered ==
  mode # "blocks" =>
    \A b, d \in DOMAIN out : b < d =>
      \/ out[b].block < out[d].block
      \/ out[b].block = out[d].block /\ out[b].first < out[d].first

\* Every part that was read of the triggers before the first damaged one has its piece.
OutComplete ==
  mode # "blocks" =>
    \A p \in parts :
      p.good /\ ~Spoilt(p.event) /\ Passed(Block(p.event), p.at) =>
        \E b \in DOMAIN out : out[b] = PieceOf(p)

Scanned == Outside /\ Reading /\ OutSound /\ OutRead /\ OutOrdered /\ OutComplete

ParseInv == Layout /\ Apart /\ Fresh /\ Handed /\ Scanned

-----------------------------------------------------------------------------
(* The events of the file.                                                 *)

Seen(i) == at # "store" /\ Passed(Block(i), First(i))
Prefix(i) == \A j \in DOMAIN events : j <= i => HasPieces(j)

Counted ==
  /\ at \in {"store", "scan", "channel", "words", "write", "done", "aborted"}
  /\ indices \in Seq(Nat) /\ \A k \in DOMAIN indices : indices[k] \in 1..(Len(out) + 1)
  /\ written \in 0..Len(out) /\ current \in 1..(written + 1) /\ file \in Seq(Seq(Nat))
  /\ ~Parsed => current = 1 /\ written = 0 /\ file = <<>>
  /\ at = "done" => written = Len(out)

\* As long as every trigger has pieces, index i is that of the first piece of trigger i.
Indexed ==
  mode \in {"zle", "plain"} =>
    /\ \A i \in 0..Len(events) :
         (\A j \in DOMAIN events : i < j => ~Seen(j)) => Len(indices) <= i
    /\ \A i \in DOMAIN events : Prefix(i) /\ Seen(i) =>
         /\ i \in DOMAIN indices
         /\ \A b \in DOMAIN out, j \in DOMAIN events :
              Inside(out[b], events[j]) => (b < indices[i] <=> j < i)
         /\ \A b \in DOMAIN out, k \in DOMAIN indices :
              Inside(out[b], events[i]) /\ i < k => b < indices[k]

\* The file up to the piece that was written last.
Grouped ==
  mode \in {"zle", "plain"} =>
    /\ current = Len(file) + 1
    /\ \A k \in 1..(current - 1) : k \in DOMAIN indices /\ indices[k] <= written
    /\ \A i \in DOMAIN events :
         Prefix(i) /\ i \in DOMAIN indices /\ indices[i] <= written => i < current
    /\ \A k \in DOMAIN file : \A j \in DOMAIN file[k] :
         /\ file[k][j] \in 1..written
         /\ \A i \in DOMAIN events : Prefix(i) /\ Inside(out[file[k][j]], events[i]) => k = i
    /\ \A b \in 1..written :
         (\E i \in DOMAIN events : Prefix(i) /\ Inside(out[b], events[i])) =>
           \E k \in DOMAIN file : \E j \in DOMAIN file[k] : file[k][j] = b

FileInv == Counted /\ Indexed /\ Grouped

-----------------------------------------------------------------------------
(* Channels and places.                                                    *)

LEMMA SmallestChannel ==
  ASSUME NEW S \in SUBSET (0..7), S # {}
  PROVE  Lowest(S) \in S /\ \A d \in S : Lowest(S) <= d
<1>1. \E c \in S : \A d \in S : c <= d
  <2>1. CASE 0 \in S  BY <2>1
  <2>2. CASE 0 \notin S /\ 1 \in S  BY <2>2
  <2>3. CASE 0 \notin S /\ 1 \notin S /\ 2 \in S  BY <2>3
  <2>4. CASE 0 \notin S /\ 1 \notin S /\ 2 \notin S /\ 3 \in S  BY <2>4
  <2>5. CASE S \subseteq 4..7
    <3>1. CASE 4 \in S  BY <2>5, <3>1
    <3>2. CASE 4 \notin S /\ 5 \in S  BY <2>5, <3>2
    <3>3. CASE 4 \notin S /\ 5 \notin S /\ 6 \in S  BY <2>5, <3>3
    <3>4. CASE 4 \notin S /\ 5 \notin S /\ 6 \notin S
      <4>1. \A c \in S : c = 7  BY <2>5, <3>4
      <4>2. \E c \in S : TRUE  OBVIOUS
      <4>3. QED  BY <4>1, <4>2
    <3>5. QED  BY <3>1, <3>2, <3>3, <3>4
  <2>6. 0 \notin S /\ 1 \notin S /\ 2 \notin S /\ 3 \notin S => S \subseteq 4..7
    OBVIOUS
  <2>7. QED  BY <2>1, <2>2, <2>3, <2>4, <2>5, <2>6
<1>2. QED  BY <1>1 DEF Lowest

LEMMA ChannelSets ==
  /\ Channels \subseteq 0..7
  /\ \A S \in SUBSET Channels : IsFiniteSet(S) /\ Cardinality(S) \in 0..8
  /\ \A S \in SUBSET Channels : S # {} => Lowest(S) \in S /\ \A d \in S : Lowest(S) <= d
<1>1. Channels \subseteq 0..7  BY ParsingAssumption
<1>2. IsFiniteSet(0..7) /\ Cardinality(0..7) = 8
  <2>1. 0 \in Int /\ 7 \in Int  OBVIOUS
  <2>2. IsFiniteSet(0..7) /\ Cardinality(0..7) = IF 0 > 7 THEN 0 ELSE 7 - 0 + 1
    BY <2>1, FS_Interval, Zenon
  <2>3. QED  BY <2>2
<1>3. \A S \in SUBSET Channels : IsFiniteSet(S) /\ Cardinality(S) \in 0..8
  <2> TAKE S \in SUBSET Channels
  <2>1. S \in SUBSET (0..7)  BY <1>1
  <2>2. IsFiniteSet(S) /\ Cardinality(S) <= 8  BY <1>2, <2>1, FS_Subset
  <2>3. QED  BY <2>2, FS_CardinalityType
<1>4. QED  BY <1>1, <1>3, SmallestChannel

LEMMA LeadType == Lead \in Nat /\ (mode = "zle" => Lead = 1) /\ (mode = "plain" => Lead = 0)
                    /\ (mode # "zle" /\ mode # "plain" => Lead = 2)
  BY DEF Lead

LEMMA TriggerType ==
  ASSUME StoreType, NEW i \in DOMAIN events
  PROVE  /\ i \in Nat /\ 1 <= i /\ i <= Len(events) /\ Len(events) \in DOMAIN events
         /\ Block(i) \in Nat /\ First(i) \in Nat /\ Mask(i) \in SUBSET Channels
         /\ Time(i) \in Nat /\ Length(i) \in Nat
         /\ \A c \in 0..8 : Place(i, c) \in Nat
         /\ Behind(i) = Place(i, 8) /\ Behind(i) \in Nat
<1>1. events[i] \in TriggerRec /\ DOMAIN events = 1..Len(events) /\ Len(events) \in Nat
  BY DEF StoreType
<1>2. events[i].places \in [0..8 -> Nat]  BY <1>1 DEF TriggerRec
<1>3. \A c \in 0..8 : Place(i, c) \in Nat  BY <1>2 DEF Place
<1>4. Behind(i) = Place(i, 8) /\ Behind(i) \in Nat  BY <1>2 DEF Place, Behind
<1>5. /\ Block(i) \in Nat /\ First(i) \in Nat /\ Mask(i) \in SUBSET Channels
      /\ Time(i) \in Nat /\ Length(i) \in Nat
  BY <1>1 DEF TriggerRec, Block, First, Mask, Time, Length
<1>6. i \in Nat /\ 1 <= i /\ i <= Len(events) /\ Len(events) \in DOMAIN events
  BY <1>1
<1>7. QED  BY <1>3, <1>4, <1>5, <1>6

LEMMA PartType ==
  ASSUME StoreType, NEW p \in parts
  PROVE  /\ p.event \in Nat /\ p.channel \in Channels /\ p.channel \in 0..7 /\ p.at \in Nat
         /\ p.n \in Nat /\ p.good \in BOOLEAN /\ p.says \in Nat /\ p.time \in Nat
         /\ Width(p) \in Nat
<1>1. p \in PartRec  BY DEF StoreType
<1>2. /\ p.event \in Nat /\ p.channel \in Channels /\ p.at \in Nat
      /\ p.n \in Nat /\ p.good \in BOOLEAN /\ p.says \in Nat /\ p.time \in Nat
  BY <1>1 DEF PartRec
<1>3. Width(p) = Lead + p.n \/ Width(p) = Lead + 0  BY DEF Width
<1>4. Width(p) \in Nat  BY <1>2, <1>3, LeadType
<1>5. QED  BY <1>2, <1>4, ChannelSets

LEMMA EndType ==
  ASSUME StoreType
  PROVE  /\ Len(blocks) \in DOMAIN blocks /\ Len(blocks) \in Nat /\ DOMAIN blocks = 1..Len(blocks)
         /\ End \in Nat /\ \A b \in DOMAIN blocks : b \in Nat /\ b <= Len(blocks) /\ blocks[b] \in Nat
  BY DEF StoreType, End

-----------------------------------------------------------------------------
(* What the digitizer's steps do to the places.                            *)

\* The blocks but the last one stay, and that gets k more words.
Grown(k) ==
  /\ k \in Nat /\ End + k <= MaxWords
  /\ blocks' \in Seq(Nat) /\ blocks' # <<>> /\ Len(blocks') = Len(blocks)
  /\ DOMAIN blocks' = DOMAIN blocks
  /\ End' = End + k /\ blocks'[Len(blocks)] = End + k
  /\ \A b \in DOMAIN blocks : b # Len(blocks) => blocks'[b] = blocks[b]

\* The first channel that is left gets k more words.
Extended(k) ==
  LET c == Lowest(left)
  IN /\ Grown(k)
     /\ c \in left /\ c \in 0..7 /\ \A d \in left : c <= d
     /\ events # <<>> /\ Len(events) \in DOMAIN events
     /\ events' \in Seq(TriggerRec) /\ events' # <<>>
     /\ DOMAIN events' = DOMAIN events /\ Len(events') = Len(events)
     /\ \A i \in DOMAIN events :
          /\ Block(i)' = Block(i) /\ First(i)' = First(i) /\ Mask(i)' = Mask(i)
          /\ Time(i)' = Time(i) /\ Length(i)' = Length(i)
          /\ Behind(i)' = Place(i, 8)'
          /\ \A d \in 0..8 :
               Place(i, d)' = IF i = Len(events) /\ c < d THEN End + k ELSE Place(i, d)

LEMMA GrowGrown == ASSUME StoreType, NEW k \in Nat, Grow(k) PROVE Grown(k)
<1>1. blocks' = [blocks EXCEPT ![Len(blocks)] = @ + k]  BY DEF Grow
<1>2. QED  BY <1>1, EndType DEF StoreType, Grow, Grown, End

LEMMA ExtendExtended ==
  ASSUME StoreType, Growing, NEW k \in Nat, Extend(k) PROVE Extended(k)
<1> DEFINE c == Lowest(left)
           n == Len(events)
           ps == [d \in 0..8 |-> IF d > c THEN End + k ELSE events[n].places[d]]
<1>1. Grown(k)  BY GrowGrown DEF Extend
<1>2. left # {} /\ left \in SUBSET Channels  BY DEF Extend, StoreType
<1>3. c \in left /\ c \in 0..7 /\ \A d \in left : c <= d  BY <1>2, ChannelSets
<1>4. n \in DOMAIN events /\ events # <<>>  BY <1>2 DEF Growing, StoreType
<1>5. events' = [events EXCEPT ![n] = [events[n] EXCEPT !.places = ps]]
  BY <1>4 DEF Extend, StoreType
<1>6. events[n] \in TriggerRec /\ DOMAIN events = 1..Len(events) /\ events \in Seq(TriggerRec)
  BY <1>4 DEF StoreType
<1>7. ps \in [0..8 -> Nat]
  <2>1. events[n].places \in [0..8 -> Nat]  BY <1>6 DEF TriggerRec
  <2>2. End + k \in Nat  BY EndType
  <2>3. QED  BY <2>1, <2>2
<1>8. [events[n] EXCEPT !.places = ps] \in TriggerRec
  BY <1>6, <1>7 DEF TriggerRec
<1>9. events' \in Seq(TriggerRec) /\ DOMAIN events' = DOMAIN events /\ Len(events') = Len(events)
  BY <1>4, <1>5, <1>6, <1>8
<1>10. \A i \in DOMAIN events : i # n => events'[i] = events[i]
  BY <1>5
<1>11. events'[n] = [events[n] EXCEPT !.places = ps]
  BY <1>4, <1>5
<1>12. \A i \in DOMAIN events :
         /\ Block(i)' = Block(i) /\ First(i)' = First(i) /\ Mask(i)' = Mask(i)
         /\ Time(i)' = Time(i) /\ Length(i)' = Length(i) /\ Behind(i)' = Place(i, 8)'
  BY <1>6, <1>10, <1>11 DEF Block, First, Mask, Time, Length, Behind, Place, TriggerRec
<1>13. \A i \in DOMAIN events, d \in 0..8 :
         Place(i, d)' = IF i = n /\ c < d THEN End + k ELSE Place(i, d)
  <2> SUFFICES ASSUME NEW i \in DOMAIN events, NEW d \in 0..8
               PROVE  Place(i, d)' = IF i = n /\ c < d THEN End + k ELSE Place(i, d)
    OBVIOUS
  <2>1. CASE i # n  BY <1>10, <2>1 DEF Place
  <2>2. CASE i = n
    <3>1. events'[n].places = ps  BY <1>6, <1>11 DEF TriggerRec
    <3>2. ps[d] = IF d > c THEN End + k ELSE events[n].places[d]  OBVIOUS
    <3>3. QED  BY <2>2, <3>1, <3>2, <1>3 DEF Place
  <2>3. QED  BY <2>1, <2>2
<1>14. events' # <<>>  BY <1>4, <1>9
<1>15. QED  BY <1>1, <1>3, <1>4, <1>9, <1>12, <1>13, <1>14 DEF Extended

\* Whatever the words are, the last trigger stays behind the others and its channels in order.
LEMMA ExtendSpaces ==
  ASSUME StoreType, Spaces, Places, Growing, FillersApart,
         NEW k \in Nat, Extended(k), fillers' = fillers
  PROVE  Spaces' /\ Places' /\ FillersApart'
<1> PICK c, n : c = Lowest(left) /\ n = Len(events)
  OBVIOUS
<1>1. /\ c \in left /\ c \in 0..7 /\ n \in DOMAIN events /\ n \in Nat
      /\ DOMAIN events' = DOMAIN events /\ DOMAIN blocks' = DOMAIN blocks
      /\ \A i \in DOMAIN events :
           /\ i \in Nat /\ i <= n
           /\ Block(i)' = Block(i) /\ First(i)' = First(i) /\ Mask(i)' = Mask(i)
           /\ Behind(i) = Place(i, 8) /\ Behind(i)' = Place(i, 8)'
           /\ Block(i) \in Nat /\ First(i) \in Nat
      /\ \A i \in DOMAIN events, d \in 0..8 :
           /\ Place(i, d) \in Nat
           /\ Place(i, d)' = IF i = n /\ c < d THEN End + k ELSE Place(i, d)
  BY TriggerType DEF Extended, Grown
<1>2. /\ End \in Nat /\ Len(blocks) \in DOMAIN blocks /\ blocks[Len(blocks)] = End
      /\ blocks'[Len(blocks)] = End + k /\ End + k <= MaxWords
      /\ \A b \in DOMAIN blocks : b # Len(blocks) => blocks'[b] = blocks[b]
  BY EndType DEF Extended, Grown, End
<1>3. /\ Block(n) = Len(blocks) /\ c \in Mask(n)
      /\ \A d \in 0..8 : c < d => Place(n, d) = End
  BY <1>1 DEF Growing
<1>4. /\ Behind(n) = End /\ Behind(n)' = End + k
      /\ \A i \in DOMAIN events : i # n => Behind(i)' = Behind(i)
  <2>1. 8 \in 0..8 /\ c < 8  BY SMTT(30), <1>1
  <2>2. Place(n, 8) = End /\ Place(n, 8)' = End + k  BY <1>1, <1>3, <2>1
  <2>3. QED  BY <1>1, <2>1, <2>2
<1>5. Spaces'
  <2>1. \A b \in DOMAIN blocks' : blocks'[b] <= MaxWords
    BY <1>1, <1>2 DEF Spaces
  <2>2. \A i \in DOMAIN events' : Block(i)' \in DOMAIN blocks' /\ Behind(i)' <= blocks'[Block(i)']
    <3> SUFFICES ASSUME NEW i \in DOMAIN events PROVE Behind(i)' <= blocks'[Block(i)]
      <4>1. \A i \in DOMAIN events : Block(i)' \in DOMAIN blocks'  BY <1>1 DEF Spaces
      <4>2. QED  BY <1>1, <4>1
    <3>1. Behind(i) <= blocks[Block(i)] /\ Block(i) \in DOMAIN blocks  BY DEF Spaces
    <3>2. CASE i = n
      <4>1. Behind(i)' = End + k /\ blocks'[Block(i)] = End + k  BY <1>2, <1>3, <1>4, <3>2
      <4>2. QED  BY <1>2, <4>1
    <3>3. CASE i # n /\ Block(i) = Len(blocks)
      <4>1. Behind(i)' = Behind(i) /\ Behind(i) <= End /\ Behind(i) \in Nat
        BY <1>1, <1>2, <1>4, <3>1, <3>3
      <4>2. QED  BY <1>2, <3>3, <4>1
    <3>4. CASE i # n /\ Block(i) # Len(blocks)  BY <1>2, <1>4, <3>1, <3>4
    <3>5. QED  BY <3>2, <3>3, <3>4
  <2>3. \A i \in DOMAIN events' : Place(i, 0)' = First(i)' + 4
    <3>1. 0 \in 0..8 /\ ~(c < 0)  BY SMTT(30), <1>1
    <3>2. \A i \in DOMAIN events : Place(i, 0)' = Place(i, 0)  BY <1>1, <3>1
    <3>3. QED  BY <1>1, <3>2 DEF Spaces
  <2>4. \A i, j \in DOMAIN events' : i < j => Before(i, j)'
    <3> SUFFICES ASSUME NEW i \in DOMAIN events, NEW j \in DOMAIN events, i < j
                 PROVE  Before(i, j)'
      BY <1>1
    <3>1. i # n
      <4>1. i \in Nat /\ j \in Nat /\ j <= n /\ n \in Nat  BY <1>1
      <4>2. QED  BY <4>1
    <3>2. Before(i, j)  BY DEF Spaces
    <3>3. QED  BY <1>1, <1>4, <3>1, <3>2 DEF Before
  <2>5. QED  BY <2>1, <2>2, <2>3, <2>4 DEF Spaces
<1>6. Places'
  <2> SUFFICES ASSUME NEW i \in DOMAIN events, NEW b \in 0..8, NEW d \in 0..8, b <= d
               PROVE  /\ Place(i, b)' <= Place(i, d)'
                      /\ (\A m \in Mask(i) : m < b \/ d <= m) => Place(i, b)' = Place(i, d)'
    <3>1. DOMAIN events' = DOMAIN events /\ \A i \in DOMAIN events : Mask(i)' = Mask(i)
      BY <1>1
    <3>2. \A i \in DOMAIN events' : \A b, d \in 0..8 :
            b <= d => /\ Place(i, b)' <= Place(i, d)'
                      /\ (\A m \in Mask(i)' : m < b \/ d <= m) => Place(i, b)' = Place(i, d)'
      BY <3>1
    <3>3. QED  BY <3>2 DEF Places
  <2>0. /\ b \in Int /\ d \in Int /\ c \in Int
        /\ Place(i, b) \in Nat /\ Place(i, d) \in Nat
        /\ Place(i, b)' = IF i = n /\ c < b THEN End + k ELSE Place(i, b)
        /\ Place(i, d)' = IF i = n /\ c < d THEN End + k ELSE Place(i, d)
    <3>1. b \in Int /\ d \in Int /\ c \in Int  BY <1>1
    <3>2. Place(i, b) \in Nat /\ Place(i, b)' = IF i = n /\ c < b THEN End + k ELSE Place(i, b)
      BY <1>1
    <3>3. Place(i, d) \in Nat /\ Place(i, d)' = IF i = n /\ c < d THEN End + k ELSE Place(i, d)
      BY <1>1
    <3>4. QED  BY <3>1, <3>2, <3>3
  <2>1. /\ Place(i, b) <= Place(i, d)
        /\ (\A m \in Mask(i) : m < b \/ d <= m) => Place(i, b) = Place(i, d)
    BY DEF Places
  <2>2. CASE i # n  BY <2>0, <2>1, <2>2
  <2>3. CASE i = n /\ c < b
    <3>1. Place(i, b)' = End + k /\ Place(i, d)' = End + k  BY <2>0, <2>3
    <3>2. QED  BY <1>2, <3>1
  <2>4. CASE i = n /\ d <= c
    <3>1. Place(i, b)' = Place(i, b) /\ Place(i, d)' = Place(i, d)  BY <2>0, <2>4
    <3>2. QED  BY <2>1, <3>1
  <2>5. CASE i = n /\ b <= c /\ c < d
    <3>1. Place(i, b)' = Place(i, b) /\ Place(i, d)' = End + k /\ Place(i, d) = End
      BY <1>3, <2>0, <2>5
    <3>2. ~(\A m \in Mask(i) : m < b \/ d <= m)  BY <1>3, <2>0, <2>5
    <3>3. Place(i, b) \in Nat /\ Place(i, b) <= End  BY <2>0, <2>1, <3>1
    <3>4. QED  BY <1>2, <3>1, <3>2, <3>3
  <2>6. QED  BY <2>0, <2>2, <2>3, <2>4, <2>5
<1>7. FillersApart'
  <2> SUFFICES ASSUME NEW f \in fillers
               PROVE  /\ f[1] \in DOMAIN blocks' /\ f[2] < blocks'[f[1]]
                      /\ \A i \in DOMAIN events : Block(i) = f[1] => f[2] < First(i) \/ Behind(i)' <= f[2]
    BY <1>1 DEF FillersApart
  <2>1. /\ f[1] \in DOMAIN blocks /\ f[2] < blocks[f[1]] /\ f[2] \in Nat
        /\ \A i \in DOMAIN events : Block(i) = f[1] => f[2] < First(i) \/ Behind(i) <= f[2]
    BY DEF FillersApart, StoreType
  <2>2. f[2] < blocks'[f[1]]
    <3>1. CASE f[1] = Len(blocks)  BY <1>2, <2>1, <3>1
    <3>2. CASE f[1] # Len(blocks)  BY <1>2, <2>1, <3>2
    <3>3. QED  BY <3>1, <3>2
  <2>3. ASSUME NEW i \in DOMAIN events, Block(i) = f[1]
        PROVE  f[2] < First(i) \/ Behind(i)' <= f[2]
    <3>1. CASE i = n  BY <1>2, <1>3, <1>4, <2>1, <2>3, <3>1
    <3>2. CASE i # n  BY <1>4, <2>1, <2>3, <3>2
    <3>3. QED  BY <3>1, <3>2
  <2>4. QED  BY <1>1, <2>1, <2>2, <2>3
<1>8. QED  BY <1>5, <1>6, <1>7

\* A channel that is complete, or not the first that is left, keeps its places.
LEMMA ExtendOthers ==
  ASSUME StoreType, Growing, NEW k \in Nat, Extended(k),
         NEW i \in DOMAIN events, NEW c \in Mask(i), ~Open(i, c)
  PROVE  Place(i, c)' = Place(i, c) /\ Place(i, c + 1)' = Place(i, c + 1)
<1>1. c \in 0..7 /\ c \in 0..8 /\ c + 1 \in 0..8
  <2>1. c \in 0..7  BY TriggerType, ChannelSets
  <2>2. QED  BY <2>1
<1>2. CASE i # Len(events)  BY <1>1, <1>2 DEF Extended
<1>3. CASE i = Len(events)
  <2>1. c \notin left /\ Lowest(left) \in left /\ Lowest(left) \in 0..7 /\ left # {}
    BY <1>3 DEF Open, Extended
  <2>2. c < Lowest(left)  BY <1>3, <2>1 DEF Growing
  <2>3. QED  BY <1>1, <2>1, <2>2 DEF Extended
<1>4. QED  BY <1>2, <1>3

LEMMA ExtendGrowing ==
  ASSUME StoreType, Growing, NEW k \in Nat, Extended(k), mode' = mode,
         left' = left \ {Lowest(left)} \/ (mode = "zle" /\ left' = left)
  PROVE  Growing'
<1> SUFFICES ASSUME left' # {} PROVE Growing'
  BY DEF Growing
<1> PICK c, n : c = Lowest(left) /\ n = Len(events)
  OBVIOUS
<1>1. /\ c \in left /\ c \in 0..7 /\ \A d \in left : c <= d /\ d \in 0..7
      /\ n \in DOMAIN events /\ Len(events') = n /\ events' # <<>>
      /\ Len(blocks') = Len(blocks) /\ End' = End + k
      /\ Block(n)' = Block(n) /\ Mask(n)' = Mask(n)
      /\ \A d \in 0..8 : Place(n, d)' = IF c < d THEN End + k ELSE Place(n, d)
  BY ChannelSets DEF Extended, Grown, StoreType
<1>2. /\ Block(n) = Len(blocks) /\ left \subseteq Mask(n) /\ Mask(n) \subseteq 0..7
      /\ \A b \in Mask(n) \ left, d \in left : b < d
  BY <1>1, ChannelSets, TriggerType DEF Growing
<1>3. left' \subseteq left /\ left \ left' \subseteq {c}
  OBVIOUS
<1>4. \A b \in Mask(n) \ left', d \in left' : b < d
  <2> SUFFICES ASSUME NEW b \in Mask(n) \ left', NEW d \in left' PROVE b < d
    OBVIOUS
  <2>1. CASE b \notin left  BY <1>2, <1>3, <2>1
  <2>2. CASE b \in left
    <3>1. b = c /\ d # c /\ d \in left  BY <1>3, <2>2
    <3>2. QED  BY <1>1, <3>1
  <2>3. QED  BY <2>1, <2>2
<1>5. \A b \in left', d \in 0..8 :
        b < d \/ (b = d /\ mode # "zle") => Place(n, d)' = End + k
  <2> SUFFICES ASSUME NEW b \in left', NEW d \in 0..8, b < d \/ (b = d /\ mode # "zle")
               PROVE  Place(n, d)' = End + k
    OBVIOUS
  <2>1. b \in left /\ b \in 0..7 /\ c <= b  BY <1>1, <1>3
  <2>2. c < d
    <3>1. CASE b < d  BY <1>1, <2>1, <3>1
    <3>2. CASE b = d /\ mode # "zle"  BY <1>1, <2>1, <3>2
    <3>3. QED  BY <3>1, <3>2
  <2>3. QED  BY <1>1, <2>2
<1>6. QED  BY <1>1, <1>2, <1>3, <1>4, <1>5 DEF Growing

\* What was stored of a channel keeps its place.
LEMMA ExtendParts ==
  ASSUME StoreType, Places, Growing, PartsFit, NEW k \in Nat, Extended(k), mode' = mode,
         left' \subseteq left
  PROVE  \A p \in parts :
           /\ p.event \in DOMAIN events' /\ p.channel \in Mask(p.event)' /\ PartFits(p)'
           /\ Width(p)' = Width(p)
<1> TAKE p \in parts
<1> PICK c, n : c = Lowest(left) /\ n = Len(events)
  OBVIOUS
<1> DEFINE i == p.event
           b == p.channel
<1>1. /\ i \in DOMAIN events /\ b \in Mask(i) /\ b \in 0..7 /\ PartFits(p)
      /\ p.at \in Nat /\ p.n \in Nat /\ Width(p) \in Nat
  BY PartType DEF PartsFit
<1>2. /\ c \in left /\ c \in 0..7 /\ n \in DOMAIN events /\ DOMAIN events' = DOMAIN events
      /\ Len(events') = n /\ End \in Nat
      /\ Mask(i)' = Mask(i) /\ Time(i)' = Time(i) /\ Length(i)' = Length(i)
  BY <1>1, EndType DEF Extended
<1>3. Lead' = Lead /\ Width(p)' = Width(p)
  BY DEF Lead, Width
<1>4. /\ Place(i, b) \in Nat /\ Place(i, b + 1) \in Nat
      /\ Place(i, b)' = IF i = n /\ c < b THEN End + k ELSE Place(i, b)
      /\ Place(i, b + 1)' = IF i = n /\ c < b + 1 THEN End + k ELSE Place(i, b + 1)
  <2>1. b \in 0..8 /\ b + 1 \in 0..8  BY <1>1
  <2>2. QED  BY <1>1, <2>1, TriggerType DEF Extended
<1>5. \A d \in 0..8 : c < d => Place(n, d) = End
  BY <1>2 DEF Growing
<1>6. CASE mode = "zle"
  <2>1. /\ Place(i, b) < p.at /\ p.at + Width(p) <= Place(i, b + 1)
        /\ p.says = p.n /\ p.n > 0
    BY <1>1, <1>6 DEF PartFits
  <2>2. Place(i, b + 1) <= Place(i, b + 1)'
    <3>1. CASE i = n /\ c < b + 1
      <4>1. Place(i, b + 1) = End  BY SMTT(30), <1>1, <1>2, <1>5, <3>1
      <4>2. QED  BY <1>2, <1>4, <3>1, <4>1
    <3>2. CASE ~(i = n /\ c < b + 1)  BY <1>4, <3>2
    <3>3. QED  BY <3>1, <3>2
  <2>3. ~(i = n /\ c < b)
    <3> SUFFICES ASSUME i = n, c < b PROVE FALSE
      OBVIOUS
    <3>1. b \in 0..8 /\ b + 1 \in 0..8 /\ c < b + 1  BY <1>1, <1>2
    <3>2. Place(i, b) = End /\ Place(i, b + 1) = End  BY <1>5, <3>1
    <3>3. QED  BY <1>1, <1>2, <2>1, <3>2
  <2>4. Place(i, b)' = Place(i, b) /\ Place(i, b + 1)' \in Nat  BY <1>2, <1>4, <2>3
  <2>5. Place(i, b)' < p.at /\ p.at + Width(p)' <= Place(i, b + 1)'
    BY <1>1, <1>3, <1>4, <2>1, <2>2, <2>4
  <2>6. QED  BY <1>1, <1>2, <1>3, <1>6, <2>1, <2>5 DEF PartFits
<1>7. CASE mode # "zle"
  <2>1. ~Open(i, b)  BY <1>1, <1>7 DEF PartFits
  <2>2. Place(i, b)' = Place(i, b) /\ Place(i, b + 1)' = Place(i, b + 1)
    BY <1>1, <2>1, ExtendOthers
  <2>3. ~Open(i, b)'  BY <1>2, <2>1 DEF Open
  <2>4. QED  BY <1>1, <1>2, <1>3, <1>7, <2>2, <2>3 DEF PartFits
<1>8. QED  BY <1>6, <1>7

\* What holds for the new part alone.
NewPart(p, w) ==
  /\ p \in PartRec
  /\ p.event = Len(events) /\ p.channel = Lowest(left) /\ p.at = End /\ Width(p) = w

LEMMA PartTyped ==
  ASSUME StoreType, Growing, left # {}, NEW n \in Nat, NEW good \in BOOLEAN, NEW says \in Nat,
         NEW t \in Nat
  PROVE  NewPart(Part(n, good, says, t), Lead + IF good THEN n ELSE 0)
<1>1. Len(events) \in Nat /\ End \in Nat /\ Lowest(left) \in Channels
  <2>1. left \in SUBSET Channels  BY DEF StoreType
  <2>2. Lowest(left) \in Channels  BY <2>1, ChannelSets
  <2>3. QED  BY <2>2, EndType DEF StoreType
<1>2. QED  BY <1>1 DEF NewPart, Part, PartRec, Width

LEMMA StoreChannelLayout ==
  ASSUME Layout, NEW n \in Lengths, StoreChannel(n) PROVE Layout'
<1> USE DEF Layout
<1>1. n \in Nat /\ Lead + n \in Nat  BY ParsingAssumption, LeadType
<1>2. Extended(Lead + n)  BY <1>1, ExtendExtended DEF StoreChannel
<1> PICK c, e : c = Lowest(left) /\ e = Len(events)
  OBVIOUS
<1>3. /\ mode # "zle" /\ mode' = mode /\ fillers' = fillers /\ clock' = clock
      /\ left' = left \ {c} /\ left # {}
  BY DEF StoreChannel, Extend
<1>4. PICK says \in Says(n) :
        parts' = parts \cup {Part(n, mode = "plain" => n > 0, says,
                                  Newest.time + IF mode = "plain" THEN 0 ELSE Lowest(left))}
  BY DEF StoreChannel
<1> PICK good \in BOOLEAN : good <=> (mode = "plain" => n > 0)
  OBVIOUS
<1> PICK t, p :
      /\ t = Newest.time + IF mode = "plain" THEN 0 ELSE Lowest(left)
      /\ p = Part(n, good, says, t)
  OBVIOUS
<1>5. /\ c \in left /\ c \in 0..7 /\ e \in DOMAIN events /\ DOMAIN events' = DOMAIN events
      /\ Len(events') = e /\ End \in Nat /\ c \in Channels
      /\ Place(e, c)' = Place(e, c) /\ Place(e, c + 1)' = End + (Lead + n)
      /\ Time(e)' = Time(e) /\ Length(e)' = Length(e) /\ Mask(e)' = Mask(e)
  <2>1. c \in 0..7 /\ e \in DOMAIN events  BY <1>2 DEF Extended
  <2>2. c \in 0..8 /\ c + 1 \in 0..8 /\ ~(c < c) /\ c < c + 1  BY <2>1
  <2>3. Place(e, c)' = Place(e, c) /\ Place(e, c + 1)' = End + (Lead + n)
    BY <1>2, <2>1, <2>2 DEF Extended
  <2>4. QED  BY <1>2, <2>3, EndType, ChannelSets DEF Extended, StoreType
<1>6. /\ Place(e, c) = End /\ c \in Mask(e)
      /\ Newest.time = Time(e) /\ Newest.length = Length(e) /\ Newest.mask = Mask(e)
      /\ Time(e) \in Nat /\ Length(e) \in Nat
  <2>1. c \in 0..8  BY <1>5
  <2>2. Place(e, c) = End /\ c \in Mask(e)  BY <1>3, <1>5, <2>1 DEF Growing
  <2>3. QED  BY <1>5, <2>2, TriggerType DEF Newest, Time, Length, Mask
<1>7. says \in Nat /\ (says = Lead + n \/ (mode = "newfw" /\ says \in WrongSizes))
  BY <1>1, ParsingAssumption DEF Says
<1>8. t \in Nat /\ t = Time(e) + IF mode = "plain" THEN 0 ELSE c
  BY <1>5, <1>6
<1>9. /\ p \in PartRec /\ p.event = e /\ p.channel = c /\ p.at = End
      /\ p.n = n /\ p.says = says /\ p.time = t
      /\ p.good = good /\ Width(p) = Lead + n
  <2>1. NewPart(p, Lead + IF good THEN n ELSE 0)
    BY <1>1, <1>3, <1>7, <1>8, PartTyped
  <2>2. (IF good THEN n ELSE 0) = n
    <3>1. ~good => n = 0  BY <1>1
    <3>2. QED  BY <3>1
  <2>3. QED  BY <2>1, <2>2 DEF NewPart, Part
<1>10. parts' = parts \cup {p} /\ left' \subseteq left
  BY <1>3, <1>4
<1>11. Spaces' /\ Places' /\ FillersApart'
  BY <1>1, <1>2, <1>3, ExtendSpaces
<1>12. Growing'
  BY <1>1, <1>2, <1>3, ExtendGrowing
<1>13. StoreType'
  <2>1. /\ blocks' \in Seq(Nat) /\ blocks' # <<>> /\ events' \in Seq(TriggerRec)
    BY <1>2 DEF Extended, Grown
  <2>2. QED  BY <1>3, <1>9, <1>10, <2>1 DEF StoreType
<1>14. Lead' = Lead /\ \A q : Width(q)' = Width(q)
  BY <1>3 DEF Lead, Width
<1>15. \A q \in parts :
         q.event \in DOMAIN events' /\ q.channel \in Mask(q.event)' /\ PartFits(q)'
  BY <1>1, <1>2, <1>3, <1>10, ExtendParts
<1>16. \A q \in parts : ~(q.event = e /\ q.channel = c)
  <2> SUFFICES ASSUME NEW q \in parts, q.event = e, q.channel = c PROVE FALSE
    OBVIOUS
  <2>1. ~Open(e, c)  BY <1>3 DEF PartsFit, PartFits
  <2>2. QED  BY <1>5, <2>1 DEF Open
<1>17. PartsFit'
  <2>1. ~Open(e, c)'  BY <1>3, <1>5 DEF Open
  <2>2. PartFits(p)'
    <3>1. p.at = Place(e, c)' /\ p.at + Width(p)' = Place(e, c + 1)'
      BY <1>5, <1>6, <1>9, <1>14
    <3>2. p.time = Time(e)' + IF mode' = "plain" THEN 0 ELSE c
      BY <1>3, <1>5, <1>8, <1>9
    <3>3. mode' = "plain" => p.n = Length(e)' /\ (p.good <=> p.n > 0)
      BY <1>3, <1>5, <1>6, <1>9 DEF StoreChannel
    <3>4. mode' # "plain" => p.good
      BY <1>3, <1>9
    <3>5. \/ p.says = Lead' + p.n
          \/ mode' = "newfw" /\ p.says \in WrongSizes
      BY <1>3, <1>7, <1>9, <1>14
    <3>6. QED  BY <1>3, <1>9, <2>1, <3>1, <3>2, <3>3, <3>4, <3>5 DEF PartFits
  <2>3. \A q \in parts' :
          q.event \in DOMAIN events' /\ q.channel \in Mask(q.event)' /\ PartFits(q)'
    <3>1. p.event \in DOMAIN events' /\ p.channel \in Mask(p.event)'
      BY <1>5, <1>6, <1>9
    <3>2. QED  BY <1>10, <1>15, <2>2, <3>1
  <2>4. \A q, r \in parts' :
          q.event = r.event /\ q.channel = r.channel /\ q.at = r.at => q = r
    <3>1. \A q, r \in parts :
            q.event = r.event /\ q.channel = r.channel /\ q.at = r.at => q = r
      BY DEF PartsFit
    <3>2. QED  BY <1>9, <1>10, <1>16, <3>1
  <2>5. QED  BY <2>3, <2>4 DEF PartsFit
<1>18. Stored'
  <2> SUFFICES ASSUME NEW i \in DOMAIN events, NEW b \in Mask(i), ~Open(i, b)'
               PROVE  \E q \in parts' : q.event = i /\ q.channel = b
    <3>1. \A i \in DOMAIN events : Mask(i)' = Mask(i)  BY <1>2 DEF Extended
    <3>2. QED  BY <1>3, <1>5, <3>1 DEF Stored
  <2>1. CASE Open(i, b)
    <3>1. i = e /\ b = c  BY <1>3, <1>5, <2>1 DEF Open
    <3>2. QED  BY <1>9, <1>10, <3>1
  <2>2. CASE ~Open(i, b)  BY <1>3, <1>10, <2>2 DEF Stored
  <2>3. QED  BY <2>1, <2>2
<1>19. Chain'
  BY <1>3 DEF Chain
<1>20. Even'
  <2> SUFFICES ASSUME mode = "plain", NEW i \in DOMAIN events
               PROVE  Behind(i)' = First(i)' + 4 + Length(i)'
                        * (Cardinality(Mask(i)') - IF i = e THEN Cardinality(left') ELSE 0)
    BY <1>3, <1>5 DEF Even
  <2>1. Behind(i) = First(i) + 4
          + Length(i) * (Cardinality(Mask(i)) - IF i = e THEN Cardinality(left) ELSE 0)
    BY DEF Even
  <2>2. /\ First(i)' = First(i) /\ Length(i)' = Length(i) /\ Mask(i)' = Mask(i)
        /\ First(i) \in Nat /\ Length(i) \in Nat /\ Cardinality(Mask(i)) \in Nat
        /\ Behind(i)' = Place(i, 8)' /\ Behind(i) = Place(i, 8)
    <3>1. Mask(i) \in SUBSET Channels  BY TriggerType
    <3>2. Cardinality(Mask(i)) \in Nat  BY <3>1, ChannelSets
    <3>3. QED  BY <1>2, <3>2, TriggerType DEF Extended
  <2>3. 8 \in 0..8 /\ c < 8  BY <1>5
  <2>4. Place(i, 8)' = IF i = e THEN End + (Lead + n) ELSE Place(i, 8)
    BY <1>2, <2>3 DEF Extended
  <2>5. CASE i # e  BY <2>1, <2>2, <2>4, <2>5
  <2>6. CASE i = e
    <3>1. Behind(i) = End  BY <1>3, <1>5, <2>2, <2>3, <2>6 DEF Growing
    <3>2. left \in SUBSET Channels  BY DEF StoreType
    <3>3. Cardinality(left) \in Nat /\ Cardinality(left') = Cardinality(left) - 1
      <4>1. IsFiniteSet(left) /\ Cardinality(left) \in Nat  BY <3>2, ChannelSets
      <4>2. Cardinality(left \ {c}) = Cardinality(left) - 1
        BY <1>5, <4>1, FS_RemoveElement
      <4>3. QED  BY <1>3, <4>1, <4>2
    <3>4. Lead = 0 /\ n = Length(i)  BY <1>6, <2>6, LeadType DEF StoreChannel
    <3>5. Behind(i)' = Behind(i) + Length(i)
      BY <1>1, <2>2, <2>4, <2>6, <3>1, <3>4
    <3>6. \A a, b \in Int : Length(i) * (a - (b - 1)) = Length(i) * (a - b) + Length(i)
      BY <2>2
    <3>7. Length(i) * (Cardinality(Mask(i)) - (Cardinality(left) - 1))
            = Length(i) * (Cardinality(Mask(i)) - Cardinality(left)) + Length(i)
      BY <2>2, <3>3, <3>6
    <3>8. Length(i) * (Cardinality(Mask(i)) - Cardinality(left)) \in Int
      BY <2>2, <3>3
    <3>9. QED  BY <2>1, <2>2, <2>6, <3>3, <3>5, <3>7, <3>8
  <2>7. QED  BY <2>5, <2>6
<1>21. QED
  BY <1>11, <1>12, <1>13, <1>17, <1>18, <1>19, <1>20

\* With ZLE: a channel in which nothing was stored has no parts.
LEMMA NoParts ==
  ASSUME StoreType, PartsFit, mode = "zle", NEW p \in parts,
         Place(p.event, p.channel) = End, Place(p.event, p.channel + 1) = End
  PROVE  FALSE
<1>1. Place(p.event, p.channel) < p.at /\ p.at + Width(p) <= Place(p.event, p.channel + 1)
  BY DEF PartsFit, PartFits
<1>2. p.at \in Nat /\ Width(p) \in Nat /\ End \in Nat  BY PartType, EndType
<1>3. QED  BY <1>1, <1>2

\* With ZLE: channels other than the one that grows are as they were, or empty.
LEMMA ZLEOthers ==
  ASSUME StoreType, Growing, NEW k \in Nat, Extended(k), mode = "zle",
         NEW i \in DOMAIN events, NEW b \in Mask(i), ~(i = Len(events) /\ b = Lowest(left))
  PROVE  \/ /\ Place(i, b)' = Place(i, b) /\ Place(i, b + 1)' = Place(i, b + 1)
            /\ ~(i = Len(events) /\ b \in left)
         \/ /\ i = Len(events) /\ b \in left
            /\ Place(i, b) = End /\ Place(i, b + 1) = End
            /\ Place(i, b)' = End + k /\ Place(i, b + 1)' = End + k
<1>1. CASE ~Open(i, b)  BY <1>1, ExtendOthers DEF Open
<1>2. CASE Open(i, b)
  <2>1. PICK c, n : c = Lowest(left) /\ n = Len(events)
    OBVIOUS
  <2>2. i = n /\ b \in left /\ b \in 0..7 /\ c \in 0..7 /\ c < b /\ c \in left
    <3>1. b \in left /\ i = n  BY <1>2, <2>1 DEF Open
    <3>2. b \in 0..7 /\ c \in 0..7 /\ c <= b /\ c \in left
      BY <2>1, <3>1, ChannelSets DEF Extended, StoreType
    <3>3. QED  BY <2>1, <3>1, <3>2
  <2>3. b \in 0..8 /\ b + 1 \in 0..8 /\ c < b + 1  BY <2>2
  <2>4. Place(i, b) = End /\ Place(i, b + 1) = End
    BY <2>1, <2>2, <2>3 DEF Growing
  <2>5. Place(i, b)' = End + k /\ Place(i, b + 1)' = End + k
    BY <2>1, <2>2, <2>3 DEF Extended
  <2>6. QED  BY <2>1, <2>2, <2>4, <2>5
<1>3. QED  BY <1>1, <1>2

LEMMA StoreSizeLayout == ASSUME Layout, StoreSize PROVE Layout'
<1> USE DEF Layout
<1>1. Extended(1)  BY ExtendExtended DEF StoreSize
<1> PICK c, e : c = Lowest(left) /\ e = Len(events)
  OBVIOUS
<1>2. /\ mode = "zle" /\ mode' = mode /\ fillers' = fillers /\ parts' = parts /\ left' = left
      /\ left # {} /\ clock' = Time(e)
      /\ Place(e, c) = End
  BY DEF StoreSize, Extend, Newest, Time, Place
<1>3. /\ c \in left /\ c \in 0..7 /\ e \in DOMAIN events /\ DOMAIN events' = DOMAIN events
      /\ Len(events') = e /\ End \in Nat /\ End' = End + 1
      /\ Place(e, c)' = End /\ Place(e, c + 1)' = End + 1 /\ Place(e, c + 1) = End
      /\ Time(e) \in Nat /\ \A i \in DOMAIN events : Time(i)' = Time(i) /\ Mask(i)' = Mask(i)
  <2>1. c \in left /\ c \in 0..7 /\ e \in DOMAIN events  BY <1>1 DEF Extended
  <2>2. c \in 0..8 /\ c + 1 \in 0..8 /\ ~(c < c) /\ c < c + 1  BY <2>1
  <2>3. Place(e, c)' = End /\ Place(e, c + 1)' = End + 1
    BY <1>1, <1>2, <2>1, <2>2 DEF Extended
  <2>4. Place(e, c + 1) = End  BY <2>1, <2>2 DEF Growing
  <2>5. QED  BY <1>1, <2>1, <2>3, <2>4, EndType, TriggerType DEF Extended, Grown
<1>4. Spaces' /\ Places' /\ FillersApart'
  BY <1>1, <1>2, ExtendSpaces
<1>5. Growing'
  BY <1>1, <1>2, ExtendGrowing
<1>6. StoreType'
  <2>1. /\ blocks' \in Seq(Nat) /\ blocks' # <<>> /\ events' \in Seq(TriggerRec)
    BY <1>1 DEF Extended, Grown
  <2>2. QED  BY <1>2, <1>3, <2>1 DEF StoreType
<1>7. \A q \in parts : Width(q)' = Width(q)
  BY <1>2 DEF Lead, Width
<1>8. PartsFit'
  <2>1. \A q \in parts :
          q.event \in DOMAIN events' /\ q.channel \in Mask(q.event)' /\ PartFits(q)'
    BY <1>1, <1>2, ExtendParts
  <2>2. \A q, r \in parts :
          q.event = r.event /\ q.channel = r.channel /\ q.at = r.at => q = r
    BY DEF PartsFit
  <2>3. QED  BY <1>2, <2>1, <2>2 DEF PartsFit
<1>9. Stored'
  <2> SUFFICES ASSUME NEW i \in DOMAIN events, NEW b \in Mask(i), ~Open(i, b)
               PROVE  Place(i, b)' < Place(i, b + 1)'
    BY <1>2, <1>3 DEF Stored, Open
  <2>1. Place(i, b) < Place(i, b + 1)  BY <1>2 DEF Stored
  <2>2. QED  BY <1>1, <2>1, ExtendOthers
\* A part of a channel that grows would stand where nothing is stored yet.
<1>10. \A q \in parts : ~(q.event = e /\ q.channel \in left)
  <2> SUFFICES ASSUME NEW q \in parts, q.event = e, q.channel \in left PROVE FALSE
    OBVIOUS
  <2>1. q.channel \in Mask(e) /\ q.event \in DOMAIN events  BY DEF PartsFit
  <2>2. CASE q.channel = c  BY <1>2, <1>3, <2>2, NoParts
  <2>3. CASE q.channel # c
    <3>1. Place(e, q.channel) = End /\ Place(e, q.channel + 1) = End
      BY <1>1, <1>2, <1>3, <2>1, <2>3, ZLEOthers
    <3>2. QED  BY <1>2, <3>1, NoParts
  <2>4. QED  BY <2>2, <2>3
<1>11. \A i \in DOMAIN events : \A b \in Mask(i), j, t \in Nat :
         Place(i, b + 1)' = Place(i, b + 1) /\ Follows(i, b, j, t) => Follows(i, b, j, t)'
  BY <1>2 DEF Follows
<1>12. Chain'
  <2>1. ASSUME NEW i \in DOMAIN events, NEW b \in Mask(i), Place(i, b)' < Place(i, b + 1)'
        PROVE  Follows(i, b, Place(i, b) + 1, Time(i))'
    <3>1. CASE i = e /\ b = c
      <4>1. Place(i, b)' + 1 = Place(i, b + 1)'  BY <1>3, <3>1
      <4>2. QED  BY <4>1 DEF Follows
    <3>2. CASE ~(i = e /\ b = c)
      <4>1. Place(i, b)' = Place(i, b) /\ Place(i, b + 1)' = Place(i, b + 1)
        <5>1. ~(End + 1 < End + 1)  BY <1>3
        <5>2. QED  BY <1>1, <1>2, <2>1, <3>2, <5>1, ZLEOthers
      <4>2. Follows(i, b, Place(i, b) + 1, Time(i))  BY <1>2, <2>1, <4>1 DEF Chain
      <4>3. QED  BY <1>2, <1>3, <4>1, <4>2 DEF Follows
    <3>3. QED  BY <3>1, <3>2
  <2>2. ASSUME NEW p \in parts
        PROVE  Follows(p.event, p.channel, p.at + Width(p), p.time + 2 * p.n)'
    <3>1. p.event \in DOMAIN events /\ p.channel \in Mask(p.event)  BY DEF PartsFit
    <3>2. Place(p.event, p.channel + 1)' = Place(p.event, p.channel + 1)
      BY <1>1, <1>2, <1>3, <1>10, <3>1, ZLEOthers
    <3>3. Follows(p.event, p.channel, p.at + Width(p), p.time + 2 * p.n)
      BY <1>2 DEF Chain
    <3>4. QED  BY <1>2, <1>7, <3>2, <3>3 DEF Follows
  <2>3. ASSUME NEW b \in left
        PROVE  /\ Place(e, b)' + 1 = End' => clock' = Time(e)'
               /\ \A p \in parts : ~(p.event = e /\ p.channel = b)
    BY <1>2, <1>3, <1>10
  <2>4. QED  BY <1>2, <1>3, <2>1, <2>2, <2>3 DEF Chain
<1>13. Even'  BY <1>2 DEF Even
<1>14. QED
  BY <1>4, <1>5, <1>6, <1>8, <1>9, <1>12, <1>13

LEMMA StoreSegmentLayout ==
  ASSUME Layout, NEW s \in Segments, NEW last \in BOOLEAN, StoreSegment(s, last) PROVE Layout'
<1> USE DEF Layout
<1> PICK k : k = IF s.good THEN 1 + s.n ELSE 1
  OBVIOUS
<1>0. s.good \in BOOLEAN /\ s.n \in Nat /\ s.n > 0 /\ k \in Nat /\ k > 0
  BY ParsingAssumption
<1>1. Extended(k)  BY <1>0, ExtendExtended DEF StoreSegment
<1> PICK c, e : c = Lowest(left) /\ e = Len(events)
  OBVIOUS
<1>2. /\ mode = "zle" /\ mode' = mode /\ fillers' = fillers /\ left # {}
      /\ clock' = clock + 2 * s.n
      /\ left' = left \ {c} \/ left' = left
      /\ Place(e, c) < End
  BY DEF StoreSegment, Extend, Newest, Place
<1>3. /\ c \in left /\ c \in 0..7 /\ e \in DOMAIN events /\ DOMAIN events' = DOMAIN events
      /\ Len(events') = e /\ End \in Nat /\ End' = End + k /\ c \in Mask(e)
      /\ Place(e, c)' = Place(e, c) /\ Place(e, c) \in Nat
      /\ Place(e, c + 1)' = End + k /\ Place(e, c + 1) = End
      /\ Time(e) \in Nat /\ \A i \in DOMAIN events : Time(i)' = Time(i) /\ Mask(i)' = Mask(i)
      /\ clock \in Nat
  <2>1. c \in left /\ c \in 0..7 /\ e \in DOMAIN events  BY <1>1 DEF Extended
  <2>2. c \in 0..8 /\ c + 1 \in 0..8 /\ ~(c < c) /\ c < c + 1  BY <2>1
  <2>3. Place(e, c)' = Place(e, c) /\ Place(e, c + 1)' = End + k
    BY <1>1, <2>1, <2>2 DEF Extended
  <2>4. Place(e, c + 1) = End /\ c \in Mask(e)  BY <2>1, <2>2 DEF Growing
  <2>5. QED  BY <1>1, <2>1, <2>2, <2>3, <2>4, EndType, TriggerType DEF Extended, Grown, StoreType
<1> PICK p : p = Part(s.n, s.good, s.n, clock)
  OBVIOUS
<1>4. /\ p \in PartRec /\ p.event = e /\ p.channel = c /\ p.at = End
      /\ p.n = s.n /\ p.says = s.n /\ p.time = clock
      /\ p.good = s.good /\ Width(p) = k
  <2>1. NewPart(p, Lead + IF s.good THEN s.n ELSE 0)
    BY <1>0, <1>2, <1>3, PartTyped
  <2>2. Lead + (IF s.good THEN s.n ELSE 0) = k  BY <1>0, <1>2, LeadType
  <2>3. QED  BY <2>1, <2>2 DEF NewPart, Part
<1>5. parts' = parts \cup {p}
  BY DEF StoreSegment
<1>6. Spaces' /\ Places' /\ FillersApart'
  BY <1>0, <1>1, <1>2, ExtendSpaces
<1>7. Growing'
  BY <1>0, <1>1, <1>2, ExtendGrowing
<1>8. StoreType'
  <2>1. /\ blocks' \in Seq(Nat) /\ blocks' # <<>> /\ events' \in Seq(TriggerRec)
    BY <1>1 DEF Extended, Grown
  <2>2. clock' \in Nat  BY <1>0, <1>2, <1>3
  <2>3. QED  BY <1>2, <1>4, <1>5, <2>1, <2>2 DEF StoreType
<1>9. \A q : Width(q)' = Width(q)
  BY <1>2 DEF Lead, Width
<1>10. \A q \in parts : q.event = e /\ q.channel \in left =>
          q.channel = c /\ q.at + Width(q) <= End /\ q.at < End
  <2> SUFFICES ASSUME NEW q \in parts, q.event = e, q.channel \in left
               PROVE  q.channel = c /\ q.at + Width(q) <= End /\ q.at < End
    OBVIOUS
  <2>1. q.channel \in Mask(e) /\ PartFits(q)  BY DEF PartsFit
  <2>2. CASE q.channel = c
    <3>1. q.at + Width(q) <= End  BY <1>2, <1>3, <2>1, <2>2 DEF PartFits
    <3>2. Width(q) > 0 /\ q.at \in Nat
      <4>1. q.n \in Nat /\ q.good \in BOOLEAN  BY PartType
      <4>2. QED  BY <1>2, <4>1, LeadType, PartType DEF Width
    <3>3. QED  BY <1>3, <2>2, <3>1, <3>2, PartType
  <2>3. CASE q.channel # c
    <3>1. Place(e, q.channel) = End /\ Place(e, q.channel + 1) = End
      BY <1>0, <1>1, <1>2, <1>3, <2>1, <2>3, ZLEOthers
    <3>2. QED  BY <1>2, <3>1, NoParts
  <2>4. QED  BY <2>2, <2>3
<1>11. PartsFit'
  <2>1. \A q \in parts :
          q.event \in DOMAIN events' /\ q.channel \in Mask(q.event)' /\ PartFits(q)'
    BY <1>0, <1>1, <1>2, ExtendParts
  <2>2. PartFits(p)'
    <3>1. Place(e, c)' < p.at /\ p.at + Width(p)' <= Place(e, c + 1)'
      BY <1>0, <1>2, <1>3, <1>4, <1>9
    <3>2. QED  BY <1>0, <1>2, <1>4, <3>1 DEF PartFits
  <2>3. \A q, r \in parts :
          q.event = r.event /\ q.channel = r.channel /\ q.at = r.at => q = r
    BY DEF PartsFit
  <2>4. \A q \in parts : ~(q.event = p.event /\ q.channel = p.channel /\ q.at = p.at)
    BY <1>3, <1>4, <1>10
  <2>5. \A q, r \in parts' :
          q.event = r.event /\ q.channel = r.channel /\ q.at = r.at => q = r
    BY <1>5, <2>3, <2>4
  <2>6. p.event \in DOMAIN events' /\ p.channel \in Mask(p.event)'
    BY <1>3, <1>4
  <2>7. QED  BY <1>5, <2>1, <2>2, <2>5, <2>6 DEF PartsFit
<1>12. Stored'
  <2> SUFFICES ASSUME NEW i \in DOMAIN events, NEW b \in Mask(i), ~Open(i, b)'
               PROVE  Place(i, b)' < Place(i, b + 1)'
    BY <1>2, <1>3 DEF Stored
  <2>1. CASE i = e /\ b = c  BY <1>0, <1>2, <1>3, <2>1
  <2>2. CASE ~(i = e /\ b = c)
    <3>1. ~Open(i, b)  BY <1>2, <1>3, <2>2 DEF Open
    <3>2. Place(i, b) < Place(i, b + 1)  BY <1>2, <3>1 DEF Stored
    <3>3. QED  BY <1>0, <1>1, <3>1, <3>2, ExtendOthers
  <2>3. QED  BY <2>1, <2>2
<1>13. ASSUME NEW i \in DOMAIN events, NEW b \in Mask(i), NEW j \in Nat, NEW t \in Nat,
              Follows(i, b, j, t), ~(i = e /\ b \in left)
       PROVE  Follows(i, b, j, t)'
  <2>1. Place(i, b + 1)' = Place(i, b + 1)
    BY <1>0, <1>1, <1>2, <1>3, <1>13, ZLEOthers
  <2>2. QED  BY <1>5, <1>13, <2>1 DEF Follows
\* Where the channel ended, there is the new segment.
<1>14. ASSUME NEW j \in Nat, NEW t \in Nat, Follows(e, c, j, t), j = End => clock = t
       PROVE  Follows(e, c, j, t)'
  <2>1. CASE j = Place(e, c + 1)
    <3>1. p \in parts' /\ p.event = e /\ p.channel = c /\ p.at = j /\ p.time = t
      BY <1>3, <1>4, <1>5, <1>14, <2>1
    <3>2. QED  BY <3>1 DEF Follows
  <2>2. CASE j # Place(e, c + 1)  BY <1>5, <1>14, <2>2 DEF Follows
  <2>3. QED  BY <2>1, <2>2
<1>15. Chain'
  <2>1. ASSUME NEW i \in DOMAIN events, NEW b \in Mask(i), Place(i, b)' < Place(i, b + 1)'
        PROVE  Follows(i, b, Place(i, b) + 1, Time(i))'
    <3>1. CASE i = e /\ b = c
      <4>1. Follows(e, c, Place(e, c) + 1, Time(e))
        BY <1>2, <1>3, <3>1 DEF Chain
      <4>2. Place(e, c) + 1 = End => clock = Time(e)
        BY <1>2, <1>3 DEF Chain
      <4>3. Follows(e, c, Place(e, c) + 1, Time(e))'
        <5>1. PICK j, t : j = Place(e, c) + 1 /\ t = Time(e)
          OBVIOUS
        <5>2. j \in Nat /\ t \in Nat /\ Follows(e, c, j, t) /\ (j = End => clock = t)
          BY <1>3, <4>1, <4>2, <5>1
        <5>3. Follows(e, c, j, t)'  BY <1>14, <5>2
        <5>4. QED  BY <1>3, <5>1, <5>3 DEF Follows
      <4>4. QED  BY <3>1, <4>3
    <3>2. CASE ~(i = e /\ b = c)
      <4>1. /\ Place(i, b)' = Place(i, b) /\ Place(i, b + 1)' = Place(i, b + 1)
            /\ ~(i = e /\ b \in left)
        <5>1. ~(End + k < End + k)  BY <1>0, <1>3
        <5>2. QED  BY <1>0, <1>1, <1>2, <2>1, <3>2, <5>1, ZLEOthers
      <4>2. Follows(i, b, Place(i, b) + 1, Time(i))  BY <1>2, <2>1, <4>1 DEF Chain
      <4>3. QED  BY <1>2, <1>3, <1>5, <4>1, <4>2 DEF Follows
    <3>3. QED  BY <3>1, <3>2
  <2>2. ASSUME NEW q \in parts
        PROVE  Follows(q.event, q.channel, q.at + Width(q), q.time + 2 * q.n)'
    <3>0. q.at + Width(q) \in Nat /\ q.time + 2 * q.n \in Nat  BY PartType
    <3> PICK j \in Nat, t \in Nat : j = q.at + Width(q) /\ t = q.time + 2 * q.n
      BY <3>0
    <3>1. q.event \in DOMAIN events /\ q.channel \in Mask(q.event)  BY DEF PartsFit
    <3>2. Follows(q.event, q.channel, j, t)  BY <1>2 DEF Chain
    <3>3. CASE q.event = e /\ q.channel \in left
      <4>1. q.channel = c  BY <1>10, <3>3
      <4>2. j = End => clock = t  BY <1>2, <1>3, <3>3, <4>1 DEF Chain
      <4>3. Follows(q.event, q.channel, j, t)'  BY <1>14, <3>2, <3>3, <4>1, <4>2
      <4>4. QED  BY <1>9, <4>3 DEF Follows
    <3>4. CASE ~(q.event = e /\ q.channel \in left)
      <4>1. Follows(q.event, q.channel, j, t)'  BY <1>13, <3>1, <3>2, <3>4
      <4>2. QED  BY <1>9, <4>1 DEF Follows
    <3>5. QED  BY <3>3, <3>4
  <2>3. Follows(p.event, p.channel, p.at + Width(p), p.time + 2 * p.n)'
    <3>1. p.at + Width(p)' = Place(e, c + 1)'  BY <1>3, <1>4, <1>9
    <3>2. QED  BY <1>4, <3>1 DEF Follows
  <2>4. ASSUME NEW b \in left'
        PROVE  /\ Place(e, b)' + 1 = End' => clock' = Time(e)'
               /\ \A q \in parts' : q.event = e /\ q.channel = b /\ q.at + Width(q)' = End'
                                      => clock' = q.time + 2 * q.n
    <3>1. b \in left /\ b \in Mask(e)  BY <1>2, <1>3 DEF Growing
    <3>2. Place(e, b)' + 1 # End'
      <4>1. CASE b = c  BY <1>0, <1>2, <1>3, <4>1
      <4>2. CASE b # c
        <5>1. Place(e, b)' = End + k  BY <1>0, <1>1, <1>2, <1>3, <3>1, <4>2, ZLEOthers
        <5>2. QED  BY <1>0, <1>3, <5>1
      <4>3. QED  BY <4>1, <4>2
    <3>3. \A q \in parts : q.event = e /\ q.channel = b => q.at + Width(q)' # End'
      <4> SUFFICES ASSUME NEW q \in parts, q.event = e, q.channel = b
                   PROVE  q.at + Width(q)' # End'
        OBVIOUS
      <4>1. q.at + Width(q) <= End /\ q.at \in Nat /\ Width(q) \in Nat
        BY <1>10, <3>1, PartType
      <4>2. QED  BY <1>0, <1>3, <1>9, <4>1
    <3>4. clock' = p.time + 2 * p.n  BY <1>2, <1>4
    <3>5. QED  BY <1>5, <3>2, <3>3, <3>4
  <2>5. \A q \in parts' : Follows(q.event, q.channel, q.at + Width(q), q.time + 2 * q.n)'
    BY <1>5, <2>2, <2>3
  <2>6. QED  BY <1>2, <1>3, <2>1, <2>4, <2>5 DEF Chain
<1>16. Even'  BY <1>2 DEF Even
<1>17. QED
  BY <1>6, <1>7, <1>8, <1>11, <1>12, <1>15, <1>16

\* Nothing of the triggers and channels changes.
SameStore == UNCHANGED <<mode, events, parts, left, clock>>

LEMMA SameStoreFacts ==
  ASSUME SameStore
  PROVE  /\ Lead' = Lead
         /\ \A i, c : Place(i, c)' = Place(i, c)
         /\ \A i : /\ Block(i)' = Block(i) /\ First(i)' = First(i) /\ Mask(i)' = Mask(i)
                   /\ Time(i)' = Time(i) /\ Length(i)' = Length(i) /\ Behind(i)' = Behind(i)
         /\ \A p : Width(p)' = Width(p)
         /\ \A i, c : Open(i, c)' = Open(i, c)
         /\ \A i, c, j, t : Follows(i, c, j, t)' = Follows(i, c, j, t)
         /\ \A i, j : Before(i, j)' = Before(i, j)
  BY DEF SameStore, Lead, Place, Block, First, Mask, Time, Length, Behind, Width, Open, Follows,
         Before

\* The parsers change nothing of what was stored.
LEMMA SameLayout == ASSUME Layout, UNCHANGED <<mode, storeVars>> PROVE Layout'
<1>1. UNCHANGED <<mode, blocks, events, parts, fillers, left, clock>>
  BY DEF storeVars
<1>2. StoreType' /\ Spaces' /\ Places'
  BY <1>1 DEF Layout, StoreType, Spaces, Places, Before, Block, First, Mask, Place, Behind
<1>3. Growing' /\ Stored' /\ Chain'
  BY <1>1 DEF Layout, Growing, Stored, Chain, Follows, Open, Block, First, Mask, Time, Place,
              Width, Lead, End
<1>4. PartsFit'
  BY <1>1 DEF Layout, PartsFit, PartFits, Open, Mask, Time, Length, Place, Width, Lead
<1>5. Even' /\ FillersApart'
  BY <1>1 DEF Layout, Even, FillersApart, Block, First, Mask, Length, Behind
<1>6. QED  BY <1>2, <1>3, <1>4, <1>5 DEF Layout

\* Steps between the triggers leave the channels as they are.
LEMMA IdleLayout ==
  ASSUME Layout, left = {}, SameStore PROVE Growing' /\ PartsFit' /\ Stored' /\ Chain' /\ Even'
<1>1. left' = {} /\ mode' = mode /\ parts' = parts /\ events' = events
  BY DEF SameStore
<1>2. Growing'  BY <1>1 DEF Growing
<1>3. Stored'
  BY <1>1 DEF Layout, Stored, Open, Mask, Place
<1>4. Chain'
  BY <1>1 DEF Layout, Chain, Follows, Mask, Time, Place, Width, Lead
<1>5. PartsFit'
  BY <1>1 DEF Layout, PartsFit, PartFits, Open, Mask, Time, Length, Place, Width, Lead
<1>6. Even'
  BY <1>1 DEF SameStore, Layout, Even, First, Mask, Length, Behind
<1>7. QED  BY <1>2, <1>3, <1>4, <1>5, <1>6

LEMMA StoreGapLayout == ASSUME Layout, NEW g \in Gaps, StoreGap(g) PROVE Layout'
<1> USE DEF Layout
<1>1. Len(g) \in Nat /\ DOMAIN g = 1..Len(g)
  BY ParsingAssumption
<1>2. Grown(Len(g))  BY <1>1, GrowGrown DEF StoreGap
<1>3. /\ UNCHANGED <<mode, events, parts, left, clock>> /\ left = {} /\ SameStore
      /\ events # <<>> /\ Block(Len(events)) = Len(blocks) /\ Behind(Len(events)) = End
  BY DEF StoreGap, SameStore, Newest, Block, Behind
<1>4. /\ End \in Nat /\ End' = End + Len(g) /\ Len(blocks) \in DOMAIN blocks
      /\ DOMAIN blocks' = DOMAIN blocks /\ Len(blocks) \in Nat
      /\ blocks[Len(blocks)] = End /\ blocks'[Len(blocks)] = End + Len(g)
      /\ \A b \in DOMAIN blocks : b # Len(blocks) => blocks'[b] = blocks[b]
      /\ End + Len(g) <= MaxWords
  BY <1>2, EndType DEF Grown, End
<1>5. PICK more : /\ fillers' = fillers \cup more
                  /\ \A f \in more : \E k \in 1..Len(g) : f = <<Len(blocks), End + k - 1>>
  <2> DEFINE M == {<<Len(blocks), End + k - 1>> : k \in {j \in DOMAIN g : g[j] = "filler"}}
  <2>1. fillers' = fillers \cup M  BY DEF StoreGap
  <2>2. \A f \in M : \E k \in 1..Len(g) : f = <<Len(blocks), End + k - 1>>  BY <1>1
  <2>3. QED  BY <2>1, <2>2
<1>6. \A f \in more : /\ f[1] = Len(blocks) /\ f[2] \in Nat /\ End <= f[2] /\ f[2] < End + Len(g)
                      /\ f \in Nat \X Nat
  BY <1>1, <1>4, <1>5
<1>7. StoreType'
  <2>1. blocks' \in Seq(Nat) /\ blocks' # <<>>  BY <1>2 DEF Grown
  <2>2. fillers' \subseteq Nat \X Nat  BY <1>5, <1>6 DEF StoreType
  <2>3. QED  BY <1>3, <2>1, <2>2 DEF StoreType
<1>8. \A b \in DOMAIN blocks : blocks[b] <= blocks'[b] /\ blocks'[b] <= MaxWords
  <2> SUFFICES ASSUME NEW b \in DOMAIN blocks PROVE blocks[b] <= blocks'[b] /\ blocks'[b] <= MaxWords
    OBVIOUS
  <2>1. blocks[b] \in Nat /\ blocks[b] <= MaxWords  BY EndType DEF Spaces
  <2>2. CASE b = Len(blocks)  BY <1>1, <1>4, <2>2
  <2>3. CASE b # Len(blocks)  BY <1>4, <2>1, <2>3
  <2>4. QED  BY <2>2, <2>3
<1>9. Spaces' /\ Places'
  <2>1. \A i \in DOMAIN events : Behind(i) <= blocks'[Block(i)]
    <3> SUFFICES ASSUME NEW i \in DOMAIN events PROVE Behind(i) <= blocks'[Block(i)]
      OBVIOUS
    <3>1. Block(i) \in DOMAIN blocks /\ Behind(i) <= blocks[Block(i)]  BY DEF Spaces
    <3>2. blocks[Block(i)] <= blocks'[Block(i)]  BY <1>8, <3>1
    <3>3. /\ Behind(i) \in Nat /\ blocks[Block(i)] \in Nat /\ blocks'[Block(i)] \in Nat
      <4>1. blocks' \in Seq(Nat)  BY <1>2 DEF Grown
      <4>2. Block(i) \in DOMAIN blocks' /\ Behind(i) \in Nat  BY <1>4, <3>1, TriggerType
      <4>3. QED  BY <3>1, <4>1, <4>2, EndType
    <3>4. QED  BY <3>1, <3>2, <3>3
  <2>2. Spaces'  BY <1>3, <1>4, <1>8, <2>1, SameStoreFacts DEF Spaces
  <2>3. Places'  BY <1>3, SameStoreFacts DEF Places
  <2>4. QED  BY <2>2, <2>3
<1>10. FillersApart'
  <2> SUFFICES ASSUME NEW f \in fillers'
               PROVE  /\ f[1] \in DOMAIN blocks /\ f[2] < blocks'[f[1]]
                      /\ \A i \in DOMAIN events :
                           Block(i) = f[1] => f[2] < First(i) \/ Behind(i) <= f[2]
    BY <1>3, <1>4, SameStoreFacts DEF FillersApart
  <2>1. CASE f \in fillers
    <3>1. /\ f[1] \in DOMAIN blocks /\ f[2] < blocks[f[1]] /\ f[2] \in Nat
          /\ \A i \in DOMAIN events : Block(i) = f[1] => f[2] < First(i) \/ Behind(i) <= f[2]
      BY <2>1 DEF FillersApart, StoreType
    <3>2. blocks[f[1]] <= blocks'[f[1]] /\ blocks[f[1]] \in Nat /\ blocks'[f[1]] \in Nat
      <4>1. blocks' \in Seq(Nat)  BY <1>2 DEF Grown
      <4>2. QED  BY <1>4, <1>8, <3>1, <4>1, EndType
    <3>3. QED  BY <3>1, <3>2
  <2>2. CASE f \in more
    <3>1. f[1] \in DOMAIN blocks /\ f[2] < blocks'[f[1]]  BY <1>4, <1>6, <2>2
    <3>2. \A i \in DOMAIN events : Block(i) = f[1] => Behind(i) <= f[2]
      <4> SUFFICES ASSUME NEW i \in DOMAIN events, Block(i) = Len(blocks) PROVE Behind(i) <= f[2]
        BY <1>6, <2>2
      <4>1. Behind(i) <= End /\ Behind(i) \in Nat  BY <1>4, TriggerType DEF Spaces
      <4>2. QED  BY <1>4, <1>6, <2>2, <4>1
    <3>3. QED  BY <3>1, <3>2
  <2>3. QED  BY <1>5, <2>1, <2>2
<1>11. QED  BY <1>3, <1>7, <1>9, <1>10, IdleLayout

LEMMA NextBlockLayout == ASSUME Layout, NextBlock PROVE Layout'
<1> USE DEF Layout
<1>1. /\ UNCHANGED <<mode, events, parts, fillers, left, clock>> /\ left = {} /\ SameStore
      /\ blocks' = Append(blocks, 0)
  BY DEF NextBlock, SameStore
<1>2. /\ blocks' \in Seq(Nat) /\ blocks' # <<>> /\ DOMAIN blocks \subseteq DOMAIN blocks'
      /\ \A b \in DOMAIN blocks : blocks'[b] = blocks[b]
      /\ \A b \in DOMAIN blocks' : b \in DOMAIN blocks \/ blocks'[b] = 0
  BY <1>1 DEF StoreType
<1>3. StoreType'  BY <1>1, <1>2 DEF StoreType
<1>4. Spaces'
  <2>1. \A b \in DOMAIN blocks' : blocks'[b] <= MaxWords
    BY <1>2, ParsingAssumption DEF Spaces
  <2>2. QED  BY <1>1, <1>2, <2>1, SameStoreFacts DEF Spaces
<1>5. Places'  BY <1>1, SameStoreFacts DEF Places
<1>6. FillersApart'  BY <1>1, <1>2, SameStoreFacts DEF FillersApart
<1>7. QED  BY <1>1, <1>3, <1>4, <1>5, <1>6, IdleLayout

LEMMA InitLayout == ASSUME Init PROVE Layout
<1>1. StoreType /\ Spaces
  <2>1. blocks = <<0>> /\ events = <<>> /\ parts = {} /\ fillers = {} /\ left = {} /\ clock = 0
        /\ mode \in Modes
    BY DEF Init
  <2>2. blocks \in Seq(Nat) /\ events \in Seq(TriggerRec) /\ DOMAIN events = {}
        /\ DOMAIN blocks = {1} /\ blocks[1] = 0
    BY <2>1
  <2>3. QED  BY <2>1, <2>2, ParsingAssumption DEF StoreType, Spaces
<1>2. DOMAIN events = {} /\ parts = {} /\ fillers = {} /\ left = {}
  BY DEF Init
<1>3. QED
  BY <1>1, <1>2 DEF Layout, Places, Growing, PartsFit, Stored, Chain, Even, FillersApart

LEMMA StoreTriggerLayout ==
  ASSUME Layout, NEW mask \in SUBSET Channels, NEW n \in Nat, StoreTrigger(mask, n) PROVE Layout'
<1> USE DEF Layout
<1>1. Grown(4)  BY GrowGrown DEF StoreTrigger
<1> PICK e : e = Len(events) + 1
  OBVIOUS
<1> PICK new :
      new = [block |-> Len(blocks), first |-> End, mask |-> mask, length |-> n,
             time |-> 100 * (Len(events) + 1), places |-> [c \in 0..8 |-> End + 4]]
  OBVIOUS
<1>2. /\ UNCHANGED <<mode, parts, fillers, clock>> /\ left = {} /\ left' = mask
      /\ events' = Append(events, new)
  BY DEF StoreTrigger
<1>3. /\ End \in Nat /\ End' = End + 4 /\ Len(blocks) \in DOMAIN blocks
      /\ DOMAIN blocks' = DOMAIN blocks /\ Len(blocks) \in Nat /\ Len(blocks') = Len(blocks)
      /\ blocks[Len(blocks)] = End /\ blocks'[Len(blocks)] = End + 4
      /\ \A b \in DOMAIN blocks : b # Len(blocks) => blocks'[b] = blocks[b]
      /\ \A b \in DOMAIN blocks : b <= Len(blocks) /\ blocks[b] \in Nat
      /\ End + 4 <= MaxWords
      /\ blocks' \in Seq(Nat) /\ blocks' # <<>>
  BY <1>1, EndType DEF Grown, End
<1>4. new \in TriggerRec
  <2>1. Len(events) \in Nat  BY DEF StoreType
  <2>2. 100 * (Len(events) + 1) \in Nat  BY <2>1
  <2>3. [c \in 0..8 |-> End + 4] \in [0..8 -> Nat]  BY <1>3
  <2>4. QED  BY <1>3, <2>2, <2>3 DEF TriggerRec
<1>5. /\ Len(events) \in Nat /\ e \in Nat /\ DOMAIN events = 1..Len(events)
      /\ events' \in Seq(TriggerRec) /\ events' # <<>>
      /\ Len(events') = e /\ e \in DOMAIN events' /\ e \notin DOMAIN events
      /\ DOMAIN events' = DOMAIN events \cup {e}
      /\ \A i \in DOMAIN events : i \in Nat /\ i < e /\ events'[i] = events[i]
      /\ events'[e] = new
  <2>1. /\ events \in Seq(TriggerRec) /\ Len(events) \in Nat /\ e \in Nat
        /\ DOMAIN events = 1..Len(events)
    BY DEF StoreType
  <2>2. /\ events' \in Seq(TriggerRec) /\ Len(events') = Len(events) + 1
        /\ DOMAIN events' = 1..(Len(events) + 1)
    BY <1>2, <1>4, <2>1
  <2>3. \A i \in 1..(Len(events) + 1) :
          events'[i] = IF i <= Len(events) THEN events[i] ELSE new
    BY <1>2, <1>4, <2>1
  <2>4. Len(events') = e /\ e \in DOMAIN events' /\ e \notin DOMAIN events /\ events' # <<>>
    BY <2>1, <2>2
  <2>5. DOMAIN events' = DOMAIN events \cup {e}
    BY <2>1, <2>2
  <2>6. \A i \in DOMAIN events : i \in Nat /\ i < e /\ events'[i] = events[i]
    BY <2>1, <2>3
  <2>7. events'[e] = new
    <3>1. e \in 1..(Len(events) + 1) /\ ~(e <= Len(events))  BY <2>1
    <3>2. QED  BY <2>3, <3>1
  <2>8. QED  BY <2>1, <2>2, <2>4, <2>5, <2>6, <2>7
<1>6. \A i \in DOMAIN events :
        /\ Block(i)' = Block(i) /\ First(i)' = First(i) /\ Mask(i)' = Mask(i)
        /\ Time(i)' = Time(i) /\ Length(i)' = Length(i) /\ Behind(i)' = Behind(i)
        /\ \A d : Place(i, d)' = Place(i, d)
  BY <1>5 DEF Block, First, Mask, Time, Length, Behind, Place
<1>7. /\ Block(e)' = Len(blocks) /\ First(e)' = End /\ Mask(e)' = mask /\ Length(e)' = n
      /\ Behind(e)' = End + 4
      /\ \A d \in 0..8 : Place(e, d)' = End + 4
  <2>1. new.places = [c \in 0..8 |-> End + 4] /\ 8 \in 0..8  OBVIOUS
  <2>2. \A d \in 0..8 : events'[e].places[d] = End + 4  BY <1>5, <2>1
  <2>3. QED  BY <1>5, <2>1, <2>2 DEF Block, First, Mask, Length, Behind, Place
<1>8. StoreType'
  BY <1>2, <1>3, <1>5 DEF StoreType
<1>9. \A i \in DOMAIN events : Before(i, e)' /\ Behind(i) <= blocks'[Block(i)]
  <2> SUFFICES ASSUME NEW i \in DOMAIN events
               PROVE  Before(i, e)' /\ Behind(i) <= blocks'[Block(i)]
    OBVIOUS
  <2>1. /\ Block(i) \in DOMAIN blocks /\ Behind(i) <= blocks[Block(i)] /\ Behind(i) \in Nat
        /\ Block(i) \in Nat
    BY TriggerType DEF Spaces
  <2>2. CASE Block(i) = Len(blocks)
    <3>1. Behind(i) <= End  BY <1>3, <2>1, <2>2
    <3>2. QED  BY SMTT(30), <1>3, <1>6, <1>7, <2>1, <2>2, <3>1 DEF Before
  <2>3. CASE Block(i) # Len(blocks)
    <3>1. Block(i) < Len(blocks)  BY <1>3, <2>1, <2>3
    <3>2. QED  BY <1>3, <1>6, <1>7, <2>1, <2>3, <3>1 DEF Before
  <2>4. QED  BY <2>2, <2>3
<1>10. Spaces'
  <2>1. \A b \in DOMAIN blocks' : blocks'[b] <= MaxWords
    BY <1>3 DEF Spaces
  <2>2. \A i \in DOMAIN events' :
          /\ Block(i)' \in DOMAIN blocks' /\ Behind(i)' <= blocks'[Block(i)']
          /\ Place(i, 0)' = First(i)' + 4
    <3>1. \A i \in DOMAIN events :
            /\ Block(i)' \in DOMAIN blocks' /\ Behind(i)' <= blocks'[Block(i)']
            /\ Place(i, 0)' = First(i)' + 4
      BY <1>3, <1>6, <1>9 DEF Spaces
    <3>2. /\ Block(e)' \in DOMAIN blocks' /\ Behind(e)' <= blocks'[Block(e)']
          /\ Place(e, 0)' = First(e)' + 4
      <4>1. 0 \in 0..8  OBVIOUS
      <4>2. QED  BY <1>3, <1>7, <4>1
    <3>3. QED  BY <1>5, <3>1, <3>2
  <2>3. \A i, j \in DOMAIN events' : i < j => Before(i, j)'
    <3> SUFFICES ASSUME NEW i \in DOMAIN events', NEW j \in DOMAIN events', i < j
                 PROVE  Before(i, j)'
      OBVIOUS
    <3>1. CASE j \in DOMAIN events
      <4>1. i \in DOMAIN events  BY <1>5, <3>1
      <4>2. Before(i, j)  BY <3>1, <4>1 DEF Spaces
      <4>3. QED  BY <1>6, <3>1, <4>1, <4>2 DEF Before
    <3>2. CASE j = e
      <4>1. i \in DOMAIN events  BY <1>5, <3>2
      <4>2. QED  BY <1>9, <3>2, <4>1
    <3>3. QED  BY <1>5, <3>1, <3>2
  <2>4. QED  BY <2>1, <2>2, <2>3 DEF Spaces
<1>11. Places'
  <2> SUFFICES ASSUME NEW i \in DOMAIN events', NEW b \in 0..8, NEW d \in 0..8, b <= d
               PROVE  /\ Place(i, b)' <= Place(i, d)'
                      /\ (\A m \in Mask(i)' : m < b \/ d <= m) => Place(i, b)' = Place(i, d)'
    BY DEF Places
  <2>1. CASE i \in DOMAIN events  BY <1>6, <2>1 DEF Places
  <2>2. CASE i = e  BY SMTT(30), <1>3, <1>7, <2>2
  <2>3. QED  BY <1>5, <2>1, <2>2
<1>12. Growing'
  <2>1. \A c \in left', d \in 0..8 : Place(e, d)' = End'  BY <1>3, <1>7
  <2>2. QED  BY <1>2, <1>3, <1>5, <1>7, <2>1 DEF Growing
<1>13. Lead' = Lead /\ \A p : Width(p)' = Width(p)
  BY <1>2 DEF Lead, Width
<1>14. \A p \in parts : p.event \in DOMAIN events /\ p.event # e /\ p.channel \in Mask(p.event)
  BY <1>5 DEF PartsFit
<1>15. PartsFit'
  <2>1. ASSUME NEW p \in parts
        PROVE  p.event \in DOMAIN events' /\ p.channel \in Mask(p.event)' /\ PartFits(p)'
    <3>1. PartFits(p)  BY DEF PartsFit
    <3>2. ~Open(p.event, p.channel)'  BY <1>5, <1>14 DEF Open
    <3>3. QED  BY <1>2, <1>5, <1>6, <1>13, <1>14, <3>1, <3>2 DEF PartFits
  <2>2. QED  BY <1>2, <2>1 DEF PartsFit
<1>16. Stored'
  <2> SUFFICES ASSUME NEW i \in DOMAIN events', NEW b \in Mask(i)', ~Open(i, b)'
               PROVE  IF mode = "zle" THEN Place(i, b)' < Place(i, b + 1)'
                      ELSE \E p \in parts : p.event = i /\ p.channel = b
    BY <1>2 DEF Stored
  <2>1. i # e  BY <1>2, <1>5, <1>7 DEF Open
  <2>2. i \in DOMAIN events /\ b \in Mask(i) /\ ~Open(i, b)  BY <1>2, <1>5, <1>6, <2>1 DEF Open
  <2>3. QED  BY <1>6, <2>2 DEF Stored
<1>17. \A i \in DOMAIN events : \A b, j, t : Follows(i, b, j, t)' = Follows(i, b, j, t)
  BY <1>2, <1>6 DEF Follows
<1>18. Chain'
  <2> SUFFICES ASSUME mode = "zle" PROVE Chain'
    BY <1>2 DEF Chain
  <2>1. ASSUME NEW i \in DOMAIN events', NEW b \in Mask(i)', Place(i, b)' < Place(i, b + 1)'
        PROVE  Follows(i, b, Place(i, b) + 1, Time(i))'
    <3>1. i # e
      <4> SUFFICES ASSUME i = e PROVE FALSE
        OBVIOUS
      <4>1. b \in 0..7  BY <1>7, ChannelSets
      <4>2. b \in 0..8 /\ b + 1 \in 0..8  BY <4>1
      <4>3. QED  BY SMTT(30), <1>3, <1>7, <2>1, <4>2
    <3>2. i \in DOMAIN events  BY <1>5, <3>1
    <3>3. Follows(i, b, Place(i, b) + 1, Time(i))  BY <1>6, <2>1, <3>2 DEF Chain
    <3>4. QED  BY <1>2, <1>6, <3>2, <3>3 DEF Follows
  <2>2. ASSUME NEW p \in parts
        PROVE  Follows(p.event, p.channel, p.at + Width(p), p.time + 2 * p.n)'
    <3>1. Follows(p.event, p.channel, p.at + Width(p), p.time + 2 * p.n)  BY DEF Chain
    <3>2. QED  BY <1>2, <1>6, <1>13, <1>14, <3>1 DEF Follows
  <2>3. ASSUME NEW c \in left'
        PROVE  /\ Place(e, c)' + 1 = End' => clock' = Time(e)'
               /\ \A p \in parts : p.event # e
    <3>1. c \in 0..8  BY <1>2, ChannelSets
    <3>2. Place(e, c)' + 1 # End'  BY SMTT(30), <1>3, <1>7, <3>1
    <3>3. QED  BY <1>14, <3>2
  <2>4. QED  BY <1>2, <1>5, <2>1, <2>2, <2>3 DEF Chain
<1>19. Even'
  <2> SUFFICES ASSUME mode = "plain", NEW i \in DOMAIN events'
               PROVE  Behind(i)' = First(i)' + 4 + Length(i)'
                        * (Cardinality(Mask(i)') - IF i = e THEN Cardinality(left') ELSE 0)
    BY <1>2, <1>5 DEF Even
  <2>1. CASE i \in DOMAIN events
    <3>1. Behind(i) = First(i) + 4
            + Length(i) * (Cardinality(Mask(i)) - IF i = Len(events) THEN Cardinality(left) ELSE 0)
      BY <2>1 DEF Even
    <3>2. Cardinality(left) = 0 /\ i # e  BY <1>2, <1>5, <2>1, FS_EmptySet
    <3>3. QED  BY <1>6, <2>1, <3>1, <3>2
  <2>2. CASE i = e
    <3>1. Cardinality(mask) \in Nat /\ n * (Cardinality(mask) - Cardinality(mask)) = 0
      BY ChannelSets
    <3>2. QED  BY <1>2, <1>3, <1>7, <2>2, <3>1
  <2>3. QED  BY <1>5, <2>1, <2>2
<1>20. FillersApart'
  <2> SUFFICES ASSUME NEW f \in fillers
               PROVE  /\ f[1] \in DOMAIN blocks /\ f[2] < blocks'[f[1]]
                      /\ \A i \in DOMAIN events' :
                           Block(i)' = f[1] => f[2] < First(i)' \/ Behind(i)' <= f[2]
    BY <1>2, <1>3 DEF FillersApart
  <2>1. /\ f[1] \in DOMAIN blocks /\ f[2] < blocks[f[1]] /\ f[2] \in Nat
        /\ \A i \in DOMAIN events : Block(i) = f[1] => f[2] < First(i) \/ Behind(i) <= f[2]
    BY DEF FillersApart, StoreType
  <2>2. f[2] < blocks'[f[1]]
    <3>1. CASE f[1] = Len(blocks)  BY SMTT(30), <1>3, <2>1, <3>1
    <3>2. CASE f[1] # Len(blocks)  BY <1>3, <2>1, <3>2
    <3>3. QED  BY <3>1, <3>2
  <2>3. f[1] = Len(blocks) => f[2] < First(e)'
    BY <1>3, <1>7, <2>1
  <2>4. QED  BY <1>5, <1>6, <1>7, <2>1, <2>2, <2>3
<1>21. QED
  BY <1>8, <1>10, <1>11, <1>12, <1>15, <1>16, <1>18, <1>19, <1>20

\* A digitizer's step keeps the layout, and so does everything else.
LEMMA LayoutStep == Layout /\ [Next]_vars => Layout'
<1> SUFFICES ASSUME Layout, [Next]_vars PROVE Layout'
  OBVIOUS
<1>1. ASSUME NEW mask \in SUBSET Channels, NEW n \in IF mode = "plain" THEN Lengths ELSE {0},
             StoreTrigger(mask, n)
      PROVE  Layout'
  <2>1. n \in Nat  BY ParsingAssumption
  <2>2. QED  BY <1>1, <2>1, StoreTriggerLayout
<1>2. CASE Store /\ ~HandOver
  BY <1>1, <1>2, StoreChannelLayout, StoreSizeLayout, StoreSegmentLayout, StoreGapLayout,
     NextBlockLayout DEF Store
<1>3. CASE HandOver  BY <1>3, SameLayout DEF HandOver
<1>4. CASE Scan
  BY <1>4, SameLayout
     DEF Scan, BlockEnds, SkipWord, Trigger, EventHeader, EventDone, inputVars
<1>5. CASE SplitChannels
  BY <1>5, SameLayout
     DEF SplitChannels, BeginChannel, SkipSamples, KeepWords, ChannelDone, inputVars
<1>6. CASE SplitChannelsNewFW
  BY <1>6, SameLayout DEF SplitChannelsNewFW, KeepChannel, DropChannel, Abort, inputVars
<1>7. CASE WritePiece \/ BulkDone
  BY <1>7, SameLayout DEF WritePiece, BulkDone, inputVars
<1>8. CASE UNCHANGED vars
  BY <1>8, SameLayout DEF vars, inputVars
<1>9. QED  BY <1>2, <1>3, <1>4, <1>5, <1>6, <1>7, <1>8 DEF Next

-----------------------------------------------------------------------------
(* Triggers and parts have words of their own.                             *)

LEMMA TriggerRange ==
  ASSUME Layout, NEW i \in DOMAIN events
  PROVE  /\ Block(i) \in DOMAIN blocks /\ Block(i) \in Nat /\ First(i) \in Nat /\ Behind(i) \in Nat
         /\ First(i) + 4 <= Behind(i) /\ Behind(i) <= blocks[Block(i)]
         /\ Place(i, 0) = First(i) + 4
         /\ \A c \in 0..8 : Place(i, c) \in Nat /\ First(i) + 4 <= Place(i, c) /\ Place(i, c) <= Behind(i)
<1> USE DEF Layout
<1>1. /\ Block(i) \in DOMAIN blocks /\ Behind(i) <= blocks[Block(i)] /\ Place(i, 0) = First(i) + 4
  BY DEF Spaces
<1>2. /\ Block(i) \in Nat /\ First(i) \in Nat /\ Behind(i) \in Nat /\ Behind(i) = Place(i, 8)
      /\ \A c \in 0..8 : Place(i, c) \in Nat
  BY TriggerType
<1>3. \A c \in 0..8 : Place(i, 0) <= Place(i, c) /\ Place(i, c) <= Place(i, 8)
  <2>1. 0 \in 0..8 /\ 8 \in 0..8 /\ \A c \in 0..8 : 0 <= c /\ c <= 8  OBVIOUS
  <2>2. QED  BY <2>1 DEF Places
<1>4. 0 \in 0..8  OBVIOUS
<1>5. QED  BY <1>1, <1>2, <1>3, <1>4

LEMMA PartRange ==
  ASSUME Layout, NEW p \in parts
  PROVE  /\ p.event \in DOMAIN events /\ p.channel \in Mask(p.event)
         /\ p.channel \in 0..8 /\ p.channel + 1 \in 0..8
         /\ p.at \in Nat /\ p.n \in Nat /\ Lead \in Nat /\ Lead <= Width(p) /\ Width(p) \in Nat
         /\ p.good => Width(p) = Lead + p.n
         /\ p.good => 0 < Width(p)
         /\ Place(p.event, p.channel) <= p.at
         /\ mode = "zle" => Place(p.event, p.channel) < p.at /\ 0 < Width(p)
         /\ p.at + Width(p) <= Place(p.event, p.channel + 1)
         /\ First(p.event) + 4 <= p.at /\ p.at + Width(p) <= Behind(p.event)
<1> USE DEF Layout
<1>1. /\ p.event \in DOMAIN events /\ p.channel \in Mask(p.event) /\ PartFits(p)
  BY DEF PartsFit
<1>2. /\ p.channel \in 0..7 /\ p.at \in Nat /\ p.n \in Nat /\ p.good \in BOOLEAN /\ Width(p) \in Nat
      /\ Lead \in Nat
  BY PartType, LeadType
<1>3. p.channel \in 0..8 /\ p.channel + 1 \in 0..8  BY <1>2
<1>4. /\ Place(p.event, p.channel) \in Nat /\ Place(p.event, p.channel + 1) \in Nat
      /\ First(p.event) \in Nat /\ Behind(p.event) \in Nat
      /\ First(p.event) + 4 <= Place(p.event, p.channel)
      /\ Place(p.event, p.channel + 1) <= Behind(p.event)
  BY <1>1, <1>3, TriggerRange
<1>5. /\ Place(p.event, p.channel) <= p.at
      /\ mode = "zle" => Place(p.event, p.channel) < p.at
      /\ p.at + Width(p) <= Place(p.event, p.channel + 1)
      /\ p.good => p.n > 0 \/ Lead > 0
  <2>1. CASE mode = "zle"  BY <1>1, <1>2, <1>4, <2>1 DEF PartFits
  <2>2. CASE mode # "zle"
    <3>1. p.at = Place(p.event, p.channel) /\ p.at + Width(p) = Place(p.event, p.channel + 1)
          /\ (mode = "plain" => (p.good <=> p.n > 0))
      BY <1>1, <2>2 DEF PartFits
    <3>2. QED  BY <1>2, <1>4, <2>2, <3>1, LeadType
  <2>3. QED  BY <2>1, <2>2
<1>6. /\ Lead <= Width(p) /\ (p.good => Width(p) = Lead + p.n)
      /\ (p.good => 0 < Width(p)) /\ (mode = "zle" => 0 < Width(p))
  <2>1. CASE p.good
    <3>1. Width(p) = Lead + p.n  BY <2>1 DEF Width
    <3>2. QED  BY <1>2, <1>5, <2>1, <3>1, LeadType
  <2>2. CASE ~p.good
    <3>1. Width(p) = Lead + 0  BY <2>2 DEF Width
    <3>2. QED  BY <1>2, <2>2, <3>1, LeadType
  <2>3. QED  BY <2>1, <2>2
<1>7. First(p.event) + 4 <= p.at /\ p.at + Width(p) <= Behind(p.event)
  BY <1>2, <1>4, <1>5
<1>8. QED  BY <1>1, <1>2, <1>3, <1>5, <1>6, <1>7

\* Triggers of one block are in the order of their words.
LEMMA TriggerOrder ==
  ASSUME Layout, NEW i \in DOMAIN events, NEW j \in DOMAIN events, i < j
  PROVE  Block(i) < Block(j) \/ (Block(i) = Block(j) /\ Behind(i) <= First(j))
  BY DEF Layout, Spaces, Before

LEMMA OneTrigger ==
  ASSUME Layout, NEW i \in DOMAIN events, NEW j \in DOMAIN events, Block(i) = Block(j),
         NEW k \in Int, First(i) <= k, k < Behind(i), First(j) <= k, k < Behind(j)
  PROVE  i = j
<1>1. i \in Nat /\ j \in Nat  BY TriggerType DEF Layout
<1>2. /\ Block(i) \in Nat /\ First(i) \in Nat /\ Behind(i) \in Nat
      /\ Block(j) \in Nat /\ First(j) \in Nat /\ Behind(j) \in Nat
  BY TriggerRange
<1>3. ~(i < j)
  <2> SUFFICES ASSUME i < j PROVE FALSE  OBVIOUS
  <2>1. Behind(i) <= First(j)  BY <1>2, TriggerOrder
  <2>2. QED  BY <1>2, <2>1
<1>4. ~(j < i)
  <2> SUFFICES ASSUME j < i PROVE FALSE  OBVIOUS
  <2>1. Behind(j) <= First(i)  BY <1>2, TriggerOrder
  <2>2. QED  BY <1>2, <2>1
<1>5. QED  BY <1>1, <1>3, <1>4

LEMMA OneChannel ==
  ASSUME Layout, NEW i \in DOMAIN events, NEW c \in 0..7, NEW d \in 0..7,
         NEW k \in Int, Place(i, c) <= k, k < Place(i, c + 1), Place(i, d) <= k, k < Place(i, d + 1)
  PROVE  c = d
<1>1. c \in 0..8 /\ c + 1 \in 0..8 /\ d \in 0..8 /\ d + 1 \in 0..8  OBVIOUS
<1>2. /\ Place(i, c) \in Nat /\ Place(i, c + 1) \in Nat
      /\ Place(i, d) \in Nat /\ Place(i, d + 1) \in Nat
  BY <1>1, TriggerRange
<1>3. ~(c < d)
  <2> SUFFICES ASSUME c < d PROVE FALSE  OBVIOUS
  <2>1. c + 1 <= d  OBVIOUS
  <2>2. Place(i, c + 1) <= Place(i, d)  BY <1>1, <2>1 DEF Layout, Places
  <2>3. QED  BY <1>2, <2>2
<1>4. ~(d < c)
  <2> SUFFICES ASSUME d < c PROVE FALSE  OBVIOUS
  <2>1. d + 1 <= c  OBVIOUS
  <2>2. Place(i, d + 1) <= Place(i, c)  BY <1>1, <2>1 DEF Layout, Places
  <2>3. QED  BY <1>2, <2>2
<1>5. QED  BY <1>3, <1>4

\* A word that is of a part is of no other trigger and no other channel.
LEMMA OnePart ==
  ASSUME Layout, NEW p \in parts, NEW i \in DOMAIN events, Block(p.event) = Block(i),
         NEW k \in Int, p.at <= k, k < p.at + Width(p), First(i) <= k, k < Behind(i)
  PROVE  /\ p.event = i
         /\ \A c \in 0..7 : Place(i, c) <= k /\ k < Place(i, c + 1) => p.channel = c
<1>1. /\ p.event \in DOMAIN events /\ p.at \in Nat /\ Width(p) \in Nat
      /\ First(p.event) + 4 <= p.at /\ p.at + Width(p) <= Behind(p.event)
      /\ Place(p.event, p.channel) <= p.at /\ p.at + Width(p) <= Place(p.event, p.channel + 1)
      /\ p.channel \in 0..8 /\ p.channel + 1 \in 0..8
  BY PartRange
<1>2. /\ First(p.event) \in Nat /\ Behind(p.event) \in Nat
      /\ Place(p.event, p.channel) \in Nat /\ Place(p.event, p.channel + 1) \in Nat
  BY <1>1, TriggerRange
<1>3. First(p.event) <= k /\ k < Behind(p.event)  BY <1>1, <1>2
<1>4. p.event = i  BY <1>1, <1>3, OneTrigger
<1>5. p.channel \in 0..7 /\ Place(i, p.channel) <= k /\ k < Place(i, p.channel + 1)
  BY <1>1, <1>2, <1>4
<1>6. QED  BY <1>4, <1>5, OneChannel

\* A part is stored at the end of its channel, behind the parts that are there.
LEMMA ApartStep == Layout /\ Apart /\ [Next]_vars => Apart'
<1> SUFFICES ASSUME Layout, Apart, [Next]_vars PROVE Apart'
  OBVIOUS
<1>1. ASSUME NEW p, parts' = parts \cup {p}, mode' = mode, left # {},
             p.event = Len(events), p.channel = Lowest(left), p.at = End
      PROVE  Apart'
  <2>1. \A q : Width(q)' = Width(q)  BY <1>1 DEF Width, Lead
  <2>2. ASSUME NEW q \in parts, q.event = p.event, q.channel = p.channel
        PROVE  q.at + Width(q) <= p.at
    <3>1. p.channel \in left  BY <1>1, ChannelSets DEF Layout, StoreType
    <3>2. Open(q.event, q.channel)  BY <1>1, <2>2, <3>1 DEF Open
    <3>3. mode = "zle"  BY <3>2 DEF Layout, PartsFit, PartFits
    <3>4. q.at + Width(q) <= Place(q.event, q.channel + 1) /\ q.channel + 1 \in 0..8
          /\ q.channel \in 0..8
      BY PartRange
    <3>5. q.channel < q.channel + 1  BY <3>4
    <3>6. Place(q.event, q.channel + 1) = End
      BY <1>1, <2>2, <3>1, <3>4, <3>5 DEF Layout, Growing
    <3>7. QED  BY <1>1, <3>4, <3>6
  <2>3. QED  BY <1>1, <2>1, <2>2 DEF Apart
<1>2. ASSUME parts' = parts, mode' = mode PROVE Apart'
  BY <1>2 DEF Apart, Width, Lead
<1>3. ASSUME NEW n \in Lengths, StoreChannel(n) PROVE Apart'
  <2>1. PICK says, t, good : parts' = parts \cup {Part(n, good, says, t)}
    BY <1>3 DEF StoreChannel
  <2>2. left # {} /\ mode' = mode  BY <1>3 DEF StoreChannel, Extend
  <2>3. PICK p : p = Part(n, good, says, t)  OBVIOUS
  <2>4. p.event = Len(events) /\ p.channel = Lowest(left) /\ p.at = End  BY <2>3 DEF Part
  <2>5. QED  BY <1>1, <2>1, <2>2, <2>3, <2>4
<1>4. ASSUME NEW s \in Segments, NEW last \in BOOLEAN, StoreSegment(s, last) PROVE Apart'
  <2>1. parts' = parts \cup {Part(s.n, s.good, s.n, clock)} /\ left # {} /\ mode' = mode
    BY <1>4 DEF StoreSegment, Extend
  <2>2. PICK p : p = Part(s.n, s.good, s.n, clock)  OBVIOUS
  <2>3. p.event = Len(events) /\ p.channel = Lowest(left) /\ p.at = End  BY <2>2 DEF Part
  <2>4. QED  BY <1>1, <2>1, <2>2, <2>3
<1>5. CASE Store
  <2>1. CASE \E mask \in SUBSET Channels, n \in IF mode = "plain" THEN Lengths ELSE {0} :
               StoreTrigger(mask, n)
    BY <1>2, <2>1 DEF StoreTrigger
  <2>2. CASE \E g \in Gaps : StoreGap(g)  BY <1>2, <2>2 DEF StoreGap
  <2>3. CASE StoreSize \/ NextBlock \/ HandOver
    BY <1>2, <2>3 DEF StoreSize, NextBlock, HandOver, storeVars
  <2>4. CASE \E n \in Lengths : StoreChannel(n)  BY <1>3, <2>4
  <2>5. CASE \E s \in Segments, last \in BOOLEAN : StoreSegment(s, last)  BY <1>4, <2>5
  <2>6. QED  BY <1>5, <2>1, <2>2, <2>3, <2>4, <2>5 DEF Store
<1>6. CASE Scan
  BY <1>2, <1>6 DEF Scan, BlockEnds, SkipWord, Trigger, EventHeader, EventDone, inputVars, storeVars
<1>7. CASE SplitChannels
  BY <1>2, <1>7
     DEF SplitChannels, BeginChannel, SkipSamples, KeepWords, ChannelDone, inputVars, storeVars
<1>8. CASE SplitChannelsNewFW
  BY <1>2, <1>8 DEF SplitChannelsNewFW, KeepChannel, DropChannel, Abort, inputVars, storeVars
<1>9. CASE WritePiece \/ BulkDone
  BY <1>2, <1>9 DEF WritePiece, BulkDone, inputVars, storeVars
<1>10. CASE UNCHANGED vars
  BY <1>2, <1>10 DEF vars, inputVars, storeVars
<1>11. QED  BY <1>5, <1>6, <1>7, <1>8, <1>9, <1>10 DEF Next

-----------------------------------------------------------------------------
(* The words of the bulk.                                                  *)

LEMMA HandedWords ==
  ASSUME Layout, Handed, at # "store"
  PROVE  /\ left = {} /\ DOMAIN buffvec = DOMAIN blocks /\ Len(buffvec) = Len(blocks)
         /\ x \in DOMAIN blocks /\ x \in Nat /\ x <= Len(blocks) /\ Len(blocks) \in Nat
         /\ idx \in Nat /\ (idx <= blocks[x] \/ Gone) /\ (mode # "newfw" => idx <= blocks[x])
         /\ blocks[x] \in Nat /\ blocks[x] <= MaxWords
         /\ \A b \in DOMAIN blocks :
              /\ b \in Nat /\ b <= Len(blocks) /\ blocks[b] \in Nat /\ Len(buffvec[b]) = blocks[b]
              /\ \A j \in Nat : j < blocks[b] => buffvec[b][j + 1] = WordAt(b, j)
<1>1. /\ left = {} /\ x \in DOMAIN blocks /\ (idx \in 0..blocks[x] \/ (idx \in Nat /\ Gone))
      /\ buffvec = [b \in DOMAIN blocks |-> [j \in 1..blocks[b] |-> WordAt(b, j - 1)]]
  BY DEF Handed
<1>2. /\ DOMAIN blocks = 1..Len(blocks) /\ Len(blocks) \in Nat
      /\ \A b \in DOMAIN blocks : b \in Nat /\ b <= Len(blocks) /\ blocks[b] \in Nat
  BY EndType DEF Layout
<1>3. blocks[x] <= MaxWords  BY <1>1 DEF Layout, Spaces
<1>4. DOMAIN buffvec = DOMAIN blocks /\ Len(buffvec) = Len(blocks)
  BY <1>1, <1>2
<1>5. ASSUME NEW b \in DOMAIN blocks
      PROVE  /\ Len(buffvec[b]) = blocks[b]
             /\ \A j \in Nat : j < blocks[b] => buffvec[b][j + 1] = WordAt(b, j)
  <2>1. buffvec[b] = [j \in 1..blocks[b] |-> WordAt(b, j - 1)]  BY <1>1
  <2>2. blocks[b] \in Nat  BY <1>2
  <2>3. Len(buffvec[b]) = blocks[b]  BY <2>1, <2>2
  <2>4. ASSUME NEW j \in Nat, j < blocks[b] PROVE buffvec[b][j + 1] = WordAt(b, j)
    <3>1. j + 1 \in 1..blocks[b] /\ (j + 1) - 1 = j  BY <2>2, <2>4
    <3>2. QED  BY <2>1, <3>1
  <2>5. QED  BY <2>3, <2>4
<1>6. /\ idx \in Nat /\ (idx <= blocks[x] \/ Gone)
      /\ (mode # "newfw" => idx <= blocks[x])
  <2>1. Gone => mode = "newfw"  BY DEF Gone, Astray, Damaged
  <2>2. QED  BY <1>1, <1>2, <2>1
<1>7. QED  BY <1>1, <1>2, <1>3, <1>4, <1>5, <1>6

\* The words of a header.
LEMMA HeaderWords ==
  ASSUME Layout, NEW i \in DOMAIN events, NEW k \in 0..3
  PROVE  WordAt(Block(i), First(i) + k) = HeaderWord(events[i], k)
<1> DEFINE b == Block(i)
           j == First(i) + k
           of == {t \in DOMAIN events : events[t].block = b}
           heads == {t \in of : j \in events[t].first .. events[t].first + 3}
<1>1. First(i) \in Nat /\ First(i) + 4 <= Behind(i) /\ Behind(i) \in Nat
  BY TriggerRange
<1>2. i \in heads  BY <1>1 DEF Block, First
<1>3. \A t \in heads : t = i
  <2> SUFFICES ASSUME NEW t \in heads PROVE t = i
    OBVIOUS
  <2>1. t \in DOMAIN events /\ Block(t) = Block(i) /\ j \in First(t)..First(t) + 3
    BY DEF Block, First
  <2>2. First(t) \in Nat /\ First(t) + 4 <= Behind(t) /\ Behind(t) \in Nat
    BY <2>1, TriggerRange
  <2>3. j \in Int /\ First(t) <= j /\ j < Behind(t) /\ First(i) <= j /\ j < Behind(i)
    BY <1>1, <2>1, <2>2
  <2>4. QED  BY <2>1, <2>3, OneTrigger
<1>4. (CHOOSE t \in heads : TRUE) = i /\ heads # {}
  BY <1>2, <1>3
<1>5. WordAt(b, j) = HeaderWord(events[CHOOSE t \in heads : TRUE], j - events[CHOOSE t \in heads : TRUE].first)
  BY <1>4 DEF WordAt
<1>6. WordAt(b, j) = HeaderWord(events[i], j - events[i].first)
  BY <1>4, <1>5
<1>7. j - events[i].first = k  BY <1>1 DEF First
<1>8. QED  BY <1>6, <1>7

LEMMA HeaderSays ==
  ASSUME NEW e
  PROVE  /\ HeaderWord(e, 0).is = "head" /\ HeaderWord(e, 0).n = e.places[8] - e.first
         /\ HeaderWord(e, 1).mask = e.mask /\ HeaderWord(e, 3).n = e.time
         /\ \A k \in 1..3 : HeaderWord(e, k).is = "plain"
  BY DEF HeaderWord, Word

\* Behind the header, a word of a trigger is none of a header.
LEMMA NoHeader ==
  ASSUME Layout, NEW i \in DOMAIN events, NEW j \in Int, First(i) + 4 <= j, j < Behind(i),
         NEW t \in DOMAIN events, Block(t) = Block(i), j \in First(t)..First(t) + 3
  PROVE  FALSE
<1>1. /\ First(i) \in Nat /\ Behind(i) \in Nat
      /\ First(t) \in Nat /\ Behind(t) \in Nat /\ First(t) + 4 <= Behind(t)
  BY TriggerRange
<1>2. First(i) <= j /\ First(t) <= j /\ j < Behind(t)  BY <1>1
<1>3. t = i  BY <1>2, OneTrigger
<1>4. QED  BY <1>1, <1>3

\* The words in front of the data of a part.
LEMMA ControlWords ==
  ASSUME Layout, NEW p \in parts, NEW k \in Nat, k < Lead
  PROVE  WordAt(Block(p.event), p.at + k) = ControlWord(p, k)
<1> DEFINE b == Block(p.event)
           j == p.at + k
           of == {t \in DOMAIN events : events[t].block = b}
           heads == {t \in of : j \in events[t].first .. events[t].first + 3}
           leads == {q \in parts : q.event \in of /\ j \in q.at .. q.at + Lead - 1}
<1>1. /\ p.event \in DOMAIN events /\ p.at \in Nat /\ Lead \in Nat /\ Lead <= Width(p)
      /\ Width(p) \in Nat /\ First(p.event) + 4 <= p.at /\ p.at + Width(p) <= Behind(p.event)
      /\ p.channel \in 0..7 /\ Place(p.event, p.channel) <= p.at
      /\ p.at + Width(p) <= Place(p.event, p.channel + 1)
  BY PartRange
<1>2. /\ First(p.event) \in Nat /\ Behind(p.event) \in Nat
      /\ Place(p.event, p.channel) \in Nat /\ Place(p.event, p.channel + 1) \in Nat
  <2>1. p.channel \in 0..8 /\ p.channel + 1 \in 0..8  BY <1>1
  <2>2. QED  BY <1>1, <2>1, TriggerRange
<1>3. heads = {}
  <2> SUFFICES ASSUME NEW t \in heads PROVE FALSE
    OBVIOUS
  <2>1. t \in DOMAIN events /\ Block(t) = Block(p.event) /\ j \in First(t)..First(t) + 3
    BY DEF Block, First
  <2>2. j \in Int /\ First(p.event) + 4 <= j /\ j < Behind(p.event)  BY <1>1, <1>2
  <2>3. QED  BY <1>1, <2>1, <2>2, NoHeader
<1>4. p \in leads  BY <1>1 DEF Block
<1>5. \A q \in leads : q = p
  <2> SUFFICES ASSUME NEW q \in leads PROVE q = p
    OBVIOUS
  <2>1. q \in parts /\ q.event \in DOMAIN events /\ Block(q.event) = Block(p.event)
        /\ j \in q.at..q.at + Lead - 1
    BY DEF Block
  <2>2. q.at \in Nat /\ Lead <= Width(q) /\ Width(q) \in Nat  BY <2>1, PartRange
  <2>3. /\ j \in Int /\ q.at <= j /\ j < q.at + Width(q)
        /\ First(p.event) <= j /\ j < Behind(p.event)
        /\ Place(p.event, p.channel) <= j /\ j < Place(p.event, p.channel + 1)
    BY <1>1, <1>2, <2>1, <2>2
  <2>4. q.event = p.event /\ q.channel = p.channel
    BY <1>1, <2>1, <2>3, OnePart
  <2>5. q.at = p.at
    <3>1. CASE mode = "zle"
      <4>1. Lead = 1  BY <3>1, LeadType
      <4>2. QED  BY <1>1, <2>1, <2>2, <4>1
    <3>2. CASE mode # "zle"
      <4>1. q.at = Place(q.event, q.channel) /\ p.at = Place(p.event, p.channel)
        BY <2>1, <3>2 DEF Layout, PartsFit, PartFits
      <4>2. QED  BY <2>4, <4>1
    <3>3. QED  BY <3>1, <3>2
  <2>6. QED  BY <2>1, <2>4, <2>5 DEF Layout, PartsFit
<1>6. (CHOOSE q \in leads : TRUE) = p /\ leads # {}
  BY <1>4, <1>5
<1>7. WordAt(b, j) = ControlWord(CHOOSE q \in leads : TRUE, j - (CHOOSE q \in leads : TRUE).at)
  BY <1>3, <1>6 DEF WordAt
<1>8. WordAt(b, j) = ControlWord(p, j - p.at)  BY <1>6, <1>7
<1>9. j - p.at = k  BY <1>1
<1>10. QED  BY <1>8, <1>9

LEMMA ControlSays ==
  ASSUME NEW p
  PROVE  /\ ControlWord(p, 0).n = p.says /\ ControlWord(p, 1).n = p.time
         /\ mode = "zle" => (ControlWord(p, 0).is = "good" <=> p.good)
  BY DEF ControlWord, Word

\* With ZLE: the word for the size of a channel.
LEMMA SizeWord ==
  ASSUME Layout, left = {}, mode = "zle", NEW i \in DOMAIN events, NEW c \in Mask(i)
  PROVE  /\ c \in 0..8 /\ c + 1 \in 0..8 /\ Place(i, c) < Place(i, c + 1)
         /\ WordAt(Block(i), Place(i, c)).is = "plain"
         /\ WordAt(Block(i), Place(i, c)).n = Place(i, c + 1) - Place(i, c)
<1> DEFINE b == Block(i)
           j == Place(i, c)
           of == {t \in DOMAIN events : events[t].block = b}
           heads == {t \in of : j \in events[t].first .. events[t].first + 3}
           leads == {q \in parts : q.event \in of /\ j \in q.at .. q.at + Lead - 1}
           sizes == {s \in of \X Channels : mode = "zle" /\ s[2] \in events[s[1]].mask
                                              /\ j = events[s[1]].places[s[2]]}
<1>0. \A t \in DOMAIN events : \A d \in Mask(t) :
        /\ d \in Channels /\ d \in 0..7 /\ d \in 0..8 /\ d + 1 \in 0..8
        /\ Place(t, d) < Place(t, d + 1)
        /\ Place(t, d) \in Nat /\ Place(t, d + 1) \in Nat
        /\ First(t) + 4 <= Place(t, d) /\ Place(t, d + 1) <= Behind(t)
        /\ First(t) \in Nat /\ Behind(t) \in Nat
  <2> SUFFICES ASSUME NEW t \in DOMAIN events, NEW d \in Mask(t)
               PROVE  /\ d \in Channels /\ d \in 0..7 /\ d \in 0..8 /\ d + 1 \in 0..8
                      /\ Place(t, d) < Place(t, d + 1)
                      /\ Place(t, d) \in Nat /\ Place(t, d + 1) \in Nat
                      /\ First(t) + 4 <= Place(t, d) /\ Place(t, d + 1) <= Behind(t)
                      /\ First(t) \in Nat /\ Behind(t) \in Nat
    OBVIOUS
  <2>1. Mask(t) \in SUBSET Channels  BY TriggerType DEF Layout
  <2>2. d \in Channels /\ d \in 0..7  BY <2>1, ChannelSets
  <2>3. d \in 0..8 /\ d + 1 \in 0..8  BY <2>2
  <2>4. Place(t, d) < Place(t, d + 1)  BY DEF Layout, Stored, Open
  <2>5. QED  BY <2>2, <2>3, <2>4, TriggerRange
<1>1. j \in Int /\ First(i) + 4 <= j /\ j < Behind(i) /\ First(i) <= j /\ j < Place(i, c + 1)
  BY <1>0
<1>2. heads = {}
  <2> SUFFICES ASSUME NEW t \in heads PROVE FALSE
    OBVIOUS
  <2>1. t \in DOMAIN events /\ Block(t) = Block(i) /\ j \in First(t)..First(t) + 3
    BY DEF Block, First
  <2>2. QED  BY <1>1, <2>1, NoHeader
<1>3. leads = {}
  <2> SUFFICES ASSUME NEW q \in leads PROVE FALSE
    OBVIOUS
  <2>1. q \in parts /\ q.event \in DOMAIN events /\ Block(q.event) = Block(i)
        /\ j \in q.at..q.at + Lead - 1
    BY DEF Block
  <2>2. q.at \in Nat /\ Lead \in Nat /\ Lead <= Width(q) /\ Width(q) \in Nat
        /\ Place(q.event, q.channel) < q.at
    BY <2>1, PartRange
  <2>3. q.at <= j /\ j < q.at + Width(q)  BY <1>1, <2>1, <2>2
  <2>4. q.event = i /\ q.channel = c
    <3>1. c \in 0..7 /\ Place(i, c) <= j  BY <1>0, <1>1
    <3>2. QED  BY <1>1, <2>1, <2>3, <3>1, OnePart
  <2>5. QED  BY <1>1, <2>2, <2>3, <2>4
<1>4. <<i, c>> \in sizes  BY <1>0 DEF Block, Place, Mask
<1>5. \A s \in sizes : s[1] = i /\ s[2] = c
  <2> SUFFICES ASSUME NEW s \in sizes PROVE s[1] = i /\ s[2] = c
    OBVIOUS
  <2>1. PICK t, d : t = s[1] /\ d = s[2]  OBVIOUS
  <2>2. t \in DOMAIN events /\ Block(t) = Block(i) /\ d \in Mask(t) /\ j = Place(t, d)
    BY <2>1 DEF Block, Mask, Place
  <2>3. /\ First(t) <= j /\ j < Behind(t) /\ Place(t, d) <= j /\ j < Place(t, d + 1) /\ d \in 0..7
    BY <1>0, <2>2
  <2>4. t = i  BY <1>1, <2>2, <2>3, OneTrigger
  <2>5. Place(i, c) <= j /\ j < Place(i, c + 1) /\ c \in 0..7  BY <1>0
  <2>6. d = c  BY <1>1, <2>3, <2>4, <2>5, OneChannel
  <2>7. QED  BY <2>1, <2>4, <2>6
<1>6. PICK s : s = CHOOSE r \in sizes : TRUE
  OBVIOUS
<1>7. sizes # {} /\ s[1] = i /\ s[2] = c
  <2>1. s \in sizes  BY <1>4, <1>6
  <2>2. QED  BY <1>5, <2>1
<1>8. WordAt(b, j) = Word("plain", events[s[1]].places[s[2] + 1] - j)
  BY <1>2, <1>3, <1>6, <1>7 DEF WordAt
<1>9. WordAt(b, j) = Word("plain", Place(i, c + 1) - j)
  BY <1>7, <1>8 DEF Place
<1>10. QED  BY <1>0, <1>9 DEF Word

\* Only the first word of a trigger looks like a header.
LEMMA OnlyHeaders ==
  ASSUME Layout, NEW b \in Nat, NEW j \in Nat, WordAt(b, j).is = "head"
  PROVE  \E i \in DOMAIN events : Block(i) = b /\ First(i) = j
<1> DEFINE of == {t \in DOMAIN events : events[t].block = b}
           heads == {t \in of : j \in events[t].first .. events[t].first + 3}
           leads == {q \in parts : q.event \in of /\ j \in q.at .. q.at + Lead - 1}
           sizes == {s \in of \X Channels : mode = "zle" /\ s[2] \in events[s[1]].mask
                                              /\ j = events[s[1]].places[s[2]]}
<1>1. CASE heads # {}
  <2>1. PICK i : i = CHOOSE t \in heads : TRUE  OBVIOUS
  <2>2. i \in DOMAIN events /\ Block(i) = b /\ j \in First(i)..First(i) + 3
    <3>1. i \in heads  BY <1>1, <2>1
    <3>2. QED  BY <3>1 DEF Block, First
  <2>3. WordAt(b, j) = HeaderWord(events[i], j - events[i].first)
    BY <1>1, <2>1 DEF WordAt
  <2>4. First(i) \in Nat  BY <2>2, TriggerRange
  <2>5. j = First(i) \/ j - First(i) \in 1..3  BY <2>2, <2>4
  <2>6. j = First(i)
    <3> SUFFICES ASSUME j - First(i) \in 1..3 PROVE FALSE  BY <2>5
    <3>1. HeaderWord(events[i], j - First(i)).is = "plain"  BY HeaderSays
    <3>2. QED  BY <2>3, <3>1 DEF First
  <2>7. QED  BY <2>2, <2>6
<1>2. CASE heads = {}
  <2>1. \/ \E p, k : WordAt(b, j) = ControlWord(p, k)
        \/ \E n : WordAt(b, j) = Word("plain", n)
        \/ WordAt(b, j) = Word("filler", 0)
    <3>1. CASE leads # {}
      <4>1. WordAt(b, j) = ControlWord(CHOOSE q \in leads : TRUE, j - (CHOOSE q \in leads : TRUE).at)
        BY <1>2, <3>1 DEF WordAt
      <4>2. QED  BY <4>1
    <3>2. CASE leads = {} /\ sizes # {}
      <4>1. PICK s : s = CHOOSE t \in sizes : TRUE  OBVIOUS
      <4>2. WordAt(b, j) = Word("plain", events[s[1]].places[s[2] + 1] - j)
        BY <1>2, <3>2, <4>1 DEF WordAt
      <4>3. QED  BY <4>2
    <3>3. CASE leads = {} /\ sizes = {}
      <4>1. WordAt(b, j) = IF <<b, j>> \in fillers THEN Word("filler", 0) ELSE Word("plain", Unknown)
        BY <1>2, <3>3 DEF WordAt
      <4>2. QED  BY <4>1
    <3>4. QED  BY <3>1, <3>2, <3>3
  <2>2. WordAt(b, j).is # "head"
    BY <2>1 DEF ControlWord, Word
  <2>3. QED  BY <2>2
<1>3. QED  BY <1>1, <1>2

\* What a word says is a number, if it is known.
LEMMA WordNumber ==
  ASSUME Layout, mode = "newfw", NEW b \in Nat, NEW j \in Nat
  PROVE  WordAt(b, j).n \in Nat \cup {Unknown}
<1> DEFINE of == {t \in DOMAIN events : events[t].block = b}
           heads == {t \in of : j \in events[t].first .. events[t].first + 3}
           leads == {q \in parts : q.event \in of /\ j \in q.at .. q.at + Lead - 1}
           sizes == {s \in of \X Channels : mode = "zle" /\ s[2] \in events[s[1]].mask
                                              /\ j = events[s[1]].places[s[2]]}
<1>1. CASE heads # {}
  <2>1. PICK i : i = CHOOSE t \in heads : TRUE  OBVIOUS
  <2>2. i \in DOMAIN events /\ j \in First(i)..First(i) + 3
    <3>1. i \in heads  BY <1>1, <2>1
    <3>2. QED  BY <3>1 DEF First
  <2>3. WordAt(b, j) = HeaderWord(events[i], j - First(i))
    BY <1>1, <2>1 DEF WordAt, First
  <2>4. /\ First(i) \in Nat /\ Behind(i) \in Nat /\ First(i) + 4 <= Behind(i) /\ Time(i) \in Nat
    BY <2>2, TriggerRange, TriggerType DEF Layout
  <2>5. PICK k : k = j - First(i)  OBVIOUS
  <2>6. k \in {0, 1, 2, 3}  BY <2>2, <2>4, <2>5
  <2>7. HeaderWord(events[i], 0).n = Behind(i) - First(i) /\ HeaderWord(events[i], 3).n = Time(i)
    BY HeaderSays DEF Behind, First, Time
  <2>8. HeaderWord(events[i], 1).n = Unknown /\ HeaderWord(events[i], 2).n = Unknown
    BY DEF HeaderWord, Word
  <2>9. Behind(i) - First(i) \in Nat  BY <2>4
  <2>10. QED  BY <2>3, <2>4, <2>5, <2>6, <2>7, <2>8, <2>9
<1>2. CASE heads = {} /\ leads # {}
  <2>1. PICK p : p = CHOOSE q \in leads : TRUE  OBVIOUS
  <2>2. p \in parts  BY <1>2, <2>1
  <2>3. WordAt(b, j) = ControlWord(p, j - p.at)  BY <1>2, <2>1 DEF WordAt
  <2>4. p.says \in Nat /\ p.time \in Nat  BY <2>2, PartType DEF Layout
  <2>5. QED  BY <2>3, <2>4 DEF ControlWord, Word
<1>3. CASE heads = {} /\ leads = {}
  <2>1. sizes = {}  OBVIOUS
  <2>2. WordAt(b, j) = IF <<b, j>> \in fillers THEN Word("filler", 0) ELSE Word("plain", Unknown)
    BY <1>3, <2>1 DEF WordAt
  <2>3. QED  BY <2>2 DEF Word
<1>4. QED  BY <1>1, <1>2, <1>3

\* So is what a parser reads, wherever it is.
LEMMA ReadsNumbers ==
  ASSUME Layout, Handed, at # "store", mode = "newfw", NEW j \in Nat
  PROVE  Reads(j) \subseteq Nat
<1>1. /\ x \in Nat /\ Len(buffvec[x]) = blocks[x] /\ blocks[x] \in Nat
      /\ \A k \in Nat : k < blocks[x] => buffvec[x][k + 1] = WordAt(x, k)
  BY HandedWords
<1>2. Huge \in Nat  BY ParsingAssumption DEF Huge
<1>3. CASE j < Len(buffvec[x]) /\ Here(j).n # Unknown
  <2>1. Here(j) = WordAt(x, j)  BY <1>1, <1>3 DEF Here
  <2>2. Here(j).n \in Nat  BY <1>1, <1>3, <2>1, WordNumber
  <2>3. QED  BY <1>2, <1>3, <2>2 DEF Reads
<1>4. CASE ~(j < Len(buffvec[x]) /\ Here(j).n # Unknown)
  <2>1. Reads(j) = Strays  BY <1>4 DEF Reads
  <2>2. QED  BY <2>1, ParsingAssumption
<1>5. QED  BY <1>3, <1>4

-----------------------------------------------------------------------------
(* Steps of the parsers.                                                   *)

SameInput == UNCHANGED inputVars

LEMMA SameInputFacts ==
  ASSUME SameInput
  PROVE  /\ mode' = mode /\ blocks' = blocks /\ events' = events /\ parts' = parts
         /\ fillers' = fillers /\ left' = left /\ clock' = clock /\ buffvec' = buffvec
         /\ Lead' = Lead
         /\ \A i : /\ Block(i)' = Block(i) /\ First(i)' = First(i) /\ Mask(i)' = Mask(i)
                   /\ Time(i)' = Time(i) /\ Length(i)' = Length(i) /\ Behind(i)' = Behind(i)
                   /\ \A c : Place(i, c)' = Place(i, c)
                   /\ Damaged(i)' = Damaged(i) /\ Spoilt(i)' = Spoilt(i)
         /\ \A b, j : Astray(b, j)' = Astray(b, j)
         /\ \A p : Width(p)' = Width(p) /\ PieceOf(p)' = PieceOf(p)
<1>1. /\ mode' = mode /\ blocks' = blocks /\ events' = events /\ parts' = parts
      /\ fillers' = fillers /\ left' = left /\ clock' = clock /\ buffvec' = buffvec
  BY DEF SameInput, inputVars, storeVars
<1>2. Lead' = Lead  BY <1>1 DEF Lead
<1>3. \A i : /\ Block(i)' = Block(i) /\ First(i)' = First(i) /\ Mask(i)' = Mask(i)
             /\ Time(i)' = Time(i) /\ Length(i)' = Length(i) /\ Behind(i)' = Behind(i)
             /\ \A c : Place(i, c)' = Place(i, c)
  BY <1>1 DEF Block, First, Mask, Time, Length, Behind, Place
<1>4. \A i : Damaged(i)' = Damaged(i)  BY <1>1, <1>2 DEF Damaged
<1>5. \A p : Width(p)' = Width(p) /\ PieceOf(p)' = PieceOf(p)
  BY <1>1, <1>2 DEF Width, PieceOf
<1>6. \A b, j : Astray(b, j)' = Astray(b, j)  BY <1>1, <1>4 DEF Astray
<1>7. \A i : Spoilt(i)' = Spoilt(i)  BY <1>1, <1>3, <1>4 DEF Spoilt, Astray
<1>8. QED  BY <1>1, <1>2, <1>3, <1>4, <1>5, <1>6, <1>7

LEMMA SameSound ==
  ASSUME SameInput
  PROVE  \A piece : Right(piece) => Right(piece)'
<1> SUFFICES ASSUME NEW piece, Right(piece) PROVE Right(piece)'
  OBVIOUS
<1>1. \A i : Sound(piece, i) => Sound(piece, i)'
  <2> SUFFICES ASSUME NEW i, Sound(piece, i) PROVE Sound(piece, i)'
    OBVIOUS
  <2>1. Inside(piece, events[i])'  BY SameInputFacts DEF Sound, Inside
  <2>2. QED  BY <2>1, SameInputFacts DEF Sound
<1>2. CASE Wild(piece)
  <2>1. Wild(piece)'  BY <1>2, SameInputFacts DEF Wild
  <2>2. QED  BY <2>1 DEF Right
<1>3. CASE \E i \in DOMAIN events : Sound(piece, i)
  <2>1. \E i \in DOMAIN events' : Sound(piece, i)'  BY <1>1, <1>3, SameInputFacts
  <2>2. QED  BY <2>1 DEF Right
<1>4. QED  BY <1>2, <1>3 DEF Right

\* Once the parser has lost its place, it has done so to the end of the block.
LEMMA StaysGone ==
  ASSUME Layout, SameInput, Gone, x' = x, idx \in Nat, idx' \in Nat, idx <= idx'
  PROVE  Gone'
<1>1. PICK i \in DOMAIN events : Damaged(i) /\ Block(i) = x /\ First(i) < idx
  BY DEF Gone, Astray, Block, First
<1>2. First(i) \in Nat  BY TriggerRange
<1>3. Damaged(i)' /\ Block(i)' = x' /\ First(i)' < idx' /\ i \in DOMAIN events'
  BY <1>1, <1>2, SameInputFacts
<1>4. QED  BY <1>3 DEF Gone, Astray, Block, First

\* Then no trigger that is not spoilt is left.
LEMMA NoneLeft ==
  ASSUME Layout, Gone, idx \in Nat, NEW p \in parts, Block(p.event) = x, idx <= p.at
  PROVE  Spoilt(p.event)
<1>1. PICK i \in DOMAIN events : Damaged(i) /\ events[i].block = x /\ events[i].first < idx
  BY DEF Gone, Astray
<1>2. First(i) \in Nat  BY TriggerRange
<1>3. /\ p.event \in DOMAIN events /\ p.at \in Nat /\ p.at + Width(p) <= Behind(p.event)
      /\ Width(p) \in Nat
  BY PartRange
<1>4. Behind(p.event) \in Nat  BY <1>3, TriggerRange
<1>5. events[i].first < Behind(p.event)  BY <1>1, <1>2, <1>3, <1>4 DEF First
<1>6. QED  BY <1>1, <1>5 DEF Spoilt, Astray

\* What a step of the scan leaves as it was.
Keeps ==
  /\ SameInput /\ at # "store" /\ at' # "store" /\ ~Parsed /\ ~Parsed'
  /\ x' = x

\* The header that the scan has come to.
LEMMA AtHeader ==
  ASSUME Layout, Handed, at # "store", InBlock, Here(idx).is = "head"
  PROVE  \E i \in DOMAIN events :
           /\ Block(i) = x /\ First(i) = idx /\ idx + 4 <= Behind(i) /\ Behind(i) <= blocks[x]
           /\ Behind(i) \in Nat
           /\ Here(idx).n = Behind(i) - First(i)
           /\ Here(idx + 1).mask = Mask(i) /\ Here(idx + 3).n = Time(i)
<1>1. /\ x \in DOMAIN blocks /\ x \in Nat /\ idx \in Nat /\ blocks[x] \in Nat
      /\ idx < blocks[x] /\ \A j \in Nat : j < blocks[x] => buffvec[x][j + 1] = WordAt(x, j)
  BY HandedWords DEF InBlock
<1>2. WordAt(x, idx).is = "head"  BY <1>1 DEF Here
<1>3. PICK i \in DOMAIN events : Block(i) = x /\ First(i) = idx
  BY <1>1, <1>2, OnlyHeaders
<1>4. idx + 4 <= Behind(i) /\ Behind(i) <= blocks[x] /\ Behind(i) \in Nat
  BY <1>3, TriggerRange
<1>5. \A k \in 0..3 : Here(idx + k) = HeaderWord(events[i], k)
  <2> SUFFICES ASSUME NEW k \in 0..3 PROVE Here(idx + k) = HeaderWord(events[i], k)
    OBVIOUS
  <2>1. idx + k \in Nat /\ idx + k < blocks[x]  BY <1>1, <1>4
  <2>2. Here(idx + k) = WordAt(x, idx + k)  BY <1>1, <2>1 DEF Here
  <2>3. QED  BY <1>3, <2>2, HeaderWords
<1>6. Here(idx) = HeaderWord(events[i], 0)
  <2>1. idx + 0 = idx /\ 0 \in 0..3  BY <1>1
  <2>2. Here(idx + 0) = HeaderWord(events[i], 0)  BY <1>5, <2>1
  <2>3. QED  BY <2>1, <2>2
<1>7. Here(idx + 1) = HeaderWord(events[i], 1) /\ Here(idx + 3) = HeaderWord(events[i], 3)
  BY <1>5
<1>8. /\ Here(idx).n = Behind(i) - First(i)
      /\ Here(idx + 1).mask = Mask(i) /\ Here(idx + 3).n = Time(i)
  BY <1>6, <1>7, HeaderSays DEF Behind, First, Mask, Time
<1>9. QED  BY <1>3, <1>4, <1>8

\* A step without a piece is right if it passes no part that should have one.
LEMMA OutKept ==
  ASSUME Layout, Keeps, out' = out, idx \in Nat, idx' \in Nat, idx <= idx',
         OutSound, OutRead, OutOrdered, OutComplete,
         \A p \in parts :
           ~(/\ mode # "blocks" /\ p.good /\ ~Spoilt(p.event)
             /\ Block(p.event) = x /\ idx <= p.at /\ p.at < idx')
  PROVE  OutSound' /\ OutRead' /\ OutOrdered' /\ OutComplete'
<1>1. SameInput /\ at # "store" /\ ~Parsed /\ ~Parsed' /\ x' = x  BY DEF Keeps
<1>2. OutSound'
  <2>1. out' \in Seq(PieceType)  BY DEF OutSound, PieceType
  <2>2. ASSUME NEW b \in DOMAIN out' PROVE Right(out[b])'
    <3>1. PICK q : q = out[b]  OBVIOUS
    <3>2. Right(q)  BY <3>1 DEF OutSound
    <3>3. Right(q)'  BY <1>1, <3>2, SameSound
    <3>4. QED  BY <3>1, <3>3 DEF Right, Wild, Sound, Inside
  <2>3. QED  BY <2>1, <2>2 DEF OutSound, PieceType
<1>3. OutRead'
  <2> SUFFICES ASSUME NEW b \in DOMAIN out
               PROVE  \/ out[b].block < x
                      \/ /\ out[b].block = x
                         /\ out[b].first + out[b].n <= idx' /\ (mode # "newfw" => out[b].n > 0)
    BY <1>1, SameInputFacts DEF OutRead
  <2>1. out[b] \in PieceType  BY DEF OutSound
  <2>2. out[b].first + out[b].n \in Nat  BY <2>1 DEF PieceType
  <2>3. QED  BY <1>1, <2>2 DEF OutRead
<1>4. OutOrdered'  BY <1>1, SameInputFacts DEF OutOrdered
<1>5. OutComplete'
  <2> SUFFICES ASSUME mode # "blocks", NEW p \in parts, p.good, ~Spoilt(p.event),
                      Passed(Block(p.event), p.at)'
               PROVE  \E b \in DOMAIN out : out[b] = PieceOf(p)
    BY <1>1, SameInputFacts DEF OutComplete, Passed, Parsed
  <2>1. p.at \in Nat  BY PartRange
  <2>2. Passed(Block(p.event), p.at)
    BY <1>1, <2>1, SameInputFacts DEF Passed
  <2>3. QED  BY <2>2 DEF OutComplete
<1>6. QED  BY <1>2, <1>3, <1>4, <1>5

\* A step with a piece is right if that is the piece of the part it passes.
LEMMA OutAppended ==
  ASSUME Layout, Keeps, idx \in Nat, idx' \in Nat, x \in Nat,
         OutSound, OutRead, OutOrdered, OutComplete,
         NEW piece \in PieceType, out' = Append(out, piece),
         Right(piece),
         piece.block = x, idx <= piece.first, piece.first + piece.n = idx',
         IF mode = "newfw" THEN idx < piece.first ELSE piece.n > 0,
         \A p \in parts :
           (mode # "blocks" /\ p.good /\ ~Spoilt(p.event)
              /\ Block(p.event) = x /\ idx <= p.at /\ p.at < idx')
           => piece = PieceOf(p)
  PROVE  OutSound' /\ OutRead' /\ OutOrdered' /\ OutComplete'
<1>1. SameInput /\ at # "store" /\ ~Parsed /\ ~Parsed' /\ x' = x  BY DEF Keeps
<1>2. PICK n : n = Len(out)  OBVIOUS
<1>3. /\ n \in Nat /\ out \in Seq(PieceType) /\ out' \in Seq(PieceType)
      /\ DOMAIN out = 1..n /\ DOMAIN out' = 1..(n + 1)
      /\ \A b \in 1..n : out'[b] = out[b]
      /\ out'[n + 1] = piece
  <2>1. out \in Seq(PieceType)  BY DEF OutSound
  <2>2. n \in Nat /\ DOMAIN out = 1..n  BY <1>2, <2>1
  <2>3. out' \in Seq(PieceType) /\ Len(out') = n + 1  BY <1>2, <2>1
  <2>4. \A b \in 1..(n + 1) : out'[b] = IF b <= n THEN out[b] ELSE piece
    BY <1>2, <2>1, <2>2
  <2>5. n + 1 \in 1..(n + 1) /\ ~(n + 1 <= n) /\ \A b \in 1..n : b \in 1..(n + 1) /\ b <= n
    BY <2>2
  <2>6. QED  BY <2>1, <2>2, <2>3, <2>4, <2>5
<1>4. /\ piece.first \in Nat /\ piece.n \in Nat
      /\ \A b \in 1..n : out[b].block \in Nat /\ out[b].first \in Nat /\ out[b].n \in Nat
  <2>1. \A b \in 1..n : out[b] \in PieceType  BY <1>3
  <2>2. QED  BY <2>1 DEF PieceType
<1>5. OutSound'
  <2>1. \A b \in 1..(n + 1) : b \in 1..n \/ b = n + 1  BY <1>3
  <2>2. \A b \in DOMAIN out' : Right(out'[b])
    BY <1>3, <2>1 DEF OutSound
  <2>3. ASSUME NEW b \in DOMAIN out' PROVE Right(out[b])'
    <3>1. PICK q : q = out'[b]  OBVIOUS
    <3>2. Right(q)  BY <2>2, <3>1
    <3>3. Right(q)'  BY <1>1, <3>2, SameSound
    <3>4. QED  BY <3>1, <3>3 DEF Right, Wild, Sound, Inside
  <2>4. QED  BY <1>3, <2>3 DEF OutSound, PieceType
<1>6. OutRead'
  <2> SUFFICES ASSUME NEW b \in 1..(n + 1)
               PROVE  \/ out'[b].block < x
                      \/ /\ out'[b].block = x
                         /\ out'[b].first + out'[b].n <= idx' /\ (mode # "newfw" => out'[b].n > 0)
    BY <1>1, <1>3, SameInputFacts DEF OutRead
  <2>1. CASE b = n + 1  BY <1>3, <1>4, <2>1
  <2>2. CASE b \in 1..n
    <3>1. idx <= idx'  BY <1>4
    <3>2. QED  BY SMTT(30), <1>1, <1>3, <1>4, <2>2, <3>1 DEF OutRead
  <2>3. QED  BY <1>3, <2>1, <2>2
<1>7. OutOrdered'
  <2> SUFFICES ASSUME mode # "blocks", NEW b \in 1..(n + 1), NEW d \in 1..(n + 1), b < d
               PROVE  \/ out'[b].block < out'[d].block
                      \/ out'[b].block = out'[d].block /\ out'[b].first < out'[d].first
    BY <1>1, <1>3, SameInputFacts DEF OutOrdered
  <2>1. CASE d \in 1..n
    <3>1. b \in 1..n  BY <1>3, <2>1
    <3>2. QED  BY <1>3, <2>1, <3>1 DEF OutOrdered
  <2>2. CASE d = n + 1
    <3>1. b \in 1..n /\ out'[d] = piece /\ out'[b] = out[b]  BY <1>3, <2>2
    <3>2. \/ out[b].block < x
          \/ /\ out[b].block = x
             /\ out[b].first + out[b].n <= idx /\ (mode # "newfw" => out[b].n > 0)
      BY <1>1, <1>3, <3>1 DEF OutRead
    <3>3. out[b].block = x => out[b].first < piece.first
      <4> SUFFICES ASSUME out[b].block = x PROVE out[b].first < piece.first
        OBVIOUS
      <4>1. out[b].block \in Nat /\ out[b].first \in Nat /\ out[b].n \in Nat  BY <1>4, <3>1
      <4>2. out[b].first + out[b].n <= idx /\ (mode # "newfw" => out[b].n > 0)
        BY <3>2, <4>1
      <4>3. CASE mode = "newfw"
        <5>1. idx < piece.first  BY <4>3
        <5>2. QED  BY <1>4, <4>1, <4>2, <5>1
      <4>4. CASE mode # "newfw"
        <5>1. out[b].n > 0  BY <4>2, <4>4
        <5>2. QED  BY <1>4, <4>1, <4>2, <5>1
      <4>5. QED  BY <4>3, <4>4
    <3>4. QED  BY <3>1, <3>2, <3>3
  <2>3. QED  BY <1>3, <2>1, <2>2
<1>8. OutComplete'
  <2> SUFFICES ASSUME mode # "blocks", NEW p \in parts, p.good, ~Spoilt(p.event),
                      Passed(Block(p.event), p.at)'
               PROVE  \E b \in 1..(n + 1) : out'[b] = PieceOf(p)
    BY <1>1, <1>3, SameInputFacts DEF OutComplete, Passed, Parsed
  <2>1. p.at \in Nat  BY PartRange
  <2>2. CASE Passed(Block(p.event), p.at)
    <3>1. PICK b \in 1..n : out[b] = PieceOf(p)  BY <1>3, <2>2 DEF OutComplete
    <3>2. b \in 1..(n + 1) /\ out'[b] = out[b]  BY <1>3
    <3>3. QED  BY <3>1, <3>2
  <2>3. CASE ~Passed(Block(p.event), p.at)
    <3>1. Block(p.event) = x /\ idx <= p.at /\ p.at < idx'
      BY <1>1, <2>1, <2>3, SameInputFacts DEF Passed
    <3>2. piece = PieceOf(p)  BY <3>1
    <3>3. n + 1 \in 1..(n + 1)  BY <1>3
    <3>4. QED  BY <1>3, <3>2, <3>3
  <2>4. QED  BY <2>2, <2>3
<1>9. QED  BY <1>5, <1>6, <1>7, <1>8

\* The sets that WordAt looks at, by name.
Of(b)       == {i \in DOMAIN events : events[i].block = b}
Heads(b, j) == {i \in Of(b) : j \in events[i].first .. events[i].first + 3}
Leads(b, j) == {p \in parts : p.event \in Of(b) /\ j \in p.at .. p.at + Lead - 1}
Sizes(b, j) == {s \in Of(b) \X Channels : mode = "zle" /\ s[2] \in events[s[1]].mask
                                            /\ j = events[s[1]].places[s[2]]}
Any(S)      == CHOOSE s \in S : TRUE

NamedWord(b, j) ==
  IF Heads(b, j) # {}
  THEN HeaderWord(events[Any(Heads(b, j))], j - events[Any(Heads(b, j))].first)
  ELSE IF Leads(b, j) # {} THEN ControlWord(Any(Leads(b, j)), j - Any(Leads(b, j)).at)
  ELSE IF Sizes(b, j) # {}
       THEN Word("plain", events[Any(Sizes(b, j))[1]].places[Any(Sizes(b, j))[2] + 1] - j)
  ELSE IF <<b, j>> \in fillers THEN Word("filler", 0)
  ELSE Word("plain", Unknown)

LEMMA NamedWords ==
  \A b, j : WordAt(b, j) = NamedWord(b, j) /\ WordAt(b, j)' = NamedWord(b, j)'
<1> TAKE b, j
<1>1. WordAt(b, j) = NamedWord(b, j)
  BY DEF WordAt, NamedWord, Of, Heads, Leads, Sizes, Any
<1>2. WordAt(b, j)' = NamedWord(b, j)'
  BY DEF WordAt, NamedWord, Of, Heads, Leads, Sizes, Any
<1>3. QED  BY <1>1, <1>2

\* The words depend on nothing but what the digitizer stored.
LEMMA SameWords ==
  ASSUME mode' = mode, events' = events, parts' = parts, fillers' = fillers
  PROVE  \A b, j : WordAt(b, j)' = WordAt(b, j)
<1>1. Lead' = Lead  BY DEF Lead
<1>2. \A e, k : HeaderWord(e, k)' = HeaderWord(e, k)  BY DEF HeaderWord
<1>3. \A p, k : ControlWord(p, k)' = ControlWord(p, k)  BY DEF ControlWord
<1>4. \A b : Of(b)' = Of(b)  BY DEF Of
<1>5. \A b, j : Heads(b, j)' = Heads(b, j)  BY <1>4 DEF Heads
<1>6. \A b, j : Leads(b, j)' = Leads(b, j)  BY <1>1, <1>4 DEF Leads
<1>7. \A b, j : Sizes(b, j)' = Sizes(b, j)  BY <1>4 DEF Sizes
<1>8. \A b, j : NamedWord(b, j)' = NamedWord(b, j)
  BY <1>2, <1>3, <1>5, <1>6, <1>7 DEF NamedWord
<1>9. QED  BY <1>8, NamedWords

LEMMA SameHanded ==
  ASSUME Handed, at # "store", SameInput,
         x' \in DOMAIN blocks, idx' \in 0..blocks[x'] \/ (idx' \in Nat /\ Gone'),
         todo' \subseteq Channels,
         header' \in Nat, size' \in Nat, word' \in Nat, sample' \in Nat,
         at' # "store", Parsed' => x' = Len(blocks)
  PROVE  Handed'
<1>1. \A b, j : WordAt(b, j)' = WordAt(b, j)
  BY SameInputFacts, SameWords
<1>2. buffvec = [b \in DOMAIN blocks |-> [j \in 1..blocks[b] |-> WordAt(b, j - 1)]] /\ left = {}
  BY DEF Handed
<1>3. buffvec' = [b \in DOMAIN blocks |-> [j \in 1..blocks[b] |-> WordAt(b, j - 1)']]
  BY <1>1, <1>2, SameInputFacts
<1>4. QED  BY <1>2, <1>3, SameInputFacts DEF Handed

\* As long as nothing has been read, there is nothing to be told about it.
Unread == x = 1 /\ idx = 0 /\ out = <<>> /\ at \in {"store", "scan"}

LEMMA NothingRead == Layout /\ Unread => Scanned
<1> SUFFICES ASSUME Layout, Unread PROVE Scanned
  OBVIOUS
<1> USE DEF Unread
<1>1. Outside
  <2> SUFFICES ASSUME NEW i \in DOMAIN events PROVE ~(First(i) < 0)
    BY DEF Outside
  <2>1. First(i) \in Nat  BY TriggerRange
  <2>2. QED  BY <2>1
<1>2. Reading  BY DEF Reading
<1>3. OutSound /\ OutRead /\ OutOrdered
  BY DEF OutSound, OutRead, OutOrdered
<1>4. OutComplete
  <2> SUFFICES ASSUME NEW p \in parts PROVE ~Passed(Block(p.event), p.at)
    BY DEF OutComplete
  <2>1. p.at \in Nat /\ p.event \in DOMAIN events  BY PartRange
  <2>2. Block(p.event) \in DOMAIN blocks /\ Block(p.event) \in Nat  BY <2>1, TriggerRange
  <2>3. Block(p.event) >= 1  BY <2>2, EndType DEF Layout
  <2>4. QED  BY <2>1, <2>2, <2>3 DEF Passed, Parsed
<1>5. QED  BY <1>1, <1>2, <1>3, <1>4 DEF Scanned

LEMMA InitScanned == Init => Fresh /\ Handed /\ Scanned
<1> SUFFICES ASSUME Init PROVE Fresh /\ Handed /\ Scanned
  OBVIOUS
<1>1. Fresh /\ Handed  BY DEF Init, Fresh, Handed
<1>2. Layout  BY InitLayout
<1>3. Scanned  BY <1>2, NothingRead DEF Init, Unread
<1>4. QED  BY <1>1, <1>3

LEMMA StoreScanned == Layout /\ Fresh /\ Store => (Layout' => Fresh' /\ Handed' /\ Scanned')
<1> SUFFICES ASSUME Layout, Fresh, Store, Layout' PROVE Fresh' /\ Handed' /\ Scanned'
  OBVIOUS
<1>1. at = "store" /\ UNCHANGED <<x, idx, todo, header, size, word, sample, out, indices>>
  BY DEF Store, StoreTrigger, StoreChannel, StoreSize, StoreSegment, StoreGap, NextBlock, HandOver,
         Extend, scanVars
<1>2. /\ x' = 1 /\ idx' = 0 /\ out' = <<>> /\ indices' = <<>>
      /\ todo' = {} /\ header' = 0 /\ size' = 0 /\ word' = 0 /\ sample' = 0
  BY <1>1 DEF Fresh
<1>3. CASE HandOver
  <2>1. /\ UNCHANGED <<mode, storeVars>> /\ left = {} /\ at' = "scan"
        /\ buffvec' = [b \in DOMAIN blocks |-> [j \in 1..blocks[b] |-> WordAt(b, j - 1)]]
    BY <1>3 DEF HandOver
  <2>2. \A b, j : WordAt(b, j)' = WordAt(b, j)
    BY <2>1, SameWords DEF storeVars
  <2>3. buffvec' = [b \in DOMAIN blocks' |-> [j \in 1..blocks'[b] |-> WordAt(b, j - 1)']]
    BY <2>1, <2>2 DEF storeVars
  <2>4. 1 \in DOMAIN blocks' /\ 0 \in 0..blocks'[1]
    <3>1. blocks' = blocks  BY <2>1 DEF storeVars
    <3>2. blocks \in Seq(Nat) /\ blocks # <<>>  BY DEF Layout, StoreType
    <3>3. QED  BY <3>1, <3>2
  <2>5. Handed'  BY <1>2, <2>1, <2>3, <2>4 DEF Handed, Parsed, storeVars
  <2>6. Fresh'  BY <2>1 DEF Fresh
  <2>7. Unread'  BY <1>2, <2>1 DEF Unread
  <2>8. Scanned'  BY <2>7, NothingRead, PTL
  <2>9. QED  BY <2>5, <2>6, <2>8
<1>4. CASE ~HandOver
  <2>1. at' = "store" /\ buffvec' = buffvec
    <3>1. CASE \E mask \in SUBSET Channels, n \in IF mode = "plain" THEN Lengths ELSE {0} :
                 StoreTrigger(mask, n)
      BY <1>1, <3>1 DEF StoreTrigger, scanVars
    <3>2. CASE \E n \in Lengths : StoreChannel(n)
      BY <1>1, <3>2 DEF StoreChannel, scanVars
    <3>3. CASE \E s \in Segments, last \in BOOLEAN : StoreSegment(s, last)
      BY <1>1, <3>3 DEF StoreSegment, scanVars
    <3>4. CASE StoreSize \/ NextBlock \/ \E g \in Gaps : StoreGap(g)
      BY <1>1, <3>4 DEF StoreSize, NextBlock, StoreGap, scanVars
    <3>5. QED  BY <1>4, <3>1, <3>2, <3>3, <3>4 DEF Store
  <2>2. Fresh'  BY <1>1, <1>2, <2>1 DEF Fresh
  <2>3. Handed'  BY <2>1 DEF Handed
  <2>4. Unread'  BY <1>2, <2>1 DEF Unread
  <2>5. Scanned'  BY <2>4, NothingRead, PTL
  <2>6. QED  BY <2>2, <2>3, <2>5
<1>5. QED  BY <1>3, <1>4

-----------------------------------------------------------------------------
(* The scan.                                                               *)

\* A part whose first word is among those of a trigger is of that trigger.
LEMMA PartInside ==
  ASSUME Layout, NEW p \in parts, p.good, NEW i \in DOMAIN events, Block(p.event) = Block(i),
         First(i) <= p.at, p.at < Behind(i)
  PROVE  /\ p.event = i /\ First(i) + 4 <= p.at
         /\ \A c \in 0..7 : Place(i, c) <= p.at /\ p.at < Place(i, c + 1) => p.channel = c
<1>1. p.at \in Int /\ p.at <= p.at /\ p.at < p.at + Width(p) /\ First(p.event) + 4 <= p.at
  BY PartRange
<1>2. QED  BY <1>1, OnePart

\* Where the scan is, no part that should have a piece begins.
LEMMA NoPartHere ==
  ASSUME Layout, Outside, at = "scan", mode # "blocks",
         NEW p \in parts, p.good, ~Spoilt(p.event), Block(p.event) = x, idx = p.at
  PROVE  FALSE
<1>1. /\ p.event \in DOMAIN events /\ p.channel \in Mask(p.event) /\ p.at \in Nat
      /\ First(p.event) + 4 <= p.at /\ p.at + Width(p) <= Behind(p.event)
      /\ 0 < Width(p) /\ Width(p) \in Nat
  BY PartRange
<1>2. First(p.event) \in Nat /\ Behind(p.event) \in Nat  BY <1>1, TriggerRange
<1>3. First(p.event) < idx /\ idx < Behind(p.event)  BY <1>1, <1>2
<1>4. ~Gone
  <2>1. idx \in Nat /\ idx <= p.at  BY <1>1
  <2>2. QED  BY <2>1, NoneLeft
<1>5. Mask(p.event) = {}  BY <1>1, <1>3, <1>4 DEF Outside
<1>6. QED  BY <1>1, <1>5

LEMMA BlockEndsScanned ==
  ASSUME Layout, Handed, Scanned, BlockEnds PROVE Handed' /\ Scanned'
<1> USE DEF Scanned
<1>1. /\ SameInput /\ at = "scan" /\ idx' = 0 /\ UNCHANGED <<todo, header, size, word, sample, out>>
      /\ InBlock => mode = "blocks"
      /\ \/ x < Len(buffvec) /\ x' = x + 1 /\ at' = "scan"
         \/ ~(x < Len(buffvec)) /\ x' = x /\ at' = "write"
  BY DEF BlockEnds, SameInput
<1>2. /\ x \in DOMAIN blocks /\ x \in Nat /\ x <= Len(blocks) /\ Len(blocks) \in Nat
      /\ Len(buffvec) = Len(blocks) /\ Len(buffvec[x]) = blocks[x] /\ idx \in Nat
      /\ blocks[x] \in Nat
      /\ DOMAIN blocks = 1..Len(blocks)
  <2>1. at # "store"  BY <1>1
  <2>2. QED  BY <2>1, HandedWords, EndType DEF Layout
<1>3. x' \in DOMAIN blocks /\ x' \in Nat /\ x <= x' /\ blocks[x'] \in Nat
  <2>1. x' \in DOMAIN blocks /\ x' \in Nat /\ x <= x'  BY <1>1, <1>2
  <2>2. QED  BY <2>1, EndType DEF Layout
<1>4. Handed'
  <2>1. Parsed' => x' = Len(blocks)  BY <1>1, <1>2 DEF Parsed
  <2>2. idx' \in 0..blocks[x']  BY <1>1, <1>3
  <2>3. /\ todo' \subseteq Channels /\ header' \in Nat /\ size' \in Nat /\ word' \in Nat
        /\ sample' \in Nat
    BY <1>1 DEF Handed
  <2>4. at # "store" /\ at' # "store"  BY <1>1
  <2>5. QED  BY <1>1, <1>3, <2>1, <2>2, <2>3, <2>4, SameHanded
<1>5. Outside'
  <2> SUFFICES ASSUME NEW i \in DOMAIN events PROVE ~(First(i) < 0)
    BY <1>1, SameInputFacts DEF Outside
  <2>1. First(i) \in Nat  BY TriggerRange
  <2>2. QED  BY <2>1
<1>6. Reading'  BY <1>1 DEF Reading
<1>7. OutSound'
  <2>1. ASSUME NEW b \in DOMAIN out' PROVE Right(out[b])'
    <3>1. PICK q : q = out[b]  OBVIOUS
    <3>2. Right(q)  BY <1>1, <3>1 DEF OutSound
    <3>3. Right(q)'  BY <1>1, <3>2, SameSound
    <3>4. QED  BY <1>1, <3>1, <3>3 DEF Right, Wild, Sound, Inside
  <2>2. QED  BY <1>1, <2>1 DEF OutSound, PieceType
<1>8. OutRead'
  <2> SUFFICES ASSUME NEW b \in DOMAIN out PROVE out[b].block < x' \/ (out[b].block = x' /\ Parsed')
    BY <1>1, SameInputFacts DEF OutRead
  <2>1. out[b].block \in Nat
    <3>1. out[b] \in PieceType  BY DEF OutSound
    <3>2. QED  BY <3>1 DEF PieceType
  <2>2. out[b].block <= x  BY <1>2, <2>1 DEF OutRead
  <2>3. QED  BY <1>1, <1>2, <2>1, <2>2 DEF Parsed
<1>9. OutOrdered'  BY <1>1, SameInputFacts DEF OutOrdered
<1>10. OutComplete'
  <2> SUFFICES ASSUME mode # "blocks", NEW p \in parts, p.good, ~Spoilt(p.event),
                      Passed(Block(p.event), p.at)'
               PROVE  \E b \in DOMAIN out : out[b] = PieceOf(p)
    BY <1>1, SameInputFacts DEF OutComplete, Passed, Parsed
  <2>1. /\ p.at \in Nat /\ p.event \in DOMAIN events /\ p.at + Width(p) <= Behind(p.event)
        /\ 0 < Width(p) /\ Width(p) \in Nat
    BY PartRange
  <2>2. /\ Block(p.event) \in Nat /\ Behind(p.event) <= blocks[Block(p.event)]
        /\ Behind(p.event) \in Nat
    BY <2>1, TriggerRange
  <2>3. Block(p.event) < x \/ Block(p.event) = x
    <3>1. Passed(Block(p.event), p.at)' <=> (Block(p.event) < x' \/ (Block(p.event) = x' /\ (p.at < idx' \/ Parsed')))
      BY <1>1, SameInputFacts DEF Passed
    <3>2. CASE x' = x + 1
      <4>1. at' = "scan"  BY <1>1, <1>2, <3>2
      <4>2. ~Parsed'  BY <4>1 DEF Parsed
      <4>3. QED  BY <1>1, <1>2, <2>1, <2>2, <3>1, <3>2, <4>2
    <3>3. CASE x' = x  BY <3>1, <3>3
    <3>4. QED  BY <1>1, <3>2, <3>3
  <2>4. Passed(Block(p.event), p.at)
    <3>1. CASE Block(p.event) < x  BY <3>1 DEF Passed
    <3>2. CASE Block(p.event) = x
      <4>1. ~(idx < blocks[x])  BY <1>1, <1>2 DEF InBlock
      <4>2. p.at < idx  BY <1>2, <2>1, <2>2, <3>2, <4>1
      <4>3. QED  BY <3>2, <4>2 DEF Passed
    <3>3. QED  BY <2>3, <3>1, <3>2
  <2>5. QED  BY <2>4 DEF OutComplete
<1>11. QED  BY <1>4, <1>5, <1>6, <1>7, <1>8, <1>9, <1>10

LEMMA SkipWordScanned ==
  ASSUME Layout, Handed, Scanned, SkipWord PROVE Handed' /\ Scanned'
<1> USE DEF Scanned
<1>1. /\ SameInput /\ at = "scan" /\ at' = "scan" /\ idx' = idx + 1 /\ x' = x
      /\ UNCHANGED <<todo, header, size, word, sample>> /\ out' = out /\ InBlock
      /\ Here(idx).is = "head" => mode = "plain" /\ Here(idx + 1).mask = {}
      /\ at # "store" /\ at' # "store" /\ ~Parsed /\ ~Parsed'
  BY DEF SkipWord, SameInput, Parsed
<1>2. /\ x \in DOMAIN blocks /\ x \in Nat /\ idx \in Nat /\ idx < blocks[x] /\ blocks[x] \in Nat
      /\ \A j \in Nat : j < blocks[x] => buffvec[x][j + 1] = WordAt(x, j)
  BY <1>1, HandedWords DEF InBlock
<1>3. Handed'
  <2>1. idx' \in 0..blocks[x']  BY <1>1, <1>2
  <2>2. /\ todo' \subseteq Channels /\ header' \in Nat /\ size' \in Nat /\ word' \in Nat
        /\ sample' \in Nat
    BY <1>1 DEF Handed
  <2>3. QED  BY <1>1, <1>2, <2>1, <2>2, SameHanded
<1>4. Outside'
  <2> SUFFICES ASSUME NEW i \in DOMAIN events, Block(i) = x, First(i) < idx + 1, idx + 1 < Behind(i)
               PROVE  mode = "blocks" \/ Gone' \/ (mode = "plain" /\ Mask(i) = {})
    BY <1>1, SameInputFacts DEF Outside
  <2>1. First(i) \in Nat /\ Behind(i) \in Nat  BY TriggerRange
  <2>2. CASE First(i) < idx
    <3>1. idx < Behind(i)  BY <1>2, <2>1
    <3>2. mode = "blocks" \/ Gone \/ (mode = "plain" /\ Mask(i) = {})
      BY <1>1, <2>2, <3>1 DEF Outside
    <3>3. Gone => Gone'
      <4>1. idx' \in Nat /\ idx <= idx'  BY <1>1, <1>2
      <4>2. QED  BY <1>1, <1>2, <4>1, StaysGone
    <3>4. QED  BY <3>2, <3>3
  <2>3. CASE First(i) = idx
    <3>1. 0 \in 0..3 /\ 1 \in 0..3 /\ idx + 0 = idx  BY <1>2
    <3>2. WordAt(x, idx) = HeaderWord(events[i], 0) /\ WordAt(x, idx + 1) = HeaderWord(events[i], 1)
      BY <2>3, <3>1, HeaderWords
    <3>3. Here(idx) = WordAt(x, idx) /\ Here(idx + 1) = WordAt(x, idx + 1)
      <4>1. Behind(i) <= blocks[x]  BY TriggerRange
      <4>2. idx + 1 < blocks[x] /\ idx + 1 \in Nat  BY <1>2, <2>1, <4>1
      <4>3. QED  BY <1>2, <4>2 DEF Here
    <3>4. HeaderWord(events[i], 0).is = "head" /\ HeaderWord(events[i], 1).mask = Mask(i)
      BY HeaderSays DEF Mask
    <3>5. QED  BY <1>1, <3>2, <3>3, <3>4
  <2>4. QED  BY <1>2, <2>1, <2>2, <2>3
<1>5. Reading'  BY <1>1 DEF Reading
<1>6. OutSound' /\ OutRead' /\ OutOrdered' /\ OutComplete'
  <2>1. Keeps  BY <1>1 DEF Keeps
  <2>2. idx \in Nat /\ idx' \in Nat /\ idx <= idx'  BY <1>1, <1>2
  <2>3. ASSUME NEW p \in parts, mode # "blocks", p.good, ~Spoilt(p.event),
               Block(p.event) = x, idx <= p.at, p.at < idx'
        PROVE  FALSE
    <3>1. p.at \in Nat  BY PartRange
    <3>2. idx = p.at  BY <1>1, <1>2, <2>3, <3>1
    <3>3. QED  BY <1>1, <2>3, <3>2, NoPartHere
  <2>4. QED  BY <1>1, <2>1, <2>2, <2>3, OutKept
<1>7. QED  BY <1>3, <1>4, <1>5, <1>6

LEMMA TriggerScanned ==
  ASSUME Layout, Handed, Scanned, Trigger PROVE Handed' /\ Scanned'
<1> USE DEF Scanned
<1> PICK n : n = 4 * (Here(idx).n \div 4)
  OBVIOUS
<1> PICK piece : piece = Piece(idx, n, 0, Here(idx + 3).n)
  OBVIOUS
<1>1. /\ SameInput /\ at = "scan" /\ at' = "scan" /\ idx' = idx + n /\ x' = x /\ mode = "blocks"
      /\ UNCHANGED <<todo, header, size, word, sample>> /\ out' = Append(out, piece) /\ InBlock
      /\ Here(idx).is = "head"
      /\ at # "store" /\ at' # "store" /\ ~Parsed /\ ~Parsed'
  BY DEF Trigger, SameInput, Parsed
<1>2. /\ x \in DOMAIN blocks /\ x \in Nat /\ idx \in Nat /\ blocks[x] \in Nat
  BY <1>1, HandedWords
<1>3. PICK i \in DOMAIN events :
        /\ Block(i) = x /\ First(i) = idx /\ idx + 4 <= Behind(i) /\ Behind(i) <= blocks[x]
        /\ Behind(i) \in Nat
        /\ Here(idx).n = Behind(i) - First(i)
        /\ Here(idx + 3).n = Time(i)
  BY <1>1, AtHeader
<1>4. n \in Nat /\ n > 0 /\ idx + n <= Behind(i)
  <2>1. PICK m : m = Behind(i) - First(i)  OBVIOUS
  <2>2. m \in Nat /\ 4 <= m /\ idx + m = Behind(i)  BY <1>2, <1>3, <2>1
  <2>3. 4 * (m \div 4) \in Nat /\ 4 * (m \div 4) > 0 /\ 4 * (m \div 4) <= m  BY <2>2
  <2>4. n = 4 * (m \div 4)  BY <1>3, <2>1
  <2>5. QED  BY <1>2, <1>3, <2>2, <2>3, <2>4
<1>5. Handed'
  <2>1. idx' \in 0..blocks[x']  BY <1>1, <1>2, <1>3, <1>4
  <2>2. /\ todo' \subseteq Channels /\ header' \in Nat /\ size' \in Nat /\ word' \in Nat
        /\ sample' \in Nat
    BY <1>1 DEF Handed
  <2>3. QED  BY <1>1, <1>2, <2>1, <2>2, SameHanded
<1>6. Outside'  BY <1>1, SameInputFacts DEF Outside
<1>7. Reading'  BY <1>1 DEF Reading
<1>8. OutSound' /\ OutRead' /\ OutOrdered' /\ OutComplete'
  <2>1. Keeps  BY <1>1 DEF Keeps
  <2>2. Time(i) \in Nat  BY TriggerType DEF Layout
  <2>3. piece \in PieceType /\ piece.block = x /\ piece.first = idx /\ piece.n = n
    BY <1>2, <1>3, <1>4, <2>2 DEF Piece, PieceType
  <2>4. Sound(piece, i)
    BY <1>1, <1>2, <1>3, <1>4, <2>3 DEF Sound, Inside, Block, First, Behind
  <2>5. idx <= piece.first /\ piece.first + piece.n = idx' /\ idx' \in Nat  BY <1>1, <1>2, <1>4, <2>3
  <2>6. IF mode = "newfw" THEN idx < piece.first ELSE piece.n > 0  BY <1>1, <1>4, <2>3
  <2>7. \A p \in parts :
          (mode # "blocks" /\ p.good /\ ~Spoilt(p.event)
             /\ Block(p.event) = x /\ idx <= p.at /\ p.at < idx')
          => piece = PieceOf(p)
    BY <1>1
  <2>8. Right(piece)  BY <2>4 DEF Right
  <2>9. QED  BY <1>1, <1>2, <2>1, <2>3, <2>5, <2>6, <2>7, <2>8, OutAppended
<1>9. QED  BY <1>5, <1>6, <1>7, <1>8

\* The first channel is behind the header.
LEMMA FirstChannel ==
  ASSUME Layout, NEW i \in DOMAIN events
  PROVE  IF Mask(i) = {} THEN Behind(i) = First(i) + 4
         ELSE Lowest(Mask(i)) \in Mask(i) /\ Place(i, Lowest(Mask(i))) = First(i) + 4
<1>1. Mask(i) \in SUBSET Channels /\ Place(i, 0) = First(i) + 4 /\ Behind(i) = Place(i, 8)
  BY TriggerType, TriggerRange DEF Layout
<1>2. CASE Mask(i) = {}
  <2>1. 0 \in 0..8 /\ 8 \in 0..8 /\ 0 <= 8  OBVIOUS
  <2>2. Place(i, 0) = Place(i, 8)  BY <1>2, <2>1 DEF Layout, Places
  <2>3. QED  BY <1>1, <1>2, <2>2
<1>3. CASE Mask(i) # {}
  <2>1. PICK c : c = Lowest(Mask(i))  OBVIOUS
  <2>2. c \in Mask(i) /\ \A d \in Mask(i) : c <= d  BY <1>1, <1>3, <2>1, ChannelSets
  <2>3. c \in 0..7  BY <1>1, <2>2, ChannelSets
  <2>4. 0 \in 0..8 /\ c \in 0..8 /\ 0 <= c  BY <2>3
  <2>5. Place(i, 0) = Place(i, c)  BY <2>2, <2>4 DEF Layout, Places
  <2>6. QED  BY <1>1, <1>3, <2>1, <2>2, <2>5
<1>4. QED  BY <1>2, <1>3

\* The length of the channels, from the length of the trigger.
LEMMA EvenSize ==
  ASSUME Layout, left = {}, mode = "plain", NEW i \in DOMAIN events, Mask(i) # {}
  PROVE  (Behind(i) - First(i) - 4) \div Cardinality(Mask(i)) = Length(i)
<1>1. /\ First(i) \in Nat /\ Behind(i) \in Nat /\ Length(i) \in Nat
      /\ Mask(i) \in SUBSET Channels
  BY TriggerType DEF Layout
<1>2. PICK n : n = Cardinality(Mask(i))  OBVIOUS
<1>3. n \in 1..8
  <2>1. n \in 0..8 /\ IsFiniteSet(Mask(i))  BY <1>1, <1>2, ChannelSets
  <2>2. n # 0  BY <1>2, <2>1, FS_EmptySet
  <2>3. QED  BY <2>1, <2>2
<1>4. Behind(i) = First(i) + 4 + Length(i) * n
  <2>1. Behind(i) = First(i) + 4
          + Length(i) * (n - IF i = Len(events) THEN Cardinality(left) ELSE 0)
    BY <1>2 DEF Layout, Even
  <2>2. Cardinality(left) = 0  BY FS_EmptySet
  <2>3. n - (IF i = Len(events) THEN Cardinality(left) ELSE 0) = n  BY <1>3, <2>2
  <2>4. QED  BY <2>1, <2>3
<1>5. PICK l : l = Length(i)  OBVIOUS
<1>6. Behind(i) - First(i) - 4 = l * n
  <2>1. l * n \in Int  BY <1>1, <1>3, <1>5
  <2>2. Behind(i) = First(i) + 4 + l * n  BY <1>4, <1>5
  <2>3. QED  BY <1>1, <2>1, <2>2
<1>7. (l * n) \div n = l
  <2>1. l \in Nat  BY <1>1, <1>5
  <2>2. CASE n = 1  BY <2>1, <2>2
  <2>3. CASE n = 2  BY <2>1, <2>3
  <2>4. CASE n = 3  BY <2>1, <2>4
  <2>5. CASE n = 4  BY <2>1, <2>5
  <2>6. CASE n = 5  BY <2>1, <2>6
  <2>7. CASE n = 6  BY <2>1, <2>7
  <2>8. CASE n = 7  BY <2>1, <2>8
  <2>9. CASE n = 8  BY <2>1, <2>9
  <2>10. QED  BY <1>3, <2>2, <2>3, <2>4, <2>5, <2>6, <2>7, <2>8, <2>9
<1>8. QED  BY <1>2, <1>5, <1>6, <1>7

LEMMA EventHeaderScanned ==
  ASSUME Layout, Handed, Scanned, EventHeader PROVE Handed' /\ Scanned'
<1> USE DEF Scanned
<1>1. /\ SameInput /\ at = "scan" /\ at' = "channel" /\ idx' = idx + 4 /\ x' = x /\ mode # "blocks"
      /\ UNCHANGED <<word, sample>> /\ out' = out /\ InBlock
      /\ Here(idx).is = "head" /\ (mode = "plain" => Here(idx + 1).mask # {})
      /\ todo' = Here(idx + 1).mask /\ header' = Here(idx + 3).n
      /\ size' = IF mode = "plain" THEN (Here(idx).n - 4) \div Cardinality(todo') ELSE size
      /\ at # "store" /\ at' # "store" /\ ~Parsed /\ ~Parsed'
  BY DEF EventHeader, SameInput, Parsed
<1>2. /\ x \in DOMAIN blocks /\ x \in Nat /\ idx \in Nat /\ blocks[x] \in Nat /\ left = {}
  BY <1>1, HandedWords
<1>3. PICK i \in DOMAIN events :
        /\ Block(i) = x /\ First(i) = idx /\ idx + 4 <= Behind(i) /\ Behind(i) <= blocks[x]
        /\ Behind(i) \in Nat
        /\ Here(idx).n = Behind(i) - First(i)
        /\ Here(idx + 1).mask = Mask(i) /\ Here(idx + 3).n = Time(i)
  BY <1>1, AtHeader
<1>4. /\ Mask(i) \in SUBSET Channels /\ Time(i) \in Nat /\ Length(i) \in Nat
  BY TriggerType DEF Layout
<1>5. mode = "plain" => Mask(i) # {} /\ size' = Length(i)
  BY <1>1, <1>2, <1>3, EvenSize
<1>6. Handed'
  <2>1. idx' \in 0..blocks[x']  BY <1>1, <1>2, <1>3
  <2>2. /\ todo' \subseteq Channels /\ header' \in Nat /\ size' \in Nat /\ word' \in Nat
        /\ sample' \in Nat
    BY <1>1, <1>3, <1>4, <1>5 DEF Handed
  <2>3. QED  BY <1>1, <1>2, <2>1, <2>2, SameHanded
<1>7. Outside'  BY <1>1 DEF Outside
<1>8. Reading'
  <2>1. todo' = Mask(i)  BY <1>1, <1>3
  <2>2. Loop(i)'
    BY <1>1, <1>3, <1>5, <2>1, SameInputFacts DEF Loop
  <2>3. OnTrack(i)'
    <3>1. IF Mask(i) = {} THEN Behind(i) = idx + 4 ELSE Place(i, Lowest(Mask(i))) = idx + 4
      BY <1>3, FirstChannel
    <3>2. QED  BY <1>1, <2>1, <3>1, SameInputFacts DEF OnTrack
  <2>4. i \in DOMAIN events'  BY <1>1, SameInputFacts
  <2>5. QED  BY <1>1, <2>2, <2>3, <2>4 DEF Reading
<1>9. OutSound' /\ OutRead' /\ OutOrdered' /\ OutComplete'
  <2>1. Keeps  BY <1>1 DEF Keeps
  <2>2. idx \in Nat /\ idx' \in Nat /\ idx <= idx'  BY <1>1, <1>2
  <2>3. ASSUME NEW p \in parts, mode # "blocks", p.good, ~Spoilt(p.event),
               Block(p.event) = x, idx <= p.at, p.at < idx'
        PROVE  FALSE
    <3>1. p.at \in Nat  BY PartRange
    <3>2. First(i) <= p.at /\ p.at < Behind(i)  BY <1>1, <1>2, <1>3, <2>3, <3>1
    <3>3. First(i) + 4 <= p.at  BY <1>3, <2>3, <3>2, PartInside
    <3>4. QED  BY <1>1, <1>2, <1>3, <2>3, <3>1, <3>3
  <2>4. QED  BY <1>1, <2>1, <2>2, <2>3, OutKept
<1>10. QED  BY <1>6, <1>7, <1>8, <1>9

LEMMA EventDoneScanned ==
  ASSUME Layout, Handed, Scanned, EventDone PROVE Handed' /\ Scanned'
<1> USE DEF Scanned
<1>1. /\ SameInput /\ at = "channel" /\ at' = "scan" /\ idx' = idx /\ x' = x /\ todo = {}
      /\ UNCHANGED <<todo, header, size, word, sample>> /\ out' = out
      /\ at # "store" /\ at' # "store" /\ ~Parsed /\ ~Parsed'
  BY DEF EventDone, SameInput, Parsed
<1>2. x \in DOMAIN blocks /\ x \in Nat /\ idx \in Nat /\ blocks[x] \in Nat
      /\ (idx <= blocks[x] \/ Gone)
  BY <1>1, HandedWords
<1>3. Gone => Gone'
  <2>1. idx' \in Nat /\ idx <= idx'  BY <1>1, <1>2
  <2>2. QED  BY <1>1, <1>2, <2>1, StaysGone
<1>4. Handed'
  <2>1. idx' \in 0..blocks[x'] \/ (idx' \in Nat /\ Gone')  BY <1>1, <1>2, <1>3
  <2>2. /\ todo' \subseteq Channels /\ header' \in Nat /\ size' \in Nat /\ word' \in Nat
        /\ sample' \in Nat
    BY <1>1 DEF Handed
  <2>3. QED  BY <1>1, <1>2, <2>1, <2>2, SameHanded
<1>5. Outside'
  <2> SUFFICES ASSUME NEW j \in DOMAIN events, Block(j) = x, First(j) < idx, idx < Behind(j), ~Gone
               PROVE  FALSE
    BY <1>1, <1>3, SameInputFacts DEF Outside
  <2>1. PICK i \in DOMAIN events : Block(i) = x /\ idx = Behind(i)
    BY <1>1 DEF Reading, Loop, OnTrack
  <2>2. /\ First(i) \in Nat /\ Behind(i) \in Nat /\ First(i) + 4 <= Behind(i) /\ i \in Nat
        /\ First(j) \in Nat /\ Behind(j) \in Nat /\ First(j) + 4 <= Behind(j) /\ j \in Nat
    BY TriggerRange, TriggerType DEF Layout
  <2>3. ~(i < j)
    <3> SUFFICES ASSUME i < j PROVE FALSE  OBVIOUS
    <3>0. Block(i) = x /\ Block(j) = x  BY <2>1
    <3>1. Behind(i) <= First(j)  BY <1>2, <2>2, <3>0, TriggerOrder
    <3>2. QED  BY <1>2, <2>1, <2>2, <3>1
  <2>4. ~(j < i)
    <3> SUFFICES ASSUME j < i PROVE FALSE  OBVIOUS
    <3>0. Block(i) = x /\ Block(j) = x  BY <2>1
    <3>1. Behind(j) <= First(i)  BY <1>2, <2>2, <3>0, TriggerOrder
    <3>2. QED  BY <1>2, <2>1, <2>2, <3>1
  <2>5. i = j  BY <2>2, <2>3, <2>4
  <2>6. QED  BY <1>2, <2>1, <2>2, <2>5
<1>6. Reading'  BY <1>1 DEF Reading
<1>7. OutSound' /\ OutRead' /\ OutOrdered' /\ OutComplete'
  <2>1. Keeps  BY <1>1 DEF Keeps
  <2>2. idx \in Nat /\ idx' \in Nat /\ idx <= idx'  BY <1>1, <1>2
  <2>3. ASSUME NEW p \in parts, idx <= p.at, p.at < idx' PROVE FALSE
    <3>1. p.at \in Nat  BY PartRange
    <3>2. QED  BY <1>1, <1>2, <2>3, <3>1
  <2>4. QED  BY <1>1, <2>1, <2>2, <2>3, OutKept
<1>8. QED  BY <1>4, <1>5, <1>6, <1>7

-----------------------------------------------------------------------------
(* The loop over the channels.                                             *)

\* The channel that the loop has come to.
LEMMA ThisChannel ==
  ASSUME Layout, NEW i \in DOMAIN events, todo \subseteq Mask(i), todo # {},
         NEW c, c = Lowest(todo)
  PROVE  /\ c \in todo /\ c \in Mask(i) /\ c \in Channels /\ c \in 0..7
         /\ c \in 0..8 /\ c + 1 \in 0..8 /\ \A d \in todo : c <= d
         /\ Place(i, c) \in Nat /\ Place(i, c + 1) \in Nat /\ Place(i, c) <= Place(i, c + 1)
         /\ First(i) + 4 <= Place(i, c) /\ Place(i, c + 1) <= Behind(i)
         /\ First(i) \in Nat /\ Behind(i) \in Nat
<1>1. todo \in SUBSET Channels  BY TriggerType DEF Layout
<1>2. c \in todo /\ \A d \in todo : c <= d  BY <1>1, ChannelSets
<1>3. c \in Mask(i) /\ c \in Channels /\ c \in 0..7  BY <1>1, <1>2, ChannelSets
<1>4. c \in 0..8 /\ c + 1 \in 0..8 /\ c <= c + 1  BY <1>3
<1>5. Place(i, c) <= Place(i, c + 1)  BY <1>4 DEF Layout, Places
<1>6. QED  BY <1>2, <1>3, <1>4, <1>5, TriggerRange

\* Behind it is the next one.
LEMMA NextChannel ==
  ASSUME Layout, NEW i \in DOMAIN events, todo \subseteq Mask(i), todo # {},
         \A a \in Mask(i) \ todo, d \in todo : a < d,
         NEW c, c = Lowest(todo), NEW rest, rest = todo \ {c}
  PROVE  /\ rest \subseteq Mask(i) /\ \A a \in Mask(i) \ rest, d \in rest : a < d
         /\ Place(i, c + 1) = IF rest = {} THEN Behind(i) ELSE Place(i, Lowest(rest))
<1>1. /\ c \in todo /\ c \in Mask(i) /\ c \in 0..7 /\ c + 1 \in 0..8 /\ \A d \in todo : c <= d
  BY ThisChannel
<1>2. Mask(i) \in SUBSET Channels /\ \A m \in Mask(i) : m \in 0..7
  BY TriggerType, ChannelSets DEF Layout
<1>3. rest \subseteq Mask(i)  OBVIOUS
<1>4. \A a \in Mask(i) \ rest, d \in rest : a < d
  <2> SUFFICES ASSUME NEW a \in Mask(i) \ rest, NEW d \in rest PROVE a < d
    OBVIOUS
  <2>1. d \in todo /\ d # c /\ d \in 0..7  BY <1>2
  <2>2. CASE a \notin todo  BY <2>1, <2>2
  <2>3. CASE a \in todo
    <3>1. a = c  BY <2>3
    <3>2. QED  BY <1>1, <2>1, <3>1
  <2>4. QED  BY <2>2, <2>3
<1>5. CASE rest = {}
  <2>1. \A m \in Mask(i) : m < c + 1
    <3> SUFFICES ASSUME NEW m \in Mask(i) PROVE m < c + 1
      OBVIOUS
    <3>1. m = c \/ m \notin todo  BY <1>5
    <3>2. m <= c  BY <1>1, <1>2, <3>1
    <3>3. QED  BY <1>1, <1>2, <3>2
  <2>2. 8 \in 0..8 /\ c + 1 <= 8  BY <1>1
  <2>3. Place(i, c + 1) = Place(i, 8)  BY <1>1, <2>1, <2>2 DEF Layout, Places
  <2>4. Behind(i) = Place(i, 8)  BY TriggerType DEF Layout
  <2>5. QED  BY <1>3, <1>4, <1>5, <2>3, <2>4
<1>6. CASE rest # {}
  <2>1. rest \in SUBSET Channels  BY <1>2
  <2>2. PICK d : d = Lowest(rest)  OBVIOUS
  <2>3. d \in rest /\ \A e \in rest : d <= e  BY <1>6, <2>1, <2>2, ChannelSets
  <2>4. d \in todo /\ d # c /\ d \in 0..7 /\ d \in 0..8  BY <1>2, <2>3
  <2>5. c + 1 <= d  BY <1>1, <2>4
  <2>6. \A m \in Mask(i) : m < c + 1 \/ d <= m
    <3> SUFFICES ASSUME NEW m \in Mask(i) PROVE m < c + 1 \/ d <= m
      OBVIOUS
    <3>1. CASE m \in rest  BY <2>3, <3>1
    <3>2. CASE m = c  BY <1>1, <3>2
    <3>3. CASE m \notin todo
      <4>1. m < c  BY <1>1, <3>3
      <4>2. QED  BY <1>1, <1>2, <4>1
    <3>4. QED  BY <3>1, <3>2, <3>3
  <2>7. Place(i, c + 1) = Place(i, d)  BY <1>1, <2>4, <2>5, <2>6 DEF Layout, Places
  <2>8. QED  BY <1>3, <1>4, <1>6, <2>2, <2>7
<1>7. QED  BY <1>5, <1>6

\* Without ZLE the channel is one part.
LEMMA ThisPart ==
  ASSUME Layout, left = {}, mode # "zle", NEW i \in DOMAIN events, NEW c \in Mask(i)
  PROVE  \E p \in parts :
           /\ p.event = i /\ p.channel = c /\ p.at = Place(i, c)
           /\ p.at + Width(p) = Place(i, c + 1)
           /\ p.at \in Nat /\ p.n \in Nat /\ Width(p) = Lead + p.n
           /\ p.time = Time(i) + (IF mode = "plain" THEN 0 ELSE c)
           /\ mode = "plain" => p.n = Length(i) /\ (p.good <=> p.n > 0)
           /\ mode # "plain" => p.good
           /\ \/ p.says = Lead + p.n
              \/ mode = "newfw" /\ p.says \in WrongSizes
<1>1. ~Open(i, c)  BY DEF Open
<1>2. PICK p \in parts : p.event = i /\ p.channel = c
  BY <1>1 DEF Layout, Stored
<1>3. PartFits(p) /\ p.at \in Nat /\ p.n \in Nat /\ p.good \in BOOLEAN
  BY PartType DEF Layout, PartsFit
<1>4. Width(p) = Lead + p.n
  <2>1. CASE p.good  BY <2>1 DEF Width
  <2>2. CASE ~p.good
    <3>1. mode = "plain" /\ p.n = 0
      <4>1. mode = "plain" /\ ~(p.n > 0)  BY <1>3, <2>2 DEF PartFits
      <4>2. QED  BY <1>3, <4>1
    <3>2. Width(p) = Lead + 0  BY <2>2 DEF Width
    <3>3. QED  BY <3>1, <3>2
  <2>3. QED  BY <2>1, <2>2
<1>5. QED  BY <1>2, <1>3, <1>4 DEF PartFits

-----------------------------------------------------------------------------
(* SplitChannelsNewFW.                                                     *)

\* What the parser reads of a channel that is where it looks for it.
LEMMA NewFWChannel ==
  ASSUME Layout, Handed, at # "store", mode = "newfw", NEW i \in DOMAIN events, Loop(i), OnTrack(i),
         todo # {}, NEW c, c = Lowest(todo)
  PROVE  \E p \in parts :
           /\ p.event = i /\ p.channel = c /\ p.at = idx /\ p.n \in Nat /\ p.good
           /\ idx \in Nat /\ idx + 2 + p.n = Place(i, c + 1) /\ idx + 2 + p.n <= blocks[x]
           /\ Reads(idx) = {p.says} /\ Reads(idx + 1) = {p.time}
           /\ PieceOf(p) = [block |-> x, first |-> idx + 2, n |-> p.n, channel |-> c, time |-> p.time]
           /\ p.says = 2 + p.n \/ Gone
<1>1. Block(i) = x /\ todo \subseteq Mask(i) /\ idx = Place(i, c)
  BY DEF Loop, OnTrack
<1>2. /\ x \in Nat /\ idx \in Nat /\ left = {} /\ blocks[x] \in Nat /\ Len(buffvec[x]) = blocks[x]
      /\ \A j \in Nat : j < blocks[x] => buffvec[x][j + 1] = WordAt(x, j)
  BY HandedWords
<1>3. /\ c \in Mask(i) /\ Place(i, c + 1) \in Nat /\ Place(i, c + 1) <= Behind(i) /\ Behind(i) \in Nat
      /\ Behind(i) <= blocks[x] /\ First(i) \in Nat /\ First(i) + 4 <= Place(i, c)
  BY <1>1, ThisChannel, TriggerRange
<1>4. Lead = 2  BY LeadType
<1>5. PICK p \in parts :
        /\ p.event = i /\ p.channel = c /\ p.at = Place(i, c)
        /\ p.at + Width(p) = Place(i, c + 1)
        /\ p.n \in Nat /\ Width(p) = Lead + p.n /\ p.good
        /\ p.says = Lead + p.n \/ p.says \in WrongSizes
  BY <1>2, <1>3, ThisPart
<1>6. idx + 2 + p.n = Place(i, c + 1) /\ idx + 2 + p.n <= blocks[x]
  BY <1>1, <1>2, <1>3, <1>4, <1>5
<1>7. Reads(idx) = {p.says} /\ Reads(idx + 1) = {p.time}
  <2>1. idx < blocks[x] /\ idx + 1 < blocks[x] /\ idx + 1 \in Nat  BY <1>2, <1>5, <1>6
  <2>2. Here(idx) = WordAt(x, idx) /\ Here(idx + 1) = WordAt(x, idx + 1)
    BY <1>2, <2>1 DEF Here
  <2>3. WordAt(Block(p.event), p.at + 0) = ControlWord(p, 0)
        /\ WordAt(Block(p.event), p.at + 1) = ControlWord(p, 1)
    BY <1>4, ControlWords
  <2>4. p.at + 0 = idx /\ p.at + 1 = idx + 1  BY <1>1, <1>2, <1>5
  <2>5. Here(idx) = ControlWord(p, 0) /\ Here(idx + 1) = ControlWord(p, 1)
    BY <1>1, <1>5, <2>2, <2>3, <2>4
  <2>6. Here(idx).n = p.says /\ Here(idx + 1).n = p.time  BY <2>5, ControlSays
  <2>7. Here(idx).is # "head" /\ Here(idx + 1).is # "head"  BY <2>5 DEF ControlWord, Word
  <2>8. p.says # Unknown /\ p.time # Unknown
    <3>1. p.says \in Nat /\ p.time \in Nat  BY PartType DEF Layout
    <3>2. QED  BY <3>1 DEF Unknown
  <2>9. QED  BY <1>2, <2>1, <2>6, <2>7, <2>8 DEF Reads
<1>8. PieceOf(p) = [block |-> x, first |-> idx + 2, n |-> p.n, channel |-> c, time |-> p.time]
  BY <1>1, <1>4, <1>5 DEF PieceOf, Block
<1>9. p.says = 2 + p.n \/ Gone
  <2> SUFFICES ASSUME p.says # 2 + p.n PROVE Gone  OBVIOUS
  <2>1. Damaged(i)  BY <1>4, <1>5 DEF Damaged
  <2>2. First(i) < idx  BY <1>1, <1>2, <1>3
  <2>3. QED  BY <1>1, <2>1, <2>2 DEF Gone, Astray, Block, First
<1>10. QED  BY <1>1, <1>2, <1>4, <1>5, <1>6, <1>7, <1>8, <1>9

\* Behind a wrong size, a parser goes on in any way.
LEMMA GoneScanned ==
  ASSUME Layout, Handed, Scanned, Gone, mode = "newfw", SameInput, at = "channel", at' = at, x' = x,
         idx \in Nat, idx' \in Nat, idx <= idx', todo' \subseteq todo,
         UNCHANGED <<header, size, word, sample>>
  PROVE  /\ Handed' /\ Outside' /\ Reading' /\ Keeps
         /\ \A p \in parts : Block(p.event) = x /\ idx <= p.at => Spoilt(p.event)
<1>1. Gone'  BY StaysGone
<1>2. at # "store" /\ at' # "store" /\ ~Parsed /\ ~Parsed'  BY DEF Parsed
<1>3. Handed'
  <2>1. x' \in DOMAIN blocks  BY <1>2, HandedWords
  <2>2. idx' \in 0..blocks[x'] \/ (idx' \in Nat /\ Gone')  BY <1>1
  <2>3. /\ todo' \subseteq Channels /\ header' \in Nat /\ size' \in Nat /\ word' \in Nat
        /\ sample' \in Nat
    BY <1>2 DEF Handed
  <2>4. QED  BY <1>2, <2>1, <2>2, <2>3, SameHanded
<1>4. Outside' /\ Reading' /\ Keeps  BY <1>1, <1>2 DEF Outside, Reading, Keeps
<1>5. QED  BY <1>3, <1>4, NoneLeft

LEMMA KeepChannelScanned ==
  ASSUME Layout, Handed, Scanned, KeepChannel PROVE Handed' /\ Scanned'
<1> USE DEF Scanned
<1>0. at = "channel" /\ at # "store" /\ mode = "newfw"  BY DEF KeepChannel
<1> PICK c : c = Lowest(todo)
  OBVIOUS
<1> PICK n \in Reads(idx), t \in Reads(idx + 1) :
      n >= 2 /\ Fits(n) /\ out' = Append(out, Piece(idx + 2, n - 2, c, t)) /\ idx' = idx + n
  BY DEF KeepChannel
<1> PICK piece : piece = Piece(idx + 2, n - 2, c, t)
  OBVIOUS
<1>1. /\ SameInput /\ at = "channel" /\ at' = at /\ idx' = idx + n /\ x' = x /\ mode = "newfw"
      /\ todo # {} /\ todo' = todo \ {c}
      /\ UNCHANGED <<header, size, word, sample>> /\ out' = Append(out, piece)
      /\ at # "store" /\ at' # "store" /\ ~Parsed /\ ~Parsed'
  BY DEF KeepChannel, SameInput, Parsed
<1>2. /\ x \in DOMAIN blocks /\ x \in Nat /\ idx \in Nat /\ blocks[x] \in Nat
      /\ Len(buffvec[x]) = blocks[x]
  BY <1>1, HandedWords
<1>3. /\ n \in Nat /\ t \in Nat /\ 2 <= n /\ n - 2 \in Nat /\ idx + n < 4 * blocks[x]
      /\ idx' \in Nat /\ idx <= idx' /\ c \in 0..7
  <2>1. idx + 1 \in Nat  BY <1>2
  <2>2. n \in Nat /\ t \in Nat  BY <1>1, <1>2, <2>1, ReadsNumbers
  <2>3. todo \in SUBSET Channels  BY <1>1 DEF Handed
  <2>4. c \in 0..7  BY <1>1, <2>3, ChannelSets
  <2>5. idx + n < 4 * blocks[x]  BY <1>2 DEF Fits
  <2>6. QED  BY <1>1, <1>2, <2>2, <2>4, <2>5
<1>4. /\ piece = [block |-> x, first |-> idx + 2, n |-> n - 2, channel |-> c, time |-> t]
      /\ piece \in PieceType /\ piece.block = x /\ piece.first = idx + 2 /\ piece.n = n - 2
  <2>1. piece = [block |-> x, first |-> idx + 2, n |-> n - 2, channel |-> c, time |-> t]
    BY DEF Piece
  <2>2. idx + 2 \in Nat  BY <1>2
  <2>3. QED  BY <1>2, <1>3, <2>1, <2>2 DEF PieceType
<1>5. /\ idx <= piece.first /\ piece.first + piece.n = idx'
      /\ IF mode = "newfw" THEN idx < piece.first ELSE piece.n > 0
  <2>1. (idx + 2) + (n - 2) = idx + n /\ idx < idx + 2 /\ idx <= idx + 2  BY <1>2, <1>3
  <2>2. QED  BY <1>1, <1>4, <2>1
<1>6. CASE Gone
  <2>1. /\ Handed' /\ Outside' /\ Reading' /\ Keeps
        /\ \A p \in parts : Block(p.event) = x /\ idx <= p.at => Spoilt(p.event)
    <3>1. todo' \subseteq todo  BY <1>1
    <3>2. QED  BY <1>1, <1>2, <1>3, <1>6, <3>1, GoneScanned
  <2>2. Right(piece)
    <3>1. Astray(x, idx + 2)
      <4>1. PICK i \in DOMAIN events : Damaged(i) /\ events[i].block = x /\ events[i].first < idx
        BY <1>6 DEF Gone, Astray
      <4>2. First(i) \in Nat  BY TriggerRange
      <4>3. events[i].first < idx + 2  BY <1>2, <4>1, <4>2 DEF First
      <4>4. QED  BY <4>1, <4>3 DEF Astray
    <3>2. piece.first + piece.n < 4 * blocks[x]  BY <1>1, <1>3, <1>5
    <3>3. QED  BY <1>2, <1>4, <3>1, <3>2 DEF Right, Wild
  <2>3. OutSound' /\ OutRead' /\ OutOrdered' /\ OutComplete'
    BY <1>1, <1>2, <1>3, <1>4, <1>5, <2>1, <2>2, OutAppended
  <2>4. QED  BY <2>1, <2>3
<1>7. CASE ~Gone
  <2>1. PICK i \in DOMAIN events : Loop(i) /\ OnTrack(i)
    BY <1>1, <1>7 DEF Reading
  <2>2. PICK p \in parts :
          /\ p.event = i /\ p.channel = c /\ p.at = idx /\ p.n \in Nat /\ p.good
          /\ idx + 2 + p.n = Place(i, c + 1) /\ idx + 2 + p.n <= blocks[x]
          /\ Reads(idx) = {p.says} /\ Reads(idx + 1) = {p.time}
          /\ PieceOf(p) = [block |-> x, first |-> idx + 2, n |-> p.n, channel |-> c, time |-> p.time]
          /\ p.says = 2 + p.n
    BY SMTT(30), <1>1, <1>7, <2>1, NewFWChannel
  <2>3. n = 2 + p.n /\ t = p.time  BY <2>2
  <2>4. /\ Block(i) = x /\ todo \subseteq Mask(i) /\ \A a \in Mask(i) \ todo, d \in todo : a < d
    BY <2>1 DEF Loop
  <2>5. /\ c \in 0..7 /\ c \in Mask(i) /\ First(i) \in Nat /\ Behind(i) \in Nat
        /\ First(i) + 4 <= idx /\ Place(i, c + 1) <= Behind(i)
        /\ Place(i, c) = idx /\ Place(i, c + 1) \in Nat
    BY <1>1, <2>1, <2>4, ThisChannel DEF OnTrack
  <2>6. idx' = Place(i, c + 1) /\ idx' <= blocks[x]
    <3>1. idx + n = idx + 2 + p.n  BY <1>2, <2>2, <2>3
    <3>2. QED  BY <1>1, <2>2, <3>1
  <2>7. Handed'
    <3>1. idx' \in 0..blocks[x']  BY <1>1, <1>2, <1>3, <2>6
    <3>2. /\ todo' \subseteq Channels /\ header' \in Nat /\ size' \in Nat /\ word' \in Nat
          /\ sample' \in Nat
      BY <1>1 DEF Handed
    <3>3. QED  BY <1>1, <1>2, <3>1, <3>2, SameHanded
  <2>8. Outside'  BY <1>1 DEF Outside
  <2>9. Reading'
    <3>1. PICK rest : rest = todo \ {c}  OBVIOUS
    <3>2. /\ rest \subseteq Mask(i) /\ \A a \in Mask(i) \ rest, d \in rest : a < d
          /\ Place(i, c + 1) = IF rest = {} THEN Behind(i) ELSE Place(i, Lowest(rest))
      BY <1>1, <2>4, <3>1, NextChannel
    <3>3. Loop(i)'  BY <1>1, <2>1, <2>4, <3>1, <3>2, SameInputFacts DEF Loop
    <3>4. OnTrack(i)'  BY <1>1, <2>6, <3>1, <3>2, SameInputFacts DEF OnTrack
    <3>5. i \in DOMAIN events'  BY <1>1, SameInputFacts
    <3>6. QED  BY <1>1, <3>3, <3>4, <3>5 DEF Reading
  <2>10. piece = PieceOf(p)
    <3>1. n - 2 = p.n  BY <2>2, <2>3
    <3>2. QED  BY <1>4, <2>2, <2>3, <3>1
  <2>11. Right(piece)
    <3>1. First(i) <= idx + 2 /\ (idx + 2) + (n - 2) <= Behind(i) /\ First(i) < idx + 2
      BY SMTT(30), <1>2, <1>3, <2>5, <2>6, <1>1
    <3>2. Inside(piece, events[i])
      BY <1>4, <2>4, <3>1 DEF Inside, Block, First, Behind
    <3>3. Sound(piece, i)  BY <2>2, <2>10, <3>2 DEF Sound
    <3>4. QED  BY <3>3 DEF Right
  <2>12. ASSUME NEW q \in parts, q.good, Block(q.event) = x, idx <= q.at, q.at < idx'
         PROVE  piece = PieceOf(q)
    <3>1. q.at \in Nat  BY PartRange
    <3>2. q.at < Place(i, c + 1) /\ q.at < Behind(i) /\ First(i) <= q.at
      BY <1>2, <2>5, <2>6, <2>12, <3>1
    <3>3. q.event = i /\ q.channel = c
      BY <2>4, <2>5, <2>12, <3>2, PartInside
    <3>4. q.at = Place(i, c)
      BY <1>1, <3>3 DEF Layout, PartsFit, PartFits
    <3>5. q = p  BY <2>2, <2>5, <3>3, <3>4 DEF Layout, PartsFit
    <3>6. QED  BY <2>10, <3>5
  <2>13. OutSound' /\ OutRead' /\ OutOrdered' /\ OutComplete'
    <3>1. Keeps  BY <1>1 DEF Keeps
    <3>2. QED  BY <1>1, <1>2, <1>3, <1>4, <1>5, <2>11, <2>12, <3>1, OutAppended
  <2>14. QED  BY <2>7, <2>8, <2>9, <2>13
<1>8. QED  BY <1>6, <1>7

LEMMA DropChannelScanned ==
  ASSUME Layout, Handed, Scanned, DropChannel PROVE Handed' /\ Scanned'
<1> USE DEF Scanned
<1>1. /\ SameInput /\ at = "channel" /\ at' = at /\ idx' = idx + 2 /\ x' = x /\ mode = "newfw"
      /\ todo # {} /\ todo' \subseteq todo
      /\ UNCHANGED <<header, size, word, sample>> /\ out' = out
      /\ at # "store" /\ at' # "store" /\ ~Parsed /\ ~Parsed'
  BY DEF DropChannel, SameInput, Parsed
<1>2. /\ idx \in Nat /\ idx' \in Nat /\ idx <= idx' /\ blocks[x] \in Nat /\ x \in Nat
      /\ Len(buffvec[x]) = blocks[x]
  <2>1. idx \in Nat /\ blocks[x] \in Nat /\ x \in Nat /\ Len(buffvec[x]) = blocks[x]
    BY <1>1, HandedWords
  <2>2. QED  BY <1>1, <2>1
\* A size that is right fits.
<1>3. Gone
  <2> SUFFICES ASSUME ~Gone PROVE FALSE
    OBVIOUS
  <2>1. PICK i \in DOMAIN events : Loop(i) /\ OnTrack(i)
    BY <1>1 DEF Reading
  <2>2. PICK p \in parts :
          p.n \in Nat /\ idx + 2 + p.n <= blocks[x] /\ Reads(idx) = {p.says} /\ p.says = 2 + p.n
    BY <1>1, <2>1, NewFWChannel
  <2>3. ~Fits(2 + p.n)  BY <2>2 DEF DropChannel
  <2>4. PICK k : k = p.n  OBVIOUS
  <2>5. k \in Nat /\ idx + 2 + k <= blocks[x] /\ ~(idx + (2 + k) < 4 * blocks[x])
    BY <1>2, <2>2, <2>3, <2>4 DEF Fits
  <2>6. QED  BY <1>2, <2>5
<1>4. /\ Handed' /\ Outside' /\ Reading' /\ Keeps
      /\ \A p \in parts : Block(p.event) = x /\ idx <= p.at => Spoilt(p.event)
  BY <1>1, <1>2, <1>3, GoneScanned
<1>5. OutSound' /\ OutRead' /\ OutOrdered' /\ OutComplete'
  BY <1>1, <1>2, <1>4, OutKept
<1>6. QED  BY <1>4, <1>5

LEMMA AbortScanned ==
  ASSUME Layout, Handed, Scanned, Abort PROVE Handed' /\ Scanned'
<1> USE DEF Scanned
<1>1. /\ SameInput /\ at = "channel" /\ at' = "aborted" /\ idx' = idx /\ x' = x
      /\ UNCHANGED <<todo, header, size, word, sample>> /\ out' = out
      /\ at # "store" /\ at' # "store" /\ ~Parsed /\ ~Parsed'
  BY DEF Abort, SameInput, Parsed
<1>2. x \in DOMAIN blocks /\ idx \in Nat /\ blocks[x] \in Nat /\ (idx <= blocks[x] \/ Gone)
  BY <1>1, HandedWords
<1>3. Handed'
  <2>1. Gone => Gone'
    <3>1. idx' \in Nat /\ idx <= idx'  BY <1>1, <1>2
    <3>2. QED  BY <1>1, <1>2, <3>1, StaysGone
  <2>2. idx' \in 0..blocks[x'] \/ (idx' \in Nat /\ Gone')  BY <1>1, <1>2, <2>1
  <2>3. /\ todo' \subseteq Channels /\ header' \in Nat /\ size' \in Nat /\ word' \in Nat
        /\ sample' \in Nat
    BY <1>1 DEF Handed
  <2>4. QED  BY <1>1, <1>2, <2>2, <2>3, SameHanded
<1>4. Outside' /\ Reading'  BY <1>1 DEF Outside, Reading
<1>5. OutSound' /\ OutRead' /\ OutOrdered' /\ OutComplete'
  <2>1. Keeps  BY <1>1 DEF Keeps
  <2>2. idx' \in Nat /\ idx <= idx'  BY <1>1, <1>2
  <2>3. ASSUME NEW p \in parts, idx <= p.at, p.at < idx' PROVE FALSE
    <3>1. p.at \in Nat  BY PartRange
    <3>2. QED  BY <1>1, <1>2, <2>3, <3>1
  <2>4. QED  BY <1>1, <1>2, <2>1, <2>2, <2>3, OutKept
<1>6. QED  BY <1>3, <1>4, <1>5

-----------------------------------------------------------------------------
(* SplitChannels.                                                          *)

LEMMA BeginChannelScanned ==
  ASSUME Layout, Handed, Scanned, BeginChannel PROVE Handed' /\ Scanned'
<1> USE DEF Scanned
<1> PICK c : c = Lowest(todo)
  OBVIOUS
<1>1. /\ SameInput /\ at = "channel" /\ at' = "words" /\ x' = x /\ mode \in {"zle", "plain"}
      /\ todo # {} /\ UNCHANGED <<todo, header>> /\ out' = out /\ sample' = 0
      /\ IF mode = "zle" THEN size' = Here(idx).n /\ idx' = idx + 1 /\ word' = 1
         ELSE word' = 0 /\ size' = size /\ idx' = idx
      /\ at # "store" /\ at' # "store" /\ ~Parsed /\ ~Parsed'
  BY DEF BeginChannel, SameInput, Parsed
<1>2. /\ x \in DOMAIN blocks /\ x \in Nat /\ idx \in Nat /\ blocks[x] \in Nat /\ idx <= blocks[x]
      /\ left = {}
      /\ \A j \in Nat : j < blocks[x] => buffvec[x][j + 1] = WordAt(x, j)
  BY <1>1, HandedWords
<1>3. PICK i \in DOMAIN events : Loop(i) /\ OnTrack(i)
  BY <1>1 DEF Reading, Gone, Astray, Damaged
<1>4. Block(i) = x /\ todo \subseteq Mask(i) /\ idx = Place(i, c)
  BY <1>1, <1>3 DEF Loop, OnTrack
<1>5. /\ c \in Mask(i) /\ c \in todo /\ First(i) \in Nat /\ Behind(i) \in Nat /\ Behind(i) <= blocks[x]
      /\ Place(i, c + 1) <= Behind(i) /\ Place(i, c + 1) \in Nat /\ First(i) + 4 <= Place(i, c)
  BY <1>1, <1>4, ThisChannel, TriggerRange
<1>6. mode = "zle" =>
        /\ size' = Place(i, c + 1) - Place(i, c) /\ size' \in Nat /\ idx < Place(i, c + 1)
        /\ Follows(i, c, idx + 1, Time(i))
  <2> SUFFICES ASSUME mode = "zle"
               PROVE  /\ size' = Place(i, c + 1) - Place(i, c) /\ size' \in Nat
                      /\ idx < Place(i, c + 1) /\ Follows(i, c, idx + 1, Time(i))
    OBVIOUS
  <2>1. /\ Place(i, c) < Place(i, c + 1)
        /\ WordAt(Block(i), Place(i, c)).n = Place(i, c + 1) - Place(i, c)
    BY <1>2, <1>5, SizeWord
  <2>2. idx < blocks[x]  BY <1>2, <1>4, <1>5, <2>1
  <2>3. Here(idx).n = Place(i, c + 1) - Place(i, c)
    BY <1>2, <1>4, <2>1, <2>2 DEF Here
  <2>4. Follows(i, c, idx + 1, Time(i))
    BY <1>4, <1>5, <2>1 DEF Layout, Chain
  <2>5. QED  BY <1>1, <1>2, <1>4, <1>5, <2>1, <2>3, <2>4
<1>7. idx' \in Nat /\ idx <= idx' /\ idx' <= blocks[x]
  <2>1. CASE mode = "zle"  BY <1>1, <1>2, <1>5, <1>6, <2>1
  <2>2. CASE mode # "zle"  BY <1>1, <1>2, <2>2
  <2>3. QED  BY <2>1, <2>2
<1>8. header \in Nat /\ size \in Nat /\ todo \subseteq Channels
  BY <1>1 DEF Handed
<1>9. Handed'
  <2>1. idx' \in 0..blocks[x']  BY <1>1, <1>2, <1>7
  <2>2. /\ todo' \subseteq Channels /\ header' \in Nat /\ size' \in Nat /\ word' \in Nat
        /\ sample' \in Nat
    BY <1>1, <1>6, <1>8
  <2>3. QED  BY <1>1, <1>2, <2>1, <2>2, SameHanded
<1>10. Outside'  BY <1>1 DEF Outside
<1>11. Reading'
  <2>1. Loop(i)'
    BY <1>1, <1>3, SameInputFacts DEF Loop
  <2>2. InChannel(i)'
    <3>1. CASE mode = "zle"
      <4>1. idx' = Place(i, c) + word' /\ word' > 0  BY <1>1, <1>4, <3>1
      <4>2. header' + sample' = Time(i)
        <5>1. header = Time(i)  BY <1>3, <3>1 DEF Loop
        <5>2. QED  BY <1>1, <1>8, <5>1
      <4>3. Follows(i, c, idx', header' + sample')  BY <1>1, <1>6, <3>1, <4>2
      <4>4. QED  BY <1>1, <1>6, <3>1, <4>1, <4>3, SameInputFacts DEF InChannel, Follows
    <3>2. CASE mode # "zle"
      <4>1. idx' = Place(i, c) + word' /\ word' = 0 /\ sample' = 0  BY <1>1, <1>2, <1>4, <3>2
      <4>2. QED  BY <1>1, <3>2, <4>1, SameInputFacts DEF InChannel
    <3>3. QED  BY <3>1, <3>2
  <2>3. i \in DOMAIN events'  BY <1>1, SameInputFacts
  <2>4. QED  BY <1>1, <2>1, <2>2, <2>3 DEF Reading
<1>12. OutSound' /\ OutRead' /\ OutOrdered' /\ OutComplete'
  <2>1. Keeps  BY <1>1 DEF Keeps
  <2>2. ASSUME NEW p \in parts, mode # "blocks", p.good, ~Spoilt(p.event),
               Block(p.event) = x, idx <= p.at, p.at < idx'
        PROVE  FALSE
    <3>1. p.at \in Nat  BY PartRange
    <3>2. mode = "zle" /\ p.at = idx  BY <1>1, <1>2, <2>2, <3>1
    <3>3. First(i) <= p.at /\ p.at < Behind(i) /\ Place(i, c) <= p.at /\ p.at < Place(i, c + 1)
          /\ c \in 0..7
      BY <1>1, <1>2, <1>4, <1>5, <1>6, <3>2, ThisChannel
    <3>4. p.event = i /\ p.channel = c  BY <1>4, <2>2, <3>3, PartInside
    <3>5. Place(i, c) < p.at  BY <3>2, <3>4, PartRange
    <3>6. QED  BY <1>2, <1>4, <3>2, <3>5
  <2>3. QED  BY <1>1, <1>2, <1>7, <2>1, <2>2, OutKept
<1>13. QED  BY <1>9, <1>10, <1>11, <1>12

\* With ZLE: the segment that the parser has come to.
LEMMA ThisSegment ==
  ASSUME Layout, Handed, at = "words", mode = "zle", word < size,
         NEW i \in DOMAIN events, Loop(i), InChannel(i), NEW c, c = Lowest(todo)
  PROVE  \E p \in parts :
           /\ p.event = i /\ p.channel = c /\ p.at = idx /\ p.time = header + sample
           /\ p.n \in Nat /\ p.n > 0 /\ p.time \in Nat /\ idx \in Nat
           /\ Here(idx).n = p.n /\ (Here(idx).is = "good" <=> p.good)
           /\ Width(p) = 1 + IF p.good THEN p.n ELSE 0
           /\ idx + Width(p) <= Place(i, c + 1)
           /\ Follows(i, c, idx + Width(p), p.time + 2 * p.n)
           /\ PieceOf(p) = [block |-> x, first |-> idx + 1, n |-> p.n, channel |-> c, time |-> header + sample]
<1>1. /\ Block(i) = x /\ todo \subseteq Mask(i) /\ todo # {} /\ idx = Place(i, c) + word
      /\ size = Place(i, c + 1) - Place(i, c) /\ word > 0 /\ Follows(i, c, idx, header + sample)
  BY DEF Loop, InChannel
<1>2. /\ x \in Nat /\ idx \in Nat /\ blocks[x] \in Nat /\ word \in Nat
      /\ \A j \in Nat : j < blocks[x] => buffvec[x][j + 1] = WordAt(x, j)
  BY HandedWords DEF Handed
<1>3. /\ Place(i, c) \in Nat /\ Place(i, c + 1) \in Nat /\ Place(i, c + 1) <= Behind(i)
      /\ Behind(i) \in Nat /\ Behind(i) <= blocks[x]
  BY <1>1, ThisChannel, TriggerRange
<1>4. idx < Place(i, c + 1)  BY <1>1, <1>2, <1>3
<1>5. PICK p \in parts : p.event = i /\ p.channel = c /\ p.at = idx /\ p.time = header + sample
  BY <1>1, <1>2, <1>3, <1>4 DEF Follows
<1>6. p.says = p.n /\ p.n > 0 /\ p.n \in Nat /\ p.time \in Nat /\ p.at + Width(p) <= Place(i, c + 1)
  BY <1>5, PartType DEF Layout, PartsFit, PartFits
<1>7. Lead = 1  BY LeadType
<1>8. Here(idx).n = p.n /\ (Here(idx).is = "good" <=> p.good)
  <2>1. idx < blocks[x]  BY <1>2, <1>3, <1>4
  <2>2. Here(idx) = WordAt(x, idx)  BY <1>2, <2>1 DEF Here
  <2>3. WordAt(Block(p.event), p.at + 0) = ControlWord(p, 0)  BY <1>7, ControlWords
  <2>4. p.at + 0 = idx  BY <1>2, <1>5
  <2>5. Here(idx) = ControlWord(p, 0)  BY <1>1, <1>5, <2>2, <2>3, <2>4
  <2>6. QED  BY <1>6, <2>5, ControlSays
<1>9. Follows(i, c, idx + Width(p), p.time + 2 * p.n)
  BY <1>5 DEF Layout, Chain
<1>10. PieceOf(p) = [block |-> x, first |-> idx + 1, n |-> p.n, channel |-> c, time |-> header + sample]
  BY <1>1, <1>5, <1>7 DEF PieceOf, Block
<1>11. Width(p) = 1 + IF p.good THEN p.n ELSE 0  BY <1>7 DEF Width
<1>12. QED  BY <1>2, <1>5, <1>6, <1>8, <1>9, <1>10, <1>11

\* No other part begins among the words of a segment.
LEMMA OneSegment ==
  ASSUME Layout, Apart, mode = "zle", NEW p \in parts, NEW q \in parts, q.good,
         Block(q.event) = Block(p.event), p.at <= q.at, q.at < p.at + Width(p)
  PROVE  q = p
<1>1. /\ p.event \in DOMAIN events /\ p.at \in Nat /\ Width(p) \in Nat /\ p.channel \in 0..8
      /\ p.channel + 1 \in 0..8
      /\ Place(p.event, p.channel) <= p.at /\ p.at + Width(p) <= Place(p.event, p.channel + 1)
      /\ First(p.event) + 4 <= p.at /\ p.at + Width(p) <= Behind(p.event)
      /\ q.at \in Nat /\ Width(q) \in Nat /\ 0 < Width(q)
  BY PartRange
<1>2. /\ First(p.event) \in Nat /\ Behind(p.event) \in Nat /\ p.channel \in 0..7
      /\ Place(p.event, p.channel) \in Nat /\ Place(p.event, p.channel + 1) \in Nat
  BY <1>1, TriggerRange
<1>3. /\ First(p.event) <= q.at /\ q.at < Behind(p.event)
      /\ Place(p.event, p.channel) <= q.at /\ q.at < Place(p.event, p.channel + 1)
  BY <1>1, <1>2
<1>4. q.event = p.event /\ q.channel = p.channel
  BY <1>1, <1>2, <1>3, PartInside
<1>5. p = q \/ p.at + Width(p) <= q.at \/ q.at + Width(q) <= p.at
  BY <1>4 DEF Apart
<1>6. QED  BY <1>1, <1>5

LEMMA SkipSamplesScanned ==
  ASSUME Layout, Apart, Handed, Scanned, SkipSamples PROVE Handed' /\ Scanned'
<1> USE DEF Scanned
<1> PICK c : c = Lowest(todo)
  OBVIOUS
<1>1. /\ SameInput /\ at = "words" /\ at' = at /\ x' = x /\ mode = "zle" /\ word < size
      /\ Here(idx).is # "good" /\ sample' = sample + 2 * Here(idx).n
      /\ idx' = idx + 1 /\ word' = word + 1
      /\ UNCHANGED <<todo, header, size>> /\ out' = out
      /\ at # "store" /\ at' # "store" /\ ~Parsed /\ ~Parsed'
  BY DEF SkipSamples, SameInput, Parsed
<1>2. /\ x \in DOMAIN blocks /\ x \in Nat /\ idx \in Nat /\ blocks[x] \in Nat
      /\ todo \subseteq Channels /\ {header, size, word, sample} \subseteq Nat
  BY <1>1, HandedWords DEF Handed
<1>3. PICK i \in DOMAIN events : Loop(i) /\ InChannel(i)
  BY <1>1 DEF Reading
<1>4. /\ Block(i) = x /\ todo \subseteq Mask(i) /\ todo # {} /\ idx = Place(i, c) + word
      /\ size = Place(i, c + 1) - Place(i, c)
  BY <1>1, <1>3 DEF Loop, InChannel
<1>5. /\ Place(i, c) \in Nat /\ Place(i, c + 1) \in Nat /\ Place(i, c + 1) <= Behind(i)
      /\ Behind(i) \in Nat /\ Behind(i) <= blocks[x]
  BY <1>4, ThisChannel, TriggerRange
<1>6. PICK p \in parts :
        /\ p.event = i /\ p.channel = c /\ p.at = idx /\ p.time = header + sample
        /\ p.n \in Nat /\ p.time \in Nat
        /\ Here(idx).n = p.n /\ ~p.good
        /\ Width(p) = 1 + IF p.good THEN p.n ELSE 0
        /\ idx + Width(p) <= Place(i, c + 1)
        /\ Follows(i, c, idx + Width(p), p.time + 2 * p.n)
  BY <1>1, <1>3, ThisSegment
<1>7. Width(p) = 1  BY <1>6
<1>8. idx' <= blocks[x] /\ idx' \in Nat  BY <1>1, <1>2, <1>5, <1>6, <1>7
<1>9. sample' \in Nat /\ header' + sample' = p.time + 2 * p.n
  BY <1>1, <1>2, <1>6
<1>10. Handed'
  <2>1. idx' \in 0..blocks[x']  BY <1>1, <1>2, <1>8
  <2>2. /\ todo' \subseteq Channels /\ header' \in Nat /\ size' \in Nat /\ word' \in Nat
    BY <1>1, <1>2
  <2>3. QED  BY <1>1, <1>2, <1>9, <2>1, <2>2, SameHanded
<1>11. Outside'  BY <1>1 DEF Outside
<1>12. Reading'
  <2>1. Loop(i)'
    BY <1>1, <1>3, SameInputFacts DEF Loop
  <2>2. InChannel(i)'
    <3>1. idx' = Place(i, c) + word' /\ word' > 0  BY <1>1, <1>2, <1>4, <1>5
    <3>2. Follows(i, c, idx', header' + sample')  BY <1>1, <1>6, <1>7, <1>9
    <3>3. QED  BY <1>1, <1>4, <3>1, <3>2, SameInputFacts DEF InChannel, Follows
  <2>3. i \in DOMAIN events'  BY <1>1, SameInputFacts
  <2>4. QED  BY <1>1, <2>1, <2>2, <2>3 DEF Reading
<1>13. OutSound' /\ OutRead' /\ OutOrdered' /\ OutComplete'
  <2>1. Keeps  BY <1>1 DEF Keeps
  <2>2. idx <= idx'  BY <1>1, <1>2
  <2>3. ASSUME NEW q \in parts, mode # "blocks", q.good, ~Spoilt(q.event),
               Block(q.event) = x, idx <= q.at, q.at < idx'
        PROVE  FALSE
    <3>1. q = p  BY <1>1, <1>4, <1>6, <1>7, <2>3, OneSegment
    <3>2. QED  BY <1>6, <2>3, <3>1
  <2>4. QED  BY <1>1, <1>2, <1>8, <2>1, <2>2, <2>3, OutKept
<1>14. QED  BY <1>10, <1>11, <1>12, <1>13

LEMMA KeepWordsScanned ==
  ASSUME Layout, Apart, Handed, Scanned, KeepWords PROVE Handed' /\ Scanned'
<1> USE DEF Scanned
<1> PICK c, control, n :
      /\ c = Lowest(todo) /\ control = IF mode = "zle" THEN 1 ELSE 0
      /\ n = IF mode = "zle" THEN Here(idx).n ELSE size
  OBVIOUS
<1> PICK piece : piece = Piece(idx + control, n, c, header + sample)
  OBVIOUS
<1>1. /\ SameInput /\ at = "words" /\ at' = at /\ x' = x /\ word < size
      /\ mode = "zle" => Here(idx).is = "good"
      /\ sample' = sample + 2 * n /\ idx' = idx + control + n /\ word' = word + control + n
      /\ UNCHANGED <<todo, header, size>> /\ out' = Append(out, piece)
      /\ at # "store" /\ at' # "store" /\ ~Parsed /\ ~Parsed'
  BY DEF KeepWords, SameInput, Parsed
<1>2. /\ x \in DOMAIN blocks /\ x \in Nat /\ idx \in Nat /\ blocks[x] \in Nat /\ left = {}
      /\ todo \subseteq Channels /\ {header, size, word, sample} \subseteq Nat
  BY <1>1, HandedWords DEF Handed
<1>3. PICK i \in DOMAIN events : Loop(i) /\ InChannel(i)
  BY <1>1 DEF Reading
<1>4. /\ Block(i) = x /\ todo \subseteq Mask(i) /\ todo # {} /\ idx = Place(i, c) + word
      /\ mode = "zle" => size = Place(i, c + 1) - Place(i, c)
      /\ mode # "zle" => /\ mode = "plain" /\ size = Length(i) /\ header = Time(i)
                         /\ (word = 0 \/ word = size) /\ (word = 0 => sample = 0)
  BY <1>1, <1>3 DEF Loop, InChannel
<1>5. /\ Place(i, c) \in Nat /\ Place(i, c + 1) \in Nat /\ Place(i, c + 1) <= Behind(i)
      /\ First(i) + 4 <= Place(i, c) /\ First(i) \in Nat
      /\ Behind(i) \in Nat /\ Behind(i) <= blocks[x] /\ c \in 0..7 /\ c \in Mask(i)
  BY <1>4, ThisChannel, TriggerRange
\* The words are those of one part.
<1>6. PICK p \in parts :
        /\ p.event = i /\ p.channel = c /\ p.at = idx /\ p.good
        /\ n \in Nat /\ n > 0 /\ n = p.n
        /\ idx + control + n <= Place(i, c + 1) /\ idx' = idx + Width(p)
        /\ piece = PieceOf(p)
        /\ mode = "zle" => p.time = header + sample /\ Follows(i, c, idx + Width(p), p.time + 2 * p.n)
        /\ mode # "zle" => word = 0
  <2>1. CASE mode = "zle"
    <3>1. PICK p \in parts :
            /\ p.event = i /\ p.channel = c /\ p.at = idx /\ p.time = header + sample
            /\ p.n \in Nat /\ p.n > 0
            /\ Here(idx).n = p.n /\ p.good
            /\ Width(p) = 1 + IF p.good THEN p.n ELSE 0
            /\ idx + Width(p) <= Place(i, c + 1)
            /\ Follows(i, c, idx + Width(p), p.time + 2 * p.n)
            /\ PieceOf(p) = [block |-> x, first |-> idx + 1, n |-> p.n, channel |-> c, time |-> header + sample]
      BY <1>1, <1>3, <2>1, ThisSegment
    <3>2. n = p.n /\ control = 1 /\ Width(p) = 1 + p.n  BY <2>1, <3>1
    <3>3. idx + control + n = idx + Width(p)  BY SMTT(30), <1>2, <3>1, <3>2
    <3>4. piece = PieceOf(p)  BY <3>1, <3>2 DEF Piece
    <3>5. QED  BY <1>1, <2>1, <3>1, <3>2, <3>3, <3>4
  <2>2. CASE mode # "zle"
    <3>1. mode = "plain" /\ word = 0 /\ sample = 0 /\ size > 0 /\ n = size /\ control = 0
      <4>1. size \in Nat /\ word \in Nat /\ word < size  BY <1>1, <1>2
      <4>2. word = 0 /\ size > 0  BY <1>4, <2>2, <4>1
      <4>3. QED  BY <1>4, <2>2, <4>2
    <3>2. Lead = 0  BY <3>1, LeadType
    <3>3. PICK p \in parts :
            /\ p.event = i /\ p.channel = c /\ p.at = Place(i, c)
            /\ p.at + Width(p) = Place(i, c + 1)
            /\ p.at \in Nat /\ p.n \in Nat /\ Width(p) = Lead + p.n
            /\ p.time = Time(i) + 0
            /\ p.n = Length(i) /\ (p.good <=> p.n > 0)
      BY <1>2, <1>5, <2>2, <3>1, ThisPart
    <3>4. n = p.n /\ n \in Nat /\ n > 0 /\ p.good  BY <1>4, <2>2, <3>1, <3>3
    <3>5. idx = p.at /\ Width(p) = n  BY <1>4, <1>5, <3>1, <3>2, <3>3, <3>4
    <3>6. idx + control + n = idx + Width(p) /\ idx + control + n <= Place(i, c + 1)
      BY <1>2, <1>5, <3>1, <3>3, <3>4, <3>5
    <3>7. piece = PieceOf(p)
      <4>1. PieceOf(p) = [block |-> x, first |-> idx + 0, n |-> n, channel |-> c, time |-> p.time]
        BY <1>4, <3>2, <3>3, <3>4, <3>5 DEF PieceOf, Block
      <4>2. p.time = header + sample  BY <1>4, <2>2, <3>1, <3>3
      <4>3. QED  BY <3>1, <4>1, <4>2 DEF Piece
    <3>8. QED  BY <1>1, <2>2, <3>1, <3>3, <3>4, <3>5, <3>6, <3>7
  <2>3. QED  BY <2>1, <2>2
<1>7. Width(p) = control + n /\ control \in Nat
  <2>1. Width(p) = Lead + p.n  BY <1>6, PartRange
  <2>2. Lead = control
    <3>1. CASE mode = "zle"  BY <3>1, LeadType
    <3>2. CASE mode # "zle"  BY <1>4, <3>2, LeadType
    <3>3. QED  BY <3>1, <3>2
  <2>3. QED  BY <1>6, <2>1, <2>2
<1>8. idx' \in Nat /\ idx' <= Place(i, c + 1) /\ idx' <= blocks[x] /\ word' \in Nat /\ sample' \in Nat
  <2>1. idx + control + n \in Nat /\ word + control + n \in Nat /\ sample + 2 * n \in Nat
    BY <1>2, <1>6, <1>7
  <2>2. idx' = idx + control + n /\ word' = word + control + n /\ sample' = sample + 2 * n
    BY <1>1
  <2>3. idx' <= Place(i, c + 1)  BY <1>6, <2>2
  <2>4. idx' <= blocks[x]  BY <1>2, <1>5, <2>1, <2>2, <2>3
  <2>5. QED  BY <2>1, <2>2, <2>3, <2>4
<1>9. Handed'
  <2>1. idx' \in 0..blocks[x']  BY <1>1, <1>2, <1>8
  <2>2. /\ todo' \subseteq Channels /\ header' \in Nat /\ size' \in Nat
    BY <1>1, <1>2
  <2>3. QED  BY <1>1, <1>2, <1>8, <2>1, <2>2, SameHanded
<1>10. Outside'  BY <1>1 DEF Outside
<1>11. Reading'
  <2>1. Loop(i)'
    BY <1>1, <1>3, SameInputFacts DEF Loop
  <2>2. InChannel(i)'
    <3>1. idx' = Place(i, c) + word'
      <4>1. word \in Nat  BY <1>2
      <4>2. idx + control + n = Place(i, c) + (word + control + n)
        BY <1>2, <1>4, <1>5, <1>6, <1>7, <4>1
      <4>3. QED  BY <1>1, <4>2
    <3>2. CASE mode = "zle"
      <4>1. word' > 0  BY SMTT(30), <1>1, <1>2, <1>6, <1>7
      <4>2. header' + sample' = p.time + 2 * p.n
        <5>1. header' = header /\ sample' = sample + 2 * n  BY <1>1
        <5>2. PICK k : k = p.n  OBVIOUS
        <5>3. PICK t : t = p.time  OBVIOUS
        <5>4. n = k /\ n \in Nat  BY <1>6, <5>2
        <5>5. t = header + sample  BY <1>6, <3>2, <5>3
        <5>6. header + (sample + 2 * n) = t + 2 * k  BY <1>2, <5>4, <5>5
        <5>7. QED  BY <5>1, <5>2, <5>3, <5>6
      <4>3. Follows(i, c, idx', header' + sample')  BY <1>6, <3>2, <4>2
      <4>4. QED  BY <1>1, <1>4, <3>1, <3>2, <4>1, <4>3, SameInputFacts DEF InChannel, Follows
    <3>3. CASE mode # "zle"
      <4>1. word' = size' /\ control = 0 /\ n = size
        <5>1. word = 0 /\ control = 0 /\ n = size  BY <1>6, <3>3
        <5>2. QED  BY <1>1, <1>2, <5>1
      <4>2. word' # 0  BY <1>1, <1>6, <4>1
      <4>3. QED  BY <1>1, <1>4, <3>1, <3>3, <4>1, <4>2, SameInputFacts DEF InChannel
    <3>4. QED  BY <3>2, <3>3
  <2>3. i \in DOMAIN events'  BY <1>1, SameInputFacts
  <2>4. QED  BY <1>1, <2>1, <2>2, <2>3 DEF Reading
<1>12. OutSound' /\ OutRead' /\ OutOrdered' /\ OutComplete'
  <2>1. Keeps  BY <1>1 DEF Keeps
  <2>2. piece.block = x /\ piece.first = idx + control /\ piece.n = n
    BY DEF Piece
  <2>3. piece \in PieceType
    <3>1. idx + control \in Nat /\ header + sample \in Nat  BY <1>2, <1>7
    <3>2. QED  BY <1>2, <1>5, <1>6, <3>1 DEF Piece, PieceType
  <2>4. Right(piece)
    <3>1. First(i) <= idx + control /\ (idx + control) + n <= Behind(i) /\ n # 0
      BY <1>2, <1>4, <1>5, <1>6, <1>7
    <3>2. Inside(piece, events[i])
      BY <1>4, <2>2, <3>1 DEF Inside, Block, First, Behind
    <3>3. Sound(piece, i)  BY <1>6, <3>2 DEF Sound
    <3>4. QED  BY <3>3 DEF Right
  <2>5. idx <= piece.first /\ piece.first + piece.n = idx'
    BY <1>1, <1>2, <1>7, <2>2
  <2>6. IF mode = "newfw" THEN idx < piece.first ELSE piece.n > 0
    BY <1>4, <1>6, <2>2
  <2>7. ASSUME NEW q \in parts, q.good, Block(q.event) = x, idx <= q.at, q.at < idx'
        PROVE  piece = PieceOf(q)
    <3>1. CASE mode = "zle"
      <4>1. q = p  BY <1>4, <1>6, <2>7, <3>1, OneSegment
      <4>2. QED  BY <1>6, <4>1
    <3>2. CASE mode # "zle"
      <4>1. q.at \in Nat  BY PartRange
      <4>2. /\ First(i) <= q.at /\ q.at < Behind(i)
            /\ Place(i, c) <= q.at /\ q.at < Place(i, c + 1)
        BY <1>2, <1>4, <1>5, <1>8, <2>7, <4>1
      <4>3. q.event = i /\ q.channel = c  BY <1>4, <1>5, <2>7, <4>2, PartInside
      <4>4. q.at = Place(i, c) /\ p.at = Place(i, c)
        BY <1>6, <3>2, <4>3 DEF Layout, PartsFit, PartFits
      <4>5. q = p  BY <1>6, <4>3, <4>4 DEF Layout, PartsFit
      <4>6. QED  BY <1>6, <4>5
    <3>3. QED  BY <3>1, <3>2
  <2>8. QED  BY <1>1, <1>2, <1>8, <2>1, <2>2, <2>3, <2>4, <2>5, <2>6, <2>7, OutAppended
<1>13. QED  BY <1>9, <1>10, <1>11, <1>12

LEMMA ChannelDoneScanned ==
  ASSUME Layout, Handed, Scanned, ChannelDone PROVE Handed' /\ Scanned'
<1> USE DEF Scanned
<1> PICK c : c = Lowest(todo)
  OBVIOUS
<1>1. /\ SameInput /\ at = "words" /\ at' = "channel" /\ x' = x /\ idx' = idx /\ word >= size
      /\ todo' = todo \ {c}
      /\ UNCHANGED <<header, size, word, sample>> /\ out' = out
      /\ at # "store" /\ at' # "store" /\ ~Parsed /\ ~Parsed'
  BY DEF ChannelDone, SameInput, Parsed
<1>2. /\ x \in DOMAIN blocks /\ x \in Nat /\ idx \in Nat /\ blocks[x] \in Nat
      /\ mode # "newfw" => idx <= blocks[x]
      /\ left = {} /\ todo \subseteq Channels /\ {header, size, word, sample} \subseteq Nat
  BY <1>1, HandedWords DEF Handed
<1>3. PICK i \in DOMAIN events : Loop(i) /\ InChannel(i)
  BY <1>1 DEF Reading
<1>4. /\ Block(i) = x /\ todo \subseteq Mask(i) /\ todo # {} /\ idx = Place(i, c) + word
      /\ \A a \in Mask(i) \ todo, d \in todo : a < d
      /\ mode = "zle" => /\ size = Place(i, c + 1) - Place(i, c)
                         /\ Follows(i, c, idx, header + sample)
      /\ mode # "zle" => mode = "plain" /\ size = Length(i) /\ (word = 0 \/ word = size)
  BY <1>1, <1>3 DEF Loop, InChannel
<1>5. Place(i, c) \in Nat /\ Place(i, c + 1) \in Nat /\ c \in Mask(i)
  BY <1>4, ThisChannel
<1>6. idx = Place(i, c + 1)
  <2>1. CASE mode = "zle"
    <3>1. idx >= Place(i, c + 1)  BY <1>1, <1>2, <1>4, <1>5, <2>1
    <3>2. ASSUME NEW p \in parts, p.event = i, p.channel = c, p.at = idx PROVE FALSE
      <4>1. p.at + Width(p) <= Place(i, c + 1) /\ 0 < Width(p) /\ Width(p) \in Nat
        BY <2>1, <3>2, PartRange
      <4>2. QED  BY <1>2, <1>5, <3>1, <3>2, <4>1
    <3>3. QED  BY <1>4, <2>1, <3>2 DEF Follows
  <2>2. CASE mode # "zle"
    <3>1. mode = "plain" /\ word = size /\ size = Length(i)
      <4>1. word \in Nat /\ size \in Nat  BY <1>2
      <4>2. word = size  BY <1>1, <1>4, <2>2, <4>1
      <4>3. QED  BY <1>4, <2>2, <4>2
    <3>2. Lead = 0  BY <3>1, LeadType
    <3>3. PICK p \in parts :
            /\ p.at = Place(i, c) /\ p.at + Width(p) = Place(i, c + 1)
            /\ p.n \in Nat /\ Width(p) = Lead + p.n /\ p.n = Length(i)
      BY <1>2, <1>5, <2>2, <3>1, ThisPart
    <3>4. Width(p) = size  BY <3>1, <3>2, <3>3
    <3>5. QED  BY <1>4, <3>1, <3>3, <3>4
  <2>3. QED  BY <2>1, <2>2
<1>7. Handed'
  <2>1. idx' \in 0..blocks[x']  BY <1>1, <1>2, <1>4
  <2>2. /\ todo' \subseteq Channels /\ header' \in Nat /\ size' \in Nat /\ word' \in Nat
        /\ sample' \in Nat
    BY <1>1, <1>2
  <2>3. QED  BY <1>1, <1>2, <2>1, <2>2, SameHanded
<1>8. Outside'  BY <1>1 DEF Outside
<1>9. Reading'
  <2>1. PICK rest : rest = todo \ {c}  OBVIOUS
  <2>2. /\ rest \subseteq Mask(i) /\ \A a \in Mask(i) \ rest, d \in rest : a < d
        /\ Place(i, c + 1) = IF rest = {} THEN Behind(i) ELSE Place(i, Lowest(rest))
    BY <1>4, <2>1, NextChannel
  <2>3. Loop(i)'
    BY <1>1, <1>3, <2>1, <2>2, SameInputFacts DEF Loop
  <2>4. OnTrack(i)'
    BY <1>1, <1>6, <2>1, <2>2, SameInputFacts DEF OnTrack
  <2>5. i \in DOMAIN events'  BY <1>1, SameInputFacts
  <2>6. QED  BY <1>1, <2>3, <2>4, <2>5 DEF Reading
<1>10. OutSound' /\ OutRead' /\ OutOrdered' /\ OutComplete'
  <2>1. Keeps  BY <1>1 DEF Keeps
  <2>2. idx' \in Nat /\ idx <= idx'  BY <1>1, <1>2
  <2>3. ASSUME NEW p \in parts, idx <= p.at, p.at < idx' PROVE FALSE
    <3>1. p.at \in Nat  BY PartRange
    <3>2. QED  BY <1>1, <1>2, <2>3, <3>1
  <2>4. QED  BY <1>1, <1>2, <2>1, <2>2, <2>3, OutKept
<1>11. QED  BY <1>7, <1>8, <1>9, <1>10

-----------------------------------------------------------------------------
(* The invariant.                                                          *)

\* Writing pieces, and steps that change nothing, read no words.
LEMMA IdleScanned ==
  ASSUME Fresh, Handed, Scanned, SameInput,
         UNCHANGED <<x, idx, todo, header, size, word, sample, out, indices>>,
         at' = at \/ (at = "write" /\ at' = "done")
  PROVE  Fresh' /\ Handed' /\ Scanned'
<1> USE DEF Scanned
<1>1. (at = "store" <=> at' = "store") /\ (Parsed <=> Parsed')  BY DEF Parsed
<1>2. Fresh'  BY <1>1, SameInputFacts DEF Fresh
<1>3. Handed'
  <2>1. CASE at = "store"  BY <1>1, <2>1 DEF Handed
  <2>2. CASE at # "store"
    <3>1. /\ x' \in DOMAIN blocks /\ (idx' \in 0..blocks[x'] \/ (idx' \in Nat /\ Gone'))
          /\ todo' \subseteq Channels
          /\ header' \in Nat /\ size' \in Nat /\ word' \in Nat /\ sample' \in Nat
          /\ at' # "store" /\ (Parsed' => x' = Len(blocks))
      BY <1>1, <2>2, SameInputFacts DEF Handed, Gone, Astray
    <3>2. QED  BY <2>2, <3>1, SameHanded
  <2>3. QED  BY <2>1, <2>2
<1>4. Outside'  BY SameInputFacts DEF Outside, Gone, Astray
<1>5. Reading'
  <2>1. \A i : Loop(i)' = Loop(i)  BY SameInputFacts DEF Loop
  <2>2. \A i : OnTrack(i)' = OnTrack(i)  BY SameInputFacts DEF OnTrack
  <2>3. Gone' = Gone  BY SameInputFacts DEF Gone, Astray
  <2>4. \A i : InChannel(i)' = InChannel(i)  BY SameInputFacts DEF InChannel, Follows
  <2>5. QED  BY <2>1, <2>2, <2>3, <2>4, SameInputFacts DEF Reading
<1>6. OutSound'
  <2> SUFFICES ASSUME NEW b \in DOMAIN out PROVE Right(out[b])'
    BY SameInputFacts DEF OutSound, PieceType
  <2>1. PICK q : q = out[b]  OBVIOUS
  <2>2. Right(q)  BY <2>1 DEF OutSound
  <2>3. Right(q)'  BY <2>2, SameSound
  <2>4. QED  BY <2>1, <2>3 DEF Right, Wild, Sound, Inside
<1>7. OutRead'  BY <1>1, SameInputFacts DEF OutRead
<1>8. OutOrdered'  BY SameInputFacts DEF OutOrdered
<1>9. OutComplete'  BY <1>1, SameInputFacts DEF OutComplete, Passed
<1>10. QED  BY <1>2, <1>3, <1>4, <1>5, <1>6, <1>7, <1>8, <1>9

LEMMA ParserScanned ==
  ASSUME ParseInv, Scan \/ SplitChannels \/ SplitChannelsNewFW
  PROVE  Fresh' /\ Handed' /\ Scanned'
<1>1. Layout /\ Apart /\ Handed /\ Scanned  BY DEF ParseInv
<1>2. Fresh'
  <2>1. at' # "store"
    BY DEF Scan, BlockEnds, SkipWord, Trigger, EventHeader, EventDone, SplitChannels, BeginChannel,
           SkipSamples, KeepWords, ChannelDone, SplitChannelsNewFW, KeepChannel, DropChannel, Abort
  <2>2. QED  BY <2>1 DEF Fresh
<1>3. CASE Scan
  BY <1>1, <1>2, <1>3, BlockEndsScanned, SkipWordScanned, TriggerScanned, EventHeaderScanned,
     EventDoneScanned DEF Scan
<1>4. CASE SplitChannels
  BY <1>1, <1>2, <1>4, BeginChannelScanned, SkipSamplesScanned, KeepWordsScanned,
     ChannelDoneScanned DEF SplitChannels
<1>5. CASE SplitChannelsNewFW
  BY <1>1, <1>2, <1>5, KeepChannelScanned, DropChannelScanned, AbortScanned DEF SplitChannelsNewFW
<1>6. QED  BY <1>3, <1>4, <1>5

LEMMA InitParseInv == Init => ParseInv
<1> SUFFICES ASSUME Init PROVE ParseInv
  OBVIOUS
<1>1. Apart  BY DEF Init, Apart
<1>2. QED  BY <1>1, InitLayout, InitScanned DEF ParseInv

LEMMA ParseInvStep == ParseInv /\ [Next]_vars => ParseInv'
<1> SUFFICES ASSUME ParseInv, [Next]_vars PROVE ParseInv'
  OBVIOUS
<1>1. Layout /\ Apart /\ Fresh /\ Handed /\ Scanned  BY DEF ParseInv
<1>2. Layout' /\ Apart'  BY <1>1, LayoutStep, ApartStep
<1>3. CASE Store  BY <1>1, <1>2, <1>3, StoreScanned DEF ParseInv
<1>4. CASE Scan \/ SplitChannels \/ SplitChannelsNewFW
  BY <1>2, <1>4, ParserScanned DEF ParseInv
<1>5. CASE WritePiece \/ BulkDone \/ UNCHANGED vars
  <2>1. /\ SameInput /\ UNCHANGED <<x, idx, todo, header, size, word, sample, out, indices>>
        /\ at' = at \/ (at = "write" /\ at' = "done")
    BY <1>5 DEF WritePiece, BulkDone, vars, scanVars, SameInput
  <2>2. QED  BY <1>1, <1>2, <2>1, IdleScanned DEF ParseInv
<1>6. QED  BY <1>3, <1>4, <1>5 DEF Next

-----------------------------------------------------------------------------
(* The pieces of a bulk.                                                   *)

\* The words of a piece are of one trigger only.
LEMMA InsideOne ==
  ASSUME Layout, NEW piece \in PieceType, NEW i \in DOMAIN events, NEW j \in DOMAIN events,
         Inside(piece, events[i]), Inside(piece, events[j])
  PROVE  i = j
<1>1. /\ piece.first \in Nat /\ piece.n \in Nat /\ Block(i) = piece.block /\ Block(j) = piece.block
      /\ First(i) <= piece.first /\ piece.first + piece.n <= Behind(i)
      /\ First(j) <= piece.first /\ piece.first + piece.n <= Behind(j)
      /\ (piece.n = 0 => First(i) < piece.first /\ First(j) < piece.first)
  BY DEF Inside, PieceType, Block, First, Behind
<1>2. First(i) \in Nat /\ Behind(i) \in Nat /\ First(j) \in Nat /\ Behind(j) \in Nat
  BY TriggerRange
<1>3. CASE piece.n > 0
  <2>1. piece.first < Behind(i) /\ piece.first < Behind(j) /\ piece.first \in Int
    BY <1>1, <1>2, <1>3
  <2>2. QED  BY <1>1, <2>1, OneTrigger
<1>4. CASE piece.n = 0
  <2>1. PICK k : k = piece.first - 1  OBVIOUS
  <2>2. /\ k \in Int /\ First(i) <= k /\ k < Behind(i) /\ First(j) <= k /\ k < Behind(j)
    BY <1>1, <1>2, <1>4, <2>1
  <2>3. QED  BY <1>1, <2>2, OneTrigger
<1>5. QED  BY <1>1, <1>3, <1>4

\* The piece of a part is of the trigger of the part.
LEMMA PieceInside ==
  ASSUME Layout, NEW p \in parts, p.good PROVE Inside(PieceOf(p), events[p.event])
<1>1. /\ p.event \in DOMAIN events /\ p.at \in Nat /\ p.n \in Nat /\ Lead \in Nat
      /\ Width(p) = Lead + p.n /\ First(p.event) + 4 <= p.at
      /\ p.at + Width(p) <= Behind(p.event)
  BY PartRange
<1>2. First(p.event) \in Nat /\ Behind(p.event) \in Nat  BY <1>1, TriggerRange
<1>3. First(p.event) < p.at + Lead /\ (p.at + Lead) + p.n <= Behind(p.event)
  BY <1>1, <1>2
<1>4. First(p.event) <= p.at + Lead  BY <1>1, <1>2, <1>3
<1>5. PieceOf(p).block = Block(p.event) /\ PieceOf(p).first = p.at + Lead /\ PieceOf(p).n = p.n
  BY DEF PieceOf, Block
<1>6. QED  BY <1>3, <1>4, <1>5 DEF Inside, Block, First, Behind

LEMMA InsidePieces == ParseInv => PiecesInsideTriggers
  BY DEF ParseInv, Scanned, OutSound, Right, Wild, Sound, PiecesInsideTriggers

\* A trigger before the first damaged one has the pieces that were stored, and no others.
LEMMA TriggerPieces ==
  ASSUME ParseInv, Parsed, mode # "blocks", NEW i \in DOMAIN events, ~Spoilt(i)
  PROVE  {out[b] : b \in {k \in DOMAIN out : Inside(out[k], events[i])}} = ExpectedOf(i)
<1>1. Layout /\ OutSound /\ OutComplete /\ Handed  BY DEF ParseInv, Scanned
<1>2. ASSUME NEW b \in DOMAIN out, Inside(out[b], events[i]) PROVE out[b] \in ExpectedOf(i)
  <2>1. out[b] \in PieceType  BY <1>1 DEF OutSound
  <2>2. ~Wild(out[b])
    <3> SUFFICES ASSUME Wild(out[b]) PROVE FALSE  OBVIOUS
    <3>1. /\ out[b].block = Block(i) /\ out[b].first + out[b].n <= Behind(i)
          /\ out[b].first \in Nat /\ out[b].n \in Nat
      BY <1>2, <2>1 DEF Inside, Block, Behind, PieceType
    <3>2. PICK j \in DOMAIN events :
            Damaged(j) /\ events[j].block = Block(i) /\ events[j].first < out[b].first
      BY <3>1 DEF Wild, Astray
    <3>3. First(j) \in Nat /\ Behind(i) \in Nat  BY <1>1, TriggerRange
    <3>4. events[j].first < Behind(i)  BY <3>1, <3>2, <3>3 DEF First
    <3>5. QED  BY <3>2, <3>4 DEF Spoilt, Astray
  <2>3. PICK j \in DOMAIN events : Sound(out[b], j)  BY <1>1, <2>2 DEF OutSound, Right
  <2>4. i = j  BY <1>1, <1>2, <2>1, <2>3, InsideOne DEF Sound
  <2>5. QED  BY <2>3, <2>4 DEF Sound, ExpectedOf
<1>3. ASSUME NEW piece \in ExpectedOf(i)
      PROVE  \E b \in DOMAIN out : Inside(out[b], events[i]) /\ out[b] = piece
  <2>1. PICK p \in parts : p.event = i /\ p.good /\ piece = PieceOf(p)
    BY <1>3 DEF ExpectedOf
  <2>2. Inside(piece, events[i])  BY <1>1, <2>1, PieceInside
  <2>3. Passed(Block(i), p.at)
    <3>1. at # "store"  BY DEF Parsed
    <3>2. x = Len(blocks) /\ Block(i) \in DOMAIN blocks /\ DOMAIN blocks = 1..Len(blocks)
          /\ Len(blocks) \in Nat
      BY <1>1, <3>1, TriggerRange, EndType DEF Handed, Layout
    <3>3. Block(i) < x \/ Block(i) = x  BY <3>2
    <3>4. QED  BY <3>3 DEF Passed
  <2>4. PICK b \in DOMAIN out : out[b] = piece  BY <1>1, <2>1, <2>3 DEF OutComplete
  <2>5. QED  BY <2>2, <2>4
<1>4. QED  BY <1>2, <1>3

LEMMA CompletePieces == ParseInv => PiecesComplete
<1> SUFFICES ASSUME ParseInv, Parsed, mode # "blocks" PROVE PiecesComplete
  BY DEF PiecesComplete
<1>1. OutOrdered  BY DEF ParseInv, Scanned
<1>2. \A i \in DOMAIN events : Spoilt(i) = Astray(events[i].block, events[i].places[8])
  BY DEF Spoilt, Block, Behind
<1>3. QED  BY <1>1, <1>2, TriggerPieces DEF PiecesComplete, OutOrdered

-----------------------------------------------------------------------------
(* Triggers the parsers have come to.                                      *)

OfIndices == mode \in {"zle", "plain"}

\* Where a parser stands within the words of a trigger, the step stays there.
Advances ==
  /\ SameInput /\ at # "store" /\ at' # "store" /\ ~Parsed /\ ~Parsed' /\ x' = x
  /\ idx \in Nat /\ idx' \in Nat /\ idx <= idx'
  /\ idx = idx' \/ \E i \in DOMAIN events : Block(i) = x /\ First(i) + 4 <= idx /\ idx' <= Behind(i)

\* The words of the channels of a trigger are passed one channel after the other.
LEMMA ChannelsAdvance ==
  ASSUME ParseInv, OfIndices, EventDone \/ SplitChannels
  PROVE  Advances
<1>1. Layout /\ Apart /\ Handed /\ Reading  BY DEF ParseInv, Scanned
<1>2. /\ SameInput /\ at \in {"channel", "words"} /\ at' # "store" /\ ~Parsed /\ ~Parsed' /\ x' = x
  BY DEF EventDone, SplitChannels, BeginChannel, SkipSamples, KeepWords, ChannelDone, SameInput, Parsed
<1>3. left = {} /\ idx \in Nat /\ word \in Nat /\ size \in Nat /\ sample \in Nat /\ header \in Nat
  BY <1>1, <1>2, HandedWords DEF Handed
<1>4. CASE idx' = idx  BY <1>2, <1>3, <1>4 DEF Advances
<1>5. CASE BeginChannel /\ mode = "zle"
  <2>1. at = "channel" /\ todo # {} /\ idx' = idx + 1  BY <1>5 DEF BeginChannel
  <2>2. PICK i \in DOMAIN events : Loop(i) /\ OnTrack(i)
    BY <1>1, <1>5, <2>1 DEF Reading, Gone, Astray, Damaged
  <2>3. PICK c : c = Lowest(todo)  OBVIOUS
  <2>4. Block(i) = x /\ todo \subseteq Mask(i) /\ idx = Place(i, c)
    BY <2>1, <2>2, <2>3 DEF Loop, OnTrack
  <2>5. /\ c \in Mask(i) /\ First(i) \in Nat /\ Behind(i) \in Nat /\ Place(i, c + 1) \in Nat
        /\ First(i) + 4 <= Place(i, c) /\ Place(i, c + 1) <= Behind(i)
    BY <1>1, <2>1, <2>3, <2>4, ThisChannel, TriggerRange
  <2>6. Place(i, c) < Place(i, c + 1)  BY <1>1, <1>3, <1>5, <2>5, SizeWord
  <2>7. idx' <= Behind(i) /\ idx' \in Nat /\ idx <= idx'  BY <1>3, <2>1, <2>4, <2>5, <2>6
  <2>8. QED  BY <1>2, <1>3, <2>4, <2>5, <2>7 DEF Advances
<1>6. CASE SkipSamples \/ KeepWords
  <2>1. at = "words" /\ word < size  BY <1>6 DEF SkipSamples, KeepWords
  <2>2. PICK i \in DOMAIN events : Loop(i) /\ InChannel(i)
    BY <1>1, <2>1 DEF Reading
  <2>3. PICK c : c = Lowest(todo)  OBVIOUS
  <2>4. /\ Block(i) = x /\ todo \subseteq Mask(i) /\ todo # {} /\ idx = Place(i, c) + word
        /\ mode # "zle" => size = Length(i) /\ (word = 0 \/ word = size)
    BY <2>2, <2>3 DEF Loop, InChannel
  <2>5. /\ c \in Mask(i) /\ First(i) \in Nat /\ Behind(i) \in Nat
        /\ Place(i, c) \in Nat /\ Place(i, c + 1) \in Nat
        /\ First(i) + 4 <= Place(i, c) /\ Place(i, c + 1) <= Behind(i)
    BY <1>1, <2>3, <2>4, ThisChannel, TriggerRange
  <2>6. idx' \in Nat /\ idx <= idx' /\ idx' <= Place(i, c + 1)
    <3>1. CASE mode = "zle"
      <4>1. PICK p \in parts :
              /\ p.n \in Nat /\ Here(idx).n = p.n /\ (Here(idx).is = "good" <=> p.good)
              /\ Width(p) = 1 + IF p.good THEN p.n ELSE 0
              /\ idx + Width(p) <= Place(i, c + 1)
        BY <1>1, <2>1, <2>2, <2>3, <3>1, ThisSegment
      <4>2. CASE SkipSamples
        <5>1. idx' = idx + 1 /\ ~p.good  BY <4>1, <4>2 DEF SkipSamples
        <5>2. QED  BY <1>3, <4>1, <5>1
      <4>3. CASE KeepWords
        <5>1. idx' = idx + 1 + p.n /\ p.good  BY <3>1, <4>1, <4>3 DEF KeepWords
        <5>2. QED  BY <1>3, <4>1, <5>1
      <4>4. QED  BY <1>6, <4>2, <4>3
    <3>2. CASE mode # "zle"
      <4>1. mode = "plain" /\ KeepWords  BY <1>6, <3>2 DEF OfIndices, SkipSamples
      <4>2. idx' = idx + 0 + size  BY <3>2, <4>1 DEF KeepWords
      <4>3. word = 0  BY <1>3, <2>1, <2>4, <3>2
      <4>4. Lead = 0  BY <4>1, LeadType
      <4>5. PICK p \in parts :
              /\ p.at = Place(i, c) /\ p.at + Width(p) = Place(i, c + 1)
              /\ p.n \in Nat /\ Width(p) = Lead + p.n /\ p.n = Length(i)
        BY <1>1, <1>3, <2>5, <3>2, <4>1, ThisPart
      <4>6. Width(p) = size  BY <1>3, <2>4, <3>2, <4>4, <4>5
      <4>7. QED  BY <1>3, <2>4, <2>5, <4>2, <4>3, <4>5, <4>6
    <3>3. QED  BY <3>1, <3>2
  <2>7. /\ First(i) + 4 <= idx /\ idx' <= Behind(i)  BY <1>3, <2>4, <2>5, <2>6
  <2>8. QED  BY <1>2, <1>3, <2>4, <2>6, <2>7 DEF Advances
<1>7. QED
  BY <1>4, <1>5, <1>6 DEF OfIndices, EventDone, SplitChannels, BeginChannel, ChannelDone

\* Such a step comes to no further trigger.
LEMMA NoneSeen == ASSUME Layout, Advances PROVE \A i \in DOMAIN events : Seen(i)' <=> Seen(i)
<1>1. /\ SameInput /\ at # "store" /\ at' # "store" /\ ~Parsed /\ ~Parsed' /\ x' = x
      /\ idx \in Nat /\ idx' \in Nat /\ idx <= idx'
  BY DEF Advances
<1> SUFFICES ASSUME NEW i \in DOMAIN events PROVE Seen(i)' <=> Seen(i)
  OBVIOUS
<1>2. Seen(i)' <=> Block(i) < x \/ (Block(i) = x /\ First(i) < idx')
  BY <1>1, SameInputFacts DEF Seen, Passed
<1>3. Seen(i) <=> Block(i) < x \/ (Block(i) = x /\ First(i) < idx)
  BY <1>1 DEF Seen, Passed
<1>4. First(i) \in Nat /\ Behind(i) \in Nat /\ First(i) + 4 <= Behind(i)  BY TriggerRange
<1>5. ASSUME Block(i) = x, First(i) < idx', ~(First(i) < idx) PROVE FALSE
  <2>1. idx # idx'  BY <1>5
  <2>2. PICK m \in DOMAIN events : Block(m) = x /\ First(m) + 4 <= idx /\ idx' <= Behind(m)
    BY <2>1 DEF Advances
  <2>3. First(m) \in Nat /\ Behind(m) \in Nat  BY TriggerRange
  <2>4. First(m) <= First(i) /\ First(i) < Behind(m) /\ First(i) < Behind(i) /\ First(i) \in Int
    BY <1>1, <1>4, <1>5, <2>2, <2>3
  <2>5. i = m  BY <1>4, <1>5, <2>2, <2>4, OneTrigger
  <2>6. QED  BY <1>1, <1>4, <1>5, <2>2, <2>5
<1>6. QED  BY <1>1, <1>2, <1>3, <1>4, <1>5

\* A trigger that has a piece was seen.
LEMMA PieceSeen ==
  ASSUME ParseInv, OfIndices, NEW b \in DOMAIN out, NEW i \in DOMAIN events,
         Inside(out[b], events[i])
  PROVE  Seen(i)
<1>1. Layout /\ Fresh /\ Handed /\ OutSound /\ OutRead  BY DEF ParseInv, Scanned
<1>2. at # "store"  BY <1>1 DEF Fresh
<1>3. out[b] \in PieceType  BY <1>1 DEF OutSound
<1>4. /\ out[b].first \in Nat /\ out[b].n \in Nat /\ out[b].block = Block(i)
      /\ First(i) <= out[b].first /\ First(i) \in Nat /\ mode # "newfw"
  BY <1>1, <1>3, TriggerRange DEF PieceType, Inside, Block, First, OfIndices
<1>5. CASE Block(i) < x  BY <1>2, <1>5 DEF Seen, Passed
<1>6. CASE Block(i) = x /\ Parsed  BY <1>2, <1>6 DEF Seen, Passed
<1>7. CASE Block(i) = x /\ out[b].first + out[b].n <= idx /\ out[b].n > 0
  <2>1. idx \in Nat  BY <1>1, <1>2, HandedWords
  <2>2. First(i) < idx  BY <1>4, <1>7, <2>1
  <2>3. QED  BY <1>2, <1>7, <2>2 DEF Seen, Passed
<1>8. QED  BY <1>1, <1>4, <1>5, <1>6, <1>7 DEF OutRead

-----------------------------------------------------------------------------
(* Counts.                                                                 *)

LEMMA CountedStep == ParseInv /\ ParseInv' /\ Counted /\ [Next]_vars => Counted'
<1> SUFFICES ASSUME ParseInv, ParseInv', Counted, [Next]_vars PROVE Counted'
  OBVIOUS
<1>1. /\ indices \in Seq(Nat) /\ \A k \in DOMAIN indices : indices[k] \in 1..(Len(out) + 1)
      /\ written \in 0..Len(out) /\ current \in 1..(written + 1) /\ file \in Seq(Seq(Nat))
      /\ ~Parsed => current = 1 /\ written = 0 /\ file = <<>>
      /\ at = "done" => written = Len(out)
      /\ at \in {"store", "scan", "channel", "words", "write", "done", "aborted"}
  BY DEF Counted
<1>2. Len(out) \in Nat /\ Len(out') \in Nat
  BY DEF ParseInv, Scanned, OutSound, PieceType
\* The parsers write nothing.
<1>3. CASE Store \/ Scan \/ SplitChannels \/ SplitChannelsNewFW
  <2>1. /\ ~Parsed /\ UNCHANGED fileVars /\ at' \in {"store", "scan", "channel", "words", "write", "aborted"}
        /\ \/ out' = out /\ indices' = indices
           \/ out' = out /\ indices' = Append(indices, Len(out) + 1)
           \/ (\E piece : out' = Append(out, piece)) /\ indices' = indices
    <3>1. CASE Store
      BY <1>1, <3>1 DEF Store, StoreTrigger, StoreChannel, StoreSize, StoreSegment, StoreGap, NextBlock,
           HandOver, Extend, scanVars, Parsed
    <3>2. CASE Scan
      BY <1>1, <3>2 DEF Scan, BlockEnds, SkipWord, Trigger, EventHeader, EventDone, Parsed
    <3>3. CASE SplitChannels \/ SplitChannelsNewFW
      BY <1>1, <3>3 DEF SplitChannels, BeginChannel, SkipSamples, KeepWords, ChannelDone,
           SplitChannelsNewFW, KeepChannel, DropChannel, Abort, Parsed
    <3>4. QED  BY <1>3, <3>1, <3>2, <3>3
  <2>2. Len(out') >= Len(out)
    BY <1>2, <2>1 DEF ParseInv, Scanned, OutSound, PieceType
  <2>3. indices' \in Seq(Nat) /\ \A k \in DOMAIN indices' : indices'[k] \in 1..(Len(out') + 1)
    <3>1. CASE indices' = indices  BY <1>1, <1>2, <2>2, <3>1
    <3>2. CASE out' = out /\ indices' = Append(indices, Len(out) + 1)
      BY <1>1, <1>2, <3>2
    <3>3. QED  BY <2>1, <3>1, <3>2
  <2>4. current' = 1 /\ written' = 0 /\ file' = <<>>  BY <1>1, <2>1 DEF fileVars
  <2>5. QED  BY <1>2, <2>1, <2>3, <2>4 DEF Counted
<1>4. CASE WritePiece
  <2>1. /\ at = "write" /\ at' = "write" /\ out' = out /\ indices' = indices
        /\ written < Len(out) /\ written' = written + 1
    BY <1>4 DEF WritePiece, scanVars
  <2>2. current' = current \/ current' = current + 1  BY <1>4 DEF WritePiece
  <2>3. file' \in Seq(Seq(Nat))
    <3>1. <<written + 1>> \in Seq(Nat)  BY <1>1, <1>2
    <3>2. CASE file' = Append(file, <<written + 1>>)  BY <1>1, <3>1, <3>2
    <3>3. CASE file' = [file EXCEPT ![Len(file)] = Append(@, written + 1)]
      <4>1. CASE file = <<>>
        <5>1. [k \in {} |-> <<>>] = <<>>  OBVIOUS
        <5>2. [[k \in {} |-> <<>>] EXCEPT ![Len(file)] = Append(@, written + 1)] = [k \in {} |-> <<>>]
          OBVIOUS
        <5>3. <<>> \in Seq(Seq(Nat))  OBVIOUS
        <5>4. QED  BY <3>3, <4>1, <5>1, <5>2, <5>3
      <4>2. CASE file # <<>>
        <5>1. Len(file) \in DOMAIN file /\ file[Len(file)] \in Seq(Nat) /\ written + 1 \in Nat
          BY <1>1, <1>2, <4>2
        <5>2. Append(file[Len(file)], written + 1) \in Seq(Nat)  BY <5>1
        <5>3. QED  BY <1>1, <3>3, <5>1, <5>2
      <4>3. QED  BY <4>1, <4>2
    <3>4. QED  BY <1>4, <3>2, <3>3 DEF WritePiece
  <2>4. written' \in 0..Len(out') /\ current' \in 1..(written' + 1)  BY <1>1, <1>2, <2>1, <2>2
  <2>5. QED  BY <1>1, <2>1, <2>3, <2>4 DEF Counted, Parsed
<1>5. CASE BulkDone
  BY <1>1, <1>5 DEF BulkDone, Counted, Parsed, fileVars
<1>6. CASE UNCHANGED vars
  BY <1>1, <1>6 DEF Counted, Parsed, vars, scanVars, fileVars
<1>7. QED  BY <1>3, <1>4, <1>5, <1>6 DEF Next

-----------------------------------------------------------------------------
(* The indices of the events.                                              *)

\* A step that adds neither pieces nor indices is right if it comes to no trigger with pieces.
LEMMA IndexedKept ==
  ASSUME Layout, Indexed, SameInput, out' = out, indices' = indices,
         \A i \in DOMAIN events : Seen(i) => Seen(i)',
         \A i \in DOMAIN events : Seen(i)' /\ HasPieces(i) => Seen(i)
  PROVE  Indexed'
<1> SUFFICES ASSUME OfIndices PROVE Indexed'
  BY SameInputFacts DEF OfIndices, Indexed
<1>1. \A i : Prefix(i)' <=> Prefix(i)
  BY SameInputFacts DEF Prefix, HasPieces, ExpectedOf
<1>2. \A i \in DOMAIN events : Prefix(i) => HasPieces(i)
  <2> SUFFICES ASSUME NEW i \in DOMAIN events, Prefix(i) PROVE HasPieces(i)
    OBVIOUS
  <2>1. i <= i  BY TriggerType DEF Layout
  <2>2. QED  BY <2>1 DEF Prefix
<1>3. \A piece, i : Inside(piece, events[i])' <=> Inside(piece, events[i])
  BY SameInputFacts DEF Inside
<1>4. QED  BY <1>1, <1>2, SameInputFacts DEF Indexed, OfIndices, Inside

\* Nothing was seen before the scan begins.
LEMMA IndexedFirst ==
  ASSUME indices = <<>>, \A i \in DOMAIN events : ~Seen(i) PROVE Indexed
  BY DEF Indexed

Blank == Layout /\ indices = <<>> /\ x = 1 /\ idx = 0 /\ at \in {"store", "scan"}

LEMMA IndexedBlank == Blank => Indexed
<1> SUFFICES ASSUME Blank PROVE Indexed
  OBVIOUS
<1>1. ASSUME NEW i \in DOMAIN events PROVE ~Seen(i)
  <2>1. Layout /\ x = 1 /\ idx = 0 /\ ~Parsed  BY DEF Blank, Parsed
  <2>2. Block(i) \in DOMAIN blocks /\ Block(i) \in Nat /\ First(i) \in Nat  BY <2>1, TriggerRange
  <2>3. Block(i) >= 1  BY <2>1, <2>2, EndType DEF Layout
  <2>4. QED  BY <2>1, <2>2, <2>3 DEF Seen, Passed
<1>2. QED  BY <1>1, IndexedFirst DEF Blank

LEMMA StoreIndexed == ParseInv /\ ParseInv' /\ Store => Indexed'
<1> SUFFICES ASSUME ParseInv, ParseInv', Store PROVE Indexed'
  OBVIOUS
<1>1. Layout' /\ Fresh  BY DEF ParseInv
<1>2. /\ at = "store" /\ UNCHANGED <<x, idx, indices>> /\ at' \in {"store", "scan"}
  BY DEF Store, StoreTrigger, StoreChannel, StoreSize, StoreSegment, StoreGap, NextBlock, HandOver,
         Extend, scanVars
<1>3. Blank'  BY <1>1, <1>2 DEF Blank, Fresh
<1>4. QED  BY <1>3, IndexedBlank, PTL

\* Triggers before another one were seen with it.
LEMMA SeenOrder ==
  ASSUME Layout, at # "store", ~Parsed, x \in Nat, idx \in Nat,
         NEW m \in DOMAIN events, Block(m) = x, First(m) = idx
  PROVE  \A j \in DOMAIN events : Seen(j) <=> j < m
<1> SUFFICES ASSUME NEW j \in DOMAIN events PROVE Seen(j) <=> j < m
  OBVIOUS
<1>1. /\ Block(j) \in Nat /\ First(j) \in Nat /\ Behind(j) \in Nat /\ First(j) + 4 <= Behind(j)
      /\ Behind(m) \in Nat /\ First(m) + 4 <= Behind(m)
  BY TriggerRange
<1>2. Seen(j) <=> Block(j) < x \/ (Block(j) = x /\ First(j) < idx)  BY DEF Seen, Passed
<1>3. j \in Nat /\ m \in Nat  BY TriggerType DEF Layout
<1>4. CASE j < m
  <2>1. Block(j) < x \/ (Block(j) = x /\ Behind(j) <= idx)  BY <1>4, TriggerOrder
  <2>2. QED  BY <1>1, <1>2, <1>4, <2>1
<1>5. CASE m < j
  <2>1. x < Block(j) \/ (Block(j) = x /\ Behind(m) <= First(j))  BY <1>5, TriggerOrder
  <2>2. QED  BY <1>1, <1>2, <1>3, <1>5, <2>1
<1>6. CASE j = m  BY <1>1, <1>2, <1>3, <1>6
<1>7. QED  BY <1>3, <1>4, <1>5, <1>6

LEMMA BlockEndsIndexed == ASSUME ParseInv, Indexed, OfIndices, BlockEnds PROVE Indexed'
<1>1. Layout /\ Handed  BY DEF ParseInv
<1>2. /\ SameInput /\ at = "scan" /\ ~InBlock /\ out' = out /\ indices' = indices /\ ~Parsed
      /\ IF x < Len(buffvec) THEN x' = x + 1 /\ at' = at ELSE x' = x /\ at' = "write"
  BY DEF BlockEnds, OfIndices, SameInput, Parsed
<1>3. /\ x \in Nat /\ idx \in Nat /\ blocks[x] \in Nat /\ x \in DOMAIN blocks
      /\ Len(buffvec) = Len(blocks) /\ Len(blocks) \in Nat /\ Len(buffvec[x]) = blocks[x]
  BY <1>1, <1>2, HandedWords
<1>4. idx >= blocks[x]  BY <1>2, <1>3 DEF InBlock
<1>5. ASSUME NEW i \in DOMAIN events PROVE (Seen(i) => Seen(i)') /\ (Seen(i)' => Seen(i))
  <2>1. /\ Block(i) \in Nat /\ First(i) \in Nat /\ Behind(i) \in Nat
        /\ First(i) + 4 <= Behind(i) /\ Behind(i) <= blocks[Block(i)] /\ Block(i) \in DOMAIN blocks
    BY <1>1, TriggerRange
  <2>2. Seen(i) <=> Block(i) < x \/ (Block(i) = x /\ First(i) < idx)
    BY <1>2 DEF Seen, Passed
  <2>3. Block(i) = x => First(i) < idx  BY <1>3, <1>4, <2>1
  <2>4. Seen(i) <=> Block(i) <= x  BY <1>3, <2>1, <2>2, <2>3
  <2>5. CASE x < Len(blocks)
    <3>1. x' = x + 1 /\ at' = "scan" /\ idx' = 0  BY <1>2, <1>3, <2>5 DEF BlockEnds
    <3>2. Seen(i)' <=> Block(i) < x + 1
      BY <1>2, <2>1, <3>1, SameInputFacts DEF Seen, Passed, Parsed
    <3>3. QED  BY <1>3, <2>1, <2>4, <3>2
  <2>6. CASE ~(x < Len(blocks))
    <3>1. x' = x /\ at' = "write"  BY <1>2, <1>3, <2>6
    <3>2. Seen(i)' <=> Block(i) < x \/ Block(i) = x
      BY <3>1, <1>2, SameInputFacts DEF Seen, Passed, Parsed
    <3>3. QED  BY <1>3, <2>1, <2>4, <3>2
  <2>7. QED  BY <2>5, <2>6
<1>6. QED  BY <1>1, <1>2, <1>5, IndexedKept

\* A trigger that the scan passes word by word has no channels and no pieces.
LEMMA SkipWordIndexed == ASSUME ParseInv, Indexed, OfIndices, SkipWord PROVE Indexed'
<1>1. Layout /\ Handed  BY DEF ParseInv
<1>2. /\ SameInput /\ at = "scan" /\ at' = "scan" /\ InBlock /\ ~Parsed /\ ~Parsed'
      /\ idx' = idx + 1 /\ x' = x /\ out' = out /\ indices' = indices
      /\ Here(idx).is = "head" => mode = "plain" /\ Here(idx + 1).mask = {}
  BY DEF SkipWord, SameInput, Parsed
<1>3. x \in Nat /\ idx \in Nat /\ x \in DOMAIN blocks
      /\ \A j \in Nat : j < blocks[x] => buffvec[x][j + 1] = WordAt(x, j)
  BY <1>1, <1>2, HandedWords
<1>4. \A i \in DOMAIN events : /\ Seen(i)' <=> Block(i) < x \/ (Block(i) = x /\ First(i) < idx + 1)
                               /\ Seen(i) <=> Block(i) < x \/ (Block(i) = x /\ First(i) < idx)
  BY <1>2, SameInputFacts DEF Seen, Passed
<1>5. ASSUME NEW i \in DOMAIN events PROVE Seen(i) => Seen(i)'
  <2>1. First(i) \in Nat  BY <1>1, TriggerRange
  <2>2. QED  BY <1>3, <1>4, <2>1
<1>6. ASSUME NEW i \in DOMAIN events, Seen(i)', ~Seen(i), HasPieces(i) PROVE FALSE
  <2>1. /\ First(i) \in Nat /\ Behind(i) \in Nat /\ First(i) + 4 <= Behind(i)
        /\ Behind(i) <= blocks[Block(i)] /\ blocks[Block(i)] \in Nat
    BY <1>1, TriggerRange, EndType DEF Layout
  <2>2. Block(i) = x /\ First(i) = idx  BY <1>3, <1>4, <1>6, <2>1
  <2>3. Here(idx).is = "head"
    <3>1. WordAt(Block(i), First(i) + 0) = HeaderWord(events[i], 0)
      BY <1>1, HeaderWords
    <3>2. WordAt(x, idx).is = "head"
      BY <1>3, <2>1, <2>2, <3>1, HeaderSays
    <3>3. QED  BY <1>3, <2>1, <2>2, <3>2 DEF Here
  <2>4. PICK m \in DOMAIN events :
          Block(m) = x /\ First(m) = idx /\ idx + 4 <= Behind(m) /\ Here(idx + 1).mask = Mask(m)
          /\ Behind(m) \in Nat
    BY <1>1, <1>2, <2>3, AtHeader
  <2>5. m = i
    <3>1. idx \in Int /\ idx < Behind(i) /\ idx < Behind(m) /\ First(i) <= idx /\ First(m) <= idx
      BY <1>3, <2>1, <2>2, <2>4
    <3>2. QED  BY <1>1, <2>2, <2>4, <3>1, OneTrigger
  <2>6. Mask(i) = {}  BY <1>2, <2>3, <2>4, <2>5
  <2>7. PICK p \in parts : p.event = i  BY <1>6 DEF HasPieces, ExpectedOf
  <2>8. QED  BY <1>1, <2>6, <2>7, PartRange
<1>7. QED  BY <1>1, <1>2, <1>5, <1>6, IndexedKept

LEMMA EventHeaderIndexed == ASSUME ParseInv, Counted, Indexed, OfIndices, EventHeader PROVE Indexed'
<1>1. Layout /\ Handed /\ OutSound  BY DEF ParseInv, Scanned
<1>2. /\ SameInput /\ at = "scan" /\ at' = "channel" /\ InBlock /\ ~Parsed /\ ~Parsed'
      /\ Here(idx).is = "head"
      /\ idx' = idx + 4 /\ x' = x /\ out' = out /\ indices' = Append(indices, Len(out) + 1)
  BY DEF EventHeader, SameInput, Parsed, OfIndices
<1>3. x \in Nat /\ idx \in Nat  BY <1>1, <1>2, HandedWords
<1>4. PICK m \in DOMAIN events :
        Block(m) = x /\ First(m) = idx /\ idx + 4 <= Behind(m) /\ Behind(m) \in Nat
  BY <1>1, <1>2, AtHeader
<1>5. \A j \in DOMAIN events : Seen(j) <=> j < m  BY <1>1, <1>2, <1>3, <1>4, SeenOrder
<1>6. /\ m \in Nat /\ 1 <= m /\ m <= Len(events) /\ Len(events) \in Nat
      /\ DOMAIN events = 1..Len(events)
  BY <1>1, TriggerType DEF Layout, StoreType
<1>7. \A j \in DOMAIN events : Seen(j)' <=> j <= m
  <2> SUFFICES ASSUME NEW j \in DOMAIN events PROVE Seen(j)' <=> j <= m
    OBVIOUS
  <2>1. Seen(j)' <=> Block(j) < x \/ (Block(j) = x /\ First(j) < idx + 4)
    BY <1>2, SameInputFacts DEF Seen, Passed
  <2>2. Seen(j) <=> Block(j) < x \/ (Block(j) = x /\ First(j) < idx)
    BY <1>2 DEF Seen, Passed
  <2>3. /\ First(j) \in Nat /\ Behind(j) \in Nat /\ First(j) + 4 <= Behind(j)  BY <1>1, TriggerRange
  <2>4. ASSUME Block(j) = x, First(j) < idx + 4, ~(First(j) < idx) PROVE j = m
    <3>1. /\ First(j) \in Int /\ First(m) <= First(j) /\ First(j) < Behind(m) /\ First(j) < Behind(j)
          /\ First(j) <= First(j)
      BY <1>3, <1>4, <2>3, <2>4
    <3>2. QED  BY <1>1, <1>4, <2>4, <3>1, OneTrigger
  <2>5. j = m => First(j) < idx + 4 /\ Block(j) = x  BY <1>3, <1>4
  <2>6. j \in Nat  BY <1>6
  <2>7. QED  BY <1>3, <1>5, <1>6, <2>1, <2>2, <2>3, <2>4, <2>5, <2>6
<1>8. indices \in Seq(Nat) /\ Len(indices) \in Nat /\ Len(out) \in Nat /\ DOMAIN out = 1..Len(out)
      /\ \A k \in DOMAIN indices : indices[k] <= Len(out) + 1
  BY SMTT(30), <1>1 DEF Counted, OutSound, PieceType
\* The index of this trigger comes behind those of the triggers before it.
<1>9. Len(indices) <= m - 1
  <2>1. m - 1 \in 0..Len(events) /\ \A j \in DOMAIN events : m - 1 < j => ~Seen(j)
    BY <1>5, <1>6
  <2>2. QED  BY <2>1 DEF Indexed, OfIndices
<1>10. Prefix(m) => Len(indices) = m - 1
  <2> SUFFICES ASSUME Prefix(m), m > 1 PROVE Len(indices) >= m - 1
    BY <1>6, <1>8, <1>9
  <2>1. m - 1 \in DOMAIN events /\ m - 1 < m  BY <1>6
  <2>2. Prefix(m - 1) /\ Seen(m - 1)  BY <1>5, <1>6, <2>1 DEF Prefix
  <2>3. m - 1 \in DOMAIN indices  BY <2>1, <2>2 DEF Indexed, OfIndices
  <2>4. QED  BY <1>8, <2>3
<1>11. \A b \in DOMAIN out, j \in DOMAIN events : Inside(out[b], events[j]) => j < m
  BY <1>5, PieceSeen
<1>12. PICK q : q = indices'  OBVIOUS
<1>13. /\ Len(q) = Len(indices) + 1 /\ DOMAIN q = 1..(Len(indices) + 1)
       /\ \A k \in DOMAIN indices : k \in DOMAIN q /\ q[k] = indices[k]
       /\ q[Len(indices) + 1] = Len(out) + 1
  BY <1>2, <1>8, <1>12
<1>14. \A i \in 0..Len(events) : (\A j \in DOMAIN events : i < j => ~Seen(j)') => Len(q) <= i
  <2> SUFFICES ASSUME NEW i \in 0..Len(events), \A j \in DOMAIN events : i < j => ~Seen(j)'
               PROVE  Len(q) <= i
    OBVIOUS
  <2>1. ~(i < m)  BY <1>6, <1>7
  <2>2. QED  BY <1>6, <1>8, <1>9, <1>13, <2>1
<1>15. ASSUME NEW i \in DOMAIN events, Prefix(i), Seen(i)'
       PROVE  /\ i \in DOMAIN q
              /\ \A b \in DOMAIN out, j \in DOMAIN events :
                   Inside(out[b], events[j]) => (b < q[i] <=> j < i)
              /\ \A b \in DOMAIN out, k \in DOMAIN q : Inside(out[b], events[i]) /\ i < k => b < q[k]
  <2>1. i <= m /\ i \in Nat  BY <1>6, <1>7, <1>15
  <2>2. CASE i < m
    <3>1. Seen(i)  BY <1>5, <2>2
    <3>2. /\ i \in DOMAIN indices
          /\ \A b \in DOMAIN out, j \in DOMAIN events :
               Inside(out[b], events[j]) => (b < indices[i] <=> j < i)
          /\ \A b \in DOMAIN out, k \in DOMAIN indices :
               Inside(out[b], events[i]) /\ i < k => b < indices[k]
      BY <1>15, <3>1 DEF Indexed, OfIndices
    <3>3. ASSUME NEW b \in DOMAIN out, NEW k \in DOMAIN q, Inside(out[b], events[i]), i < k
          PROVE  b < q[k]
      <4>1. CASE k \in DOMAIN indices  BY <1>13, <3>2, <3>3, <4>1
      <4>2. CASE k \notin DOMAIN indices
        <5>1. k = Len(indices) + 1  BY <1>8, <1>13, <4>2
        <5>2. QED  BY <1>8, <1>13, <5>1
      <4>3. QED  BY <4>1, <4>2
    <3>4. QED  BY <1>13, <3>2, <3>3
  <2>3. CASE i = m
    <3>1. i = Len(indices) + 1  BY <1>6, <1>8, <1>10, <1>15, <2>3
    <3>2. i \in DOMAIN q /\ q[i] = Len(out) + 1  BY <1>8, <1>13, <3>1
    <3>3. \A b \in DOMAIN out : b < q[i]  BY <1>8, <3>2
    <3>4. \A b \in DOMAIN out : ~Inside(out[b], events[i])  BY <1>6, <1>11, <2>3
    <3>5. QED  BY <1>11, <2>3, <3>2, <3>3, <3>4
  <2>4. QED  BY <1>6, <2>1, <2>2, <2>3
<1>16. QED
  <2>1. \A i : Prefix(i)' <=> Prefix(i)
    BY SameInputFacts, <1>2 DEF Prefix, HasPieces, ExpectedOf
  <2>2. QED  BY <1>2, <1>12, <1>14, <1>15, <2>1, SameInputFacts DEF Indexed, Inside

\* A piece is of the last trigger that was seen; its index does not come after the piece.
LEMMA KeepWordsIndexed ==
  ASSUME ParseInv, ParseInv', Counted, Indexed, OfIndices, KeepWords PROVE Indexed'
<1>1. Layout /\ Handed /\ OutSound /\ OutSound' /\ OutRead'  BY DEF ParseInv, Scanned
<1> PICK piece : out' = Append(out, piece)
  BY DEF KeepWords
<1> PICK q : q = out'
  OBVIOUS
<1>2. Advances  BY ChannelsAdvance DEF SplitChannels
<1>3. /\ SameInput /\ at # "store" /\ at' # "store" /\ ~Parsed /\ ~Parsed' /\ x' = x
      /\ idx \in Nat /\ idx' \in Nat /\ idx <= idx' /\ indices' = indices
  BY <1>2 DEF Advances, KeepWords
<1>4. Len(out) \in Nat /\ DOMAIN out = 1..Len(out) /\ \A b \in DOMAIN out : out[b] \in PieceType
  <2>1. out \in Seq(PieceType)  BY <1>1 DEF OutSound
  <2>2. QED  BY <2>1
<1>5. /\ Len(q) = Len(out) + 1 /\ DOMAIN q = 1..(Len(out) + 1) /\ q[Len(out) + 1] = piece
      /\ \A b \in DOMAIN out : b \in DOMAIN q /\ q[b] = out[b]
  BY <1>4 DEF OutSound, PieceType
<1>6. piece \in PieceType /\ piece.block = x /\ idx <= piece.first /\ piece.first + piece.n <= idx'
      /\ piece.n > 0
  <2>1. q \in Seq(PieceType)  BY <1>1 DEF OutSound, PieceType
  <2>2. Len(out) + 1 \in DOMAIN q  BY <1>4, <1>5
  <2>3. piece \in PieceType  BY <1>5, <2>1, <2>2
  <2>4. \/ q[Len(out) + 1].block < x
        \/ /\ q[Len(out) + 1].block = x
           /\ q[Len(out) + 1].first + q[Len(out) + 1].n <= idx' /\ q[Len(out) + 1].n > 0
    BY <1>1, <1>3, <2>2, SameInputFacts DEF OutRead, OfIndices
  <2>5. PICK control, good :
          control \in {0, 1} /\ piece = Piece(idx + control, good, Lowest(todo), header + sample)
    <3>1. CASE mode = "zle"
      <4>1. out' = Append(out, Piece(idx + 1, Here(idx).n, Lowest(todo), header + sample))
        BY <3>1 DEF KeepWords
      <4>2. q[Len(out) + 1] = Piece(idx + 1, Here(idx).n, Lowest(todo), header + sample)
        BY <1>1, <1>4, <4>1 DEF OutSound
      <4>3. QED  BY <1>5, <4>2
    <3>2. CASE mode # "zle"
      <4>1. out' = Append(out, Piece(idx + 0, size, Lowest(todo), header + sample))
        BY <3>2 DEF KeepWords
      <4>2. q[Len(out) + 1] = Piece(idx + 0, size, Lowest(todo), header + sample)
        BY <1>1, <1>4, <4>1 DEF OutSound
      <4>3. QED  BY <1>5, <4>2
    <3>3. QED  BY <3>1, <3>2
  <2>6. piece.block = x /\ piece.first = idx + control  BY <2>5 DEF Piece
  <2>7. x \in Nat  BY <1>1, <1>3, HandedWords
  <2>8. piece.first + piece.n <= idx' /\ piece.n > 0  BY <1>5, <2>4, <2>6, <2>7
  <2>9. idx <= piece.first  BY <1>3, <2>5, <2>6
  <2>10. QED  BY <2>3, <2>6, <2>8, <2>9
<1>7. \A i \in DOMAIN events : Seen(i)' <=> Seen(i)  BY <1>1, <1>2, NoneSeen
<1>8. PICK m \in DOMAIN events : Block(m) = x /\ First(m) + 4 <= idx /\ idx' <= Behind(m)
  <2>1. idx < idx'
    <3>1. piece.first \in Nat /\ piece.n \in Nat  BY <1>6 DEF PieceType
    <3>2. QED  BY <1>3, <1>6, <3>1
  <2>2. QED  BY <1>2, <1>3, <2>1 DEF Advances
<1>9. First(m) \in Nat /\ Behind(m) \in Nat /\ m \in Nat /\ m \in 0..Len(events)
      /\ DOMAIN events = 1..Len(events) /\ Len(events) \in Nat
  BY <1>1, TriggerRange, TriggerType DEF Layout, StoreType
<1>10. \A j \in DOMAIN events : Inside(piece, events[j]) => j = m
  <2> SUFFICES ASSUME NEW j \in DOMAIN events, Inside(piece, events[j]) PROVE j = m
    OBVIOUS
  <2>1. piece.first \in Nat /\ piece.n \in Nat  BY <1>6 DEF PieceType
  <2>2. piece.block = events[m].block /\ events[m].first <= piece.first
        /\ piece.first + piece.n <= events[m].places[8]
    BY SMTT(30), <1>3, <1>6, <1>8, <1>9, <2>1 DEF Block, First, Behind
  <2>3. Inside(piece, events[m])  BY <1>6, <2>1, <2>2 DEF Inside
  <2>4. QED  BY <1>1, <1>6, <2>3, InsideOne
<1>11. \A j \in DOMAIN events : m < j => ~Seen(j)
  <2> SUFFICES ASSUME NEW j \in DOMAIN events, m < j PROVE ~Seen(j)
    OBVIOUS
  <2>1. x < Block(j) \/ (Block(j) = x /\ Behind(m) <= First(j))
    BY <1>1, <1>8, TriggerOrder
  <2>2. Block(j) \in Nat /\ First(j) \in Nat /\ x \in Nat
    BY <1>1, <1>3, TriggerRange, HandedWords
  <2>3. QED  BY <1>3, <1>8, <1>9, <2>1, <2>2 DEF Seen, Passed
<1>12. Len(indices) <= m  BY <1>9, <1>11 DEF Indexed, OfIndices
<1>13. /\ Len(indices) \in Nat /\ DOMAIN indices = 1..Len(indices)
       /\ \A k \in DOMAIN indices : indices[k] \in Nat /\ indices[k] <= Len(out) + 1
  <2>1. indices \in Seq(Nat) /\ \A k \in DOMAIN indices : indices[k] \in 1..(Len(out) + 1)
    BY DEF Counted
  <2>2. Len(indices) \in Nat /\ DOMAIN indices = 1..Len(indices)  BY <2>1
  <2>3. \A k \in DOMAIN indices : indices[k] \in Nat  BY <2>1
  <2>4. \A k \in DOMAIN indices : indices[k] <= Len(out) + 1  BY <1>4, <2>1
  <2>5. QED  BY <2>2, <2>3, <2>4
<1>14. ASSUME NEW i \in DOMAIN events, Prefix(i), Seen(i)
       PROVE  /\ i \in DOMAIN indices
              /\ \A b \in DOMAIN q, j \in DOMAIN events :
                   Inside(q[b], events[j]) => (b < indices[i] <=> j < i)
              /\ \A b \in DOMAIN q, k \in DOMAIN indices :
                   Inside(q[b], events[i]) /\ i < k => b < indices[k]
  <2>1. /\ i \in DOMAIN indices
        /\ \A b \in DOMAIN out, j \in DOMAIN events :
             Inside(out[b], events[j]) => (b < indices[i] <=> j < i)
        /\ \A b \in DOMAIN out, k \in DOMAIN indices :
             Inside(out[b], events[i]) /\ i < k => b < indices[k]
    BY <1>14 DEF Indexed, OfIndices
  <2>2. i <= m /\ i \in Nat  BY <1>9, <1>11, <1>14
  <2>3. ASSUME NEW b \in DOMAIN q, NEW j \in DOMAIN events, Inside(q[b], events[j])
        PROVE  b < indices[i] <=> j < i
    <3>1. CASE b \in DOMAIN out  BY <1>5, <2>1, <2>3, <3>1
    <3>2. CASE b \notin DOMAIN out
      <4>1. b = Len(out) + 1  BY <1>4, <1>5, <3>2
      <4>2. ~(b < indices[i])  BY <1>4, <1>13, <2>1, <4>1
      <4>3. j = m  BY <1>5, <1>10, <2>3, <4>1
      <4>4. ~(j < i)  BY <1>9, <2>2, <4>3
      <4>5. QED  BY <4>2, <4>4
    <3>3. QED  BY <3>1, <3>2
  <2>4. ASSUME NEW b \in DOMAIN q, NEW k \in DOMAIN indices, Inside(q[b], events[i]), i < k
        PROVE  b < indices[k]
    <3>1. CASE b \in DOMAIN out  BY <1>5, <2>1, <2>4, <3>1
    <3>2. CASE b \notin DOMAIN out
      <4>1. b = Len(out) + 1  BY <1>4, <1>5, <3>2
      <4>2. i = m  BY <1>5, <1>10, <2>4, <4>1
      <4>3. k <= m  BY <1>9, <1>12, <1>13
      <4>4. QED  BY <1>9, <1>13, <2>4, <4>2, <4>3
    <3>3. QED  BY <3>1, <3>2
  <2>5. QED  BY <2>1, <2>3, <2>4
<1>15. \A i \in 0..Len(events) : (\A j \in DOMAIN events : i < j => ~Seen(j)) => Len(indices) <= i
  BY DEF Indexed, OfIndices
<1>16. QED
  <2>1. \A i : Prefix(i)' <=> Prefix(i)
    BY SameInputFacts, <1>3 DEF Prefix, HasPieces, ExpectedOf
  <2>2. QED  BY <1>3, <1>7, <1>14, <1>15, <2>1, SameInputFacts DEF Indexed, Inside

LEMMA IndexedStep == ParseInv /\ ParseInv' /\ Counted /\ Indexed /\ [Next]_vars => Indexed'
<1> SUFFICES ASSUME ParseInv, ParseInv', Counted, Indexed, [Next]_vars PROVE Indexed'
  OBVIOUS
<1>1. Layout /\ Fresh  BY DEF ParseInv
<1>2. CASE ~OfIndices /\ mode' = mode  BY <1>2 DEF OfIndices, Indexed
<1>3. CASE Store  BY <1>3, StoreIndexed
<1>4. CASE OfIndices /\ ~Store
  <2>1. CASE BlockEnds \/ SkipWord \/ EventHeader \/ KeepWords
    BY <1>4, <2>1, BlockEndsIndexed, SkipWordIndexed, EventHeaderIndexed, KeepWordsIndexed
  <2>2. CASE EventDone \/ BeginChannel \/ SkipSamples \/ ChannelDone
    <3>1. Advances  BY <1>4, <2>2, ChannelsAdvance DEF SplitChannels
    <3>2. SameInput /\ out' = out /\ indices' = indices
      BY <2>2 DEF EventDone, BeginChannel, SkipSamples, ChannelDone, SameInput
    <3>3. QED  BY <1>1, <3>1, <3>2, NoneSeen, IndexedKept
  <2>3. CASE WritePiece \/ BulkDone \/ UNCHANGED vars
    <3>1. /\ SameInput /\ out' = out /\ indices' = indices /\ x' = x /\ idx' = idx
          /\ at' = at \/ (at = "write" /\ at' = "done")
      BY <2>3 DEF WritePiece, BulkDone, vars, scanVars, SameInput
    <3>2. \A i : Seen(i)' <=> Seen(i)
      BY <3>1, SameInputFacts DEF Seen, Passed, Parsed
    <3>3. QED  BY <1>1, <3>1, <3>2, IndexedKept
  <2>4. ~Trigger /\ ~KeepChannel /\ ~DropChannel /\ ~Abort
    BY <1>4 DEF OfIndices, Trigger, KeepChannel, DropChannel, Abort
  <2>5. QED  BY <1>4, <2>1, <2>2, <2>3, <2>4 DEF Next, Scan, SplitChannels, SplitChannelsNewFW
<1>5. QED
  <2>1. ~Store => mode' = mode
    BY DEF Next, Scan, BlockEnds, SkipWord, Trigger, EventHeader, EventDone, SplitChannels,
           BeginChannel, SkipSamples, KeepWords, ChannelDone, SplitChannelsNewFW, KeepChannel,
           DropChannel, Abort, WritePiece, BulkDone, inputVars, vars
  <2>2. QED  BY <1>2, <1>3, <1>4, <2>1

-----------------------------------------------------------------------------
(* The file.                                                               *)

\* What Indexed says of the triggers when all words were read.
LEMMA TriggerIndex ==
  ASSUME ParseInv, Indexed, Parsed, OfIndices, NEW i \in DOMAIN events, Prefix(i)
  PROVE  /\ i \in DOMAIN indices
         /\ \A b \in DOMAIN out, j \in DOMAIN events :
              Inside(out[b], events[j]) => (b < indices[i] <=> j < i)
         /\ \A b \in DOMAIN out, k \in DOMAIN indices :
              Inside(out[b], events[i]) /\ i < k => b < indices[k]
<1>1. Layout /\ Handed  BY DEF ParseInv
<1>2. x = Len(blocks) /\ at # "store"  BY <1>1 DEF Handed, Parsed
<1>3. Block(i) \in DOMAIN blocks  BY <1>1, TriggerRange
<1>4. Block(i) <= Len(blocks) /\ Block(i) \in Nat /\ Len(blocks) \in Nat
  BY <1>1, <1>3, EndType DEF Layout
<1>5. Seen(i)  BY <1>2, <1>4 DEF Seen, Passed
<1>6. QED  BY <1>5 DEF Indexed, OfIndices

\* A trigger with pieces has one in the bulk.
LEMMA PieceExists ==
  ASSUME ParseInv, Parsed, OfIndices, NEW i \in DOMAIN events, HasPieces(i)
  PROVE  \E b \in DOMAIN out : Inside(out[b], events[i])
<1>1. mode # "blocks" /\ ~Spoilt(i)  BY DEF OfIndices, Spoilt, Astray, Damaged
<1>2. {out[b] : b \in {k \in DOMAIN out : Inside(out[k], events[i])}} = ExpectedOf(i)
  BY <1>1, TriggerPieces
<1>3. QED  BY <1>2 DEF HasPieces

\* The indices of triggers with pieces differ.
LEMMA IndicesRise ==
  ASSUME ParseInv, Counted, Indexed, Parsed, OfIndices, NEW i \in DOMAIN events, Prefix(i),
         NEW k \in DOMAIN events, k < i
  PROVE  k \in DOMAIN indices /\ i \in DOMAIN indices /\ indices[k] < indices[i]
<1>1. Layout  BY DEF ParseInv
<1>2. i \in Nat /\ k \in Nat /\ \A j \in DOMAIN events : j \in Nat
  BY <1>1, TriggerType DEF Layout
<1>3. Prefix(k) /\ HasPieces(k)  BY <1>2 DEF Prefix
<1>4. PICK b \in DOMAIN out : Inside(out[b], events[k])  BY <1>3, PieceExists
<1>5. i \in DOMAIN indices /\ b < indices[i]  BY <1>4, TriggerIndex
<1>6. k \in DOMAIN indices /\ ~(b < indices[k])  BY <1>2, <1>3, <1>4, TriggerIndex
<1>7. indices[i] \in Nat /\ indices[k] \in Nat  BY <1>5, <1>6 DEF Counted
<1>8. b \in Nat  BY DEF ParseInv, Scanned, OutSound
<1>9. QED  BY <1>5, <1>6, <1>7, <1>8

Unwritten == Counted /\ current = 1 /\ written = 0 /\ file = <<>>

LEMMA GroupedBlank == Unwritten => Grouped
<1> SUFFICES ASSUME Unwritten PROVE Grouped
  OBVIOUS
<1>1. \A k \in DOMAIN indices : ~(indices[k] <= 0)
  <2>1. \A k \in DOMAIN indices : indices[k] \in Nat /\ indices[k] >= 1
    <3>1. indices \in Seq(Nat) /\ \A k \in DOMAIN indices : indices[k] \in 1..(Len(out) + 1)
      BY DEF Unwritten, Counted
    <3>2. QED  BY <3>1
  <2>2. QED  BY <2>1
<1>2. QED  BY <1>1 DEF Grouped, Unwritten

\* The next piece is of the event that begins with it, or of the last one of the file.
LEMMA WritePieceGrouped ==
  ASSUME ParseInv, Counted, Indexed, Grouped, OfIndices, WritePiece PROVE Grouped'
<1>1. Layout  BY DEF ParseInv
<1> PICK b : b = written + 1
  OBVIOUS
<1>2. /\ Parsed /\ SameInput /\ out' = out /\ indices' = indices
      /\ written < Len(out) /\ written' = b
      /\ IF current <= Len(indices) /\ indices[current] = b
         THEN file' = Append(file, <<b>>) /\ current' = current + 1
         ELSE file' = [file EXCEPT ![Len(file)] = Append(@, b)] /\ current' = current
  BY DEF WritePiece, BeginsEvent, OfIndices, Parsed, SameInput, scanVars
<1>3. /\ current = Len(file) + 1
      /\ \A k \in 1..(current - 1) : k \in DOMAIN indices /\ indices[k] <= written
      /\ \A i \in DOMAIN events :
           Prefix(i) /\ i \in DOMAIN indices /\ indices[i] <= written => i < current
      /\ \A k \in DOMAIN file : \A j \in DOMAIN file[k] :
           /\ file[k][j] \in 1..written
           /\ \A i \in DOMAIN events : Prefix(i) /\ Inside(out[file[k][j]], events[i]) => k = i
      /\ \A d \in 1..written :
           (\E i \in DOMAIN events : Prefix(i) /\ Inside(out[d], events[i])) =>
             \E k \in DOMAIN file : \E j \in DOMAIN file[k] : file[k][j] = d
  BY DEF Grouped, OfIndices
<1>4. /\ indices \in Seq(Nat) /\ file \in Seq(Seq(Nat))
      /\ \A k \in DOMAIN indices : indices[k] \in 1..(Len(out) + 1)
      /\ written \in 0..Len(out) /\ current \in 1..(written + 1)
  BY DEF Counted
<1>5. /\ Len(out) \in Nat /\ DOMAIN out = 1..Len(out)
      /\ Len(events) \in Nat /\ DOMAIN events = 1..Len(events)
  <2>1. out \in Seq(PieceType) /\ events \in Seq(TriggerRec)
    BY DEF ParseInv, Scanned, OutSound, Layout, StoreType
  <2>2. QED  BY <2>1
<1>6. /\ DOMAIN indices = 1..Len(indices) /\ Len(indices) \in Nat
      /\ \A k \in DOMAIN indices : indices[k] \in Nat
      /\ DOMAIN file = 1..Len(file) /\ Len(file) \in Nat
      /\ \A k \in DOMAIN file : /\ DOMAIN file[k] = 1..Len(file[k]) /\ Len(file[k]) \in Nat
                                /\ file[k] \in Seq(Nat)
      /\ written \in Nat /\ current \in Nat /\ b \in Nat /\ b \in DOMAIN out /\ b \in 1..b
  <2>1. DOMAIN indices = 1..Len(indices) /\ Len(indices) \in Nat
        /\ \A k \in DOMAIN indices : indices[k] \in Nat
    BY <1>4
  <2>2. DOMAIN file = 1..Len(file) /\ Len(file) \in Nat  BY <1>4
  <2>3. \A k \in DOMAIN file : file[k] \in Seq(Nat)  BY <1>4
  <2>4. \A k \in DOMAIN file : DOMAIN file[k] = 1..Len(file[k]) /\ Len(file[k]) \in Nat  BY <2>3
  <2>5. written \in Nat /\ current \in Nat /\ b \in Nat /\ b \in DOMAIN out /\ b \in 1..b
    BY <1>2, <1>4, <1>5
  <2>6. QED  BY <2>1, <2>2, <2>3, <2>4, <2>5
\* The piece comes with the index of its trigger or behind it.
<1>7. ASSUME NEW i \in DOMAIN events, Prefix(i), Inside(out[b], events[i])
      PROVE  i \in DOMAIN indices /\ indices[i] <= b /\ \A k \in DOMAIN indices : i < k => b < indices[k]
  <2>1. i \in DOMAIN indices /\ (b < indices[i] <=> i < i)
        /\ \A k \in DOMAIN indices : i < k => b < indices[k]
    BY <1>2, <1>6, <1>7, TriggerIndex
  <2>2. i \in Nat  BY <1>5
  <2>3. QED  BY <1>6, <2>1, <2>2
<1>8. \A i : Prefix(i)' <=> Prefix(i)
  BY SameInputFacts, <1>2 DEF Prefix, HasPieces, ExpectedOf
<1> PICK f, g : f = file' /\ g = current'
  OBVIOUS
\* The five parts of Grouped, of the new file.
<1>9. SUFFICES
        /\ g = Len(f) + 1
        /\ \A k \in 1..(g - 1) : k \in DOMAIN indices /\ indices[k] <= b
        /\ \A i \in DOMAIN events : Prefix(i) /\ i \in DOMAIN indices /\ indices[i] <= b => i < g
        /\ \A k \in DOMAIN f : \A j \in DOMAIN f[k] :
             /\ f[k][j] \in 1..b
             /\ \A i \in DOMAIN events : Prefix(i) /\ Inside(out[f[k][j]], events[i]) => k = i
        /\ \A d \in 1..b :
             (\E i \in DOMAIN events : Prefix(i) /\ Inside(out[d], events[i])) =>
               \E k \in DOMAIN f : \E j \in DOMAIN f[k] : f[k][j] = d
  BY <1>2, <1>8, SameInputFacts DEF Grouped, Inside
<1>10. CASE current <= Len(indices) /\ indices[current] = b
  <2>1. /\ Len(f) = Len(file) + 1 /\ g = current + 1 /\ DOMAIN f = 1..(Len(file) + 1)
        /\ \A k \in DOMAIN file : k \in DOMAIN f /\ f[k] = file[k]
        /\ f[Len(file) + 1] = <<b>>
    BY <1>2, <1>4, <1>6, <1>10
  <2>2. current \in DOMAIN indices /\ g - 1 = current /\ current = Len(file) + 1
    BY <1>3, <1>4, <1>6, <1>10, <2>1
  <2>3. \A k \in 1..(g - 1) : k \in DOMAIN indices /\ indices[k] <= b
    <3> SUFFICES ASSUME NEW k \in 1..(g - 1) PROVE k \in DOMAIN indices /\ indices[k] <= b
      OBVIOUS
    <3>1. CASE k = current  BY <1>6, <1>10, <2>2, <3>1
    <3>2. CASE k # current
      <4>1. k \in 1..(current - 1)  BY <1>6, <2>2, <3>2
      <4>2. k \in DOMAIN indices /\ indices[k] <= written  BY <1>3, <4>1
      <4>3. QED  BY <1>6, <4>2
    <3>3. QED  BY <3>1, <3>2
  <2>4. ASSUME NEW i \in DOMAIN events, Prefix(i), i \in DOMAIN indices, indices[i] <= b
        PROVE  i <= current
    <3>1. i \in Nat /\ indices[i] \in Nat  BY <1>5, <1>6, <2>4
    <3>2. CASE indices[i] <= written  BY <1>3, <1>6, <2>4, <3>1, <3>2
    <3>3. CASE indices[i] = b
      <4> SUFFICES ASSUME current < i PROVE FALSE
        BY <1>6, <3>1
      <4>1. current \in DOMAIN events  BY <1>4, <1>5, <1>6, <3>1
      <4>2. indices[current] < indices[i]  BY <1>2, <2>4, <4>1, IndicesRise
      <4>3. QED  BY <1>6, <1>10, <3>3, <4>2
    <3>4. QED  BY <1>6, <2>4, <3>1, <3>2, <3>3
  <2>5. \A i \in DOMAIN events : Prefix(i) /\ i \in DOMAIN indices /\ indices[i] <= b => i < g
    BY <1>5, <1>6, <2>1, <2>4
  <2>6. ASSUME NEW i \in DOMAIN events, Prefix(i), Inside(out[b], events[i]) PROVE i = current
    <3>1. i \in DOMAIN indices /\ indices[i] <= b /\ (i < current => b < indices[current])
      BY <1>7, <2>2, <2>6
    <3>2. i <= current  BY <2>4, <2>6, <3>1
    <3>3. i \in Nat  BY <1>5
    <3>4. QED  BY <1>6, <1>10, <3>1, <3>2, <3>3
  <2>7. ASSUME NEW k \in DOMAIN f, NEW j \in DOMAIN f[k]
        PROVE  /\ f[k][j] \in 1..b
               /\ \A i \in DOMAIN events : Prefix(i) /\ Inside(out[f[k][j]], events[i]) => k = i
    <3>1. CASE k \in DOMAIN file
      <4>1. /\ file[k][j] \in 1..written
            /\ \A i \in DOMAIN events : Prefix(i) /\ Inside(out[file[k][j]], events[i]) => k = i
        BY <1>3, <2>1, <2>7, <3>1
      <4>2. f[k][j] = file[k][j]  BY <2>1, <3>1
      <4>3. f[k][j] \in 1..b  BY <1>6, <4>1, <4>2
      <4>4. QED  BY <4>1, <4>2, <4>3
    <3>2. CASE k \notin DOMAIN file
      <4>1. k = Len(file) + 1  BY <1>6, <2>1, <3>2
      <4>2. f[k] = <<b>> /\ k = current  BY <2>1, <2>2, <4>1
      <4>3. f[k][j] = b  BY <2>7, <4>2
      <4>4. QED  BY <1>6, <2>6, <4>2, <4>3
    <3>3. QED  BY <3>1, <3>2
  <2>8. ASSUME NEW d \in 1..b, \E i \in DOMAIN events : Prefix(i) /\ Inside(out[d], events[i])
        PROVE  \E k \in DOMAIN f : \E j \in DOMAIN f[k] : f[k][j] = d
    <3>1. CASE d = b
      <4>1. 1 \in DOMAIN <<b>> /\ <<b>>[1] = b  OBVIOUS
      <4>2. Len(file) + 1 \in DOMAIN f  BY <1>6, <2>1
      <4>3. QED  BY <2>1, <3>1, <4>1, <4>2
    <3>2. CASE d # b
      <4>1. d \in 1..written  BY <1>6, <3>2
      <4>2. PICK k \in DOMAIN file : \E j \in DOMAIN file[k] : file[k][j] = d  BY <1>3, <2>8, <4>1
      <4>3. QED  BY <2>1, <4>2
    <3>3. QED  BY <3>1, <3>2
  <2>9. QED  BY <2>1, <2>2, <2>3, <2>5, <2>7, <2>8
<1>11. CASE ~(current <= Len(indices) /\ indices[current] = b)
  <2>1. f = [file EXCEPT ![Len(file)] = Append(file[Len(file)], b)] /\ g = current
    BY <1>2, <1>11
  <2>2. /\ Len(f) = Len(file) /\ DOMAIN f = DOMAIN file
        /\ \A k \in DOMAIN file : k # Len(file) => f[k] = file[k]
        /\ Len(file) \in DOMAIN file => f[Len(file)] = Append(file[Len(file)], b)
    BY <1>4, <1>6, <2>1
  <2>3. \A k \in 1..(g - 1) : k \in DOMAIN indices /\ indices[k] <= b
    <3> SUFFICES ASSUME NEW k \in 1..(current - 1) PROVE k \in DOMAIN indices /\ indices[k] <= b
      BY <2>1
    <3>1. k \in DOMAIN indices /\ indices[k] <= written  BY <1>3
    <3>2. QED  BY <1>6, <3>1
  <2>4. ASSUME NEW i \in DOMAIN events, Prefix(i), i \in DOMAIN indices, indices[i] <= b
        PROVE  i < current
    <3>1. i \in Nat /\ indices[i] \in Nat  BY <1>5, <1>6, <2>4
    <3>2. CASE indices[i] <= written  BY <1>3, <2>4, <3>2
    <3>3. CASE indices[i] = b
      <4> SUFFICES ASSUME current <= i PROVE FALSE
        BY <1>6, <3>1
      <4>1. current \in DOMAIN events /\ current \in DOMAIN indices
        BY <1>4, <1>5, <1>6, <2>4, <3>1
      <4>2. i # current  BY <1>6, <1>11, <3>3, <4>1
      <4>3. current < i  BY <1>6, <3>1, <4>2
      <4>4. indices[current] < indices[i]  BY <1>2, <2>4, <4>1, <4>3, IndicesRise
      <4>5. indices[current] <= written /\ indices[current] \in Nat  BY <1>6, <3>3, <4>1, <4>4
      <4>6. Prefix(current)  BY <1>6, <2>4, <3>1, <4>3, <1>5 DEF Prefix
      <4>7. current < current  BY <1>3, <4>1, <4>5, <4>6
      <4>8. QED  BY <1>6, <4>7
    <3>4. QED  BY <1>6, <2>4, <3>1, <3>2, <3>3
  <2>5. ASSUME NEW i \in DOMAIN events, Prefix(i), Inside(out[b], events[i])
        PROVE  i = Len(file) /\ Len(file) \in DOMAIN file
    <3>1. i \in DOMAIN indices /\ indices[i] <= b /\ \A k \in DOMAIN indices : i < k => b < indices[k]
      BY <1>7, <2>5
    <3>2. i < current  BY <2>4, <2>5, <3>1
    <3>3. i \in Nat /\ 1 <= i  BY <1>5
    <3>4. i <= Len(file) /\ Len(file) = current - 1 /\ Len(file) \in DOMAIN file
      BY <1>3, <1>6, <3>2, <3>3
    <3>5. ASSUME i < Len(file) PROVE FALSE
      <4>1. Len(file) \in 1..(current - 1)  BY <1>6, <3>3, <3>4
      <4>2. Len(file) \in DOMAIN indices /\ indices[Len(file)] <= written  BY <1>3, <4>1
      <4>3. b < indices[Len(file)]  BY <3>1, <3>5, <4>2
      <4>4. indices[Len(file)] \in Nat  BY <1>6, <4>2
      <4>5. QED  BY <1>6, <4>2, <4>3, <4>4
    <3>6. QED  BY <1>6, <3>3, <3>4, <3>5
  <2>6. \A k \in DOMAIN file : \A j \in DOMAIN file[k] : j \in DOMAIN f[k] /\ f[k][j] = file[k][j]
    <3> SUFFICES ASSUME NEW k \in DOMAIN file, NEW j \in DOMAIN file[k]
                 PROVE  j \in DOMAIN f[k] /\ f[k][j] = file[k][j]
      OBVIOUS
    <3>1. CASE k = Len(file)
      <4>1. f[k] = Append(file[k], b) /\ file[k] \in Seq(Nat)  BY <1>6, <2>2, <3>1
      <4>2. QED  BY <4>1
    <3>2. CASE k # Len(file)  BY <2>2, <3>2
    <3>3. QED  BY <3>1, <3>2
  <2>7. ASSUME NEW k \in DOMAIN f, NEW j \in DOMAIN f[k]
        PROVE  /\ f[k][j] \in 1..b
               /\ \A i \in DOMAIN events : Prefix(i) /\ Inside(out[f[k][j]], events[i]) => k = i
    <3>1. k \in DOMAIN file  BY <2>2
    <3>2. CASE j \in DOMAIN file[k]
      <4>1. /\ file[k][j] \in 1..written
            /\ \A i \in DOMAIN events : Prefix(i) /\ Inside(out[file[k][j]], events[i]) => k = i
        BY <1>3, <3>1, <3>2
      <4>2. f[k][j] = file[k][j]  BY <2>6, <3>1, <3>2
      <4>3. f[k][j] \in 1..b  BY <1>6, <4>1, <4>2
      <4>4. QED  BY <4>1, <4>2, <4>3
    <3>3. CASE j \notin DOMAIN file[k]
      <4>1. k = Len(file)  BY <2>2, <2>7, <3>1, <3>3
      <4>2. f[k] = Append(file[k], b) /\ file[k] \in Seq(Nat)  BY <1>6, <2>2, <3>1, <4>1
      <4>3. j = Len(file[k]) + 1  BY <2>7, <3>3, <4>2
      <4>4. f[k][j] = b  BY <4>2, <4>3
      <4>5. QED  BY <1>6, <2>5, <4>1, <4>4
    <3>4. QED  BY <3>2, <3>3
  <2>8. ASSUME NEW d \in 1..b, \E i \in DOMAIN events : Prefix(i) /\ Inside(out[d], events[i])
        PROVE  \E k \in DOMAIN f : \E j \in DOMAIN f[k] : f[k][j] = d
    <3>1. CASE d = b
      <4>1. PICK k : k = Len(file)  OBVIOUS
      <4>2. k \in DOMAIN file  BY <2>5, <2>8, <3>1, <4>1
      <4>3. f[k] = Append(file[k], b) /\ file[k] \in Seq(Nat)  BY <1>6, <2>2, <4>1, <4>2
      <4>4. Len(file[k]) + 1 \in DOMAIN f[k] /\ f[k][Len(file[k]) + 1] = b  BY <4>3
      <4>5. QED  BY <2>2, <3>1, <4>2, <4>4
    <3>2. CASE d # b
      <4>1. d \in 1..written  BY <1>6, <3>2
      <4>2. PICK k \in DOMAIN file : \E j \in DOMAIN file[k] : file[k][j] = d  BY <1>3, <2>8, <4>1
      <4>3. QED  BY <2>2, <2>6, <4>2
    <3>3. QED  BY <3>1, <3>2
  <2>9. QED  BY <1>3, <2>1, <2>2, <2>3, <2>4, <2>7, <2>8
<1>12. QED  BY <1>10, <1>11

LEMMA GroupedStep ==
  ParseInv /\ ParseInv' /\ FileInv /\ Counted' /\ [Next]_vars => Grouped'
<1> SUFFICES ASSUME ParseInv, ParseInv', Counted, Indexed, Grouped, Counted', [Next]_vars
             PROVE  Grouped'
  BY DEF FileInv
<1>1. CASE ~Parsed /\ ~WritePiece
  <2>1. current = 1 /\ written = 0 /\ file = <<>>  BY <1>1 DEF Counted
  <2>2. UNCHANGED fileVars
    BY <1>1 DEF Next, Store, StoreTrigger, StoreChannel, StoreSize, StoreSegment, StoreGap, NextBlock,
         HandOver, Scan, BlockEnds, SkipWord, Trigger, EventHeader, EventDone, SplitChannels,
         BeginChannel, SkipSamples, KeepWords, ChannelDone, SplitChannelsNewFW, KeepChannel,
         DropChannel, Abort, BulkDone, vars
  <2>3. Unwritten'  BY <2>1, <2>2 DEF Unwritten, fileVars
  <2>4. QED  BY <2>3, GroupedBlank, PTL
<1>2. CASE WritePiece
  <2>1. mode' = mode  BY <1>2 DEF WritePiece, inputVars
  <2>2. CASE OfIndices  BY <1>2, <2>2, WritePieceGrouped
  <2>3. CASE ~OfIndices  BY <2>1, <2>3 DEF OfIndices, Grouped
  <2>4. QED  BY <2>2, <2>3
<1>3. CASE Parsed /\ ~WritePiece
  <2>1. BulkDone \/ UNCHANGED vars
    BY <1>3 DEF Parsed, Next, Store, StoreTrigger, StoreChannel, StoreSize, StoreSegment, StoreGap,
         NextBlock, HandOver, Extend, Scan, BlockEnds, SkipWord, Trigger, EventHeader, EventDone,
         SplitChannels, BeginChannel, SkipSamples, KeepWords, ChannelDone, SplitChannelsNewFW,
         KeepChannel, DropChannel, Abort
  <2>2. SameInput /\ out' = out /\ indices' = indices /\ UNCHANGED <<current, written, file>>
    BY <2>1 DEF BulkDone, vars, scanVars, fileVars, SameInput
  <2>3. \A i : Prefix(i)' <=> Prefix(i)
    BY SameInputFacts, <2>2 DEF Prefix, HasPieces, ExpectedOf
  <2>4. QED  BY <2>2, <2>3, SameInputFacts DEF Grouped, Inside
<1>4. QED  BY <1>1, <1>2, <1>3

-----------------------------------------------------------------------------
(* The theorems.                                                           *)

LEMMA InitFileInv == Init => FileInv
<1> SUFFICES ASSUME Init PROVE FileInv
  OBVIOUS
<1>1. Counted
  <2>1. <<>> \in Seq(Nat) /\ <<>> \in Seq(Seq(Nat)) /\ Len(<<>>) = 0  OBVIOUS
  <2>2. QED  BY <2>1 DEF Init, Counted, Parsed
<1>2. Indexed  BY DEF Init, Indexed, Seen
<1>3. Grouped  BY <1>1, GroupedBlank DEF Init, Unwritten
<1>4. QED  BY <1>1, <1>2, <1>3 DEF FileInv

LEMMA FileInvStep == ParseInv /\ ParseInv' /\ FileInv /\ [Next]_vars => FileInv'
  BY CountedStep, IndexedStep, GroupedStep DEF FileInv

LEMMA TypesOK == ParseInv /\ FileInv => TypeOK
<1> SUFFICES ASSUME ParseInv, FileInv PROVE TypeOK
  OBVIOUS
<1>1. Layout /\ Fresh /\ Handed /\ OutSound /\ Counted  BY DEF ParseInv, Scanned, FileInv
<1>2. mode \in Modes  BY <1>1 DEF Layout, StoreType
<1>3. /\ at = "store" => idx = 0
      /\ at # "store" => x \in DOMAIN buffvec /\ idx \in Nat
                           /\ (idx <= Len(buffvec[x]) \/ Astray(x, idx))
      /\ todo \subseteq Channels /\ {header, size, word, sample} \subseteq Nat
  <2>1. CASE at = "store"  BY <1>1, <2>1 DEF Fresh
  <2>2. CASE at # "store"
    <3>1. /\ DOMAIN buffvec = DOMAIN blocks /\ x \in DOMAIN blocks /\ Len(buffvec[x]) = blocks[x]
          /\ idx \in Nat /\ (idx <= blocks[x] \/ Gone)
      BY <1>1, <2>2, HandedWords
    <3>2. QED  BY <1>1, <2>2, <3>1 DEF Handed, Gone
  <2>3. QED  BY <2>1, <2>2
<1>4. ASSUME NEW b \in DOMAIN out
      PROVE  /\ out[b].block \in DOMAIN buffvec /\ out[b].channel \in 0..7
             /\ {out[b].first, out[b].n} \subseteq Nat
             /\ \/ out[b].first + out[b].n <= Len(buffvec[out[b].block])
                \/ /\ Astray(out[b].block, out[b].first)
                   /\ out[b].first + out[b].n < 4 * Len(buffvec[out[b].block])
  <2>1. at # "store"  BY <1>1, <1>4 DEF Fresh
  <2>2. out[b] \in PieceType  BY <1>1 DEF OutSound
  <2>3. out[b].channel \in 0..7 /\ out[b].first \in Nat /\ out[b].n \in Nat
    BY <2>2 DEF PieceType
  <2>4. DOMAIN buffvec = DOMAIN blocks /\ \A t \in DOMAIN blocks : Len(buffvec[t]) = blocks[t]
    BY <1>1, <2>1, HandedWords
  <2>5. CASE Wild(out[b])  BY <2>3, <2>4, <2>5 DEF Wild
  <2>6. CASE \E i \in DOMAIN events : Sound(out[b], i)
    <3>1. PICK i \in DOMAIN events : Inside(out[b], events[i])  BY <2>6 DEF Sound
    <3>2. out[b].block = Block(i) /\ out[b].first + out[b].n <= Behind(i)
      BY <3>1 DEF Inside, Block, Behind
    <3>3. /\ Block(i) \in DOMAIN blocks /\ Behind(i) <= blocks[Block(i)] /\ Behind(i) \in Nat
          /\ blocks[Block(i)] \in Nat
      BY <1>1, TriggerRange, EndType DEF Layout
    <3>4. QED  BY <2>3, <2>4, <3>2, <3>3
  <2>7. QED  BY <1>1, <2>5, <2>6 DEF OutSound, Right
<1>5. QED  BY <1>1, <1>2, <1>3, <1>4 DEF TypeOK, Counted

LEMMA FilesOK == ParseInv /\ FileInv => FileEvents
<1> SUFFICES ASSUME ParseInv, FileInv, at = "done", OfIndices,
                    NEW i \in DOMAIN events, \A j \in DOMAIN events : j <= i => HasPieces(j)
             PROVE  FileOf(i) = {i}
  BY DEF FileEvents, OfIndices
<1>1. Layout /\ Counted /\ Grouped /\ Parsed  BY DEF ParseInv, FileInv, Parsed
<1>2. Prefix(i)  BY DEF Prefix
<1>3. i <= i  BY <1>1, TriggerType DEF Layout
<1>4. PICK b \in DOMAIN out : Inside(out[b], events[i])  BY <1>1, <1>3, PieceExists
<1>5. b \in 1..written
  <2>1. out \in Seq(PieceType)  BY DEF ParseInv, Scanned, OutSound
  <2>2. written = Len(out)  BY <1>1 DEF Counted
  <2>3. QED  BY <2>1, <2>2
<1>6. PICK k \in DOMAIN file : \E j \in DOMAIN file[k] : file[k][j] = b
  BY <1>1, <1>2, <1>4, <1>5 DEF Grouped, OfIndices
<1>7. \A n \in FileOf(i) : n = i  BY <1>1, <1>2 DEF Grouped, OfIndices, FileOf
<1>8. k \in FileOf(i)  BY <1>4, <1>6 DEF FileOf
<1>9. QED  BY <1>7, <1>8

LEMMA Invariant == Spec => [](ParseInv /\ FileInv)
<1>1. Init => ParseInv /\ FileInv  BY InitParseInv, InitFileInv
<1>2. ParseInv /\ FileInv /\ [Next]_vars => (ParseInv /\ FileInv)'
  BY ParseInvStep, FileInvStep
<1>3. QED  BY <1>1, <1>2, PTL DEF Spec

\* No parser reads past the end of a block, and no piece reaches beyond one, as long as the
\* parser has met no damaged trigger in the block.  Behind one, what DataProcessor.cc:322 lets
\* through is copied from no further than four times the length of the block.
THEOREM StaysInBlocks == Spec => []TypeOK
<1>1. ParseInv /\ FileInv => TypeOK  BY TypesOK
<1>2. QED  BY <1>1, Invariant, PTL

\* Every piece that a parser hands to the recorder has words of one trigger and no others, but
\* for those that begin behind the header of a damaged trigger of the same block: whatever size
\* a channel gives, it costs nothing before its own trigger and nothing in other blocks.
THEOREM PiecesStayInside == Spec => []PiecesInsideTriggers
<1>1. ParseInv => PiecesInsideTriggers  BY InsidePieces
<1>2. QED  BY <1>1, Invariant, PTL

\* SplitChannels and SplitChannelsNewFW find every channel and every good segment of every trigger
\* that is stored before the first damaged one of its block, with its channel and its time, once
\* and in order.
THEOREM NothingIsLost == Spec => []PiecesComplete
<1>1. ParseInv => PiecesComplete  BY CompletePieces
<1>2. QED  BY <1>1, Invariant, PTL

\* The events that Process builds from eventIndices are the triggers, up to the first one that
\* has no pieces.
THEOREM TriggersAreEvents == Spec => []FileEvents
<1>1. ParseInv /\ FileInv => FileEvents  BY FilesOK
<1>2. QED  BY <1>1, Invariant, PTL
==============================================================================
