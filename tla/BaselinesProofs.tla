---------------------------- MODULE BaselinesProofs ----------------------------
(***************************************************************************)
(* Proofs about Baselines for any number of channels, any offsets and      *)
(* noise, and any limits of rounds and tries.  The inductive invariant     *)
(* says what a number of near readings is worth for the value that is      *)
(* going to be written: the readings are of the DAC register, which a      *)
(* failing LoadDAC leaves behind the values of the determination.          *)
(***************************************************************************)
EXTENDS Baselines, TLAPS

\* The DAC value v brings channel c near its level, for some reading.
LevelAt(c, v) == \E n \in Noise : Near(offset[c] - (v - Start) + n)

\* A register that differs from its value differs because of a failure since the last reading
\* that was not near, and every near reading since has cost another one.  Without noise such a
\* register is never near.
RoundInv ==
  bl = "rounds" => \A c \in Channels :
    /\ dac[c] = values[c] \/ faults > finished[c]
    /\ finished[c] # 0 => LevelAt(c, values[c]) \/ (faults >= finished[c] /\ Noise # {0})
    /\ Noise = {0} => dac[c] = values[c] \/ ~Near(Distance(c))

GoodInv == good # <<>> => \A c \in Channels : LevelAt(c, good[c])

LoadInv ==
  /\ bl \in {"determine", "rounds", "finish"} => ~loaded
  /\ bl = "armed" /\ loaded => dac = file

LevelInv == RoundInv /\ GoodInv /\ LoadInv

-----------------------------------------------------------------------------
(* The types.                                                              *)

LEMMA DacRange ==
  /\ Dac \subseteq Int /\ MaxDac \in Nat
  /\ \A w \in Int : 0 <= w /\ w <= MaxDac => w \in Dac
<1>1. MaxDac \in Nat  BY DEF MaxDac
<1>2. QED  BY <1>1 DEF Dac

LEMMA StepType ==
  ASSUME NEW v \in Dac, NEW d \in Int PROVE Stepped(v, d) \in Dac
<1>1. Abs(d) \in Nat  BY DEF Abs
<1>2. StepSize(d) \in Int
  <2>1. Abs(d) \div 4 \in Int  BY <1>1
  <2>2. QED  BY <2>1 DEF StepSize
<1>3. \A w \in Int : Clamp(w) \in Dac
  <2> SUFFICES ASSUME NEW w \in Int PROVE Clamp(w) \in Dac
    OBVIOUS
  <2>1. CASE w < 0  BY <2>1, DacRange DEF Clamp
  <2>2. CASE w > MaxDac  BY <2>2, DacRange DEF Clamp
  <2>3. CASE 0 <= w /\ w <= MaxDac
    <3>1. Clamp(w) = w  BY <2>3, DacRange DEF Clamp
    <3>2. QED  BY <2>3, <3>1, DacRange
  <2>4. QED  BY <2>1, <2>2, <2>3, DacRange
<1>4. v - StepSize(d) \in Int /\ v + StepSize(d) \in Int  BY <1>2, DacRange
<1>5. QED  BY <1>3, <1>4 DEF Stepped

LEMMA DistanceType ==
  ASSUME TypeOK, NEW c \in Channels PROVE Distance(c) \in Int
<1>1. offset \in [Channels -> Int] /\ dac \in [Channels -> Dac] /\ Start \in Dac
  BY BaselinesAssumption DEF BaselinesParameters, TypeOK
<1>2. offset[c] \in Int /\ dac[c] \in Int /\ Start \in Int  BY <1>1, DacRange
<1>3. QED  BY <1>2 DEF Distance

LEMMA Numbers ==
  /\ Channels \subseteq Nat \ {0} /\ Channels # {} /\ Start \in Dac /\ Noise \subseteq Int
  /\ MaxIterations \in Nat /\ MaxTries \in Nat /\ MaxFaults \in Nat
  /\ Initial \in [Channels -> Dac]
  /\ \A f \in [Channels -> Dac] : f # <<>>
<1>1. /\ Channels \subseteq Nat \ {0} /\ Channels # {} /\ Start \in Dac
      /\ Noise \subseteq Int /\ MaxIterations \in Nat /\ MaxTries \in Nat /\ MaxFaults \in Nat
  BY BaselinesAssumption DEF BaselinesParameters
<1>2. Initial \in [Channels -> Dac]  BY <1>1 DEF Initial
<1>3. \A f \in [Channels -> Dac] : f # <<>>
  <2> SUFFICES ASSUME NEW f \in [Channels -> Dac], f = <<>> PROVE FALSE
    OBVIOUS
  <2>1. DOMAIN f = Channels /\ DOMAIN f = {}  OBVIOUS
  <2>2. QED  BY <1>1, <2>1
<1>4. QED  BY <1>1, <1>2, <1>3

\* What LoadDAC leaves in the registers and counts.
LEMMA Loaded ==
  ASSUME TypeOK, NEW v \in [Channels -> Dac], LoadDAC(v) \/ LoadDACFails(v)
  PROVE  /\ dac' \in [Channels -> Dac] /\ faults' \in 0 .. MaxFaults
         /\ \A c \in Channels : dac'[c] \in {v[c], dac[c]}
         /\ dac' = v \/ faults' = faults + 1
         /\ faults' \in {faults, faults + 1}
<1>1. CASE LoadDAC(v)  BY <1>1 DEF LoadDAC, TypeOK
<1>2. CASE LoadDACFails(v)
  <2>1. PICK c \in Channels, written \in BOOLEAN :
          dac' = [x \in Channels |-> IF x < c \/ (x = c /\ written) THEN v[x] ELSE dac[x]]
    BY <1>2, Zenon DEF LoadDACFails
  <2>2. \A x \in Channels : dac'[x] \in {v[x], dac[x]}  BY <2>1
  <2>3. \A x \in Channels : dac'[x] \in Dac  BY <2>2 DEF TypeOK
  <2>4. dac' \in [Channels -> Dac]
    <3>1. DOMAIN dac' = Channels /\ dac' = [x \in Channels |-> dac'[x]]  BY <2>1
    <3>2. QED  BY <2>3, <3>1
  <2>5. faults' = faults + 1 /\ faults' \in 0 .. MaxFaults
    BY <1>2, Numbers DEF LoadDACFails, Fault, TypeOK
  <2>6. QED  BY <2>2, <2>4, <2>5
<1>3. QED  BY <1>1, <1>2

LEMMA FaultType == ASSUME TypeOK, Fault PROVE faults' = faults + 1 /\ faults' \in 0 .. MaxFaults
  BY Numbers DEF Fault, TypeOK

\* One round: which channels were read, and what it leaves.
LEMMA RoundEffect ==
  ASSUME TypeOK, Round
  PROVE  \E used \in SUBSET Channels : \E d \in [used -> Int] :
           /\ \A c \in used : finished[c] < 5 /\ \E n \in Noise : d[c] = Distance(c) + n
           /\ Evaluate(used, d)
           /\ \/ LoadDAC(values') \/ LoadDACFails(values') \/ (Fault /\ dac' = values')
<1> DEFINE usable == {c \in Channels \ busy : finished[c] < 5}
           dist(n) == [c \in usable |-> Distance(c) + n[c]]
<1>1. PICK n \in [usable -> Noise] :
        \/ Evaluate(usable, dist(n)) /\ LoadDAC(values')
        \/ Evaluate(usable, dist(n)) /\ LoadDACFails(values')
        \/ /\ Fault
           /\ \E c \in usable : Evaluate(usable \ {c}, dist(n)) /\ dac' = values'
  BY Zenon DEF Round
<1>2. \A c \in usable : n[c] \in Noise /\ Distance(c) + n[c] \in Int
  <2> SUFFICES ASSUME NEW c \in usable PROVE n[c] \in Noise /\ Distance(c) + n[c] \in Int
    OBVIOUS
  <2>1. c \in Channels /\ n[c] \in Noise  OBVIOUS
  <2>2. Distance(c) \in Int  BY <2>1, DistanceType
  <2>3. n[c] \in Int  BY <2>1, Numbers
  <2>4. QED  BY <2>1, <2>2, <2>3
<1>3. usable \subseteq Channels  OBVIOUS
<1> DEFINE all == dist(n)
<1>4. all \in [usable -> Int] /\ \A c \in usable : all[c] = Distance(c) + n[c]
  BY <1>2
<1>5. \A c \in usable : finished[c] < 5 /\ \E m \in Noise : all[c] = Distance(c) + m
  BY <1>2, <1>4
<1>6. CASE Evaluate(usable, all) /\ (LoadDAC(values') \/ LoadDACFails(values'))
  <2> HIDE DEF usable, all
  <2>1. QED  BY <1>3, <1>4, <1>5, <1>6, Zenon
<1>7. CASE Fault /\ \E c \in usable : Evaluate(usable \ {c}, all) /\ dac' = values'
  <2>1. PICK c \in usable : Evaluate(usable \ {c}, all) /\ dac' = values'  BY <1>7
  <2> DEFINE used == usable \ {c}
             some == [x \in used |-> all[x]]
  <2>2. used \subseteq Channels /\ some \in [used -> Int] /\ \A x \in used : some[x] = all[x]
    BY <1>3, <1>4
  <2>3. Evaluate(used, some)
    <3> HIDE DEF some, usable, all
    <3>1. QED  BY <2>1, <2>2 DEF Evaluate
  <2>4. \A x \in used : finished[x] < 5 /\ \E m \in Noise : some[x] = Distance(x) + m
    BY <1>5, <2>2
  <2> HIDE DEF used, some
  <2>5. QED  BY <1>7, <2>1, <2>2, <2>3, <2>4, Zenon
<1>8. QED  BY <1>1, <1>6, <1>7

LEMMA ChoiceType ==
  ASSUME TypeOK, NEW r \in {0, -1}, Return(r)
  PROVE  /\ ret' \in {0, -1} /\ tries' \in 0 .. MaxTries /\ bl' \in {"determine", "finish"}
<1>1. CASE r # 0 /\ tries < MaxTries  BY <1>1, Numbers DEF Return, TypeOK
<1>2. CASE ~(r # 0 /\ tries < MaxTries)  BY <1>2 DEF Return, TypeOK
<1>3. QED  BY <1>1, <1>2

LEMMA StepTypeOK == TypeOK /\ [Next]_baselineVars => TypeOK'
<1> SUFFICES ASSUME TypeOK, [Next]_baselineVars PROVE TypeOK'
  OBVIOUS
<1> USE Numbers
<1>1. ASSUME NEW m \in -1 .. 2, NEW b \in BusySets, Initialize(m, b) PROVE TypeOK'
  <2>1. b \subseteq Channels  BY BaselinesAssumption DEF BaselinesParameters
  <2>2. QED  BY <1>1, <2>1 DEF Initialize, TypeOK
<1>2. CASE DetermineBaselines
  <2>1. /\ values' \in [Channels -> Dac] /\ iteration' \in 0 .. MaxIterations + 1
        /\ finished' \in [Channels -> 0 .. 5]
    BY <1>2 DEF DetermineBaselines, StartRounds
  <2>2. CASE LoadDAC(values') /\ bl' = "rounds" /\ UNCHANGED <<tries, ret, unsettled>>
    <3>1. dac' \in [Channels -> Dac] /\ faults' \in 0 .. MaxFaults  BY <2>1, <2>2, Loaded
    <3>2. QED  BY <1>2, <2>1, <2>2, <3>1 DEF DetermineBaselines, TypeOK, board
  <2>3. CASE dac' = values' /\ Fault /\ Return(-1)
    <3>1. dac' \in [Channels -> Dac] /\ faults' \in 0 .. MaxFaults  BY <2>1, <2>3, FaultType
    <3>2. QED  BY <1>2, <2>1, <2>3, <3>1, ChoiceType DEF DetermineBaselines, TypeOK, board
  <2>4. CASE LoadDACFails(values') /\ Return(-1)
    <3>1. dac' \in [Channels -> Dac] /\ faults' \in 0 .. MaxFaults  BY <2>1, <2>4, Loaded
    <3>2. QED  BY <1>2, <2>1, <2>4, <3>1, ChoiceType DEF DetermineBaselines, TypeOK, board
  <2>5. QED  BY <1>2, <2>2, <2>3, <2>4 DEF DetermineBaselines
<1>3. CASE Round
  <2>1. PICK used \in SUBSET Channels : \E d \in [used -> Int] :
           /\ \A c \in used : finished[c] < 5 /\ \E n \in Noise : d[c] = Distance(c) + n
           /\ Evaluate(used, d)
           /\ \/ LoadDAC(values') \/ LoadDACFails(values') \/ (Fault /\ dac' = values')
    BY <1>3, RoundEffect
  <2>2. PICK d \in [used -> Int] :
           /\ \A c \in used : finished[c] < 5 /\ \E n \in Noise : d[c] = Distance(c) + n
           /\ Evaluate(used, d)
           /\ \/ LoadDAC(values') \/ LoadDACFails(values') \/ (Fault /\ dac' = values')
    BY <2>1
  <2>3. values' \in [Channels -> Dac]
    <3>1. \A c \in used : Stepped(values[c], d[c]) \in Dac  BY <2>2, StepType DEF TypeOK
    <3>2. QED  BY <2>2, <3>1 DEF Evaluate, TypeOK
  <2>4. finished' \in [Channels -> 0 .. 5]
    <3>1. \A c \in used : finished[c] + 1 \in 0 .. 5  BY <2>2 DEF TypeOK
    <3>2. QED  BY <2>2, <3>1 DEF Evaluate, TypeOK
  <2>5. dac' \in [Channels -> Dac] /\ faults' \in 0 .. MaxFaults
    BY <2>2, <2>3, Loaded, FaultType
  <2>6. iteration' \in 0 .. MaxIterations + 1  BY <1>3 DEF Round, TypeOK
  <2>7. QED  BY <1>3, <2>3, <2>4, <2>5, <2>6 DEF Round, TypeOK, board
<1>4. CASE ReadFails
  <2>1. iteration' \in 0 .. MaxIterations + 1  BY <1>4 DEF ReadFails, TypeOK
  <2>2. faults' \in 0 .. MaxFaults  BY <1>4, FaultType DEF ReadFails
  <2>3. QED  BY <1>4, <2>1, <2>2 DEF ReadFails, TypeOK, board
<1>5. CASE WriteBaselines
  <2>1. PICK r \in {0, -1} : Return(r)
    <3>1. (IF AllFinished THEN 0 ELSE -1) \in {0, -1}  OBVIOUS
    <3>2. QED  BY <1>5, <3>1 DEF WriteBaselines
  <2>2. ret' \in {0, -1} /\ tries' \in 0 .. MaxTries /\ bl' \in {"determine", "finish"}
    BY <2>1, ChoiceType
  <2>3. {file', good'} \subseteq [Channels -> Dac] \cup {<<>>}
    BY <1>5 DEF WriteBaselines, TypeOK
  <2>4. QED  BY <1>5, <2>2, <2>3 DEF WriteBaselines, TypeOK, board
<1>6. CASE Finish
  <2>1. dac' \in [Channels -> Dac] /\ faults' \in 0 .. MaxFaults
    <3>1. CASE UNCHANGED <<dac, loaded, faults>>  BY <3>1 DEF TypeOK
    <3>2. CASE LoadBaselines
      <4>1. CASE file = <<>>  BY <3>2, <4>1, Loaded DEF LoadBaselines, TypeOK
      <4>2. CASE file # <<>>
        <5>1. file \in [Channels -> Dac]  BY <4>2 DEF TypeOK
        <5>2. QED  BY <3>2, <4>2, <5>1, Loaded DEF LoadBaselines
      <4>3. QED  BY <4>1, <4>2
    <3>3. QED  BY <1>6, <3>1, <3>2 DEF Finish
  <2>2. bl' \in {"armed", "failed"}  BY <1>6 DEF Finish
  <2>3. values' \in [Channels -> Dac] /\ iteration' \in 0 .. MaxIterations + 1
    BY <1>6 DEF Finish
  <2>4. QED  BY <1>6, <2>1, <2>2, <2>3 DEF Finish, TypeOK, board
<1>7. CASE Close  BY <1>7 DEF Close, TypeOK, board, routine
<1>8. CASE UNCHANGED baselineVars  BY <1>8 DEF baselineVars, board, routine, TypeOK
<1>9. QED  BY <1>1, <1>2, <1>3, <1>4, <1>5, <1>6, <1>7, <1>8 DEF Next, Initializing

\* The registers, the values of a determination and the file stay values that the DAC can
\* take, a channel is finished at the fifth near reading, and rounds and tries keep to their
\* limits (CBV1724::DetermineBaselines and LoadDAC).
THEOREM TypeCorrect == Spec => []TypeOK
<1>1. Init => TypeOK
  <2> SUFFICES ASSUME Init PROVE TypeOK
    OBVIOUS
  <2>1. 0 \in 0 .. MaxIterations + 1 /\ 0 \in 0 .. MaxTries /\ 0 \in 0 .. MaxFaults  BY Numbers
  <2>2. QED  BY <2>1, Numbers DEF Init, TypeOK
<1>2. QED  BY <1>1, StepTypeOK, PTL DEF Spec

-----------------------------------------------------------------------------
(* The levels.                                                             *)

Inv == TypeOK /\ LevelInv

\* The condition of the theorem: no five failures, or readings without noise.
FewFaults == MaxFaults <= 4 \/ Noise = {0}

\* What one round makes of one channel that was read.
LEMMA ReadChannel ==
  ASSUME TypeOK, RoundInv, bl = "rounds", NEW c \in Channels,
         NEW n \in Noise, NEW r \in Int, r = Distance(c) + n,
         values'[c] = (IF ~Near(r) THEN Stepped(values[c], r) ELSE values[c]),
         finished'[c] = (IF Near(r) THEN finished[c] + 1 ELSE 0),
         dac'[c] \in {values'[c], dac[c]}, faults' \in {faults, faults + 1},
         dac'[c] = values'[c] \/ faults' = faults + 1, offset' = offset
  PROVE  /\ dac'[c] = values'[c] \/ faults' > finished'[c]
         /\ finished'[c] # 0 =>
              \/ LevelAt(c, values[c]) /\ values'[c] = values[c]
              \/ faults' >= finished'[c] /\ Noise # {0}
         /\ Noise = {0} => dac'[c] = values'[c] \/ (dac'[c] = dac[c] /\ ~Near(Distance(c)))
<1>1. /\ finished[c] \in Nat /\ faults \in Nat
      /\ dac[c] = values[c] \/ faults > finished[c]
      /\ Noise = {0} => dac[c] = values[c] \/ ~Near(Distance(c))
  BY DEF TypeOK, RoundInv
<1>2. Distance(c) \in Int  BY DistanceType
<1>3. Noise = {0} => r = Distance(c)  BY <1>2
<1>4. CASE Near(r)
  <2>1. values'[c] = values[c] /\ finished'[c] = finished[c] + 1  BY <1>4
  <2>2. CASE dac[c] = values[c]
    <3>1. LevelAt(c, values[c])
      <4>1. r = offset[c] - (values[c] - Start) + n  BY <2>2 DEF Distance
      <4>2. QED  BY <1>4, <4>1 DEF LevelAt
    <3>2. dac'[c] = values'[c]  BY <2>1, <2>2
    <3>3. QED  BY <2>1, <3>1, <3>2
  <2>3. CASE dac[c] # values[c]
    <3>1. faults > finished[c] /\ Noise # {0}  BY <1>1, <1>3, <1>4, <2>3
    <3>2. QED  BY <1>1, <2>1, <3>1
  <2>4. QED  BY <2>2, <2>3
<1>5. CASE ~Near(r)
  <2>1. finished'[c] = 0  BY <1>5
  <2>2. QED  BY <1>1, <1>3, <1>5, <2>1
<1>6. QED  BY <1>4, <1>5

\* A channel that was passed over.
LEMMA OtherChannel ==
  ASSUME TypeOK, RoundInv, bl = "rounds", NEW c \in Channels,
         values'[c] = values[c], finished'[c] = finished[c],
         dac'[c] \in {values'[c], dac[c]}, faults' \in {faults, faults + 1}
  PROVE  /\ dac'[c] = values'[c] \/ faults' > finished'[c]
         /\ finished'[c] # 0 =>
              \/ LevelAt(c, values[c]) /\ values'[c] = values[c]
              \/ faults' >= finished'[c] /\ Noise # {0}
         /\ Noise = {0} => dac'[c] = values'[c] \/ (dac'[c] = dac[c] /\ ~Near(Distance(c)))
<1>1. /\ finished[c] \in Nat /\ faults \in Nat
      /\ dac[c] = values[c] \/ faults > finished[c]
      /\ finished[c] # 0 => LevelAt(c, values[c]) \/ (faults >= finished[c] /\ Noise # {0})
      /\ Noise = {0} => dac[c] = values[c] \/ ~Near(Distance(c))
  BY DEF TypeOK, RoundInv
<1>2. QED  BY <1>1

\* Near readings of the registers are a level of the values, until failures make up for them.
LEMMA RoundKeeps == ASSUME TypeOK, RoundInv, Round PROVE RoundInv'
<1>1. PICK used \in SUBSET Channels : \E d \in [used -> Int] :
         /\ \A c \in used : finished[c] < 5 /\ \E n \in Noise : d[c] = Distance(c) + n
         /\ Evaluate(used, d)
         /\ \/ LoadDAC(values') \/ LoadDACFails(values') \/ (Fault /\ dac' = values')
  BY RoundEffect
<1>2. PICK d \in [used -> Int] :
         /\ \A c \in used : finished[c] < 5 /\ \E n \in Noise : d[c] = Distance(c) + n
         /\ Evaluate(used, d)
         /\ \/ LoadDAC(values') \/ LoadDACFails(values') \/ (Fault /\ dac' = values')
  BY <1>1
<1>3. bl = "rounds" /\ offset' = offset  BY DEF Round, board
<1>4. values' \in [Channels -> Dac]
  <2>1. \A c \in used : Stepped(values[c], d[c]) \in Dac  BY <1>2, StepType DEF TypeOK
  <2>2. QED  BY <1>2, <2>1 DEF Evaluate, TypeOK
<1>5. /\ \A c \in Channels : dac'[c] \in {values'[c], dac[c]}
      /\ dac' = values' \/ faults' = faults + 1
      /\ faults' \in {faults, faults + 1}
  BY <1>2, <1>4, Loaded, FaultType
<1>6. SUFFICES ASSUME NEW c \in Channels
      PROVE /\ dac'[c] = values'[c] \/ faults' > finished'[c]
            /\ finished'[c] # 0 => LevelAt(c, values[c])' \/ (faults' >= finished'[c] /\ Noise # {0})
            /\ Noise = {0} => dac'[c] = values'[c] \/ ~Near(Distance(c))'
  BY DEF RoundInv
<1>7. /\ dac'[c] = values'[c] \/ faults' > finished'[c]
      /\ finished'[c] # 0 =>
           \/ LevelAt(c, values[c]) /\ values'[c] = values[c]
           \/ faults' >= finished'[c] /\ Noise # {0}
      /\ Noise = {0} => dac'[c] = values'[c] \/ (dac'[c] = dac[c] /\ ~Near(Distance(c)))
  <2>1. CASE c \in used
    <3>1. PICK n \in Noise : d[c] = Distance(c) + n  BY <1>2, <2>1
    <3>2. d[c] \in Int  BY <2>1
    <3>3. /\ values'[c] = (IF ~Near(d[c]) THEN Stepped(values[c], d[c]) ELSE values[c])
          /\ finished'[c] = (IF Near(d[c]) THEN finished[c] + 1 ELSE 0)
      BY <1>2, <2>1 DEF Evaluate
    <3>4. dac'[c] = values'[c] \/ faults' = faults + 1  BY <1>5
    <3>5. QED  BY <1>3, <1>5, <3>1, <3>2, <3>3, <3>4, ReadChannel
  <2>2. CASE c \notin used
    <3>1. values'[c] = values[c] /\ finished'[c] = finished[c]  BY <1>2, <2>2 DEF Evaluate
    <3>2. QED  BY <1>3, <1>5, <3>1, OtherChannel
  <2>3. QED  BY <2>1, <2>2
<1>8. LevelAt(c, values[c]) /\ values'[c] = values[c] => LevelAt(c, values[c])'
  BY <1>3 DEF LevelAt
<1>9. dac'[c] = dac[c] /\ ~Near(Distance(c)) => ~Near(Distance(c))'
  BY <1>3 DEF Near, Abs, Distance
<1>10. QED  BY <1>7, <1>8, <1>9

LEMMA RoundStep == ASSUME Inv, TypeOK', [Next]_baselineVars PROVE RoundInv'
<1> USE Numbers
<1>1. SUFFICES ASSUME bl' = "rounds" PROVE RoundInv'
  BY DEF RoundInv
<1>2. ASSUME NEW m \in -1 .. 2, NEW b \in BusySets, Initialize(m, b) PROVE FALSE
  BY <1>1, <1>2 DEF Initialize
<1>3. CASE DetermineBaselines
  <2>1. dac' = values' /\ \A c \in Channels : finished'[c] = 0
    BY <1>1, <1>3 DEF DetermineBaselines, Return, LoadDAC, StartRounds
  <2>2. QED  BY <2>1 DEF RoundInv
<1>4. CASE Round  BY <1>4, RoundKeeps DEF Inv, LevelInv
<1>5. CASE ReadFails
  <2>1. /\ UNCHANGED <<offset, dac, values, finished, bl>> /\ faults' = faults + 1
        /\ bl = "rounds"
    BY <1>5 DEF ReadFails, board, Fault
  <2>2. \A c \in Channels : finished[c] \in Nat /\ faults \in Nat  BY DEF Inv, TypeOK
  <2>3. \A c \in Channels : /\ LevelAt(c, values[c]) => LevelAt(c, values[c])'
                            /\ ~Near(Distance(c)) => ~Near(Distance(c))'
    BY <2>1 DEF LevelAt, Near, Abs, Distance
  <2>4. QED  BY <2>1, <2>2, <2>3 DEF Inv, LevelInv, RoundInv
<1>6. CASE WriteBaselines  BY <1>1, <1>6 DEF WriteBaselines, Return
<1>7. CASE Finish  BY <1>1, <1>7 DEF Finish
<1>8. CASE Close  BY <1>1, <1>8 DEF Close
<1>9. CASE UNCHANGED baselineVars
  <2>1. UNCHANGED <<offset, dac, values, finished, bl, faults>>
    BY <1>9 DEF baselineVars, board, routine
  <2>2. QED  BY <2>1 DEF Inv, LevelInv, RoundInv, LevelAt, Near, Abs, Distance
<1>10. QED
  BY <1>2, <1>3, <1>4, <1>5, <1>6, <1>7, <1>8, <1>9 DEF Next, Initializing

\* What is kept as good has had five near readings of its channel, and no five failures.
LEMMA GoodStep == ASSUME FewFaults, Inv, [Next]_baselineVars PROVE GoodInv'
<1>1. offset' = offset
  BY DEF Next, Initializing, Initialize, DetermineBaselines, Round, ReadFails, WriteBaselines,
         Finish, Close, baselineVars, board
<1>2. CASE good' = good
  BY <1>1, <1>2 DEF Inv, LevelInv, GoodInv, LevelAt
<1>3. CASE WriteBaselines /\ AllFinished
  <2>1. good' = values /\ bl = "rounds"  BY <1>3 DEF WriteBaselines
  <2>2. ASSUME NEW c \in Channels PROVE LevelAt(c, values[c])
    <3>1. finished[c] = 5  BY <1>3 DEF AllFinished, Inv, TypeOK
    <3>2. LevelAt(c, values[c]) \/ (faults >= 5 /\ Noise # {0})
      BY <2>1, <3>1 DEF Inv, LevelInv, RoundInv
    <3>3. faults <= MaxFaults /\ faults \in Nat /\ MaxFaults \in Nat  BY Numbers DEF Inv, TypeOK
    <3>4. QED  BY <3>2, <3>3 DEF FewFaults
  <2>3. QED  BY <1>1, <2>1, <2>2 DEF GoodInv, LevelAt
<1>4. QED
  BY <1>2, <1>3
  DEF Next, Initializing, Initialize, DetermineBaselines, Round, ReadFails, WriteBaselines,
      Finish, Close, baselineVars

\* Initialize loads the file last, and nothing touches the registers of an armed board.
LEMMA LoadStep == ASSUME Inv, [Next]_baselineVars PROVE LoadInv'
<1>1. ASSUME NEW m \in -1 .. 2, NEW b \in BusySets, Initialize(m, b) PROVE LoadInv'
  BY <1>1 DEF Initialize, LoadInv
<1>2. CASE DetermineBaselines
  BY <1>2 DEF DetermineBaselines, Return, Inv, LevelInv, LoadInv
<1>3. CASE Round  BY <1>3 DEF Round, Inv, LevelInv, LoadInv
<1>4. CASE ReadFails  BY <1>4 DEF ReadFails, Inv, LevelInv, LoadInv
<1>5. CASE WriteBaselines
  BY <1>5 DEF WriteBaselines, Return, Inv, LevelInv, LoadInv
<1>6. CASE Finish
  <2>1. ~loaded  BY <1>6 DEF Finish, Inv, LevelInv, LoadInv
  <2>2. loaded' => dac' = file
    BY <1>6, <2>1 DEF Finish, LoadBaselines, LoadDAC
  <2>3. QED  BY <1>6, <2>2 DEF Finish, LoadInv
<1>7. CASE Close  BY <1>7 DEF Close, LoadInv
<1>8. CASE UNCHANGED baselineVars  BY <1>8 DEF baselineVars, board, routine, Inv, LevelInv, LoadInv
<1>9. QED  BY <1>1, <1>2, <1>3, <1>4, <1>5, <1>6, <1>7, <1>8 DEF Next, Initializing

\* A board that says it was initialized with the values of a successful determination has them
\* in its registers, and each brings its channel near the level (CBV1724::Initialize).  The
\* condition is needed: DetermineBaselines does not look at what LoadDAC returns, so that five
\* failures in a row let it finish with values that were in the registers at no reading.
THEOREM ArmedBoardsAreGood ==
  ASSUME MaxFaults <= 4 \/ Noise = {0}
  PROVE  Spec => []ArmedBoardIsGood
<1>1. Init => Inv
  <2> SUFFICES ASSUME Init PROVE Inv
    OBVIOUS
  <2>1. 0 \in 0 .. MaxIterations + 1 /\ 0 \in 0 .. MaxTries /\ 0 \in 0 .. MaxFaults  BY Numbers
  <2>2. TypeOK  BY <2>1, Numbers DEF Init, TypeOK
  <2>3. QED  BY <2>2 DEF Init, Inv, LevelInv, RoundInv, GoodInv, LoadInv
<1>2. Inv /\ [Next]_baselineVars => Inv'
  <2> SUFFICES ASSUME Inv, [Next]_baselineVars PROVE Inv'
    OBVIOUS
  <2>1. TypeOK'  BY StepTypeOK DEF Inv
  <2>2. QED  BY <2>1, RoundStep, GoodStep, LoadStep DEF Inv, LevelInv, FewFaults
<1>3. Inv => ArmedBoardIsGood
  <2> SUFFICES ASSUME Inv, bl = "armed", loaded, file = good, NEW c \in Channels
               PROVE  \E n \in Noise : Abs(Distance(c) + n) <= 20
    BY DEF ArmedBoardIsGood
  <2>1. dac = good /\ good # <<>>  BY Numbers DEF Inv, LevelInv, LoadInv, TypeOK
  <2>2. LevelAt(c, dac[c])  BY <2>1 DEF Inv, LevelInv, GoodInv
  <2>3. QED  BY <2>2 DEF LevelAt, Near, Distance
<1>4. QED  BY <1>1, <1>2, <1>3, PTL DEF Spec

-----------------------------------------------------------------------------
(***************************************************************************)
(* The rounds are enough.  The distances are those of the registers; the   *)
(* values that are going to be written may be ahead of them by what LoadDAC *)
(* failed to write.                                                        *)
(***************************************************************************)

ValueDistance(c) == offset[c] - (values[c] - Start)

\* A value at e is ahead of a register at d: less than k quarters of its distance.
Ahead(d, e, k) == d >= 17 /\ e <= d /\ 4 * (d - e) <= k * (d + 4)
Lags(d, e, k) == e = d \/ Ahead(d, e, k) \/ Ahead(-d, -e, k)

\* Thousands of rounds that a channel at distance a needs at most, at the pace of the table:
\* by 2 a round, near the level with five readings for each, and by 100 from afar.
Weight(a) ==
  IF a <= 24 THEN 2500 * a ELSE IF a <= 404 THEN 60000 + 500 * (a - 24)
  ELSE 250000 + 10 * (a - 404)

Due(c) ==
  1000 * iteration + Weight(Abs(Distance(c))) + 1000 * (5 - finished[c])
    <= 906310 + 5000 * faults

OnTime(c) ==
  /\ Lags(Distance(c), ValueDistance(c), faults)
  /\ Due(c)
  /\ finished[c] > 0 => Abs(Distance(c)) <= 24

SettleInv ==
  bl = "rounds" /\ busy = {} => \A c \in Channels : finished[c] < 5 => OnTime(c)

\* The condition of the theorem: noise of one count at most, few failures, and the rounds for
\* the whole range of the DAC.
EnoughRounds == MaxIterations >= 930 /\ MaxFaults <= 4 /\ Noise \subseteq -4 .. 4

\* A step is between half a count and a quarter of the distance that was read.
LEMMA StepFits ==
  ASSUME NEW r \in Int, ~Near(r)
  PROVE  /\ StepSize(r) \in Int /\ 2 <= StepSize(r) /\ 4 * StepSize(r) <= Abs(r)
         /\ Abs(r) >= 400 => StepSize(r) >= 100
<1>1. Abs(r) \in Int /\ Abs(r) > 20  BY DEF Near, Abs
<1> DEFINE a == Abs(r)
<1>2. StepSize(r) = IF a >= 4000 THEN 1000 ELSE IF a >= 2000 THEN a \div 4
        ELSE IF a >= 400 THEN 100 ELSE IF a >= 200 THEN 10 ELSE IF a >= 80 THEN 5
        ELSE IF a >= 20 THEN 2 ELSE 1
  BY DEF StepSize
<1> HIDE DEF a
<1>3. a \in Int /\ a > 20  BY <1>1 DEF a
<1>4. a >= 2000 => a \div 4 \in Int /\ 4 * (a \div 4) <= a /\ a \div 4 >= 500  BY <1>3
<1>5. /\ StepSize(r) \in Int /\ 2 <= StepSize(r) /\ 4 * StepSize(r) <= a
      /\ a >= 400 => StepSize(r) >= 100
  BY <1>2, <1>3, <1>4
<1>6. QED  BY <1>5 DEF a

\* The value that is written next, k failures after the register's: still short of its mirror
\* image, and nearer than the register by a step.
LEMMA Nearer ==
  ASSUME NEW d \in Int, NEW e \in Int, NEW f \in Int, NEW s \in Int, NEW k \in 0 .. 4,
         d >= 17, e = d \/ (e <= d /\ 4 * (d - e) <= k * (d + 4)),
         2 <= s, 4 * s <= d + 4, d > 404 => s >= 100,
         f <= e, e - s <= f, f = e - s \/ f <= 0
  PROVE  /\ Ahead(d, f, k + 1)
         /\ Abs(f) <= d - 2 /\ (d > 404 => Abs(f) <= d - 100)
<1>1. 4 * (d - e) <= k * (d + 4)
  <2>1. k * (d + 4) >= 0
    <3>1. k \in {0, 1, 2, 3, 4}  OBVIOUS
    <3>2. QED  BY <3>1
  <2>2. QED  BY <2>1
<1>2. (k + 1) * (d + 4) = k * (d + 4) + (d + 4)
  <2>1. k \in {0, 1, 2, 3, 4}  OBVIOUS
  <2>2. QED  BY <2>1
<1>3. 4 * (d - f) <= (k + 1) * (d + 4)
  <2> DEFINE p == k * (d + 4)
  <2>1. p \in Int /\ 4 * (d - e) <= p /\ (k + 1) * (d + 4) = p + (d + 4)  BY <1>1, <1>2
  <2> HIDE DEF p
  <2>2. QED  BY <2>1
<1>4. 4 * (d - f) <= 5 * (d + 4)
  <2>1. k * (d + 4) <= 4 * (d + 4)
    <3>1. k \in {0, 1, 2, 3, 4}  OBVIOUS
    <3>2. QED  BY <3>1
  <2> DEFINE p == k * (d + 4)
  <2>2. p \in Int /\ 4 * (d - e) <= p /\ p <= 4 * (d + 4)  BY <1>1, <2>1
  <2> HIDE DEF p
  <2>3. QED  BY <2>2
<1>5. Abs(f) <= d - 2 /\ (d > 404 => Abs(f) <= d - 100)  BY <1>4 DEF Abs
<1>6. f <= d  OBVIOUS
<1>7. QED  BY <1>3, <1>5, <1>6 DEF Ahead

LEMMA LagsShort ==
  ASSUME NEW d \in Int, NEW e \in Int, NEW k \in 0 .. 4, Lags(d, e, k)
  PROVE  Abs(e) <= Abs(d) /\ Lags(d, e, k + 1)
<1>1. k \in {0, 1, 2, 3, 4}  OBVIOUS
<1>2. ASSUME NEW x \in Int, NEW y \in Int, Ahead(x, y, k)
      PROVE  Ahead(x, y, k + 1) /\ -x <= y /\ y <= x /\ x >= 17
  <2>1. x >= 17 /\ y <= x /\ 4 * (x - y) <= k * (x + 4)  BY <1>2 DEF Ahead
  <2>2. 4 * (x - y) <= 4 * (x + 4) /\ 4 * (x - y) <= (k + 1) * (x + 4)  BY <1>1, <2>1
  <2>3. QED  BY <2>1, <2>2 DEF Ahead
<1>3. CASE e = d  BY <1>3 DEF Lags, Abs
<1>4. CASE Ahead(d, e, k)
  <2>1. Ahead(d, e, k + 1) /\ -d <= e /\ e <= d /\ d >= 17  BY <1>2, <1>4
  <2>2. QED  BY <2>1 DEF Lags, Abs
<1>5. CASE Ahead(-d, -e, k)
  <2>1. -d \in Int /\ -e \in Int  OBVIOUS
  <2>2. Ahead(-d, -e, k + 1) /\ -(-d) <= -e /\ -e <= -d /\ -d >= 17  BY <1>2, <1>5, <2>1
  <2>3. QED  BY <2>2 DEF Lags, Abs
<1>6. QED  BY <1>3, <1>4, <1>5 DEF Lags

LEMMA WeightDrops ==
  ASSUME NEW a \in Nat, NEW b \in Nat
  PROVE  /\ Weight(a) \in Int /\ Weight(a) >= 0
         /\ b <= a => Weight(b) <= Weight(a)
         /\ b <= a - 2 /\ (a > 404 => b <= a - 100) => Weight(b) + 1000 <= Weight(a)
         /\ b <= a - 2 /\ a <= 24 => Weight(b) + 5000 <= Weight(a)
  BY DEF Weight

\* A step towards the level; where the DAC ends, it is at the level or has passed it.
LEMMA StepTowards ==
  ASSUME NEW o \in Int, Start + o \in Dac, NEW v \in Dac, NEW r \in Int, ~Near(r)
  PROVE  LET e == o - (v - Start)
             f == o - (Stepped(v, r) - Start)
             s == StepSize(r)
         IN /\ r > 0 => f <= e /\ e - s <= f /\ (f = e - s \/ f <= 0)
            /\ r < 0 => e <= f /\ f <= e + s /\ (f = e + s \/ 0 <= f)
<1>1. StepSize(r) \in Int /\ 2 <= StepSize(r)  BY StepFits
<1>2. /\ Start \in Int /\ v \in Int /\ 0 <= v /\ v <= MaxDac
      /\ 0 <= Start + o /\ Start + o <= MaxDac /\ MaxDac \in Int
  BY Numbers, DacRange DEF Dac
<1> DEFINE s == StepSize(r)
<1>3. Stepped(v, r) = Clamp(IF r < 0 THEN v - s ELSE v + s)  BY DEF Stepped
<1> HIDE DEF s
<1>4. s \in Int /\ 2 <= s  BY <1>1 DEF s
<1>5. ASSUME r > 0
      PROVE  LET e == o - (v - Start)
                 f == o - (Stepped(v, r) - Start)
             IN f <= e /\ e - s <= f /\ (f = e - s \/ f <= 0)
  <2>1. Stepped(v, r) = IF v + s > MaxDac THEN MaxDac ELSE v + s
    BY <1>2, <1>3, <1>4, <1>5 DEF Clamp
  <2>2. QED  BY <1>2, <1>4, <2>1
<1>6. ASSUME r < 0
      PROVE  LET e == o - (v - Start)
                 f == o - (Stepped(v, r) - Start)
             IN e <= f /\ f <= e + s /\ (f = e + s \/ 0 <= f)
  <2>1. Stepped(v, r) = IF v - s < 0 THEN 0 ELSE v - s
    BY <1>2, <1>3, <1>4, <1>6 DEF Clamp
  <2>2. QED  BY <1>2, <1>4, <2>1
<1>7. QED  BY <1>5, <1>6 DEF s

\* The same of a register's reading that is not near, on whichever side of the level.
LEMMA StepNearer ==
  ASSUME NEW o \in Int, Start + o \in Dac, NEW v \in Dac, NEW d \in Int, NEW n \in -4 .. 4,
         NEW k \in 0 .. 4, Lags(d, o - (v - Start), k), ~Near(d + n)
  PROVE  LET f == o - (Stepped(v, d + n) - Start)
         IN /\ f \in Int /\ Lags(d, f, k + 1)
            /\ Abs(f) <= Abs(d) - 2 /\ (Abs(d) > 404 => Abs(f) <= Abs(d) - 100)
<1> DEFINE r == d + n
           e == o - (v - Start)
           f == o - (Stepped(v, r) - Start)
           s == StepSize(r)
<1>1. /\ r \in Int /\ s \in Int /\ 2 <= s /\ 4 * s <= Abs(r) /\ (Abs(r) >= 400 => s >= 100)
      /\ Abs(r) > 20
  BY StepFits DEF Near, Abs
<1>2. Stepped(v, r) \in Int /\ Start \in Int /\ v \in Int  BY <1>1, StepType, Numbers, DacRange
<1>3. e \in Int /\ f \in Int  BY <1>2
<1>4. /\ r > 0 => f <= e /\ e - s <= f /\ (f = e - s \/ f <= 0)
      /\ r < 0 => e <= f /\ f <= e + s /\ (f = e + s \/ 0 <= f)
  BY <1>1, StepTowards
<1>5. Lags(d, e, k)  OBVIOUS
<1>6. SUFFICES /\ Lags(d, f, k + 1) /\ Abs(f) <= Abs(d) - 2
               /\ Abs(d) > 404 => Abs(f) <= Abs(d) - 100
  BY <1>3
<1>7. r = d + n  OBVIOUS
<1> HIDE DEF r, e, f, s
<1>8. CASE r > 20
  <2>1. Abs(r) = r /\ d >= 17 /\ d <= r + 4 /\ r <= d + 4  BY <1>7, <1>8 DEF Abs
  <2>2. 4 * s <= d + 4 /\ (d > 404 => s >= 100)  BY <1>1, <2>1
  <2>3. ~Ahead(-d, -e, k)  BY <2>1 DEF Ahead
  <2>4. e = d \/ (e <= d /\ 4 * (d - e) <= k * (d + 4))  BY <1>5, <2>3 DEF Lags, Ahead
  <2>5. f <= e /\ e - s <= f /\ (f = e - s \/ f <= 0)  BY <1>1, <1>4, <1>8
  <2>6. Ahead(d, f, k + 1) /\ Abs(f) <= d - 2 /\ (d > 404 => Abs(f) <= d - 100)
    BY <1>1, <1>3, <2>1, <2>2, <2>4, <2>5, Nearer
  <2>7. Abs(d) = d  BY <2>1 DEF Abs
  <2>8. QED  BY <2>6, <2>7 DEF Lags
<1>9. CASE r < -20
  <2>1. Abs(r) = -r /\ -d >= 17 /\ -d <= -r + 4 /\ -r <= -d + 4  BY <1>1, <1>7, <1>9 DEF Abs
  <2>2. 4 * s <= -d + 4 /\ (-d > 404 => s >= 100)  BY <1>1, <2>1
  <2>3. ~Ahead(d, e, k)  BY <2>1 DEF Ahead
  <2>4. -e = -d \/ (-e <= -d /\ 4 * (-d - (-e)) <= k * (-d + 4))
    BY <1>5, <2>3 DEF Lags, Ahead
  <2>5. -f <= -e /\ -e - s <= -f /\ (-f = -e - s \/ -f <= 0)  BY <1>1, <1>3, <1>4, <1>9
  <2>6. -d \in Int /\ -e \in Int /\ -f \in Int  BY <1>3
  <2>7. Ahead(-d, -f, k + 1) /\ Abs(-f) <= -d - 2 /\ (-d > 404 => Abs(-f) <= -d - 100)
    BY <1>1, <2>1, <2>2, <2>4, <2>5, <2>6, Nearer
  <2>8. Abs(d) = -d /\ Abs(-f) = Abs(f)  BY <1>3, <2>1 DEF Abs
  <2>9. QED  BY <2>7, <2>8 DEF Lags
<1>10. QED  BY <1>1, <1>8, <1>9 DEF Abs

\* What one round makes of a channel that is not finished, if no channel is busy: it is read,
\* or the round has a failure and the channel a signal.
ReadAs(c, r) ==
  /\ values'[c] = (IF ~Near(r) THEN Stepped(values[c], r) ELSE values[c])
  /\ finished'[c] = (IF Near(r) THEN finished[c] + 1 ELSE 0)

PassedOver(c) ==
  values'[c] = values[c] /\ finished'[c] = finished[c] /\ dac'[c] = values'[c]
    /\ faults' = faults + 1

LEMMA ChannelRead ==
  ASSUME TypeOK, Round, busy = {}, NEW c \in Channels, finished[c] < 5
  PROVE  \/ /\ \E n \in Noise : ReadAs(c, Distance(c) + n)
            /\ dac'[c] \in {values'[c], dac[c]} /\ faults' \in {faults, faults + 1}
            /\ dac'[c] = values'[c] \/ faults' = faults + 1
         \/ PassedOver(c)
<1> DEFINE usable == {x \in Channels \ busy : finished[x] < 5}
           dist(n) == [x \in usable |-> Distance(x) + n[x]]
<1>1. PICK n \in [usable -> Noise] :
        \/ Evaluate(usable, dist(n)) /\ LoadDAC(values')
        \/ Evaluate(usable, dist(n)) /\ LoadDACFails(values')
        \/ /\ Fault
           /\ \E x \in usable : Evaluate(usable \ {x}, dist(n)) /\ dac' = values'
  BY Zenon DEF Round
<1>2. c \in usable  OBVIOUS
<1>3. n[c] \in Noise /\ dist(n)[c] = Distance(c) + n[c]  BY <1>2
<1>4. faults \in Int  BY DEF TypeOK
<1>5. ASSUME NEW used \in SUBSET usable, Evaluate(used, dist(n))
      PROVE  /\ c \in used => ReadAs(c, Distance(c) + n[c])
             /\ c \notin used => values'[c] = values[c] /\ finished'[c] = finished[c]
  BY <1>3, <1>5 DEF Evaluate, ReadAs
<1>6. values' \in [Channels -> Dac]
  <2>1. values' \in [Channels -> Dac]  BY StepTypeOK DEF Next, Initializing, TypeOK
  <2>2. QED  BY <2>1
<1>7. CASE Evaluate(usable, dist(n)) /\ (LoadDAC(values') \/ LoadDACFails(values'))
  <2>1. ReadAs(c, Distance(c) + n[c])  BY <1>2, <1>5, <1>7
  <2>2. /\ dac'[c] \in {values'[c], dac[c]} /\ faults' \in {faults, faults + 1}
        /\ dac'[c] = values'[c] \/ faults' = faults + 1
    BY <1>6, <1>7, Loaded
  <2>3. QED  BY <1>3, <2>1, <2>2
<1>8. CASE Fault /\ \E x \in usable : Evaluate(usable \ {x}, dist(n)) /\ dac' = values'
  <2>1. PICK x \in usable : Evaluate(usable \ {x}, dist(n)) /\ dac' = values'  BY <1>8
  <2>2. faults' = faults + 1  BY <1>8 DEF Fault
  <2>3. CASE c = x
    <3>1. c \notin usable \ {x}  BY <2>3
    <3>2. QED  BY <1>5, <2>1, <2>2, <3>1 DEF PassedOver
  <2>4. CASE c # x
    <3>1. ReadAs(c, Distance(c) + n[c])  BY <1>2, <1>5, <2>1, <2>4
    <3>2. QED  BY <1>3, <2>1, <2>2, <3>1
  <2>5. QED  BY <2>3, <2>4
<1>9. QED  BY <1>1, <1>7, <1>8

LEMMA ChannelNumbers ==
  ASSUME EnoughRounds, TypeOK, NEW c \in Channels
  PROVE  /\ offset[c] \in Int /\ Start + offset[c] \in Dac /\ values[c] \in Dac
         /\ Distance(c) \in Int /\ ValueDistance(c) \in Int
         /\ faults \in 0 .. 4 /\ iteration \in Nat /\ finished[c] \in 0 .. 5
<1>1. offset \in Offsets /\ offset[c] \in Int /\ Start + offset[c] \in Dac
  BY BaselinesAssumption DEF BaselinesParameters, TypeOK
<1>2. values[c] \in Dac /\ iteration \in Nat /\ finished[c] \in 0 .. 5  BY Numbers DEF TypeOK
<1>3. faults \in 0 .. 4
  <2>1. faults \in 0 .. MaxFaults /\ MaxFaults \in Nat /\ MaxFaults <= 4
    BY Numbers DEF TypeOK, EnoughRounds
  <2>2. QED  BY <2>1
<1>4. ValueDistance(c) \in Int
  <2>1. values[c] \in Int /\ Start \in Int  BY <1>2, Numbers, DacRange
  <2>2. QED  BY <1>1, <2>1 DEF ValueDistance
<1>5. QED  BY <1>1, <1>2, <1>3, <1>4, DistanceType

\* What has to be shown of a channel after a round, in numbers: distance d, count t of near
\* readings, k failures, and what they are afterwards.
LEMMA RoundPays ==
  ASSUME NEW d \in Int, NEW t \in 0 .. 4, NEW k \in Nat, NEW i \in Nat,
         NEW d1 \in Int, NEW t1 \in 0 .. 4, NEW k1 \in {k, k + 1},
         1000 * i + Weight(Abs(d)) + 1000 * (5 - t) <= 906310 + 5000 * k,
         t > 0 => Abs(d) <= 24,
         \/ \* A near reading.
            t1 = t + 1 /\ Abs(d1) <= Abs(d) /\ Abs(d) <= 24
         \/ \* A step towards the level.
            t1 = 0 /\ Abs(d1) <= Abs(d) - 2 /\ (Abs(d) > 404 => Abs(d1) <= Abs(d) - 100)
         \/ \* A failure, and nothing is nearer.
            t1 \in {0, t} /\ k1 = k + 1 /\ Abs(d1) <= Abs(d)
  PROVE  /\ 1000 * (i + 1) + Weight(Abs(d1)) + 1000 * (5 - t1) <= 906310 + 5000 * k1
         /\ t1 > 0 => Abs(d1) <= 24
<1> DEFINE a == Abs(d)
           b == Abs(d1)
<1>1. a \in Nat /\ b \in Nat  BY DEF Abs
<1>2. /\ Weight(a) \in Int /\ Weight(b) \in Int
      /\ b <= a => Weight(b) <= Weight(a)
      /\ b <= a - 2 /\ (a > 404 => b <= a - 100) => Weight(b) + 1000 <= Weight(a)
      /\ b <= a - 2 /\ a <= 24 => Weight(b) + 5000 <= Weight(a)
  BY <1>1, WeightDrops
<1>3. 1000 * i + Weight(a) + 1000 * (5 - t) <= 906310 + 5000 * k /\ (t > 0 => a <= 24)
  OBVIOUS
<1>4. \/ t1 = t + 1 /\ b <= a /\ a <= 24
      \/ t1 = 0 /\ b <= a - 2 /\ (a > 404 => b <= a - 100)
      \/ t1 \in {0, t} /\ k1 = k + 1 /\ b <= a
  OBVIOUS
<1> HIDE DEF a, b
<1>5. /\ 1000 * (i + 1) + Weight(b) + 1000 * (5 - t1) <= 906310 + 5000 * k1
      /\ t1 > 0 => b <= 24
  BY <1>1, <1>2, <1>3, <1>4
<1>6. QED  BY <1>5 DEF a, b

LEMMA RoundOnTime ==
  ASSUME EnoughRounds, TypeOK, TypeOK', SettleInv, Round, busy = {},
         NEW c \in Channels, finished'[c] < 5
  PROVE  OnTime(c)'
<1>1. bl = "rounds" /\ iteration' = iteration + 1 /\ offset' = offset
  BY DEF Round, board
<1>2. finished[c] < 5
  <2> SUFFICES ASSUME finished[c] >= 5 PROVE FALSE
    BY ChannelNumbers
  <2>1. finished'[c] = finished[c]
    <3>1. PICK used \in SUBSET Channels : \E d \in [used -> Int] :
            /\ \A x \in used : finished[x] < 5 /\ \E n \in Noise : d[x] = Distance(x) + n
            /\ Evaluate(used, d)
            /\ \/ LoadDAC(values') \/ LoadDACFails(values') \/ (Fault /\ dac' = values')
      BY RoundEffect
    <3>2. c \notin used  BY <3>1, ChannelNumbers
    <3>3. QED  BY <3>1, <3>2 DEF Evaluate
  <2>2. QED  BY <2>1, ChannelNumbers
<1>3. OnTime(c)  BY <1>1, <1>2 DEF SettleInv
<1> DEFINE d == Distance(c)
           e == ValueDistance(c)
           d1 == Distance(c)'
           e1 == ValueDistance(c)'
<1>4. /\ offset[c] \in Int /\ Start + offset[c] \in Dac /\ values[c] \in Dac
      /\ d \in Int /\ e \in Int /\ faults \in 0 .. 4 /\ iteration \in Nat
      /\ finished[c] \in 0 .. 4
  BY <1>2, ChannelNumbers
<1>5. (EnoughRounds /\ TypeOK /\ c \in Channels =>
         /\ Distance(c) \in Int /\ ValueDistance(c) \in Int
         /\ faults \in 0 .. 4 /\ finished[c] \in 0 .. 5)'
  BY ChannelNumbers, PTL
<1>6. d1 \in Int /\ e1 \in Int /\ faults' \in 0 .. 4 /\ finished'[c] \in 0 .. 4
  BY <1>5 DEF EnoughRounds
<1>7. e1 = offset[c] - (values'[c] - Start) /\ d1 = offset[c] - (dac'[c] - Start)
  BY <1>1 DEF ValueDistance, Distance
<1>8. e = offset[c] - (values[c] - Start) /\ d = offset[c] - (dac[c] - Start)
  BY DEF ValueDistance, Distance
<1>9. Lags(d, e, faults) /\ (finished[c] > 0 => Abs(d) <= 24)
      /\ 1000 * iteration + Weight(Abs(d)) + 1000 * (5 - finished[c]) <= 906310 + 5000 * faults
  BY <1>3 DEF OnTime, Due
<1>10. Abs(e) <= Abs(d) /\ Lags(d, e, faults + 1)  BY <1>4, <1>9, LagsShort
<1>11. SUFFICES
         /\ Lags(d1, e1, faults') /\ faults' \in {faults, faults + 1}
         /\ \/ finished'[c] = finished[c] + 1 /\ Abs(d1) <= Abs(d) /\ Abs(d) <= 24
            \/ /\ finished'[c] = 0 /\ Abs(d1) <= Abs(d) - 2
               /\ Abs(d) > 404 => Abs(d1) <= Abs(d) - 100
            \/ /\ finished'[c] \in {0, finished[c]} /\ faults' = faults + 1
               /\ Abs(d1) <= Abs(d)
  <2>1. /\ 1000 * (iteration + 1) + Weight(Abs(d1)) + 1000 * (5 - finished'[c])
             <= 906310 + 5000 * faults'
        /\ finished'[c] > 0 => Abs(d1) <= 24
    <3> HIDE DEF d, d1, e, e1
    <3>1. QED  BY <1>4, <1>6, <1>9, <1>11, RoundPays
  <2>2. Lags(d1, e1, faults')  BY <1>11
  <2>3. Due(c)'
    <3>1. 1000 * iteration' + Weight(Abs(Distance(c)')) + 1000 * (5 - finished'[c])
            <= 906310 + 5000 * faults'
      BY <1>1, <2>1
    <3>2. QED  BY <3>1 DEF Due, Weight, Abs
  <2>4. Lags(Distance(c), ValueDistance(c), faults)'  BY <2>2 DEF Lags, Ahead
  <2>5. (finished[c] > 0 => Abs(Distance(c)) <= 24)'  BY <2>1 DEF Abs
  <2>6. QED  BY <2>3, <2>4, <2>5 DEF OnTime
<1>12. CASE PassedOver(c)
  <2>1. d1 = e /\ e1 = e  BY <1>7, <1>8, <1>12 DEF PassedOver
  <2>2. Lags(d1, e1, faults')  BY <2>1 DEF Lags
  <2>3. finished'[c] = finished[c] /\ faults' = faults + 1  BY <1>12 DEF PassedOver
  <2> HIDE DEF d, d1, e, e1
  <2>4. QED  BY <1>10, <2>1, <2>2, <2>3
<1>13. ASSUME NEW n \in Noise, ReadAs(c, d + n),
              dac'[c] \in {values'[c], dac[c]}, faults' \in {faults, faults + 1},
              dac'[c] = values'[c] \/ faults' = faults + 1
       PROVE  /\ Lags(d1, e1, faults') /\ faults' \in {faults, faults + 1}
              /\ \/ finished'[c] = finished[c] + 1 /\ Abs(d1) <= Abs(d) /\ Abs(d) <= 24
                 \/ /\ finished'[c] = 0 /\ Abs(d1) <= Abs(d) - 2
                    /\ Abs(d) > 404 => Abs(d1) <= Abs(d) - 100
                 \/ /\ finished'[c] \in {0, finished[c]} /\ faults' = faults + 1
                    /\ Abs(d1) <= Abs(d)
  <2>1. n \in -4 .. 4  BY DEF EnoughRounds
  <2>2. d1 = e1 \/ (d1 = d /\ faults' = faults + 1)  BY <1>7, <1>8, <1>13
  <2>3. CASE Near(d + n)
    <3>1. e1 = e /\ finished'[c] = finished[c] + 1  BY <1>7, <1>8, <1>13, <2>3 DEF ReadAs
    <3>2. Abs(d) <= 24
      <4> HIDE DEF d
      <4>1. QED  BY <1>4, <2>1, <2>3 DEF Near, Abs
    <3> HIDE DEF d, d1, e, e1
    <3>3. Lags(d1, e1, faults')  BY <1>10, <2>2, <3>1 DEF Lags
    <3>4. Abs(d1) <= Abs(d)
      <4>1. Abs(d) \in Int  BY <1>4 DEF Abs
      <4>2. QED  BY <1>10, <2>2, <3>1, <4>1
    <3>5. QED  BY <1>13, <3>1, <3>2, <3>3, <3>4
  <2>4. CASE ~Near(d + n)
    <3>1. e1 = offset[c] - (Stepped(values[c], d + n) - Start) /\ finished'[c] = 0
      BY <1>7, <1>13, <2>4 DEF ReadAs
    <3>2. Lags(d, offset[c] - (values[c] - Start), faults)  BY <1>8, <1>9
    <3> HIDE DEF d, d1, e, e1
    <3>3. /\ Lags(d, e1, faults + 1) /\ Abs(e1) <= Abs(d) - 2
          /\ Abs(d) > 404 => Abs(e1) <= Abs(d) - 100
      BY <1>4, <2>1, <2>4, <3>1, <3>2, StepNearer
    <3>4. CASE d1 = e1
      <4>1. Lags(d1, e1, faults')  BY <3>4 DEF Lags
      <4>2. QED  BY <1>13, <3>1, <3>3, <3>4, <4>1
    <3>5. CASE d1 = d /\ faults' = faults + 1
      <4>1. Lags(d1, e1, faults')  BY <3>3, <3>5
      <4>2. Abs(d) \in Int  BY <1>4 DEF Abs
      <4>3. QED  BY <1>13, <3>1, <3>5, <4>1, <4>2
    <3>6. QED  BY <2>2, <3>4, <3>5
  <2>5. QED  BY <2>3, <2>4
<1>14. QED
  <2>1. CASE \E n \in Noise : ReadAs(c, Distance(c) + n)
             /\ dac'[c] \in {values'[c], dac[c]} /\ faults' \in {faults, faults + 1}
             /\ (dac'[c] = values'[c] \/ faults' = faults + 1)
    BY <1>13, <2>1
  <2>2. QED  BY <1>2, <1>12, <2>1, ChannelRead

\* The first distance is within the range of the DAC, and there is time for it.
LEMMA StartsOnTime ==
  ASSUME EnoughRounds, TypeOK, TypeOK', DetermineBaselines, bl' = "rounds", NEW c \in Channels
  PROVE  OnTime(c)'
<1>1. /\ values' = Initial /\ dac' = values' /\ iteration' = 0 /\ finished'[c] = 0
      /\ offset' = offset /\ faults' = faults
  BY DEF DetermineBaselines, Return, LoadDAC, StartRounds, board
<1>2. /\ offset[c] \in Int /\ faults \in 0 .. 4 /\ Start \in Int
      /\ -65535 <= offset[c] /\ offset[c] <= 65535
  <2>1. offset[c] \in Int /\ Start + offset[c] \in Dac /\ Start \in Dac /\ faults \in 0 .. 4
    BY ChannelNumbers, Numbers
  <2>2. \A w \in Dac : w \in Int /\ 0 <= w /\ w <= 65535  BY DEF Dac, MaxDac
  <2>3. /\ Start \in Int /\ 0 <= Start /\ Start <= 65535
        /\ 0 <= Start + offset[c] /\ Start + offset[c] <= 65535
    BY <2>1, <2>2
  <2>4. QED  BY <2>1, <2>3
<1>3. Initial[c] = Start  BY DEF Initial
<1>4. Distance(c)' = offset[c] /\ ValueDistance(c)' = offset[c]
  BY <1>1, <1>2, <1>3 DEF Distance, ValueDistance
<1>5. Abs(offset[c]) \in Nat /\ Abs(offset[c]) <= 65535  BY <1>2 DEF Abs
<1>6. Weight(Abs(offset[c])) <= 901310
  <2>1. Weight(Abs(offset[c])) <= Weight(65535)  BY <1>5, WeightDrops
  <2>2. Weight(65535) = 901310  BY DEF Weight
  <2>3. Weight(Abs(offset[c])) \in Int  BY <1>5, WeightDrops
  <2>4. QED  BY <2>1, <2>2
<1>7. 1000 * iteration' + Weight(Abs(Distance(c)')) + 1000 * (5 - finished'[c])
        <= 906310 + 5000 * faults'
  <2>1. Weight(Abs(offset[c])) \in Int  BY <1>5, WeightDrops
  <2>2. QED  BY <1>1, <1>2, <1>4, <1>6, <2>1
<1>8. Due(c)'  BY <1>7 DEF Due, Weight, Abs
<1>9. Lags(Distance(c), ValueDistance(c), faults)'  BY <1>4 DEF Lags
<1>10. (finished[c] > 0 => Abs(Distance(c)) <= 24)'  BY <1>1
<1>11. QED  BY <1>8, <1>9, <1>10 DEF OnTime

LEMMA MissedOnTime ==
  ASSUME EnoughRounds, TypeOK, ReadFails, NEW c \in Channels, OnTime(c)
  PROVE  OnTime(c)'
<1>1. /\ UNCHANGED <<offset, dac, values, finished>> /\ faults' = faults + 1
      /\ iteration' = iteration + 1
  BY DEF ReadFails, board, Fault
<1> DEFINE d == Distance(c)
           e == ValueDistance(c)
<1>2. /\ d \in Int /\ e \in Int /\ faults \in 0 .. 4 /\ iteration \in Nat
      /\ finished[c] \in 0 .. 5
  BY ChannelNumbers
<1>3. Distance(c)' = d /\ ValueDistance(c)' = e  BY <1>1 DEF Distance, ValueDistance
<1>4. Lags(d, e, faults) /\ (finished[c] > 0 => Abs(d) <= 24)
      /\ 1000 * iteration + Weight(Abs(d)) + 1000 * (5 - finished[c]) <= 906310 + 5000 * faults
  BY DEF OnTime, Due
<1>5. Lags(d, e, faults + 1)  BY <1>2, <1>4, LagsShort
<1>6. 1000 * iteration' + Weight(Abs(d)) + 1000 * (5 - finished'[c]) <= 906310 + 5000 * faults'
  <2>1. Abs(d) \in Nat  BY <1>2 DEF Abs
  <2>2. Weight(Abs(d)) \in Int  BY <2>1, WeightDrops
  <2> HIDE DEF d
  <2>3. QED  BY <1>1, <1>2, <1>4, <2>2
<1>7. Due(c)'
  <2>1. 1000 * iteration' + Weight(Abs(Distance(c)')) + 1000 * (5 - finished'[c])
          <= 906310 + 5000 * faults'
    BY <1>3, <1>6
  <2>2. QED  BY <2>1 DEF Due, Weight, Abs
<1>8. Lags(Distance(c), ValueDistance(c), faults)'  BY <1>1, <1>3, <1>5 DEF Lags, Ahead
<1>9. (finished[c] > 0 => Abs(Distance(c)) <= 24)'  BY <1>1, <1>3, <1>4 DEF Abs
<1>10. QED  BY <1>7, <1>8, <1>9 DEF OnTime

LEMMA SettleStep ==
  ASSUME EnoughRounds, TypeOK, TypeOK', SettleInv, [Next]_baselineVars
  PROVE  SettleInv'
<1>1. SUFFICES ASSUME bl' = "rounds", busy' = {}, NEW c \in Channels, finished'[c] < 5
               PROVE  OnTime(c)'
  BY DEF SettleInv
<1>2. ASSUME NEW m \in -1 .. 2, NEW b \in BusySets, Initialize(m, b) PROVE FALSE
  BY <1>1, <1>2 DEF Initialize
<1>3. CASE DetermineBaselines  BY <1>1, <1>3, StartsOnTime
<1>4. CASE Round
  <2>1. busy = {}  BY <1>1, <1>4 DEF Round, board
  <2>2. QED  BY <1>1, <1>4, <2>1, RoundOnTime
<1>5. CASE ReadFails
  <2>1. OnTime(c)  BY <1>1, <1>5 DEF ReadFails, board, SettleInv
  <2>2. QED  BY <1>5, <2>1, MissedOnTime
<1>6. CASE WriteBaselines  BY <1>1, <1>6 DEF WriteBaselines, Return
<1>7. CASE Finish  BY <1>1, <1>7 DEF Finish
<1>8. CASE Close  BY <1>1, <1>8 DEF Close
<1>9. CASE UNCHANGED baselineVars
  <2>1. UNCHANGED <<offset, dac, values, finished, bl, busy, iteration, faults>>
    BY <1>9 DEF baselineVars, board, routine
  <2>2. OnTime(c)  BY <1>1, <2>1 DEF SettleInv
  <2>3. QED
    BY <2>1, <2>2 DEF OnTime, Lags, Ahead, Due, Weight, Abs, Distance, ValueDistance
<1>10. QED
  BY <1>2, <1>3, <1>4, <1>5, <1>6, <1>7, <1>8, <1>9 DEF Next, Initializing

\* When the rounds are over, a channel that is not finished would be overdue.
LEMMA NotOverdue ==
  ASSUME EnoughRounds, TypeOK, SettleInv, bl = "rounds", iteration > MaxIterations, ~AllFinished
  PROVE  busy # {}
<1> SUFFICES ASSUME busy = {} PROVE FALSE
  OBVIOUS
<1>1. PICK c \in Channels : ~(finished[c] >= 5)  BY DEF AllFinished
<1>2. /\ faults \in 0 .. 4 /\ iteration \in Nat /\ finished[c] \in 0 .. 5
      /\ Distance(c) \in Int
  BY ChannelNumbers
<1>3. finished[c] \in 0 .. 4 /\ OnTime(c)  BY <1>1, <1>2 DEF SettleInv
<1>4. Abs(Distance(c)) \in Nat  BY <1>2 DEF Abs
<1>5. Weight(Abs(Distance(c))) \in Int /\ Weight(Abs(Distance(c))) >= 0
  BY <1>4, WeightDrops
<1>6. 1000 * iteration + Weight(Abs(Distance(c))) + 1000 * (5 - finished[c])
        <= 906310 + 5000 * faults
  BY <1>3 DEF OnTime, Due
<1>7. iteration >= 931  BY <1>2, Numbers DEF EnoughRounds
<1>8. QED  BY <1>2, <1>3, <1>5, <1>6, <1>7

LEMMA SettledStep ==
  ASSUME EnoughRounds, TypeOK, SettleInv, Settles, [Next]_baselineVars
  PROVE  Settles'
<1>1. ASSUME NEW m \in -1 .. 2, NEW b \in BusySets, Initialize(m, b) PROVE Settles'
  BY <1>1 DEF Initialize, Settles
<1>2. CASE DetermineBaselines
  BY <1>2 DEF DetermineBaselines, board, Settles
<1>3. CASE WriteBaselines
  <2>1. busy' = busy /\ unsettled' = ~AllFinished  BY <1>3 DEF WriteBaselines, board
  <2>2. ~AllFinished => busy # {}  BY <1>3, NotOverdue DEF WriteBaselines
  <2>3. QED  BY <2>1, <2>2 DEF Settles
<1>4. CASE Round \/ ReadFails \/ Finish \/ Close \/ UNCHANGED baselineVars
  <2>1. busy' = busy /\ unsettled' = unsettled
    BY <1>4 DEF Round, ReadFails, Finish, Close, baselineVars, board
  <2>2. QED  BY <2>1 DEF Settles
<1>5. QED  BY <1>1, <1>2, <1>3, <1>4 DEF Next, Initializing

\* With noise of one count at most and no more than four failures, 930 rounds are enough from
\* every distance that the DAC can make up for: a determination that uses up the thousand of
\* CBV1724::DetermineBaselines has a channel from which nothing useful was read.
THEOREM RoundsAreEnough ==
  ASSUME MaxIterations >= 930, MaxFaults <= 4, Noise \subseteq -4 .. 4
  PROVE  Spec => []Settles
<1> DEFINE I == TypeOK /\ SettleInv /\ Settles
<1>1. EnoughRounds  BY DEF EnoughRounds
<1>2. Init => I
  <2> SUFFICES ASSUME Init PROVE I
    OBVIOUS
  <2>1. 0 \in 0 .. MaxIterations + 1 /\ 0 \in 0 .. MaxTries /\ 0 \in 0 .. MaxFaults  BY Numbers
  <2>2. TypeOK  BY <2>1, Numbers DEF Init, TypeOK
  <2>3. QED  BY <2>2 DEF Init, SettleInv, Settles
<1>3. I /\ [Next]_baselineVars => I'
  <2> SUFFICES ASSUME I, [Next]_baselineVars PROVE I'
    OBVIOUS
  <2>1. TypeOK'  BY StepTypeOK
  <2>2. QED  BY <1>1, <2>1, SettleStep, SettledStep
<1>4. I => Settles  OBVIOUS
<1>5. QED  BY <1>2, <1>3, <1>4, PTL DEF Spec
==============================================================================
