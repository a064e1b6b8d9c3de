------------------------------ MODULE Baselines ------------------------------
(***************************************************************************)
(* The baselines of one board: CBV1724::Initialize, which may determine    *)
(* them by an iteration over the DAC values of the channels, keeps them in *)
(* a file and loads that file at every arming.                             *)
(*                                                                         *)
(* A channel's mean sample falls by one count when its DAC rises by four.  *)
(* Distances are in quarters of a count, so DAC values and distances are   *)
(* integers of one scale.                                                  *)
(***************************************************************************)
EXTENDS Integers

CONSTANTS
  Channels,      \* 1 .. 8 in the code
  Offsets,       \* functions from channels to the distance that the first DAC value leaves
  Noise,         \* how much the mean of one reading may be off
  BusySets,      \* sets of channels without a usable reading while the board is armed
  Start,         \* the first DAC value, 0xFFFF - fIdealBaseline
  MaxIterations, \* maxIterations: 1000 in the code
  MaxTries,      \* the limit of tries: 5 in the code
  MaxFaults      \* bound: accesses to the board that fail, readings with a signal

MaxDac == 65535
Dac    == 0 .. MaxDac

\* Assumed by RunSetup, too.
BaselinesParameters ==
  /\ Channels \subseteq Nat \ {0} /\ Channels # {}
  /\ Start \in Dac
  /\ Offsets \subseteq [Channels -> Int]
  /\ \A o \in Offsets : \A c \in Channels : Start + o[c] \in Dac
  /\ Noise \subseteq Int /\ 0 \in Noise
  /\ BusySets \subseteq SUBSET Channels
  /\ {MaxIterations, MaxTries, MaxFaults} \subseteq Nat

ASSUME BaselinesAssumption == BaselinesParameters

VARIABLES
  offset, \* the board: one of Offsets
  dac,    \* the board: its DAC registers
  file,   \* XeBaselines_<id>.ini; <<>> if there is none
  bl,     \* where Initialize is: off, determine, rounds, finish, armed, failed
  mode,   \* baseline_mode; -1 if the field is not there
  busy,   \* the channels without a usable reading
  values, \* DACValues
  finished, \* channelFinished
  iteration, \* currentIteration
  tries,
  ret,    \* what the last DetermineBaselines returned (0 if there was none)
  loaded, \* LoadBaselines returned 0
  good,   \* history: the values of the last determination that returned 0
  unsettled, \* history: this arming's last determination used up its rounds
  faults

routine == <<values, finished, iteration, tries>>
board   == <<offset, mode, busy>>
baselineVars == <<board, dac, file, bl, routine, ret, loaded, good, unsettled, faults>>

Initial == [c \in Channels |-> Start]

Init ==
  /\ offset \in Offsets
  /\ dac = Initial
  /\ file = <<>>
  /\ bl = "off"
  /\ mode = 2
  /\ busy = {}
  /\ values = Initial
  /\ finished = [c \in Channels |-> 0]
  /\ iteration = 0
  /\ tries = 0
  /\ ret = 0
  /\ loaded = FALSE
  /\ good = <<>>
  /\ unsettled = FALSE
  /\ faults = 0

Fault == faults < MaxFaults /\ faults' = faults + 1

-----------------------------------------------------------------------------
(***************************************************************************)
(* The board.                                                              *)
(***************************************************************************)

\* LoadDAC succeeds: every channel has its value.
LoadDAC(v) == dac' = v /\ UNCHANGED faults

\* LoadDAC gives up at a channel, before or after its value was written.
LoadDACFails(v) ==
  /\ Fault
  /\ \E c \in Channels, written \in BOOLEAN :
       dac' = [x \in Channels |-> IF x < c \/ (x = c /\ written) THEN v[x] ELSE dac[x]]

Distance(c) == offset[c] - (dac[c] - Start)

Abs(x) == IF x < 0 THEN -x ELSE x

-----------------------------------------------------------------------------
(***************************************************************************)
(* DetermineBaselines.                                                     *)
(***************************************************************************)

\* A mean within maxDev, five counts.
Near(d) == Abs(d) <= 20

\* A bug for the mutation runs: the step that fits a distance below 1000 counts is missing.
StepSizeCoarse(d) ==
  LET a == Abs(d) IN
  IF a >= 2000 THEN 1000 ELSE IF a >= 400 THEN 100 ELSE IF a >= 200 THEN 50 ELSE 45

\* By how much the DAC value is changed.
StepSize(d) ==
  LET a == Abs(d) IN
  IF a >= 4000 THEN 1000 ELSE IF a >= 2000 THEN a \div 4 ELSE IF a >= 400 THEN 100
  ELSE IF a >= 200 THEN 10 ELSE IF a >= 80 THEN 5 ELSE IF a >= 20 THEN 2 ELSE 1

Clamp(v) == IF v < 0 THEN 0 ELSE IF v > MaxDac THEN MaxDac ELSE v

Stepped(v, d) == Clamp(IF d < 0 THEN v - StepSize(d) ELSE v + StepSize(d))

AllFinished == \A c \in Channels : finished[c] >= 5

\* What the evaluation leaves of a round's readings: d[c] for the channels in use.
Evaluate(used, d) ==
  /\ values' = [c \in Channels |->
       IF c \in used /\ ~Near(d[c]) THEN Stepped(values[c], d[c]) ELSE values[c]]
  /\ finished' = [c \in Channels |->
       IF c \notin used THEN finished[c] ELSE IF Near(d[c]) THEN finished[c] + 1 ELSE 0]

\* A bug for the mutation runs: the channels that had finished an earlier time still have.
StartRoundsKeep ==
  /\ values' = Initial
  /\ iteration' = 0
  /\ UNCHANGED finished

StartRounds ==
  /\ values' = Initial
  /\ iteration' = 0
  /\ finished' = [c \in Channels |-> 0]

\* It returned: Initialize tries again, or goes on.
Return(r) ==
  /\ ret' = r
  /\ IF r # 0 /\ tries < MaxTries THEN bl' = "determine" /\ tries' = tries + 1
                                  ELSE bl' = "finish" /\ UNCHANGED tries

\* The first DAC values are loaded and the registers are set for it.
DetermineBaselines ==
  /\ bl = "determine"
  /\ StartRounds
  /\ UNCHANGED <<board, file, loaded, good>>
  /\ \/ /\ LoadDAC(values')
        /\ bl' = "rounds"
        /\ UNCHANGED <<tries, ret, unsettled>>
     \/ \* One of the writes of InitForPreProcessing fails.
        /\ dac' = values' /\ Fault
        /\ Return(-1)
        /\ unsettled' = FALSE
     \/ /\ LoadDACFails(values')
        /\ Return(-1)
        /\ unsettled' = FALSE

\* The readings of a round: busy and finished channels are passed over, and so is one that
\* happens to have a signal.
Round ==
  /\ bl = "rounds" /\ iteration <= MaxIterations /\ ~AllFinished
  /\ iteration' = iteration + 1
  /\ UNCHANGED <<board, file, bl, tries, ret, loaded, good, unsettled>>
  /\ LET usable == {c \in Channels \ busy : finished[c] < 5} IN
     \E n \in [usable -> Noise] :
       LET d == [c \in usable |-> Distance(c) + n[c]] IN
       \/ Evaluate(usable, d) /\ LoadDAC(values')
       \/ Evaluate(usable, d) /\ LoadDACFails(values')
       \/ /\ Fault
          /\ \E c \in usable : Evaluate(usable \ {c}, d) /\ dac' = values'

\* Nothing could be read: the round is over.
ReadFails ==
  /\ bl = "rounds" /\ iteration <= MaxIterations /\ ~AllFinished
  /\ Fault
  /\ iteration' = iteration + 1
  /\ UNCHANGED <<board, dac, file, bl, values, finished, tries, ret, loaded, good, unsettled>>

\* The file is written whether the channels are finished or not.
WriteBaselines ==
  /\ bl = "rounds" /\ (AllFinished \/ iteration > MaxIterations)
  /\ file' = values
  /\ Return(IF AllFinished THEN 0 ELSE -1)
  /\ good' = IF AllFinished THEN values ELSE good
  /\ unsettled' = ~AllFinished
  /\ UNCHANGED <<board, dac, values, finished, iteration, loaded, faults>>

-----------------------------------------------------------------------------
(***************************************************************************)
(* Initialize.                                                             *)
(***************************************************************************)
Initialize(m, b) ==
  /\ bl = "off"
  /\ mode' = m
  /\ busy' = b
  /\ bl' = IF m = 1 THEN "determine" ELSE "finish"
  /\ tries' = 0
  /\ ret' = 0
  /\ loaded' = FALSE /\ unsettled' = FALSE
  /\ UNCHANGED <<offset, dac, file, values, finished, iteration, good, faults>>

\* LoadBaselines.  Its result is thrown away.
LoadBaselines ==
  \/ file = <<>> /\ loaded' = FALSE /\ UNCHANGED <<dac, faults>>
  \/ file # <<>> /\ loaded' = TRUE /\ LoadDAC(file)
  \/ file # <<>> /\ loaded' = FALSE /\ LoadDACFails(file)

\* The VME options, then the baselines of the file unless they are unwanted.  DetermineBaselines
\* and LoadVMEOptions decide on the result.  (What was local to DetermineBaselines is forgotten.)
Finish ==
  /\ bl = "finish"
  /\ IF mode = 2 THEN UNCHANGED <<dac, loaded, faults>> ELSE LoadBaselines
  /\ bl' \in {IF ret = 0 THEN "armed" ELSE "failed", "failed"}
  /\ values' = Initial /\ iteration' = 0
  /\ UNCHANGED <<board, file, finished, tries, ret, good, unsettled>>

\* StopRun and Close: the next arming makes a new board object.
Close ==
  /\ bl \in {"armed", "failed"}
  /\ bl' = "off"
  /\ UNCHANGED <<board, dac, file, routine, ret, loaded, good, unsettled, faults>>

Initializing == DetermineBaselines \/ Round \/ ReadFails \/ WriteBaselines \/ Finish

\* The board by itself: armed again and again, in any mode.
Next ==
  \/ \E m \in -1 .. 2, b \in BusySets : Initialize(m, b)
  \/ Initializing
  \/ Close

Spec == Init /\ [][Next]_baselineVars

-----------------------------------------------------------------------------
(***************************************************************************)
(* Properties.                                                             *)
(***************************************************************************)
TypeOK ==
  /\ offset \in Offsets /\ busy \subseteq Channels /\ mode \in -1 .. 2
  /\ {dac, values} \subseteq [Channels -> Dac]
  /\ {file, good} \subseteq [Channels -> Dac] \cup {<<>>}
  /\ bl \in {"off", "determine", "rounds", "finish", "armed", "failed"}
  /\ finished \in [Channels -> 0 .. 5]
  /\ iteration \in 0 .. MaxIterations + 1 /\ tries \in 0 .. MaxTries
  /\ ret \in {0, -1} /\ faults \in 0 .. MaxFaults

\* The rounds are enough: the steps neither overshoot for ever nor creep, and a determination
\* that runs out of rounds has a channel nothing useful was read from.
Settles == unsettled => busy # {}

\* A board that reports that it was initialized with the values of a successful determination
\* has every channel within maxDev of the level, give or take the noise, whatever was done to
\* the registers and the file since.
ArmedBoardIsGood ==
  bl = "armed" /\ loaded /\ file = good =>
    \A c \in Channels : \E n \in Noise : Abs(Distance(c) + n) <= 20
=============================================================================
