----------------------------- MODULE Collections -----------------------------
(***************************************************************************)
(* The buffer collections of one detector's run: InsertRunDoc makes the    *)
(* first ones on every host, a thread of the dispatcher makes the later    *)
(* ones ahead of time, and the readers choose the one they write to by     *)
(* their count of clock resets.  Dispatcher and readers share no clock and *)
(* exchange no message about it.                                           *)
(*                                                                         *)
(* Time is in seconds since the thread was started.                        *)
(***************************************************************************)
EXTENDS Integers, FiniteSets

CONSTANTS
  Readers,  \* readers that write
  MaxMake,  \* how long making a collection takes at most, in seconds
  MaxFails, \* bound: collections that cannot be made
  MaxLag,   \* bound: seconds from InsertRunDoc to START
  MaxTime   \* bound: seconds of a run

\* Assumed by RunSetup.
CollectionsAssumption ==
  {MaxMake, MaxFails, MaxLag, MaxTime} \subseteq Nat /\ MaxLag <= MaxTime

VARIABLES
  target,  \* what the options say: rotating, and the address of each reader and of nobody
  prep,    \* InsertRunDoc: none, done, or failed with a part of its work done
  made,    \* the collections: pairs of an address and an index, -1 without rotation
  missing, \* history: those whose making failed
  run,     \* m_collectionThreads[detector].run
  thread,  \* the thread: ended, awake, making
  counter, \* its counter
  at,      \* when it goes on
  now,
  began    \* when the readers' clocks were reset by START; -1 before

collThread == <<run, thread, counter, at>>
collVars == <<target, prep, made, missing, collThread, now, began>>

Idle == [rotating |-> FALSE, hosts |-> {}, base |-> "", writes |-> [r \in Readers |-> ""]]

\* The addresses that collections are made at: each host once, or the base without hosts.
Targets(t) == IF t.hosts = {} THEN {t.base} ELSE t.hosts

\* The period of the clock is 2^31 times 10 ns; 21.47 s is a little less.
Resets == (100 * (now - began)) \div 2147

Init ==
  /\ target = Idle
  /\ prep = "none"
  /\ made = {} /\ missing = {}
  /\ run = FALSE
  /\ thread = "ended"
  /\ counter = 0
  /\ at = 0
  /\ now = 0
  /\ began = -1

-----------------------------------------------------------------------------
(***************************************************************************)
(* InsertRunDoc.                                                           *)
(***************************************************************************)

\* The thread of the last run is told to end, and joined.
TellThread ==
  /\ thread # "ended" /\ run
  /\ run' = FALSE
  /\ UNCHANGED <<target, prep, made, missing, thread, counter, at, now, began>>

\* What InsertRunDoc makes: with rotation two for each host and none at the base.
FirstOnes(t) ==
  IF t.rotating THEN t.hosts \X {0, 1} ELSE Targets(t) \X {-1}

\* A bug for the mutation runs: the thread begins one collection too late.
FirstCounterLate == 3

FirstCounter == 2

\* A bug for the mutation runs: the flag is set for a thread that was not created.
StartThreadNone ==
  /\ run' = TRUE
  /\ counter' = FirstCounter
  /\ at' = 0
  /\ UNCHANGED thread

StartThread ==
  /\ run' = TRUE
  /\ thread' = "awake"
  /\ counter' = FirstCounter
  /\ at' = 0

\* The options must name an address.  One failure ends the function, thread or not.
InsertRunDoc(t) ==
  /\ thread = "ended"
  /\ target' = t
  /\ now' = 0 /\ began' = -1
  /\ \/ /\ t.base = ""
        /\ prep' = "failed"
        /\ run' = FALSE
        /\ UNCHANGED <<made, missing, thread, counter, at>>
     \/ /\ t.base # ""
        /\ prep' = "done"
        /\ made' = FirstOnes(t) /\ missing' = {}
        /\ IF t.rotating THEN StartThread ELSE run' = FALSE /\ UNCHANGED <<thread, counter, at>>
     \/ /\ t.base # "" /\ MaxFails > 0 /\ FirstOnes(t) # {}
        /\ prep' = "failed"
        /\ run' = FALSE
        /\ made' \in (SUBSET FirstOnes(t)) \ {FirstOnes(t)}
        /\ UNCHANGED <<missing, thread, counter, at>>

-----------------------------------------------------------------------------
(***************************************************************************)
(* CollectionThreadWrapper.                                                *)
(***************************************************************************)

\* A tenth of the time and ten collections ahead, a clock period taken as 21 s.
Due == 11 * now + 10 * 210 > 210 * counter

Sleep == thread' = "awake" /\ at' = now + 1

Look ==
  /\ thread = "awake" /\ at <= now /\ prep # "none"
  /\ IF ~run THEN thread' = "ended" /\ UNCHANGED at
     ELSE IF ~Due THEN Sleep
     ELSE thread' = "making" /\ \E d \in 0 .. MaxMake : at' = now + d
  /\ UNCHANGED <<target, prep, made, missing, run, counter, now, began>>

\* One on every host.  The result is not looked at.
Make ==
  /\ thread = "making" /\ at <= now /\ prep # "none"
  /\ LET new == Targets(target) \X {counter} IN
     \/ made' = made \cup new /\ UNCHANGED missing
     \/ /\ Cardinality(missing) < MaxFails
        /\ \E c \in new : made' = made \cup (new \ {c}) /\ missing' = missing \cup {c}
  /\ counter' = counter + 1
  /\ Sleep
  /\ UNCHANGED <<target, prep, run, now, began>>

\* Told to end, it does so when its sleep or its collection is over.
Leave ==
  /\ ~run /\ thread \in {"awake", "making"}
  /\ thread' = "ended"
  /\ UNCHANGED <<target, prep, made, missing, run, counter, at, now, began>>

-----------------------------------------------------------------------------
(***************************************************************************)
(* The run.                                                                *)
(***************************************************************************)

\* START: the boards' clocks are reset when the run begins.
Begin ==
  /\ began = -1 /\ prep # "none" /\ now <= MaxLag
  /\ began' = now
  /\ UNCHANGED <<target, prep, made, missing, collThread, now>>

Tick ==
  /\ prep # "none" /\ now < (IF began = -1 THEN MaxLag ELSE MaxTime)
  /\ thread # "ended" => at > now
  /\ now' = now + 1
  /\ UNCHANGED <<target, prep, made, missing, collThread, began>>

\* UpdateEndTime: the thread is marked by the detector's own name only, and by the detector's
\* monitor only if that has seen it running.  (What the thread
\* does between two runs is not followed.)
UpdateEndTime(marked) ==
  /\ prep # "none"
  /\ run' = (run /\ ~marked)
  /\ prep' = "none"
  /\ target' = Idle
  /\ made' = {} /\ missing' = {}
  /\ now' = 0 /\ began' = -1
  /\ at' = 0 /\ counter' = 0
  /\ UNCHANGED thread

-----------------------------------------------------------------------------
(***************************************************************************)
(* Properties.                                                             *)
(***************************************************************************)
TypeOK ==
  /\ DOMAIN target = DOMAIN Idle
  /\ prep \in {"none", "done", "failed"}
  /\ made \cup missing \subseteq Targets(target) \X Int
  /\ run \in BOOLEAN /\ thread \in {"ended", "awake", "making"}
  /\ run => thread # "ended"
  /\ now \in 0 .. MaxTime /\ began \in -1 .. MaxTime

\* What a reader writes to was made, or could not be.  Of its run only what InsertRunDoc got
\* ready is said; every reader must be listed if any is, and rotation needs the list.
WritesFindCollection ==
  prep = "done" /\ began # -1
    /\ (\A r \in Readers : target.writes[r] \in Targets(target))
    /\ (target.rotating => target.hosts # {}) =>
    \A r \in Readers : LET c == <<target.writes[r], IF target.rotating THEN Resets ELSE -1>>
                       IN c \in made \cup missing
=============================================================================
