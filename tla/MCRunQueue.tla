----------------------------- MODULE MCRunQueue -----------------------------
(***************************************************************************)
(* The run queue with every queue of up to two (three) runs to begin with. *)
(***************************************************************************)
EXTENDS RunQueue

QueuesUpTo(n) ==
  { [i \in DOMAIN s |-> [id |-> i, det |-> s[i], active |-> FALSE]] :
      s \in UNION {[1 .. k -> Names] : k \in 1 .. n} }

TwoRuns   == QueuesUpTo(2)
ThreeRuns == QueuesUpTo(3)
=============================================================================
