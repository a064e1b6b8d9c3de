------------------------------ MODULE EventFlow -------------------------------
(***************************************************************************)
(* What the readout pipeline promises of every event, whatever its threads *)
(* and locks do: the events of a board go from the board to the buffer to  *)
(* one processor and from there into the recorder, the older ones first;   *)
(* an event is given up only with a transfer that is rejected, with a bulk *)
(* that cannot be inserted, or with the boards themselves, which are       *)
(* deleted only when no processor has anything in hand.  Readout           *)
(* implements it.                                                          *)
(***************************************************************************)
EXTENDS Integers

CONSTANTS
  Digis,    \* the boards
  Procs,    \* the processors
  MaxEvents \* bound: events a board produces in a run

VARIABLES
  made,     \* made[d]: events the board produced
  board,    \* board[d]: events that were not buffered yet
  buffered, \* buffered[d]: events no processor took yet
  hand,     \* hand[p][d]: events of d that p is working on
  recorded, dropped

vars == <<made, board, buffered, hand, recorded, dropped>>

Nothing == [d \in Digis |-> {}]

Clear(m, b, q, r, l) ==
  /\ m = [d \in Digis |-> 0]
  /\ b = Nothing /\ q = Nothing /\ r = Nothing /\ l = Nothing

Init ==
  /\ Clear(made, board, buffered, recorded, dropped)
  /\ hand = [p \in Procs |-> Nothing]

Add(f, d, S) == [f EXCEPT ![d] = @ \cup S]
Del(f, d, S) == [f EXCEPT ![d] = @ \ S]

Produce(d) ==
  /\ made[d] < MaxEvents
  /\ made' = [made EXCEPT ![d] = @ + 1]
  /\ board' = Add(board, d, {made[d] + 1})
  /\ UNCHANGED <<buffered, hand, recorded, dropped>>

\* The older part of what the board holds.
OlderPart(S, d) ==
  /\ S # {} /\ S \subseteq board[d]
  /\ \A e \in S, f \in board[d] \ S : e < f

Buffer(d, S) ==
  /\ OlderPart(S, d)
  /\ board' = Del(board, d, S)
  /\ buffered' = Add(buffered, d, S)
  /\ UNCHANGED <<made, hand, recorded, dropped>>

Reject(d, S) ==
  /\ OlderPart(S, d)
  /\ board' = Del(board, d, S)
  /\ dropped' = Add(dropped, d, S)
  /\ UNCHANGED <<made, buffered, hand, recorded>>

\* A processor with empty hands takes everything that is buffered for a board.
Take(p, d) ==
  /\ hand[p] = Nothing
  /\ hand' = [hand EXCEPT ![p][d] = buffered[d]]
  /\ buffered' = [buffered EXCEPT ![d] = {}]
  /\ UNCHANGED <<made, board, recorded, dropped>>

\* All it has is of one board, and nothing stays in its hands: all of it is recorded, or none.
Finish(p, d) ==
  /\ \A e \in Digis \ {d} : hand[p][e] = {}
  /\ hand' = [hand EXCEPT ![p] = Nothing]
  /\ \/ recorded' = Add(recorded, d, hand[p][d]) /\ UNCHANGED dropped
     \/ dropped' = Add(dropped, d, hand[p][d]) /\ UNCHANGED recorded
  /\ UNCHANGED <<made, board, buffered>>

\* The boards are deleted, or made anew.
NewBoards ==
  /\ hand = [p \in Procs |-> Nothing]
  /\ Clear(made', board', buffered', recorded', dropped')
  /\ UNCHANGED hand

Next ==
  \/ \E d \in Digis :
       \/ Produce(d)
       \/ \E S \in SUBSET board[d] : Buffer(d, S) \/ Reject(d, S)
       \/ \E p \in Procs : Take(p, d) \/ Finish(p, d)
  \/ NewBoards

Spec == Init /\ [][Next]_vars

-----------------------------------------------------------------------------
(* What follows from it: events are neither lost nor doubled, and keep     *)
(* their order up to the processors.                                       *)

TypeInv ==
  /\ made \in [Digis -> Nat]
  /\ board \in [Digis -> SUBSET Nat] /\ buffered \in [Digis -> SUBSET Nat]
  /\ recorded \in [Digis -> SUBSET Nat] /\ dropped \in [Digis -> SUBSET Nat]
  /\ hand \in [Procs -> [Digis -> SUBSET Nat]]

\* Every event that was produced is in one of the places, and nothing else is.
Complete(d) ==
  \A e : e \in 1 .. made[d] <=>
    \/ e \in board[d] \/ e \in buffered[d] \/ e \in recorded[d] \/ e \in dropped[d]
    \/ \E p \in Procs : e \in hand[p][d]

\* No event is in two places.
Exclusive(d) ==
  /\ board[d] \cap (buffered[d] \cup recorded[d] \cup dropped[d]) = {}
  /\ buffered[d] \cap (recorded[d] \cup dropped[d]) = {}
  /\ recorded[d] \cap dropped[d] = {}
  /\ \A p \in Procs :
       /\ hand[p][d] \cap (board[d] \cup buffered[d] \cup recorded[d] \cup dropped[d]) = {}
       /\ \A q \in Procs \ {p} : hand[p][d] \cap hand[q][d] = {}

Older(S, T) == \A e \in S, f \in T : e < f

\* Whatever is nearer to the recorder is older, until a processor has it.
Ordered(d) ==
  /\ Older(buffered[d], board[d])
  /\ \A p \in Procs : Older(hand[p][d], buffered[d] \cup board[d])

FlowInv == TypeInv /\ \A d \in Digis : Complete(d) /\ Exclusive(d) /\ Ordered(d)
=============================================================================
