---------------------------- MODULE MCRunControl ----------------------------
(* Values for RunControl: readers on networks of their own, or on one. *)
EXTENDS RunControl

TwoNetworks == [s \in Slaves |-> s]
OneNetwork  == [s \in Slaves |-> 1]
=============================================================================
