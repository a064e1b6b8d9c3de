------------------------------ MODULE MCReadout ------------------------------
(* Model values for Readout: processors are interchangeable. *)
EXTENDS Readout, TLC

ProcSymmetry == Permutations(Procs)
==============================================================================
