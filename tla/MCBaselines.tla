----------------------------- MODULE MCBaselines -----------------------------
(* Instances of Baselines for TLC. *)
EXTENDS Baselines

\* A far channel beside a near one; two on different sides.
TwoOffsets == {[c \in {1, 2} |-> IF c = 1 THEN 4012 ELSE 2],
               [c \in {1, 2} |-> IF c = 1 THEN 90 ELSE -300]}

SomeNoise == {0, 3}
=============================================================================
