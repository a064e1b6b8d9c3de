------------------------------ MODULE MCRunSetup ------------------------------
(* Instances of RunSetup for TLC. *)
EXTENDS RunSetup

\* Where to write: a database for everybody, and one with a host for each reader.
Alone == [address |-> "db"]
Split == [address |-> "db", hosts |-> [r1 |-> "h1", r2 |-> "h2"]]

\* Documents that differ in what they leave to their parents.
SomeContents == {
  [baseline_mode |-> 1, mongo |-> Alone],
  [baseline_mode |-> 0],
  [baseline_mode |-> 2, rotating_collections |-> 1],
  [mongo |-> Split, rotating_collections |-> 1]}

OneChannel == {[c \in {1} |-> 28]}
=============================================================================
