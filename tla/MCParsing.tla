------------------------------ MODULE MCParsing -------------------------------
(* Instances of Parsing for TLC. *)
EXTENDS Parsing

Good(k) == [good |-> TRUE, n |-> k]
Skip(k) == [good |-> FALSE, n |-> k]
SomeSegments == {Good(2), Skip(3)}

\* A filler before a word that belongs to nothing.
SomeGaps == {<<"filler", "plain">>}
=============================================================================
