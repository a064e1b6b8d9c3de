----------------------------- MODULE MCHandshake ------------------------------
(* Instances of Handshake for TLC. *)
EXTENDS Handshake

Known(S)   == [present |-> S, auto |-> {}]
Unknown(r) == [present |-> {r}, auto |-> {r}]

\* Everybody with an ID of its own, or one reader that asks for an ID.
SomeConfigs == {Known(Readers)} \cup {Unknown(r) : r \in {CHOOSE r \in Readers : TRUE}}
=============================================================================
