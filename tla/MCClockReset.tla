---------------------------- MODULE MCClockReset ----------------------------
(* Model values for ClockReset: two of the eight channels of a board. *)
EXTENDS ClockReset

TwoChannels == 0 .. 1
=============================================================================
