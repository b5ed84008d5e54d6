--------------------------- MODULE MCOrderServices ---------------------------
(* An instance of OrderServices for TLC.  Amounts are in lots; a batch of   *)
(* two keeps the stops few, and covers only 4 of 5.                         *)
EXTENDS OrderServices

Sizes == {0, 5, 6}
StopIds == 1 .. 4
=============================================================================
