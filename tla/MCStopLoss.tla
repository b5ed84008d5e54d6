----------------------------- MODULE MCStopLoss -----------------------------
(* Instances of StopLoss for TLC.  Amounts are in lots; a batch of two     *)
(* keeps the orders few.                                                   *)
EXTENDS StopLoss

TwoSizes == {0, 4, 8}
ShortAndLong == {-4, 0, 4}
Ids == 1 .. 7
=============================================================================
