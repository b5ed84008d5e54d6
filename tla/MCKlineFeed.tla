---------------------------- MODULE MCKlineFeed -----------------------------
(* Instances of KlineFeed for TLC: numbers are written to the base 2 with  *)
(* "three digits" from 2 up, so that there are two or three symbols.       *)
EXTENDS KlineFeed

CONSTANTS c1, c2

Versions == 0 .. MaxVersion
FeedFrames == {}
Two == [c \in Conn |-> 2]
=============================================================================
