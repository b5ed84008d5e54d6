--------------------------- MODULE MCAccountFeed ----------------------------
(* Instances of AccountFeed for TLC: the cfg files give the bounds.        *)
EXTENDS AccountFeed
=============================================================================
