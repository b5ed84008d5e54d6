---------------------------- MODULE LatestValue -----------------------------
(***************************************************************************)
(* What the timestamped slots of the hub promise their readers, apart from *)
(* how the hub keeps them: whatever was offered to a slot since the hub    *)
(* started, in whatever order, the value served is the offer with the      *)
(* greatest timestamp, the latest to arrive among equals.  A restart       *)
(* forgets the offers of every slot at once.                               *)
(***************************************************************************)
EXTENDS Integers, Sequences

CONSTANTS Slots, Data, Ts,
          Nothing               \* what is served before any offer

VARIABLES
    offers,    \* offers[s]: what was offered since the start, in order
    value      \* value[s]: what a reader sees

Offer == [update_ts : Ts, data : Data]

\* Offer k of o outranks all others: none is newer, none as new is later.
Newest(o, k) ==
    \A j \in DOMAIN o : \/ o[j].update_ts < o[k].update_ts
                        \/ o[j].update_ts = o[k].update_ts /\ j <= k

Latest(o) == o[CHOOSE k \in DOMAIN o : Newest(o, k)]

Init == /\ offers = [s \in Slots |-> <<>>]
        /\ value = [s \in Slots |-> Nothing]

Arrive(s, o) ==
    /\ offers' = [offers EXCEPT ![s] = Append(@, o)]
    /\ value' = [value EXCEPT ![s] = Latest(offers'[s])]

Forget ==
    /\ offers' = [s \in Slots |-> <<>>]
    /\ value' = [s \in Slots |-> Nothing]

Next == Forget \/ \E s \in Slots, o \in Offer : Arrive(s, o)

Spec == Init /\ [][Next]_<<offers, value>>
=============================================================================
