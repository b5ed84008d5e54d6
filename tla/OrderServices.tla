---------------------------- MODULE OrderServices ----------------------------
(* The services that keep orders at the exchange, side by side: the maker   *)
(* and the checker keep the stops of the positions (StopLoss), the web      *)
(* server takes openings and replaces take-profits (TradingRouter).  Their  *)
(* orders differ by the client ids, so each is looked at with the other at  *)
(* rest; the stops the web server posts on request, whose ids the maker     *)
(* takes for its own, are steps of StopLoss.  The checker also cancels       *)
(* openings that wait too long; TradingRouter has that as orders that are    *)
(* gone some time (OrderFills).                                              *)
EXTENDS StopLoss, TradingRouter

VARIABLE service

servicesVars == <<service, vars, tradeVars>>

OrdersInit == service \in {"stops", "router"} /\ Init /\ TradeInit

StopsStep == service = "stops" /\ Next /\ UNCHANGED <<service, tradeVars>>
RouterStep == service = "router" /\ TradeNext /\ UNCHANGED <<service, vars>>

\* The fairness of StopLoss where it runs; the router owes nothing.
Does(A) == service = "stops" /\ A
OrdersFairness ==
    /\ WF_vars(Does(MakerReads)) /\ WF_vars(Does(MakerLists))
    /\ WF_vars(Does(MakerPosts)) /\ WF_vars(Does(MakerCancels))
    /\ WF_vars(Does(CheckerReads)) /\ WF_vars(Does(CheckerLists))
    /\ \A id \in OrderIds : WF_vars(Does(ThreadCancels(id)))
    /\ WF_vars(Does(HubShows))

OrdersSpec ==
    OrdersInit /\ [][StopsStep \/ RouterStep]_servicesVars /\ OrdersFairness

\* Both services' state has its type.
OrdersTypeOK == TypeOK /\ TradeTypeOK
=============================================================================
