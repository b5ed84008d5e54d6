----------------------------- MODULE MCFrontEnd ------------------------------
EXTENDS FrontEnd

CONSTANTS NoState, NoHotKey

NothingMC ==
    [hot_key_config_obj |-> [k \in Key |-> NoHotKey], state_config_obj |-> NoState]

\* The hot keys that the dialog offers as defaults, and no settings.
Files == {[NothingMC EXCEPT !["hot_key_config_obj"] = DefaultHotKeys]}
NothingBound == NothingMC["hot_key_config_obj"]

\* What is followed together: a store that asks and a range that changes;
\* a cache that two threads replace, without and with a second cache in it;
\* a list that two threads share; a spinner that ends before the table.
Follows == {[position |-> {1, 2}], [profit |-> {1, 2}], [summary |-> {1, 2}],
            [bigLoss |-> {1, 2}], [summary |-> {1}, bigLoss |-> {1}]}

\* Balances around a dollar; an income that both rules count alike, one that
\* counts today only, and one that counts in rows only.
BalanceRecords == [ts : {1, 2}, value : {1, 2, 4}, balance : {3}]
IncomeKinds ==
    {[type |-> "COMMISSION", asset |-> "BNB", ofSymbol |-> TRUE],
     [type |-> "REALIZED_PNL", asset |-> "another", ofSymbol |-> TRUE],
     [type |-> "FUNDING_FEE", asset |-> "USDT", ofSymbol |-> FALSE]}

\* Three ends of months, of 31, 28 and 31 days; the times that are named are
\* in the first and in the last hour of days near them.
Months == <<31, 28, 31, 30>>
=============================================================================
