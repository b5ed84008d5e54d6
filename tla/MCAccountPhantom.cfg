CONSTANTS
    Symbol = {s1, s2}
    Amount = {0, 1}
    MaxChanges = 3
    MaxMissed = 0
    Thread = {t1}
    MaxInFlight = 1
    MaxHubRestarts = 0
SPECIFICATION FairSpec
PROPERTY HubFollowsAccount
