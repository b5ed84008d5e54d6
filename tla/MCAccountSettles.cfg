CONSTANTS
    Symbol = {s1, s2}
    Amount = {0, 1}
    MaxChanges = 3
    MaxMissed = 1
    Thread = {t1}
    MaxInFlight = 1
    MaxHubRestarts = 1
SPECIFICATION FairSpec
INVARIANTS TypeOK LabelsHonest NewestShownRight
PROPERTIES LatestOpenSettles FollowsUndisturbed
