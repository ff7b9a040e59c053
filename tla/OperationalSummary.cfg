SPECIFICATION FairSpec
CONSTANTS
    Items = {1, 2}
    Jobs = {"sync", "lifecycle"}
    Group <- GitHubGroup
    MaxChanges = 2
    MaxSyncs = 2
    MaxHands = 1
    MaxFaults = 2
PROPERTIES
    ObservationKept
    SummaryConverges
CHECK_DEADLOCK FALSE
