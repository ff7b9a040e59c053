SPECIFICATION FairSpec
CONSTANTS
    Findings <- MCMixed
    Groups = {"g", "h"}
    NoGroup = "none"
    GroupOf <- MCGroupOf
    MovedTo <- MCMovedTo
    Rank <- MCRank
    BatchLimit = 2
    MaxActive = 1
    Exclusive = TRUE
    Runs <- MCMixedRuns
    MaxIssues = 2
    MaxFaults = 1
    MaxHands = 0
PROPERTIES
    ClosingConverges
    BlockedBecomesVisible
CHECK_DEADLOCK FALSE
