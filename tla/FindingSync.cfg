SPECIFICATION Spec
CONSTANTS
    Findings <- MCPair
    Groups = {"g", "h"}
    NoGroup = "none"
    GroupOf <- MCGroupOf
    MovedTo <- MCMovedTo
    Rank <- MCRank
    BatchLimit = 2
    MaxActive = 1
    Exclusive = TRUE
    Runs <- MCPairRuns
    MaxIssues = 2
    MaxFaults = 1
    MaxHands = 1
INVARIANTS
    TypeOK
    OneOwner
PROPERTIES
    CapacityRespected
    DismissedStayOut
    ProtectedWorkKept
    CompletedOnlyIfGone
CHECK_DEADLOCK FALSE
