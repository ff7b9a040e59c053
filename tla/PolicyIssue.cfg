SPECIFICATION FairSpec
CONSTANTS
    Severities = {"high", "low"}
    Classes = {"rule"}
    Seed = {}
    Users = {"u", "v"}
    Deciders = {"u"}
    PolicyJobs <- GitLabJob
    Scheduled = TRUE
    MaxIssues = 2
    MaxComments = 2
    MaxGrants = 1
    MaxHands = 1
    MaxSyncs = 1
    MaxRare = 3
    MaxFaults = 1
INVARIANTS
    TypeOK
    EntriesWarranted
PROPERTY Converges
CHECK_DEADLOCK FALSE
