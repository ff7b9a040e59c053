SPECIFICATION FairSpec
CONSTANTS
    EventCap = 1
    Group <- GitLabGroup
    Provider = "gitlab"
    StaleAge = 2
    JobLimit = 1
    MaxTime = 3
    MaxAttempt = 1
    MaxIssues = 2
    MaxCR = 1
    MaxSha = 1
    MaxCommands = 0
    MaxNotes = 1
    MaxFaults = 1
PROPERTY MergedIsClosed
PROPERTY StaleClaimRecovers
CHECK_DEADLOCK FALSE
