SPECIFICATION Spec
CONSTANTS
    EventCap = 1
    Group <- GitLabGroup
    Provider = "gitlab"
    StaleAge = 2
    JobLimit = 1
    MaxTime = 3
    MaxAttempt = 2
    MaxIssues = 1
    MaxCR = 1
    MaxSha = 2
    MaxCommands = 1
    MaxNotes = 0
    MaxFaults = 1
INVARIANT CommandUsedOnce
CHECK_DEADLOCK FALSE
