SPECIFICATION Spec
CONSTANTS
    EventCap = 1
    Group <- GitHubGroup
    Provider = "github"
    StaleAge = 2
    JobLimit = 1
    MaxTime = 3
    MaxAttempt = 1
    MaxIssues = 1
    MaxCR = 1
    MaxSha = 1
    MaxCommands = 0
    MaxNotes = 0
    MaxFaults = 1
PROPERTY RetryKept
CHECK_DEADLOCK FALSE
