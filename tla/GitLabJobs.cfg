SPECIFICATION Spec
CONSTANTS
    EventCap = 1
    Group <- GitLabGroup
    Provider = "gitlab"
    StaleAge = 2
    JobLimit = 1
    MaxTime = 4
    MaxAttempt = 2
    MaxIssues = 3
    MaxCR = 2
    MaxSha = 2
    MaxCommands = 1
    MaxNotes = 0
    MaxFaults = 2
INVARIANT AttemptsAuthorized
CHECK_DEADLOCK FALSE
