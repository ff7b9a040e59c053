SPECIFICATION Spec
CONSTANTS
    EventCap = 1
    Group <- GitHubGroup
    Provider = "github"
    StaleAge = 2
    JobLimit = 1
    MaxTime = 4
    MaxAttempt = 1
    MaxIssues = 2
    MaxCR = 1
    MaxSha = 3
    MaxCommands = 1
    MaxNotes = 1
    MaxFaults = 1
INVARIANT TypeOK
INVARIANT QueuedIsAuthorized
INVARIANT RevisionPushAuthorized
INVARIANT OneOpenIssue
PROPERTY CorrectionsAsPromised
PROPERTY BlockedNeedsOperator
CHECK_DEADLOCK FALSE
