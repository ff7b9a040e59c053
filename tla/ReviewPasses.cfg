SPECIFICATION Spec
CONSTANTS
    MaxFindings = 2
    Answers <- MCAnswers
    MaxPasses = 2
    Triggered = TRUE
    InlineEnabled = TRUE
    MaxHead = 3
    MaxPushes = 2
    MaxRuns = 3
    MaxFaults = 2
INVARIANTS
    TypeOK
    OneNotePerHead
    AnchorsTrue
    CandidatesAccounted
    UnresolvedReportedBefore
    ShownIsNoted
    MirroredOrPending
PROPERTIES
    KnownCommentNotRepeated
CHECK_DEADLOCK FALSE
