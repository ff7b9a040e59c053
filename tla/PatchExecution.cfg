SPECIFICATION Spec
CONSTANTS
    Files = {"a", "b"}
    NoFile = "none"
    Source <- MCSource
    Edits <- MCEdits
    Rewrites <- MCRewrites
    Endings = {"lf"}
    Commands <- MCCommands
    Results <- MCResults
    Configs <- MCConfigs
    MaxWrites = 2
INVARIANTS
    TypeOK
    CommitIsPatch
    AcceptedNoWorse
    TextRestored
PROPERTIES
    CorrectionWarranted
CHECK_DEADLOCK FALSE
