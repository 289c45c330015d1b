\* Two lines of up to three stages; pipes of one unit.
CONSTANTS
    CmdLines <- SomeLines
    PATHS = {"./lost"}
    Output <- SomeOutput
    Missing = {"./lost"}
    HeadLines = 1
    FileUnits = 1
    PipeSize = 1
    FdLimit = 13
    MaxLines = 2
    MaxTyped = 1
    MaxStopped = 1
SPECIFICATION FairSpec
INVARIANTS
    ShellInv
    PromptClean
PROPERTIES
    LineEnds
CHECK_DEADLOCK FALSE
