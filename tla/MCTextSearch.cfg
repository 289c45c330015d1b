\* Lines of up to three characters and longer ones; chunks of six bytes.
CONSTANTS
    Files <- SomeFiles
    Inputs <- SomeInputs
    Lowered <- SomeLowered
    BUFSIZE = 6
SPECIFICATION FairSpec
INVARIANTS
    IndexInv
    AnswersExact
    CrashOnly
PROPERTIES
    Indexed
CHECK_DEADLOCK FALSE
