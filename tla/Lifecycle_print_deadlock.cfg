SPECIFICATION FairSpec
CONSTANTS
    N = 1
    Arm64 = TRUE
    ExitLimit = 2
    MaxSignals = 1
    SelfJoinReturns = FALSE
    ConsoleOutput = TRUE
    WeakMemory = FALSE
    SigThreads <- MainOnly
PROPERTY StopCompletes
CHECK_DEADLOCK FALSE
