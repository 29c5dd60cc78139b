SPECIFICATION FairSpec
CONSTANTS
    N = 1
    Arm64 = FALSE
    ExitLimit = 2
    MaxSignals = 1
    SelfJoinReturns = FALSE
    ConsoleOutput = FALSE
    WeakMemory = FALSE
    SigThreads <- MainOnly
PROPERTY StopCompletes
