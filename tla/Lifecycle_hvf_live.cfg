SPECIFICATION FairSpec
CONSTANTS
    N = 2
    Arm64 = TRUE
    ExitLimit = 2
    MaxSignals = 2
    SelfJoinReturns = FALSE
    ConsoleOutput = FALSE
    WeakMemory = FALSE
    SigThreads <- MainOnly
PROPERTY StopCompletes
PROPERTY AskedVcpuEnds
