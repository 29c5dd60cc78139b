SPECIFICATION FairSpec
CONSTANTS
    N = 1
    Arm64 = TRUE
    ExitLimit = 2
    MaxSignals = 0
    SelfJoinReturns = FALSE
    ConsoleOutput = FALSE
    WeakMemory = FALSE
    SigThreads <- MainOnly
PROPERTY EndOfGuestEndsProgram
