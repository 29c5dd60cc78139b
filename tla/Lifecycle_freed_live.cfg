SPECIFICATION Spec
CONSTANTS
    N = 2
    Arm64 = FALSE
    ExitLimit = 2
    MaxSignals = 2
    SelfJoinReturns = TRUE
    ConsoleOutput = FALSE
    WeakMemory = FALSE
    SigThreads <- AnyThread
INVARIANT FreedIsDead
