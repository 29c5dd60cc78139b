SPECIFICATION Spec
CONSTANTS
    N = 2
    Arm64 = TRUE
    ExitLimit = 2
    MaxSignals = 2
    SelfJoinReturns = FALSE
    ConsoleOutput = TRUE
    WeakMemory = FALSE
    SigThreads <- MainOnly
INVARIANT TypeOK
INVARIANT FreedIsDead
INVARIANT StopTouchesNoFreed
INVARIANT StoppedBeforeFree
INVARIANT NoLostStop
CHECK_DEADLOCK FALSE
PROPERTY ImplementsVcpuLife
