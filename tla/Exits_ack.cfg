SPECIFICATION FairSpec
CONSTANTS
    N = 1
    Platforms = {"kvm"}
    Instructions <- Acks
    MaxInstr = 2
    ExitLimit = 5
    LogFile = TRUE
    StdinReady = FALSE
PROPERTY ExitAnswered
CHECK_DEADLOCK FALSE
