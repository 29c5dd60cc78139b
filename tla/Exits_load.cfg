SPECIFICATION Spec
CONSTANTS
    N = 1
    Platforms = {"kvm"}
    Instructions <- Loads
    MaxInstr = 2
    ExitLimit = 5
    LogFile = TRUE
    StdinReady = TRUE
INVARIANTS
    LoadSeesDevice
