SPECIFICATION FairSpec
CONSTANTS
    N = 2
    Platforms = {"kvm", "hvf_arm64", "hvf_x86"}
    Instructions <- Guests
    MaxInstr = 3
    ExitLimit = 2
    LogFile = TRUE
    StdinReady = TRUE
INVARIANTS
    TypeOK
    DeliveredOnceInOrder
    ConsoleAgrees
    ExitsBounded
    ShutdownStops
PROPERTY ExitAnswered
