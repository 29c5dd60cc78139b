SPECIFICATION Spec
CONSTANTS
    N = 2
    Configs <- AllConfigs
INVARIANTS
    TypeOK
    BackendNesting
    CleanExit
    NoBadRelease
    CreateAllOrNothing
    VfioAllOrNothing
    HonestWithoutVfio
