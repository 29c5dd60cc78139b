SPECIFICATION Spec
CONSTANTS
    Wrap = 128
    Word = 64
    Sector = 4
    HeaderEnd = 7
    MaxSects = 3
    Page = 8
    ParamsAt = 8
    CmdlineAt = 16
    LowEnd = 24
    KernelAt = 32
    RamCap = 48
    FallbackAt = 56
    Offset <- Offsets
    Width <- Widths
    Platforms = {"kvm", "hvf_x86", "hvf_arm64"}
    MemSizes <- Mems
    FileSizes <- Files
    CmdSizes <- Cmds
    Code32 <- Starts
    Entries <- EntryPoints
INVARIANTS
    TypeOK
    CopiesInside
    BootHandover
    E820Honest
    EntersPrepared
