----------------------------- MODULE BootImage -----------------------------
(***************************************************************************)
(* From the files of the command line to the first guest instruction: the  *)
(* loaders of src/boot.c place a bzImage, an initrd and a command line, or *)
(* a raw binary, in guest memory and hand their addresses over in the boot *)
(* parameters and the registers of vCPU 0.  The boot parameters lie in the *)
(* setup part of the bzImage: their fields are stored over its bytes.      *)
(*                                                                         *)
(* Guest memory is one region at address 0 (main.c).  Every place a loader *)
(* writes to comes from vm_gpa_to_hva(), and all sizes and addresses are   *)
(* unsigned 64-bit numbers that wrap around.  The fixed addresses of the   *)
(* code are parameters; only their order and the reach of the 32-bit and   *)
(* 64-bit words matter.  A unit of memory holds one tag: <<part, offset>>, *)
(* which file it was copied from and from where in it, or <<field, value>> *)
(* when it belongs to a field of the boot parameters that was stored.      *)
(***************************************************************************)
EXTENDS Integers, Sequences, Functions

CONSTANTS
    Wrap,        \* 2^64
    Word,        \* 2^32
    Sector,      \* 512, the unit of setup_sects and the least size of a bzImage
    HeaderEnd,   \* the end of struct linux_header in the file
    MaxSects,    \* 255
    Page,        \* 0x1000
    ParamsAt,    \* 0x10000: the setup code and the boot parameters
    CmdlineAt,   \* 0x20000
    LowEnd,      \* 0xA0000, the end of low memory in the E820 map
    KernelAt,    \* 0x100000
    RamCap,      \* 128 MB
    FallbackAt,  \* 0x10000000, where load_initrd() puts a large initrd
    Offset,      \* Offset[f]: where field f of the boot parameters is in them
    Width,       \* Width[f]: the size of the field
    Platforms,   \* a subset of {"kvm", "hvf_x86", "hvf_arm64"}
    MemSizes,    \* the arguments of --mem
    FileSizes,   \* the sizes of a kernel, an initrd or a binary
    CmdSizes,    \* strlen(cmdline) + 1
    Code32,      \* the values of code32_start in a header
    Entries      \* the arguments of --entry

\* The fields boot.c stores: the number of E820 ranges at 0x1E8, the address
\* and the size of the initrd at 0x218 and 0x21C, the address of the command
\* line at 0x228 and the E820 map, three ranges of 20 bytes, at 0x2D0.
Fields == {"e820_entries", "ramdisk_image", "ramdisk_size", "cmd_line_ptr", "e820"}

ASSUME FieldsAssumption ==
    /\ Offset \in [Fields -> Nat] /\ Width \in [Fields -> Nat \ {0}]
    /\ \A f \in Fields : Offset[f] + Width[f] <= Page
    /\ \A f, g \in Fields : f # g => \/ Offset[f] + Width[f] <= Offset[g]
                                    \/ Offset[g] + Width[g] <= Offset[f]

ASSUME LayoutAssumption ==
    /\ {Wrap, Word, Sector, HeaderEnd, MaxSects, Page, ParamsAt, CmdlineAt, LowEnd,
        KernelAt, RamCap, FallbackAt} \subseteq Nat
    /\ 0 < Sector /\ Sector < HeaderEnd /\ 0 < Page
    /\ ParamsAt + Page <= CmdlineAt /\ CmdlineAt < LowEnd /\ LowEnd < KernelAt
    /\ KernelAt < RamCap /\ RamCap < FallbackAt /\ FallbackAt < Word /\ 2 * Word <= Wrap
    /\ (MaxSects + 1) * Sector < Word
    /\ \A a \in {ParamsAt, CmdlineAt, LowEnd, KernelAt, FallbackAt, Wrap} : a % Page = 0

\* The size of a file is a long, and a string lies in the memory of the process.
ASSUME InputsAssumption ==
    /\ Platforms \subseteq {"kvm", "hvf_x86", "hvf_arm64"}
    /\ MemSizes \subseteq 1 .. Wrap - 1 /\ FileSizes \subseteq 0 .. Wrap - 1
    /\ CmdSizes \subseteq 1 .. Wrap - 1 /\ Entries \subseteq 1 .. Wrap - 1
    /\ \A n \in FileSizes \cup CmdSizes : 2 * n < Wrap
    /\ Code32 \subseteq 0 .. Word - 1

\* What has a register of its own in hv_regs and hv_sregs, as far as a loader
\* or a backend treats them differently.  "gp" stands for the registers that
\* are set to 0, "dt" for GDT and IDT, "sp" for the frame and stack pointers.
Registers == {"rip", "flags", "rsi", "gp", "sp", "segments", "dt", "cr", "efer"}

VARIABLES
    platform,    \* the backend hv_init() chose
    at,          \* where main(), then the thread of vCPU 0, is
    ram,         \* the size of the region at guest address 0
    mem,         \* mem[a]: what guest memory holds at address a
    file,        \* the kernel or binary: [size, sects, code32, entry]
    initrd,      \* the size of the initrd, -1 for none
    cmdline,     \* the size of the command line, 0 for none
    regs,        \* regs[r]: whose value register r of vCPU 0 holds
    wild         \* the accesses outside guest memory or outside a file's buffer

vars == <<platform, at, ram, mem, file, initrd, cmdline, regs, wild>>

inputs == <<platform, ram, file, initrd, cmdline>>

Linux == {"bzimage", "initrd", "cmdline", "e820", "regs", "sregs"}
Labels == Linux \cup {"ram", "binary", "binary_sregs", "binary_regs", "start",
                      "thread", "guest", "dead", "failed", "crashed"}

NoFile == [size |-> 0, sects |-> 0, code32 |-> 0, entry |-> 0]

Address == 0 .. Wrap - 1

E820Map == [1 .. 3 -> [addr : Address, size : Address, type : {"RAM", "RESERVED"}]]

\* The second components of the tags of a part or a field.
Contents(tag) ==
    CASE tag = "e820" -> E820Map
      [] tag \in Fields \ {"e820"} -> 0 .. Word - 1
      [] OTHER -> Address

TypeOK ==
    /\ platform \in Platforms
    /\ at \in Labels
    /\ ram \in 0 .. RamCap
    /\ DOMAIN mem = 0 .. ram - 1
    /\ \A a \in DOMAIN mem : mem[a][2] \in Contents(mem[a][1])
    /\ file \in [size : Address, sects : 0 .. MaxSects, code32 : 0 .. Word - 1, entry : Address]
    /\ initrd \in {-1} \cup Address /\ cmdline \in Address
    /\ regs \in [Registers -> {"reset", "linux", "raw"}]
    /\ wild \subseteq {"header", "setup", "kernel", "initrd", "cmdline", "binary"}

Init ==
    /\ platform \in Platforms
    /\ at = "ram" /\ ram = 0 /\ mem = <<>>
    /\ file = NoFile /\ initrd = -1 /\ cmdline = 0
    /\ regs = [r \in Registers |-> "reset"]
    /\ wild = {}

----------------------------------------------------------------------------
(* Unsigned arithmetic and guest memory                                    *)

Add(a, b) == IF a + b < Wrap THEN a + b ELSE a + b - Wrap
Sub(a, b) == IF a >= b THEN a - b ELSE a - b + Wrap
AlignDown(a) == a - (a % Page)

\* MUTANT of Low32: nothing is cut off.
Low32Wide(a) == a

\* (uint32_t)a
Low32(a) == a % Word

\* MUTANT of vm_gpa_to_hva: only the first byte has to be inside the region.
FirstByteInside(gpa, size) == gpa >= 0 /\ gpa < ram

\* vm_gpa_to_hva() finds a region: gpa + size may wrap.
vm_gpa_to_hva(gpa, size) == gpa >= 0 /\ Add(gpa, size) <= ram

\* Guest memory after memcpy() of size units of part, from offset src of it,
\* to guest address gpa.  A copy that starts below guest memory, at a wrapped
\* address, may still reach its beginning.
Copied(gpa, size, part, src) ==
    [a \in DOMAIN mem |->
        IF Sub(a, gpa) < size THEN <<part, Add(src, Sub(a, gpa))>> ELSE mem[a]]

Inside(gpa, size) == gpa + size <= ram

\* Whether the copy stays inside guest memory.  One that does not is undefined:
\* the process crashes there or goes on.
CopyTo(gpa, size, part, next) ==
    /\ wild' = IF Inside(gpa, size) THEN wild ELSE wild \cup {part}
    /\ at' \in {next} \cup IF Inside(gpa, size) THEN {} ELSE {"crashed"}

\* The units of a field of the boot parameters.
Slot(f) == ParamsAt + Offset[f] .. ParamsAt + Offset[f] + Width[f] - 1

\* Memory m after a store to the field.
Store(m, f, value) == [a \in DOMAIN m |-> IF a \in Slot(f) THEN <<f, value>> ELSE m[a]]

Fail == at' = "failed" /\ UNCHANGED <<mem, wild>>

\* vm_add_memory_region(vm, 0, ram_size): calloc() clears the block.
AddRam ==
    /\ at = "ram"
    /\ \E m \in MemSizes : ram' = IF m < RamCap THEN m ELSE RamCap
    /\ mem' = [a \in 0 .. ram' - 1 |-> <<"zero", 0>>]
    /\ at' \in {"bzimage", "binary"}
    /\ UNCHANGED <<platform, file, initrd, cmdline, regs, wild>>

----------------------------------------------------------------------------
(* boot_setup_linux()                                                      *)

SetupSize == (file.sects + 1) * Sector

LoadedAt == IF file.code32 = 0 THEN KernelAt ELSE file.code32

\* The two copies of load_bzimage().  A file shorter than its setup part makes
\* boot_size wrap around; a copy of that size cannot come back.
PlaceKernel ==
    LET s == SetupSize'
        b == Sub(file.size', s)
        to == LoadedAt'
        over == {w \in {"header", "setup"} :
                    file.size' < IF w = "header" THEN HeaderEnd ELSE s}
    IN \/ /\ ~vm_gpa_to_hva(ParamsAt, s)
          /\ at' = "failed" /\ wild' = wild \cup (over \ {"setup"})
          /\ UNCHANGED mem
       \/ /\ vm_gpa_to_hva(ParamsAt, s) /\ ~vm_gpa_to_hva(to, b)
          /\ at' = "failed" /\ wild' = wild \cup over
          /\ mem' = Copied(ParamsAt, s, "image", 0)
       \/ /\ vm_gpa_to_hva(ParamsAt, s) /\ vm_gpa_to_hva(to, b)
          /\ mem' = [a \in DOMAIN mem |->
                        IF Sub(a, to) < b THEN <<"image", Add(s, Sub(a, to))>>
                        ELSE Copied(ParamsAt, s, "image", 0)[a]]
          /\ wild' = wild \cup over \cup IF Inside(to, b) THEN {} ELSE {"kernel"}
          /\ at' = IF file.size' < s THEN "crashed" ELSE "initrd"

\* load_bzimage(): the file can be opened, is large enough for the test and
\* has the magic numbers.
load_bzimage ==
    /\ at = "bzimage"
    /\ \/ Fail /\ UNCHANGED file
       \/ /\ \E n \in FileSizes, s \in 0 .. MaxSects, c \in Code32 :
               /\ n >= Sector
               /\ file' = [size |-> n, sects |-> s, code32 |-> c, entry |-> 0]
          /\ PlaceKernel
    /\ UNCHANGED <<platform, ram, initrd, cmdline, regs>>

\* (max_addr - initrd_size) & ~0xfff, and the fallback.
InitrdAt(max, size) ==
    LET addr == AlignDown(Sub(max, size)) IN
      IF addr < KernelAt THEN FallbackAt ELSE addr

\* MUTANT of Announce: the two fields are swapped.
AnnounceSwapped(m, addr, n) ==
    Store(Store(m, "ramdisk_image", Low32(n)), "ramdisk_size", Low32(addr))

\* The fields for the initrd: 32 bits each.  load_bzimage() has mapped their
\* page's beginning, so vm_gpa_to_hva() does not fail; it is asked for less
\* than what is stored to, but when memory ends before the fields only an
\* initrd that is larger than it, and has left it already, comes so far.
Announce(m, addr, n) ==
    Store(Store(m, "ramdisk_image", Low32(addr)), "ramdisk_size", Low32(n))

\* load_initrd() with max_addr = vm->mem_size; initrd_path may be null.
load_initrd ==
    /\ at = "initrd"
    /\ \/ at' = "cmdline" /\ UNCHANGED <<mem, wild, initrd>>
       \/ Fail /\ UNCHANGED initrd
       \/ \E n \in FileSizes :
            LET addr == InitrdAt(ram, n) IN
              /\ initrd' = n
              /\ \/ ~vm_gpa_to_hva(addr, n) /\ Fail
                 \/ /\ vm_gpa_to_hva(addr, n)
                    /\ CopyTo(addr, n, "initrd", "cmdline")
                    /\ mem' = Announce(Copied(addr, n, "initrd", 0), addr, n)
    /\ UNCHANGED <<platform, ram, file, cmdline, regs>>

\* setup_cmdline(); cmdline may be null.  The boot parameters are below it.
setup_cmdline ==
    /\ at = "cmdline"
    /\ \/ at' = "e820" /\ UNCHANGED <<mem, wild, cmdline>>
       \/ \E n \in CmdSizes :
            /\ cmdline' = n
            /\ \/ ~vm_gpa_to_hva(CmdlineAt, n) /\ Fail
               \/ /\ vm_gpa_to_hva(CmdlineAt, n)
                  /\ CopyTo(CmdlineAt, n, "cmdline", "e820")
                  /\ mem' = Store(Copied(CmdlineAt, n, "cmdline", 0), "cmd_line_ptr", CmdlineAt)
    /\ UNCHANGED <<platform, ram, file, initrd, regs>>

\* MUTANT of HighRam: all of memory.
HighRamAll == ram

\* vm->mem_size - 0x100000
HighRam == Sub(ram, KernelAt)

Range820(addr, size, type) == [addr |-> addr, size |-> size, type |-> type]

Map820 == <<Range820(0, LowEnd, "RAM"),
            Range820(LowEnd, KernelAt - LowEnd, "RESERVED"),
            Range820(KernelAt, HighRam, "RAM")>>

\* setup_e820(): the map, then the number of its ranges.
setup_e820 ==
    /\ at = "e820"
    /\ \/ ~vm_gpa_to_hva(ParamsAt, Page) /\ Fail
       \/ /\ vm_gpa_to_hva(ParamsAt, Page)
          /\ mem' = Store(Store(mem, "e820", Map820), "e820_entries", 3)
          /\ at' = "regs" /\ UNCHANGED wild
    /\ UNCHANGED <<inputs, regs>>

----------------------------------------------------------------------------
(* Registers                                                               *)

\* The results of a backend's set_regs and set_sregs: whether the call
\* succeeds and which registers it has written by then.  KVM takes all of them
\* or none.
kvm_set(order) == {[ok |-> TRUE, names |-> Range(order)], [ok |-> FALSE, names |-> {}]}

\* hvf_set_regs() and hvf_set_sregs() write one after the other and stop at
\* the first failure.
hvf_set(order) ==
    {[ok |-> k = Len(order), names |-> {order[j] : j \in 1 .. k}] : k \in 0 .. Len(order)}

\* hvf_arm64_set_regs(): CPSR and PC have to succeed; what fails after them is
\* only logged.
hvf_arm64_set_regs ==
    {[ok |-> FALSE, names |-> {}], [ok |-> FALSE, names |-> {"flags"}]}
      \cup {[ok |-> TRUE, names |-> {"flags", "rip"} \cup S] : S \in SUBSET {"gp", "sp"}}

\* hv_set_regs() and hv_set_sregs() of vCPU 0.  On HVF the descriptor tables
\* and EFER are never written.
hv_set_regs ==
    CASE platform = "kvm"       -> kvm_set(<<"rip", "flags", "gp", "rsi">>)
      [] platform = "hvf_x86"   -> hvf_set(<<"rip", "flags", "gp", "rsi">>)
      [] platform = "hvf_arm64" -> hvf_arm64_set_regs

hv_set_sregs ==
    CASE platform = "kvm"     -> kvm_set(<<"segments", "cr", "dt", "efer">>)
      [] platform = "hvf_x86" -> hvf_set(<<"segments", "cr">>)

SetTo(value, names) == regs' = [r \in Registers |-> IF r \in names THEN value ELSE regs[r]]

\* A call of setup_vcpu_regs(), whose result is tested.
SetChecked(out, next, else) ==
    SetTo("linux", out.names) /\ at' = IF out.ok THEN next ELSE else

\* setup_vcpu_regs().  On ARM64 the vCPU does not exist yet and its null
\* pointer is dereferenced.
setup_vcpu_regs ==
    /\ at \in {"regs", "sregs"}
    /\ \/ platform = "hvf_arm64" /\ at' = "crashed" /\ UNCHANGED regs
       \/ /\ platform # "hvf_arm64" /\ at = "regs"
          /\ \E out \in hv_set_regs : SetChecked(out, "sregs", "failed")
       \/ /\ platform # "hvf_arm64" /\ at = "sregs"
          /\ \E out \in hv_set_sregs : SetChecked(out, "start", "failed")
    /\ UNCHANGED <<inputs, mem, wild>>

----------------------------------------------------------------------------
(* boot_setup_raw_binary()                                                 *)

\* The file is copied to the entry point.
LoadBinary ==
    /\ at = "binary"
    /\ \/ Fail /\ UNCHANGED file
       \/ \E n \in FileSizes, e \in Entries :
            /\ file' = [NoFile EXCEPT !.size = n, !.entry = e]
            /\ \/ ~vm_gpa_to_hva(e, n) /\ Fail
               \/ /\ vm_gpa_to_hva(e, n)
                  /\ CopyTo(e, n, "binary",
                            IF platform = "hvf_arm64" THEN "start" ELSE "binary_sregs")
                  /\ mem' = Copied(e, n, "binary", 0)
    /\ UNCHANGED <<platform, ram, initrd, cmdline, regs>>

\* On x86_64 the results of hv_set_sregs() and hv_set_regs() are ignored.
BinaryRegs ==
    /\ \/ /\ at = "binary_sregs" /\ at' = "binary_regs"
          /\ \E out \in hv_set_sregs : SetTo("raw", out.names)
       \/ /\ at = "binary_regs" /\ at' = "start"
          /\ \E out \in hv_set_regs : SetTo("raw", out.names)
    /\ UNCHANGED <<inputs, mem, wild>>

----------------------------------------------------------------------------
(* The thread of vCPU 0                                                    *)

\* vm_start() fails, or the thread runs.
StartVcpu ==
    /\ at = "start" /\ at' \in {"thread", "failed"}
    /\ UNCHANGED <<inputs, mem, regs, wild>>

\* MUTANT of EnterGuest: the thread runs although the registers were not set.
EnterGuestAnyway ==
    /\ at = "thread"
    /\ \/ platform # "hvf_arm64" /\ at' = "guest" /\ UNCHANGED regs
       \/ platform = "hvf_arm64" /\ at' = "dead" /\ UNCHANGED regs
       \/ /\ platform = "hvf_arm64"
          /\ \E out \in hv_set_regs : SetTo("raw", out.names) /\ at' = "guest"
    /\ UNCHANGED <<inputs, mem, wild>>

\* vcpu_thread_func() up to the first run.  On ARM64 it creates the vCPU and
\* applies initial_rip, which the raw loader has stored; both may fail.
EnterGuest ==
    /\ at = "thread"
    /\ \/ platform # "hvf_arm64" /\ at' = "guest" /\ UNCHANGED regs
       \/ platform = "hvf_arm64" /\ at' = "dead" /\ UNCHANGED regs
       \/ /\ platform = "hvf_arm64"
          /\ \E out \in hv_set_regs : SetTo("raw", out.names) /\ at' = IF out.ok THEN "guest" ELSE "dead"
    /\ UNCHANGED <<inputs, mem, wild>>

\* The guest runs, the thread ended, or main() went to its cleanup.
Done == at \in {"guest", "dead", "failed", "crashed"} /\ UNCHANGED vars

Next ==
    \/ AddRam \/ load_bzimage \/ load_initrd \/ setup_cmdline \/ setup_e820
    \/ setup_vcpu_regs \/ LoadBinary \/ BinaryRegs \/ StartVcpu \/ EnterGuest
    \/ Done

Spec == Init /\ [][Next]_vars

----------------------------------------------------------------------------
(* Properties                                                              *)

\* The inputs the loaders do not test: a bzImage that ends inside its header or
\* its setup part, an initrd larger than guest memory, an entry so close to
\* 2^64 that the binary's end wraps around.
Untested ==
    \/ file.entry = 0 /\ file.size < SetupSize
    \/ file.entry = 0 /\ file.size < HeaderEnd
    \/ initrd > ram
    \/ file.entry + file.size >= Wrap

\* On every other input, whatever the sizes, the addresses and the order of
\* the loaders, each copy stays inside the guest's memory and inside the buffer
\* it reads: vm_gpa_to_hva() is the only guard.
CopiesInside == wild # {} => Untested

LinuxBooted == at \in {"start", "thread", "guest"} /\ file.entry = 0

\* The four areas of a Linux boot do not overlap: the setup part ends before
\* the command line, the command line before the kernel, and the kernel, at
\* its usual place, before the initrd.  boot.c does not test this.
Disjoint ==
    /\ LoadedAt = KernelAt
    /\ ParamsAt + SetupSize <= CmdlineAt /\ CmdlineAt + cmdline <= KernelAt
    /\ initrd # -1 => KernelAt + (file.size - SetupSize) <= InitrdAt(ram, initrd)

\* Memory m has size units of part, from offset src of it, at gpa.
Holds(m, gpa, size, part, src) ==
    \A k \in 0 .. size - 1 : gpa + k \in DOMAIN m /\ m[gpa + k] = <<part, src + k>>

\* Memory m has the value in every unit of the field.
FieldHolds(m, f, value) == \A a \in Slot(f) : a \in DOMAIN m /\ m[a] = <<f, value>>

\* The fields the loaders store on this boot.
Written ==
    {"e820", "e820_entries"} \cup (IF initrd # -1 THEN {"ramdisk_image", "ramdisk_size"} ELSE {})
                             \cup (IF cmdline > 0 THEN {"cmd_line_ptr"} ELSE {})

\* Memory m has the setup part of the image, but for the given fields.
SetupHolds(m, size, written) ==
    \A k \in 0 .. size - 1 :
        /\ ParamsAt + k \in DOMAIN m
        /\ (\A f \in written : ParamsAt + k \notin Slot(f)) => m[ParamsAt + k] = <<"image", k>>

\* The guest of a Linux boot finds every part whole where the protocol or the
\* boot parameters say it is.  load_initrd(), setup_cmdline() and setup_e820()
\* store into the setup part that load_bzimage() placed: they change the fields
\* of this boot and no other byte of it, no store overlaps another field, no
\* copy hits a field stored before it, and no address is truncated or stale.
BootHandover ==
    (LinuxBooted /\ ~Untested /\ Disjoint) =>
        /\ SetupHolds(mem, SetupSize, Written)
        /\ Holds(mem, KernelAt, file.size - SetupSize, "image", SetupSize)
        /\ initrd # -1 => /\ FieldHolds(mem, "ramdisk_size", initrd)
                          /\ \E a \in 0 .. Word - 1 : /\ FieldHolds(mem, "ramdisk_image", a)
                                                     /\ Holds(mem, a, initrd, "initrd", 0)
        /\ cmdline > 0 => /\ FieldHolds(mem, "cmd_line_ptr", CmdlineAt)
                          /\ Holds(mem, CmdlineAt, cmdline, "cmdline", 0)
        /\ FieldHolds(mem, "e820_entries", 3)

\* What the guest reads as its E820 map.
ReadMap == mem[ParamsAt + Offset["e820"]][2]

\* The E820 map the guest finds is whole and promises it no memory it does not
\* have, although setup_e820() tests neither 640 KiB nor 1 MiB against the
\* memory size: a kernel loaded at its usual place implies both.
E820Honest ==
    (LinuxBooted /\ ~Untested /\ LoadedAt = KernelAt) =>
        /\ FieldHolds(mem, "e820", ReadMap)
        /\ \A k \in 1 .. 3 : ReadMap[k].type = "RAM" => ReadMap[k].addr + ReadMap[k].size <= ram

\* The registers a loader's values reach on this platform.
Set(value) == {r \in Registers : regs[r] = value}

\* vCPU 0 enters the guest only with the registers its loader chose: a call
\* that fails, or fails half way as the register writes of HVF can, stops a
\* Linux boot in setup_vcpu_regs() and a raw boot of ARM64 in the thread.  The
\* raw loader of x86_64 ignores the results and is left out.
EntersPrepared ==
    at = "guest" =>
        \/ file.entry = 0 /\ {"rip", "rsi", "flags", "gp", "segments", "cr"} \subseteq Set("linux")
        \/ file.entry # 0 /\ platform = "hvf_arm64" /\ {"rip", "flags"} \subseteq Set("raw")
        \/ file.entry # 0 /\ platform # "hvf_arm64"
=============================================================================
