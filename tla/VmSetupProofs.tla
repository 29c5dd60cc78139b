--------------------------- MODULE VmSetupProofs ---------------------------
(***************************************************************************)
(* Machine-checked proofs about VmSetup, for any number of vCPUs and any   *)
(* set of platforms and options: what the process owns at each label of    *)
(* main(), and from it that every path out of main() releases what it      *)
(* should, once, in the right order.                                       *)
(***************************************************************************)
EXTENDS VmSetup, SequenceTheorems, TLAPS

-----------------------------------------------------------------------------
(* The labels of main() by phase.                                           *)

NoVm     == {"hv_init", "kvm_version", "hv_create_vm", "vm_create"}
Early    == NoVm \cup {"config"}
OpenVfio == {"vfio", "group", "attach", "device_fd", "vdev", "info", "register"}
Loaders  == {"binary", "bzimage", "initrd"}
Later    == OpenVfio \cup Loaders \cup {"boot", "cmdline", "e820", "regs", "start", "running"}
Closed   == {"container", "hv_cleanup", "exited"}

-----------------------------------------------------------------------------
(* The kinds of resources, and what is held of some kinds.                  *)

VmKinds     == {"vm_fd", "hv_vm", "vm_data", "hvf_vm"}
HvVcpuKinds == {"vcpu_fd", "hv_vcpu", "vcpu_data", "run", "hvf_vcpu"}
VcpuKinds   == HvVcpuKinds \cup {"vcpu"}
VfioKinds   == {"device_fd", "attached", "group_fd", "vdev"}
DevKinds(d) == CASE d = "mmio"         -> {"mmio", "mmio_state", "log_file"}
                 [] d = "virtio-block" -> {"virtio-block", "disk_fd"}
                 [] d = "virtio-net"   -> {"virtio-net", "tap_fd"}
                 [] OTHER              -> {d}

AllDevKinds == {"mmio", "mmio_state", "log_file", "virtio-console", "virtio-block", "disk_fd",
                "virtio-net", "tap_fd"}
RamKinds    == {"hva", "mapping"}
StringKinds == {"kernel_path", "initrd_path", "cmdline"}

HeldOf(K)   == {x \in held : x[1] \in K}
HeldVcpu(v) == {x \in held : x[1] \in VcpuKinds /\ x[2] = v}

-----------------------------------------------------------------------------
(* The inductive invariant, one conjunct per part of the system.            *)

\* How many steps hv_create_vm() and vcpu_create() have on a platform.
VmLen   == IF Platform = "kvm" THEN 4 ELSE 3
VcpuLen == IF Platform = "hvf_arm64" THEN 1 ELSE 5

\* The loops of main() and of the create functions stay in their ranges, and
\* num_vcpus is set once all vCPUs are made.
ControlInv ==
    /\ at \in Labels
    /\ opts \in Configs
    /\ i \in Nat /\ part \in Nat
    /\ num_vcpus \in {0, N}
    /\ at = "hv_create_vm" => part <= VmLen
    /\ at = "ram" => part <= 2
    /\ at = "vcpus" => i <= N /\ (part # 0 => i < N /\ part <= VcpuLen)
    /\ at = "devices" => i <= 4 /\ (part # 0 => i < 4 /\ part <= Len(DeviceParts(Devices[i + 1])))
    /\ at = "destroy_vcpus" => i <= num_vcpus
    /\ at = "crashed" => i <= N + 5
    /\ at \notin {"hv_create_vm", "ram", "vcpus", "devices"} => part = 0
    /\ at \notin {"vcpus", "devices", "destroy_vcpus", "destroy_devices", "crashed"} => i = 0
    /\ at \in Early \cup {"ram", "vcpus"} => num_vcpus = 0
    /\ at \in Later \cup {"devices"} => num_vcpus = N

\* A call that failed has left a negative ret wherever main() goes on to its
\* return, unless --vfio is given.
StatusInv ==
    /\ ret \in {-1, 0} /\ ran \in BOOLEAN
    /\ status \in {"none", "EXIT_SUCCESS", "EXIT_FAILURE"}
    /\ at \in OpenVfio => "vfio" \in opts
    /\ at = "running" => ran
    /\ at \in {"destroy_vcpus", "destroy_devices", "free_regions", "destroy_vm",
               "container", "hv_cleanup"} /\ ret = 0 => ran \/ "vfio" \in opts
    /\ status = "EXIT_SUCCESS" => ran \/ "vfio" \in opts

\* The backend is open, and struct vm exists, from one label to another.
OpsInv ==
    /\ R("hv_ops") \in held <=> at \notin {"hv_init", "exited"}
    /\ R("kvm_fd") \in held <=> at \notin {"hv_init", "exited"} /\ Platform = "kvm"
    /\ R("args") \in held <=> at # "exited"
    /\ R("vm") \in held <=> at \notin NoVm \cup Closed

\* The backend's VM is complete from hv_create_vm() to hv_destroy_vm().
VmInv ==
    HeldOf(VmKinds) = CASE at \in {"hv_init", "kvm_version"} \cup Closed -> {}
                        [] at = "hv_create_vm" -> First(VmParts(Platform), part)
                        [] OTHER               -> DestroyedVm

\* Guest memory is mapped after it is allocated and never freed while mapped but
\* by vm_destroy().
RamInv ==
    /\ at \in Early \cup Closed => held \cap {R("hva"), R("mapping")} = {}
    /\ at = "ram" => held \cap {R("hva"), R("mapping")} = First(RegionParts, part)
    /\ at = "destroy_vm" => R("hva") \notin held
    /\ at # "destroy_vm" /\ R("mapping") \in held => R("hva") \in held

\* vCPU v and its backend vCPU are there; on ARM64 its thread may not have made
\* the backend's.
Whole(v) ==
    \/ HeldVcpu(v) = {Vcpu(v)} \cup (All(HvVcpuParts(Platform, v)) \ Lost(v))
    \/ Platform = "hvf_arm64" /\ HeldVcpu(v) = {Vcpu(v)}

\* vm_create_vcpus() makes the vCPUs in order, vm_destroy() destroys them in
\* order, and in between all of them are there.
VcpuInv ==
    \A v \in VCPU :
        /\ at \in Early \cup Closed \cup {"ram", "destroy_devices", "free_regions", "destroy_vm"}
             => HeldVcpu(v) = {}
        /\ at = "vcpus" => /\ v < i => HeldVcpu(v) = All(VcpuParts(v))
                           /\ v = i => HeldVcpu(v) = First(VcpuParts(v), part)
                           /\ v > i => HeldVcpu(v) = {}
        /\ at \in Later \cup {"devices"} => Whole(v)
        /\ at = "destroy_vcpus" => IF i <= v /\ v < num_vcpus THEN Whole(v)
                                                             ELSE HeldVcpu(v) = {}
        /\ at = "crashed" => Whole(v) \/ HeldVcpu(v) = {}

\* The strings of struct vm, the file and buffer of a loader and the VFIO
\* container are only held where somebody will release them.
BootInv ==
    /\ at \in Early \cup Closed \cup {"destroy_vm"} => held \cap Strings = {}
    /\ at \notin Loaders => held \cap Image = {}
    /\ ~(Image \subseteq held)
    /\ at \in Early \cup {"ram", "vcpus", "devices", "vfio", "hv_cleanup", "exited"}
         => R("container") \notin held

\* vm->devices[]: the devices of main() in their order, then the VFIO device,
\* the only one whose dev->vm is set.
TableInv ==
    /\ devices \in Seq(DeviceKinds)
    /\ bound \subseteq {"vfio"}
    /\ at \in Early \cup {"ram", "vcpus"} => devices = <<>>
    /\ at = "devices" => Len(devices) <= i
    /\ at \in OpenVfio => Len(devices) <= 4
    /\ Len(devices) <= 5
    /\ at = "destroy_devices" => i <= Len(devices) + 1
    /\ at = "devices" => \A j \in DOMAIN devices : \E l \in 1 .. i : devices[j] = Devices[l]
    /\ at \in OpenVfio => ~Contains(devices, "vfio")
    /\ \A j, l \in DOMAIN devices : devices[j] = "vfio" /\ devices[l] = "vfio" => j = l

\* What vfio_device_open() has acquired so far; a listed VFIO device has all of
\* it, and descriptor 0 is still open then.
VfioInv ==
    LET fds == HeldOf(VfioKinds) IN
    /\ at \in Early \cup {"ram", "vcpus", "devices", "vfio", "group"} => fds = {}
    /\ at = "attach" => fds = {R("group_fd")}
    /\ at = "device_fd" => fds = {R("group_fd"), R("attached")}
    /\ at = "vdev" => fds = {R("group_fd"), R("attached"), R("device_fd")}
    /\ at \in {"info", "register"} => fds = VfioDeviceClose
    /\ at \notin {"attach", "device_fd", "vdev"} => fds \in {{}, VfioDeviceClose}
    /\ Contains(devices, "vfio") =>
         VfioDeviceClose \cup {<<"vfio", 0>>, <<"vfio", 1>>, R("stdin")} \subseteq held
    /\ at \notin {"destroy_devices", "free_regions", "destroy_vm", "crashed"} \cup Closed
         => R("stdin") \in held

\* A device of main() that is listed has its parts; one that is not has none.
DeviceInv ==
    \A j \in 1 .. 4 :
        LET d == Devices[j] IN
        IF at = "devices" /\ i + 1 = j
        THEN HeldOf(DevKinds(d)) = First(DeviceParts(d), part)
        ELSE IF Contains(devices, d) THEN All(DeviceParts(d)) \subseteq held
                                     ELSE HeldOf(DevKinds(d)) = {}

SetupInv ==
    /\ ControlInv /\ StatusInv /\ OpsInv /\ VmInv /\ RamInv /\ VcpuInv /\ BootInv
    /\ TableInv /\ VfioInv /\ DeviceInv

-----------------------------------------------------------------------------
(* The exit status.                                                         *)

\* Every step keeps ret negative after a failure.
LEMMA StatusStep == StatusInv /\ [Next]_vars => StatusInv'
<1> SUFFICES ASSUME StatusInv, [Next]_vars PROVE StatusInv'
  OBVIOUS
<1> USE DEF StatusInv, OpenVfio, Goto, Stay, KeepVm, ReturnFailure, Cleanup, Proceed
<1>1. CASE HvInit
  BY <1>1 DEF HvInit
<1>2. CASE KvmVersion
  BY <1>2 DEF KvmVersion
<1>3. CASE HvCreateVm
  BY <1>3 DEF HvCreateVm, Make, Made
<1>4. CASE VmCreate
  BY <1>4 DEF VmCreate
<1>5. CASE Configure
  BY <1>5 DEF Configure
<1>6. CASE AddRam
  BY <1>6 DEF AddRam, AddRamWith, Make, Made
<1>7. CASE CreateVcpu
  BY <1>7 DEF CreateVcpu, CreateVcpuWith, Make, Made
<1>8. CASE VcpusCreated
  BY <1>8 DEF VcpusCreated
<1>9. CASE CreateDevice
  BY <1>9 DEF CreateDevice, Make, Made, VmRegisterDevice
<1>10. CASE DevicesCreated
  BY <1>10 DEF DevicesCreated
<1>11. CASE VfioContainerCreate
  BY <1>11 DEF VfioContainerCreate, VfioStep
<1>12. CASE OpenGroup
  BY <1>12 DEF OpenGroup, VfioStep
<1>13. CASE SetContainer
  BY <1>13 DEF SetContainer, VfioStep
<1>14. CASE GetDeviceFd
  BY <1>14 DEF GetDeviceFd, VfioStep
<1>15. CASE AllocVdev
  BY <1>15 DEF AllocVdev, VfioStep
<1>16. CASE GetDeviceInfo
  BY <1>16 DEF GetDeviceInfo
<1>17. CASE VfioRegister
  BY <1>17 DEF VfioRegister
<1>18. CASE Boot
  BY <1>18 DEF Boot
<1>19. CASE load_bzimage
  BY <1>19 DEF load_bzimage, Load, OpenImage, ReadImage, PlaceImage, Given, AfterInitrd
<1>20. CASE load_initrd
  BY <1>20 DEF load_initrd, Load, OpenImage, ReadImage, PlaceImage, Given, AfterInitrd
<1>21. CASE boot_setup_raw_binary
  BY <1>21 DEF boot_setup_raw_binary, Load, OpenImage, ReadImage, PlaceImage
<1>22. CASE SetupTables
  BY <1>22 DEF SetupTables
<1>23. CASE setup_vcpu_regs
  BY <1>23 DEF setup_vcpu_regs
<1>24. CASE VmStart
  <2>1. \/ at' = "running" /\ ran' /\ ran' \in BOOLEAN /\ ret' = 0
        \/ at' = "destroy_vcpus" /\ ret' = -1 /\ ran' = ran
    BY <1>24, Zenon DEF VmStart
  <2>2. UNCHANGED <<opts, status>>
    BY <1>24 DEF VmStart
  <2>3. QED
    BY <2>1, <2>2
<1>25. CASE Stopped
  BY <1>25 DEF Stopped
<1>26. CASE DestroyVcpu
  BY <1>26 DEF DestroyVcpu, MayCrash
<1>27. CASE VcpusDestroyed
  BY <1>27 DEF VcpusDestroyed
<1>28. CASE UnregisterDevice
  BY <1>28 DEF UnregisterDevice, MayCrash
<1>29. CASE DevicesUnregistered
  BY <1>29 DEF DevicesUnregistered
<1>30. CASE FreeRegions
  BY <1>30 DEF FreeRegions
<1>31. CASE DestroyVm
  BY <1>31 DEF DestroyVm
<1>32. CASE DestroyContainer
  BY <1>32 DEF DestroyContainer
<1>33. CASE HvCleanup
  BY <1>33 DEF HvCleanup
<1>34. CASE UNCHANGED vars
  BY <1>34 DEF vars
<1>35. QED
  BY <1>1, <1>2, <1>3, <1>4, <1>5, <1>6, <1>7, <1>8, <1>9, <1>10, <1>11, <1>12, <1>13, <1>14,
     <1>15, <1>16, <1>17, <1>18, <1>19, <1>20, <1>21, <1>22, <1>23, <1>24, <1>25, <1>26, <1>27,
     <1>28,
     <1>29, <1>30, <1>31, <1>32, <1>33, <1>34
     DEF Next, Gone

\* main() returns EXIT_SUCCESS only when the VM ran, unless --vfio is given.
THEOREM HonestWithoutVfioThm == Spec => []HonestWithoutVfio
<1>1. Init => StatusInv
  BY DEF Init, StatusInv, OpenVfio
<1>2. StatusInv /\ [Next]_vars => StatusInv'
  BY StatusStep
<1>3. StatusInv => HonestWithoutVfio
  BY DEF StatusInv, HonestWithoutVfio, HonestStatus
<1>4. QED
  BY <1>1, <1>2, <1>3, PTL DEF Spec

-----------------------------------------------------------------------------
(* Parts.                                                                   *)

\* Before its first step a create function has made nothing.
LEMMA FirstZero == ASSUME NEW parts PROVE First(parts, 0) = {}
BY DEF First

\* The next step adds its part.
LEMMA FirstNext ==
    ASSUME NEW parts, NEW n \in Nat
    PROVE  First(parts, n + 1) = First(parts, n) \cup parts[n + 1]
BY DEF First

\* The platform of accepted options is one of the three.
LEMMA PlatformType == Platform \in Platforms
BY DEF Platform, Platforms

\* The backend's VM: its number of parts, and what they are.
LEMMA VmPartsFacts ==
    ASSUME NEW p \in Platforms
    PROVE  /\ Len(VmParts(p)) = IF p = "kvm" THEN 4 ELSE 3
           /\ \A j \in 1 .. Len(VmParts(p)) : VmParts(p)[j] \subseteq All(VmParts(p))
           /\ All(VmParts(p)) = IF p = "kvm" THEN {R("vm_fd"), R("hv_vm"), R("vm_data")}
                                             ELSE {R("hv_vm"), R("vm_data"), R("hvf_vm")}
           /\ HvVm = {R(kind) : kind \in VmKinds}
<1>1. CASE p = "kvm"
  BY <1>1 DEF VmParts, All, First, HvVm, VmKinds, Platforms
<1>2. CASE p # "kvm"
  BY <1>2 DEF VmParts, All, First, HvVm, VmKinds, Platforms
<1>3. QED
  BY <1>1, <1>2

\* The region of main() has two parts.
LEMMA RegionFacts ==
    /\ Len(RegionParts) = 2
    /\ RegionParts[1] = {R("hva")} /\ RegionParts[2] = {R("mapping")}
    /\ First(RegionParts, 1) = {R("hva")}
    /\ First(RegionParts, 2) = {R("hva"), R("mapping")}
BY DEF RegionParts, First

\* What a backend vCPU is made of.
LEMMA HvVcpuFacts ==
    ASSUME NEW p \in Platforms, NEW v
    PROVE  /\ Len(HvVcpuParts(p, v)) \in 4 .. 5
           /\ p # "hvf_arm64" => Len(HvVcpuParts(p, v)) = 4
           /\ \A j \in 1 .. Len(HvVcpuParts(p, v)) :
                \A x \in HvVcpuParts(p, v)[j] :
                  x \in HvVcpu(v) \/ (p = "hvf_arm64" /\ x \in Lost(v))
           /\ \A x \in All(HvVcpuParts(p, v)) : x \in HvVcpu(v) \cup Lost(v)
           /\ p # "hvf_arm64" => All(HvVcpuParts(p, v)) \cap Lost(v) = {}
           /\ HvVcpu(v) = {<<kind, v>> : kind \in HvVcpuKinds}
<1>1. HvVcpu(v) = {<<kind, v>> : kind \in HvVcpuKinds}
  <2>1. All(HvVcpuParts("kvm", v)) =
            {<<"vcpu_fd", v>>, <<"hv_vcpu", v>>, <<"vcpu_data", v>>, <<"run", v>>}
    BY DEF HvVcpuParts, All, First
  <2>2. All(HvVcpuParts("hvf_x86", v)) =
            {<<"hv_vcpu", v>>, <<"vcpu_data", v>>, <<"run", v>>, <<"hvf_vcpu", v>>}
    BY DEF HvVcpuParts, All, First
  <2>3. All(HvVcpuParts("hvf_arm64", v)) =
            {<<"hv_vcpu", v>>, <<"vcpu_data", v>>, <<"exit_info", v>>, <<"config", v>>,
             <<"hvf_vcpu", v>>}
    BY DEF HvVcpuParts, All, First
  <2>4. \A x : x \in HvVcpu(v) <=>
                 \/ x \in All(HvVcpuParts("kvm", v)) \ Lost(v)
                 \/ x \in All(HvVcpuParts("hvf_x86", v)) \ Lost(v)
                 \/ x \in All(HvVcpuParts("hvf_arm64", v)) \ Lost(v)
    BY DEF HvVcpu, Platforms
  <2>5. QED
    BY <2>1, <2>2, <2>3, <2>4 DEF Lost, HvVcpuKinds
<1>2. CASE p = "kvm"
  BY <1>1, <1>2 DEF HvVcpuParts, HvVcpuKinds, Lost, All, First
<1>3. CASE p = "hvf_x86"
  BY <1>1, <1>3 DEF HvVcpuParts, HvVcpuKinds, Lost, All, First
<1>4. CASE p = "hvf_arm64"
  BY <1>1, <1>4 DEF HvVcpuParts, HvVcpuKinds, Lost, All, First
<1>5. QED
  BY <1>2, <1>3, <1>4 DEF Platforms

\* vcpu_create() makes the struct vcpu first, then, but for ARM64, the
\* backend's vCPU.
LEMMA VcpuPartsFacts ==
    ASSUME NEW v
    PROVE  /\ Len(VcpuParts(v)) = VcpuLen
           /\ VcpuParts(v)[1] = {Vcpu(v)}
           /\ \A j \in 1 .. Len(VcpuParts(v)) :
                \A x \in VcpuParts(v)[j] : x \in HvVcpu(v) \cup {Vcpu(v)}
           /\ All(VcpuParts(v)) = {Vcpu(v)} \cup
                (IF Platform = "hvf_arm64" THEN {} ELSE All(HvVcpuParts(Platform, v)))
<1>1. CASE Platform = "hvf_arm64"
  <2>1. VcpuParts(v) = <<{Vcpu(v)}>>
    BY <1>1 DEF VcpuParts
  <2>2. QED
    BY <1>1, <2>1 DEF All, First, VcpuLen
<1>2. CASE Platform # "hvf_arm64"
  <2> DEFINE s == HvVcpuParts(Platform, v)
             S == SUBSET (HvVcpu(v) \cup {Vcpu(v)})
  <2>1. Platform \in Platforms /\ VcpuParts(v) = <<{Vcpu(v)}>> \o s
    BY <1>2, PlatformType DEF VcpuParts
  <2>2. Len(s) = 4 /\ \A j \in 1 .. 4 : s[j] \in S
    BY <1>2, <2>1, HvVcpuFacts
  <2>3. s \in Seq(S)
    <3>1. CASE Platform = "kvm"
      BY <2>2, <3>1 DEF HvVcpuParts
    <3>2. CASE Platform = "hvf_x86"
      BY <2>2, <3>2 DEF HvVcpuParts
    <3>3. QED
      BY <1>2, <2>1, <3>1, <3>2 DEF Platforms
  <2>4. All(s) = All(HvVcpuParts(Platform, v))
    OBVIOUS
  <2> HIDE DEF s
  <2>5. {Vcpu(v)} \in S
    OBVIOUS
  <2> HIDE DEF S
  <2>6. /\ Len(VcpuParts(v)) = 5 /\ VcpuParts(v)[1] = {Vcpu(v)}
        /\ \A j \in 1 .. 4 : VcpuParts(v)[j + 1] = s[j]
    <3> DEFINE t == <<{Vcpu(v)}>> \o s
    <3>1. /\ Len(t) = Len(s) + 1 /\ t[1] = {Vcpu(v)}
          /\ \A j \in 1 .. Len(s) : t[j + 1] = s[j]
      BY <2>3, <2>5
    <3> HIDE DEF t
    <3>2. t = VcpuParts(v)
      BY <2>1 DEF t
    <3>3. QED
      BY <2>2, <3>1, <3>2
  <2>7. \A j \in 2 .. 5 : j - 1 \in 1 .. 4 /\ VcpuParts(v)[j] = s[j - 1]
    BY <2>6
  <2>8. All(VcpuParts(v)) = {Vcpu(v)} \cup All(s)
    BY <2>2, <2>6, <2>7 DEF All, First
  <2>9. \A j \in 1 .. 5 : VcpuParts(v)[j] \in S
    BY <2>2, <2>5, <2>6, <2>7
  <2>10. QED
    BY <1>2, <2>4, <2>6, <2>8, <2>9 DEF S, VcpuLen
<1>3. QED
  BY <1>1, <1>2

\* The devices of main(): how many parts each has, and of which kinds.
LEMMA DeviceFacts ==
    /\ Len(Devices) = 4
    /\ \A j \in 1 .. 4 :
         LET d == Devices[j] IN
         /\ d \in DeviceKinds \ {"vfio"} /\ DevKinds(d) \subseteq AllDevKinds
         /\ Len(DeviceParts(d)) \in 2 .. 4
         /\ \A n \in 1 .. Len(DeviceParts(d)) : \A x \in DeviceParts(d)[n] : x[1] \in DevKinds(d)
         /\ \A x \in Extra(d) : x[1] \in DevKinds(d)
    /\ \A j, l \in 1 .. 4 : j # l => Devices[j] # Devices[l]
    /\ \A j, l \in 1 .. 4 : j # l => DevKinds(Devices[j]) \cap DevKinds(Devices[l]) = {}
<1>1. /\ Len(Devices) = 4 /\ Devices[1] = "mmio" /\ Devices[2] = "virtio-console"
      /\ Devices[3] = "virtio-block" /\ Devices[4] = "virtio-net"
  BY DEF Devices
<1>2. \A j \in 1 .. 4 : j = 1 \/ j = 2 \/ j = 3 \/ j = 4
  OBVIOUS
<1>3. DeviceKinds = {"mmio", "virtio-console", "virtio-block", "virtio-net", "vfio"}
  BY DEF DeviceKinds, Devices
<1>4. ASSUME NEW d \in {"mmio", "virtio-console", "virtio-block", "virtio-net"}
      PROVE  /\ Len(DeviceParts(d)) \in 2 .. 4
             /\ \A n \in 1 .. Len(DeviceParts(d)) :
                  \A x \in DeviceParts(d)[n] : x[1] \in DevKinds(d)
             /\ \A x \in Extra(d) : x[1] \in DevKinds(d)
  <2>1. CASE d = "mmio"
    BY <2>1 DEF DeviceParts, DevKinds, Extra, Handle, Private, R
  <2>2. CASE d = "virtio-console"
    BY <2>2 DEF DeviceParts, DevKinds, Extra, R
  <2>3. CASE d = "virtio-block"
    BY <2>3 DEF DeviceParts, DevKinds, Extra, Handle, R
  <2>4. CASE d = "virtio-net"
    BY <2>4 DEF DeviceParts, DevKinds, Extra, Handle, R
  <2>5. QED
    BY <2>1, <2>2, <2>3, <2>4
<1>5. \A j, l \in 1 .. 4 : j # l => DevKinds(Devices[j]) \cap DevKinds(Devices[l]) = {}
  BY <1>1, <1>2 DEF DevKinds
<1>6. \A j \in 1 .. 4 : DevKinds(Devices[j]) \subseteq AllDevKinds
  BY <1>1, <1>2 DEF DevKinds, AllDevKinds
<1>7. QED
  BY <1>1, <1>2, <1>3, <1>4, <1>5, <1>6

-----------------------------------------------------------------------------
(* Control.                                                                 *)

\* Every step keeps the loops in their ranges.
LEMMA ControlStep == ControlInv /\ TableInv /\ [Next]_vars => ControlInv'
<1> SUFFICES ASSUME ControlInv, TableInv, [Next]_vars PROVE ControlInv'
  OBVIOUS
<1> USE ConstantsAssumption
<1> USE DEF ControlInv, Labels, NoVm, Early, Later, OpenVfio, Loaders, Closed, Platform, VmLen,
            VcpuLen, Goto, Stay, KeepVm, ReturnFailure, Cleanup, Proceed
<1>1. CASE HvInit
  BY <1>1 DEF HvInit
<1>2. CASE KvmVersion
  BY <1>2 DEF KvmVersion
<1>3. CASE HvCreateVm
  <2>1. Len(VmParts(Platform)) = VmLen
    BY PlatformType, VmPartsFacts
  <2>2. QED
    BY <1>3, <2>1 DEF HvCreateVm, Make, Made
<1>4. CASE VmCreate
  BY <1>4 DEF VmCreate
<1>5. CASE Configure
  BY <1>5 DEF Configure
<1>6. CASE AddRam
  BY <1>6, RegionFacts DEF AddRam, AddRamWith, Make, Made
<1>7. CASE CreateVcpu
  BY <1>7, VcpuPartsFacts DEF CreateVcpu, CreateVcpuWith, Make, Made
<1>8. CASE VcpusCreated
  BY <1>8 DEF VcpusCreated
<1>9. CASE CreateDevice
  BY <1>9, DeviceFacts DEF CreateDevice, Make, Made
<1>10. CASE DevicesCreated
  BY <1>10, DeviceFacts DEF DevicesCreated
<1>11. CASE VfioContainerCreate
  BY <1>11 DEF VfioContainerCreate, VfioStep
<1>12. CASE OpenGroup
  BY <1>12 DEF OpenGroup, VfioStep
<1>13. CASE SetContainer
  BY <1>13 DEF SetContainer, VfioStep
<1>14. CASE GetDeviceFd
  BY <1>14 DEF GetDeviceFd, VfioStep
<1>15. CASE AllocVdev
  BY <1>15 DEF AllocVdev, VfioStep
<1>16. CASE GetDeviceInfo
  BY <1>16 DEF GetDeviceInfo
<1>17. CASE VfioRegister
  BY <1>17 DEF VfioRegister
<1>18. CASE Boot
  BY <1>18 DEF Boot
<1>19. CASE load_bzimage
  BY <1>19 DEF load_bzimage, Load, OpenImage, ReadImage, PlaceImage, Given, AfterInitrd
<1>20. CASE load_initrd
  BY <1>20 DEF load_initrd, Load, OpenImage, ReadImage, PlaceImage, Given, AfterInitrd
<1>21. CASE boot_setup_raw_binary
  BY <1>21 DEF boot_setup_raw_binary, Load, OpenImage, ReadImage, PlaceImage
<1>22. CASE SetupTables
  BY <1>22 DEF SetupTables
<1>23. CASE setup_vcpu_regs
  BY <1>23 DEF setup_vcpu_regs
<1>24. CASE VmStart
  BY <1>24 DEF VmStart
<1>25. CASE Stopped
  BY <1>25 DEF Stopped
<1>26. CASE DestroyVcpu
  BY <1>26 DEF DestroyVcpu, MayCrash
<1>27. CASE VcpusDestroyed
  BY <1>27 DEF VcpusDestroyed
<1>28. CASE UnregisterDevice
  <2>1. i < Len(devices) /\ Len(devices) \in Nat /\ Len(devices) <= 5
    BY <1>28 DEF UnregisterDevice, TableInv
  <2>2. QED
    BY <1>28, <2>1 DEF UnregisterDevice, MayCrash
<1>29. CASE DevicesUnregistered
  BY <1>29 DEF DevicesUnregistered
<1>30. CASE FreeRegions
  BY <1>30 DEF FreeRegions
<1>31. CASE DestroyVm
  BY <1>31 DEF DestroyVm
<1>32. CASE DestroyContainer
  BY <1>32 DEF DestroyContainer
<1>33. CASE HvCleanup
  BY <1>33 DEF HvCleanup
<1>34. CASE UNCHANGED vars
  BY <1>34 DEF vars
<1>35. QED
  BY <1>1, <1>2, <1>3, <1>4, <1>5, <1>6, <1>7, <1>8, <1>9, <1>10, <1>11, <1>12, <1>13, <1>14,
     <1>15, <1>16, <1>17, <1>18, <1>19, <1>20, <1>21, <1>22, <1>23, <1>24, <1>25, <1>26, <1>27,
     <1>28,
     <1>29, <1>30, <1>31, <1>32, <1>33, <1>34
     DEF Next, Gone

-----------------------------------------------------------------------------
(* What a step leaves alone.                                                *)

\* Only resources of the kinds K are acquired or released.
Touches(K) == \A x : x[1] \notin K => (x \in held' <=> x \in held)

OpsKinds    == {"hv_ops", "kvm_fd", "args"}
ThreadKinds == HvVcpuKinds \cup {"exit_info", "config"}

\* The first component of a resource is its kind.
LEMMA KindOf == \A kind : R(kind)[1] = kind /\ R(kind)[2] = 0
BY DEF R

\* The kinds of what the create functions make and undo.
LEMMA MadeKinds ==
    ASSUME ControlInv
    PROVE  /\ \A n \in 0 .. VmLen : \A x \in First(VmParts(Platform), n) : x[1] \in VmKinds
           /\ \A x \in DestroyedVm : x[1] \in VmKinds
           /\ \A v : \A n \in 0 .. VcpuLen : \A x \in First(VcpuParts(v), n) :
                x[1] \in VcpuKinds /\ x[2] = v
           /\ \A j \in 1 .. 4 : \A n \in 0 .. Len(DeviceParts(Devices[j])) :
                \A x \in First(DeviceParts(Devices[j]), n) : x[1] \in DevKinds(Devices[j])
<1>1. Platform \in Platforms /\ VmLen \in Nat /\ VcpuLen \in Nat
  BY PlatformType DEF VmLen, VcpuLen
<1>2. Len(VmParts(Platform)) = VmLen /\ \A x \in DestroyedVm : x[1] \in VmKinds
  BY <1>1, VmPartsFacts DEF VmLen, DestroyedVm, VmKinds, R
<1>3. ASSUME NEW n \in 0 .. VmLen, NEW x \in First(VmParts(Platform), n) PROVE x[1] \in VmKinds
  <2>1. PICK j \in 1 .. n : x \in VmParts(Platform)[j]
    BY <1>3 DEF First
  <2>2. x \in DestroyedVm
    BY <1>1, <1>2, <2>1, VmPartsFacts DEF DestroyedVm
  <2>3. QED
    BY <1>2, <2>2
<1>4. ASSUME NEW v, NEW n \in 0 .. VcpuLen, NEW x \in First(VcpuParts(v), n)
      PROVE  x[1] \in VcpuKinds /\ x[2] = v
  <2>1. PICK j \in 1 .. n : x \in VcpuParts(v)[j]
    BY <1>4 DEF First
  <2>2. x \in HvVcpu(v) \cup {Vcpu(v)}
    BY <1>1, <2>1, VcpuPartsFacts
  <2>3. QED
    BY <1>1, <2>2, HvVcpuFacts DEF VcpuKinds, Vcpu
<1>5. ASSUME NEW j \in 1 .. 4, NEW n \in 0 .. Len(DeviceParts(Devices[j])),
             NEW x \in First(DeviceParts(Devices[j]), n)
      PROVE  x[1] \in DevKinds(Devices[j])
  <2>1. PICK l \in 1 .. n : x \in DeviceParts(Devices[j])[l]
    BY <1>5 DEF First
  <2>2. QED
    BY <2>1, DeviceFacts
<1>6. QED
  BY <1>2, <1>3, <1>4, <1>5

\* The step touches only what it is about.
LEMMA Footprint ==
    ASSUME ControlInv, TableInv
    PROVE  /\ HvCreateVm => Touches(VmKinds \cup OpsKinds)
           /\ HvCreateVm /\ at' # "exited" => Touches(VmKinds)
           /\ VmCreate => Touches(VmKinds \cup OpsKinds \cup {"vm"})
           /\ Configure => Touches(StringKinds)
           /\ AddRam => Touches(RamKinds)
           /\ CreateVcpu => Touches(VcpuKinds)
           /\ CreateDevice => Touches(DevKinds(Devices[i + 1])) /\ Touches(AllDevKinds)
           /\ GetDeviceInfo => Touches(VfioKinds)
           /\ VmStart => Touches(ThreadKinds)
           /\ DestroyVcpu => Touches(VcpuKinds)
           /\ UnregisterDevice => Touches(VfioKinds \cup {"vfio", "stdin"})
           /\ FreeRegions => Touches(RamKinds \cup StringKinds)
           /\ DestroyVm => Touches(VmKinds \cup {"vm", "mapping"})
<1> USE DEF Touches, Acquire, Release, Keep, Goto, Stay, KeepVm, ReturnFailure, Cleanup, Proceed
<1>1. ASSUME HvCreateVm
      PROVE  Touches(VmKinds \cup OpsKinds) /\ (at' # "exited" => Touches(VmKinds))
  <2>1. Len(VmParts(Platform)) = VmLen /\ VmLen \in Nat /\ part \in 0 .. VmLen
    BY <1>1, PlatformType, VmPartsFacts DEF VmLen, ControlInv, HvCreateVm
  <2>2. CASE Make(VmParts(Platform))
    <3>1. \A x \in VmParts(Platform)[part + 1] : x[1] \in VmKinds
      BY <2>1, <2>2, PlatformType, VmPartsFacts, MadeKinds DEF Make, DestroyedVm
    <3>2. QED
      BY <2>2, <3>1 DEF Make
  <2>3. CASE ReturnFailure(Undone(VmParts(Platform)) \cup Opened)
    <3>1. \A x \in Undone(VmParts(Platform)) \cup Opened \cup {R("args")} :
             x[1] \in VmKinds \cup OpsKinds
      BY <2>1, MadeKinds DEF Undone, Opened, OpsKinds, R
    <3>2. QED
      BY <2>3, <3>1
  <2>4. CASE UNCHANGED held
    BY <2>4
  <2>5. QED
    BY <1>1, <2>2, <2>3, <2>4 DEF HvCreateVm
<1>2. ASSUME VmCreate PROVE Touches(VmKinds \cup OpsKinds \cup {"vm"})
  BY <1>2, MadeKinds, KindOf DEF VmCreate, Opened, OpsKinds
<1>3. ASSUME CreateVcpu PROVE Touches(VcpuKinds)
  <2>1. /\ Len(VcpuParts(i)) = VcpuLen /\ VcpuLen \in Nat /\ part \in 0 .. VcpuLen /\ i \in Nat
    BY <1>3, VcpuPartsFacts DEF VcpuLen, ControlInv, CreateVcpu, CreateVcpuWith
  <2>2. CASE Make(VcpuParts(i))
    <3>1. part + 1 \in 0 .. VcpuLen
      BY <2>1, <2>2 DEF Make
    <3>2. First(VcpuParts(i), part + 1) = First(VcpuParts(i), part) \cup VcpuParts(i)[part + 1]
      <4>1. part \in Nat
        BY <2>1
      <4>2. QED
        BY <4>1, FirstNext, Zenon
    <3>3. \A x \in VcpuParts(i)[part + 1] : x[1] \in VcpuKinds
      <4>1. \A x \in First(VcpuParts(i), part + 1) : x[1] \in VcpuKinds
        BY <3>1, MadeKinds, Zenon
      <4>2. QED
        BY <3>2, <4>1, Zenon
    <3>4. QED
      BY <2>2, <3>3 DEF Make
  <2>3. CASE Release(Undone(VcpuParts(i)) \cup Earlier)
    <3>1. \A x \in Undone(VcpuParts(i)) : x[1] \in VcpuKinds
      BY <2>1, MadeKinds DEF Undone
    <3>2. \A v : \A x \in All(VcpuParts(v)) : x[1] \in VcpuKinds
      BY <2>1, MadeKinds, VcpuPartsFacts DEF All
    <3>3. QED
      BY <2>3, <3>1, <3>2 DEF Earlier
  <2>4. CASE UNCHANGED held
    BY <2>4
  <2>5. QED
    BY <1>3, <2>2, <2>3, <2>4 DEF CreateVcpu, CreateVcpuWith
<1>4. ASSUME CreateDevice PROVE Touches(DevKinds(Devices[i + 1])) /\ Touches(AllDevKinds)
  <2> DEFINE d == Devices[i + 1]
             parts == DeviceParts(d)
  <2>1. i + 1 \in 1 .. 4 /\ part \in 0 .. Len(parts) /\ Len(parts) \in Nat
    BY <1>4, DeviceFacts DEF ControlInv, CreateDevice
  <2>2. CASE Make(parts)
    <3>1. part + 1 \in 1 .. Len(parts)
      BY <2>1, <2>2 DEF Make
    <3>2. \A x \in parts[part + 1] : x[1] \in DevKinds(d)
      BY <2>1, <3>1, DeviceFacts
    <3>3. QED
      BY <2>1, <2>2, <3>2, DeviceFacts DEF Make
  <2>3. CASE \E S \in {{}, Extra(d)} : Acquire(S)
    BY <2>1, <2>3, DeviceFacts
  <2>4. CASE Release(Undone(parts))
    BY <2>1, <2>4, MadeKinds, DeviceFacts DEF Undone
  <2>5. QED
    BY <1>4, <2>2, <2>3, <2>4 DEF CreateDevice
<1>5. ASSUME GetDeviceInfo PROVE Touches(VfioKinds)
  BY <1>5, KindOf DEF GetDeviceInfo, VfioDeviceClose, Handle, VfioKinds
<1>6. ASSUME VmStart PROVE Touches(ThreadKinds)
  <2>1. CASE UNCHANGED held
    BY <2>1
  <2>2. CASE \E made \in [VCPU -> UNION {ThreadMakes(v) : v \in VCPU}] :
               /\ \A v \in VCPU : made[v] \in ThreadMakes(v)
               /\ Acquire(UNION {made[v] : v \in VCPU})
    <3>1. PICK made : /\ \A v \in VCPU : made[v] \in ThreadMakes(v)
                      /\ held' = held \cup UNION {made[v] : v \in VCPU}
      BY <2>2
    <3>2. \A v \in VCPU : \A x \in made[v] : x[1] \in ThreadKinds
      BY <3>1, HvVcpuFacts DEF ThreadMakes, Platforms, Lost, ThreadKinds
    <3>3. QED
      BY <3>1, <3>2
  <2>3. QED
    BY <1>6, <2>1, <2>2 DEF VmStart
<1>7. ASSUME DestroyVcpu PROVE Touches(VcpuKinds)
  BY <1>7, PlatformType, HvVcpuFacts DEF DestroyVcpu, Vcpu, VcpuKinds
<1>8. ASSUME UnregisterDevice PROVE Touches(VfioKinds \cup {"vfio", "stdin"})
  <2>1. CASE UNCHANGED held
    BY <2>1
  <2>2. CASE held' = held \ (OpsDestroy("vfio") \cup DestroyRest("vfio"))
    BY <2>2, KindOf DEF OpsDestroy, DestroyRest, VfioDeviceClose, Handle, Private, VfioKinds
  <2>3. QED
    BY <1>8, <2>1, <2>2 DEF UnregisterDevice, TableInv
<1>9. ASSUME DestroyVm PROVE Touches(VmKinds \cup {"vm", "mapping"})
  BY <1>9, MadeKinds, KindOf DEF DestroyVm
<1>10. ASSUME Configure PROVE Touches(StringKinds)
  BY <1>10, KindOf DEF Configure, Strings, StringKinds
<1>11. ASSUME AddRam PROVE Touches(RamKinds)
  <2>1. part \in 0 .. 2 /\ \A n \in 0 .. 2 : n = 0 \/ n = 1 \/ n = 2
    BY <1>11 DEF ControlInv, AddRam, AddRamWith
  <2>2. \A n \in 0 .. 2 : \A x \in First(RegionParts, n) : x[1] \in RamKinds
    BY <2>1, RegionFacts, FirstZero, KindOf DEF RamKinds
  <2>3. \A n \in 1 .. 2 : \A x \in RegionParts[n] : x[1] \in RamKinds
    BY <2>1, RegionFacts, KindOf DEF RamKinds
  <2>4. QED
    BY <1>11, <2>1, <2>2, <2>3, RegionFacts DEF AddRam, AddRamWith, Make, Undone
<1>12. ASSUME FreeRegions PROVE Touches(RamKinds \cup StringKinds)
  BY <1>12, KindOf DEF FreeRegions, Strings, Unmapped, StringKinds, RamKinds
<1>13. QED
  BY <1>1, <1>2, <1>3, <1>4, <1>5, <1>6, <1>7, <1>8, <1>9, <1>10, <1>11, <1>12

-----------------------------------------------------------------------------
(* The backend and struct vm.                                               *)

\* Every step keeps the backend open as long as it should be.
LEMMA OpsStep == ControlInv /\ TableInv /\ OpsInv /\ [Next]_vars => OpsInv'
<1> SUFFICES ASSUME ControlInv, TableInv, OpsInv, [Next]_vars PROVE OpsInv'
  OBVIOUS
<1> USE KindOf
<1> USE DEF OpsInv, NoVm, Closed, Platform, Goto, Stay, KeepVm, ReturnFailure, Cleanup, Proceed,
            Keep, Acquire, Release, Opened, OpsKinds, VmKinds, VcpuKinds, HvVcpuKinds,
            ThreadKinds, VfioKinds,
            AllDevKinds, StringKinds, RamKinds
<1>1. CASE HvInit
  BY <1>1 DEF HvInit
<1>2. CASE KvmVersion
  BY <1>2 DEF KvmVersion
<1>3. CASE HvCreateVm
  <2>1. CASE at' = "exited"
    BY <1>3, <2>1, Footprint DEF HvCreateVm, Make, Touches
  <2>2. CASE at' # "exited"
    BY <1>3, <2>2, Footprint DEF HvCreateVm, Make, Touches
  <2>3. QED
    BY <2>1, <2>2
<1>4. CASE VmCreate
  BY <1>4, Footprint DEF VmCreate, Touches
<1>5. CASE Configure
  BY <1>5, Footprint DEF Configure, Touches
<1>6. CASE AddRam
  BY <1>6, Footprint DEF AddRam, AddRamWith, Make, Made, Touches
<1>7. CASE CreateVcpu
  BY <1>7, Footprint DEF CreateVcpu, CreateVcpuWith, Make, Made, Touches
<1>8. CASE VcpusCreated
  BY <1>8 DEF VcpusCreated
<1>9. CASE CreateDevice
  BY <1>9, Footprint DEF CreateDevice, Make, Made, VmRegisterDevice, Touches
<1>10. CASE DevicesCreated
  BY <1>10 DEF DevicesCreated
<1>11. CASE VfioContainerCreate
  BY <1>11 DEF VfioContainerCreate, VfioStep
<1>12. CASE OpenGroup
  BY <1>12 DEF OpenGroup, VfioStep
<1>13. CASE SetContainer
  BY <1>13 DEF SetContainer, VfioStep
<1>14. CASE GetDeviceFd
  BY <1>14 DEF GetDeviceFd, VfioStep
<1>15. CASE AllocVdev
  BY <1>15 DEF AllocVdev, VfioStep
<1>16. CASE GetDeviceInfo
  BY <1>16, Footprint DEF GetDeviceInfo, Touches
<1>17. CASE VfioRegister
  BY <1>17 DEF VfioRegister
<1>18. CASE Boot
  BY <1>18 DEF Boot
<1>19. CASE load_bzimage
  BY <1>19 DEF load_bzimage, Load, OpenImage, ReadImage, PlaceImage, Given, AfterInitrd
<1>20. CASE load_initrd
  BY <1>20 DEF load_initrd, Load, OpenImage, ReadImage, PlaceImage, Given, AfterInitrd
<1>21. CASE boot_setup_raw_binary
  BY <1>21 DEF boot_setup_raw_binary, Load, OpenImage, ReadImage, PlaceImage
<1>22. CASE SetupTables
  BY <1>22 DEF SetupTables
<1>23. CASE setup_vcpu_regs
  BY <1>23 DEF setup_vcpu_regs
<1>24. CASE VmStart
  BY <1>24, Footprint DEF VmStart, Touches
<1>25. CASE Stopped
  BY <1>25 DEF Stopped
<1>26. CASE DestroyVcpu
  BY <1>26, Footprint DEF DestroyVcpu, MayCrash, Touches
<1>27. CASE VcpusDestroyed
  BY <1>27 DEF VcpusDestroyed
<1>28. CASE UnregisterDevice
  BY <1>28, Footprint DEF UnregisterDevice, MayCrash, Touches
<1>29. CASE DevicesUnregistered
  BY <1>29 DEF DevicesUnregistered
<1>30. CASE FreeRegions
  BY <1>30, Footprint DEF FreeRegions, Touches
<1>31. CASE DestroyVm
  BY <1>31, Footprint DEF DestroyVm, Touches
<1>32. CASE DestroyContainer
  BY <1>32 DEF DestroyContainer
<1>33. CASE HvCleanup
  BY <1>33 DEF HvCleanup
<1>34. CASE UNCHANGED vars
  BY <1>34 DEF vars
<1>35. QED
  BY <1>1, <1>2, <1>3, <1>4, <1>5, <1>6, <1>7, <1>8, <1>9, <1>10, <1>11, <1>12, <1>13, <1>14,
     <1>15, <1>16, <1>17, <1>18, <1>19, <1>20, <1>21, <1>22, <1>23, <1>24, <1>25, <1>26, <1>27,
     <1>28,
     <1>29, <1>30, <1>31, <1>32, <1>33, <1>34
     DEF Next, Gone

\* The platform does not change, nor what depends on it alone.
LEMMA PlatformKept ==
    ASSUME [Next]_vars
    PROVE  /\ opts' = opts
           /\ Platform' = Platform /\ VmLen' = VmLen /\ VcpuLen' = VcpuLen
           /\ DestroyedVm' = DestroyedVm
           /\ \A v : VcpuParts(v)' = VcpuParts(v)
<1>1. opts' = opts
  <2> USE DEF Goto, Stay, KeepVm, ReturnFailure, Cleanup, Proceed
  <2>1. CASE HvInit
    BY <2>1 DEF HvInit
  <2>2. CASE KvmVersion
    BY <2>2 DEF KvmVersion
  <2>3. CASE HvCreateVm
    BY <2>3 DEF HvCreateVm, Make, Made
  <2>4. CASE VmCreate
    BY <2>4 DEF VmCreate
  <2>5. CASE Configure
    BY <2>5 DEF Configure
  <2>6. CASE AddRam
    BY <2>6 DEF AddRam, AddRamWith, Make, Made
  <2>7. CASE CreateVcpu
    BY <2>7 DEF CreateVcpu, CreateVcpuWith, Make, Made
  <2>8. CASE VcpusCreated
    BY <2>8 DEF VcpusCreated
  <2>9. CASE CreateDevice
    BY <2>9 DEF CreateDevice, Make, Made, VmRegisterDevice
  <2>10. CASE DevicesCreated
    BY <2>10 DEF DevicesCreated
  <2>11. CASE VfioContainerCreate
    BY <2>11 DEF VfioContainerCreate, VfioStep
  <2>12. CASE OpenGroup
    BY <2>12 DEF OpenGroup, VfioStep
  <2>13. CASE SetContainer
    BY <2>13 DEF SetContainer, VfioStep
  <2>14. CASE GetDeviceFd
    BY <2>14 DEF GetDeviceFd, VfioStep
  <2>15. CASE AllocVdev
    BY <2>15 DEF AllocVdev, VfioStep
  <2>16. CASE GetDeviceInfo
    BY <2>16 DEF GetDeviceInfo
  <2>17. CASE VfioRegister
    BY <2>17 DEF VfioRegister
  <2>18. CASE Boot
    BY <2>18 DEF Boot
  <2>19. CASE load_bzimage
    BY <2>19 DEF load_bzimage, Load, OpenImage, ReadImage, PlaceImage, Given, AfterInitrd
  <2>20. CASE load_initrd
    BY <2>20 DEF load_initrd, Load, OpenImage, ReadImage, PlaceImage, Given, AfterInitrd
  <2>21. CASE boot_setup_raw_binary
    BY <2>21 DEF boot_setup_raw_binary, Load, OpenImage, ReadImage, PlaceImage
  <2>22. CASE SetupTables
    BY <2>22 DEF SetupTables
  <2>23. CASE setup_vcpu_regs
    BY <2>23 DEF setup_vcpu_regs
  <2>24. CASE VmStart
    BY <2>24 DEF VmStart
  <2>25. CASE Stopped
    BY <2>25 DEF Stopped
  <2>26. CASE DestroyVcpu
    BY <2>26 DEF DestroyVcpu, MayCrash
  <2>27. CASE VcpusDestroyed
    BY <2>27 DEF VcpusDestroyed
  <2>28. CASE UnregisterDevice
    BY <2>28 DEF UnregisterDevice, MayCrash
  <2>29. CASE DevicesUnregistered
    BY <2>29 DEF DevicesUnregistered
  <2>30. CASE FreeRegions
    BY <2>30 DEF FreeRegions
  <2>31. CASE DestroyVm
    BY <2>31 DEF DestroyVm
  <2>32. CASE DestroyContainer
    BY <2>32 DEF DestroyContainer
  <2>33. CASE HvCleanup
    BY <2>33 DEF HvCleanup
  <2>34. CASE UNCHANGED vars
    BY <2>34 DEF vars
  <2>35. QED
    BY <2>1, <2>2, <2>3, <2>4, <2>5, <2>6, <2>7, <2>8, <2>9, <2>10, <2>11, <2>12, <2>13, <2>14,
       <2>15, <2>16, <2>17, <2>18, <2>19, <2>20, <2>21, <2>22, <2>23, <2>24, <2>25, <2>26,
       <2>27, <2>28,
       <2>29, <2>30, <2>31, <2>32, <2>33, <2>34
       DEF Next, Gone
<1>2. QED
  BY <1>1, Zenon DEF Platform, VmLen, VcpuLen, DestroyedVm, VcpuParts

\* Every step keeps the backend's VM whole between its creation and its end.
LEMMA VmStep == ControlInv /\ TableInv /\ VmInv /\ [Next]_vars => VmInv'
<1> SUFFICES ASSUME ControlInv, TableInv, VmInv, [Next]_vars PROVE VmInv'
  OBVIOUS
<1> USE KindOf, PlatformKept
<1> USE DEF VmInv, HeldOf, Closed, Goto, Stay, KeepVm, ReturnFailure, Cleanup, Proceed,
            Keep, Acquire, Release, Opened, OpsKinds, VmKinds, VcpuKinds, HvVcpuKinds,
            ThreadKinds,
            VfioKinds, AllDevKinds, StringKinds, RamKinds
<1>1. CASE HvInit
  BY <1>1, FirstZero DEF HvInit
<1>2. CASE KvmVersion
  BY <1>2, FirstZero DEF KvmVersion
<1>3. CASE HvCreateVm
  <2> DEFINE parts == VmParts(Platform)
  <2>1. Len(parts) = VmLen /\ VmLen \in Nat /\ part \in 0 .. VmLen /\ at = "hv_create_vm"
    BY <1>3, PlatformType, VmPartsFacts DEF VmLen, ControlInv, HvCreateVm
  <2>2. HeldOf(VmKinds) = First(parts, part)
    BY <2>1
  <2>3. CASE Make(parts)
    <3>1. First(parts, part + 1) = First(parts, part) \cup parts[part + 1]
      BY <2>1, FirstNext
    <3>2. part + 1 \in 0 .. VmLen
      BY <2>1, <2>3 DEF Make
    <3>3. \A x \in parts[part + 1] : x[1] \in VmKinds
      BY <3>1, <3>2, MadeKinds
    <3>4. held' = held \cup parts[part + 1] /\ at' = "hv_create_vm" /\ part' = part + 1
      BY <2>1, <2>3 DEF Make
    <3> HIDE DEF parts
    <3>5. HeldOf(VmKinds)' = First(parts, part')
      BY <2>2, <3>1, <3>3, <3>4
    <3>6. QED
      BY <3>4, <3>5 DEF parts
  <2>4. CASE ReturnFailure(Undone(parts) \cup Opened)
    <3>1. held' = held \ (First(parts, part) \cup Opened \cup {R("args")}) /\ at' = "exited"
      BY <2>4 DEF Undone
    <3> HIDE DEF parts
    <3>2. HeldOf(VmKinds)' = {}
      BY <2>2, <3>1
    <3>3. QED
      BY <3>1, <3>2
  <2>5. CASE Made(parts) /\ Proceed("vm_create") /\ Keep
    <3>1. First(parts, part) = DestroyedVm
      BY <2>5 DEF DestroyedVm, All, Made
    <3>2. QED
      BY <2>2, <2>5, <3>1
  <2>6. QED
    BY <1>3, <2>3, <2>4, <2>5 DEF HvCreateVm
<1>4. CASE VmCreate
  <2>1. at = "vm_create" /\ HeldOf(VmKinds) = DestroyedVm
    BY <1>4 DEF VmCreate
  <2>2. CASE Acquire({R("vm")}) /\ at' = "config"
    BY <2>1, <2>2
  <2>3. CASE held' = held \ (DestroyedVm \cup Opened \cup {R("args")}) /\ at' = "exited"
    BY <2>1, <2>3
  <2>4. QED
    BY <1>4, <2>2, <2>3 DEF VmCreate
<1>5. CASE Configure
  BY <1>5, Footprint DEF Configure, Touches
<1>6. CASE AddRam
  BY <1>6, Footprint DEF AddRam, AddRamWith, Make, Made, Touches
<1>7. CASE CreateVcpu
  BY <1>7, Footprint DEF CreateVcpu, CreateVcpuWith, Make, Made, Touches
<1>8. CASE VcpusCreated
  BY <1>8 DEF VcpusCreated
<1>9. CASE CreateDevice
  BY <1>9, Footprint DEF CreateDevice, Make, Made, VmRegisterDevice, Touches
<1>10. CASE DevicesCreated
  BY <1>10 DEF DevicesCreated
<1>11. CASE VfioContainerCreate
  BY <1>11 DEF VfioContainerCreate, VfioStep
<1>12. CASE OpenGroup
  BY <1>12 DEF OpenGroup, VfioStep
<1>13. CASE SetContainer
  BY <1>13 DEF SetContainer, VfioStep
<1>14. CASE GetDeviceFd
  BY <1>14 DEF GetDeviceFd, VfioStep
<1>15. CASE AllocVdev
  BY <1>15 DEF AllocVdev, VfioStep
<1>16. CASE GetDeviceInfo
  BY <1>16, Footprint DEF GetDeviceInfo, Touches
<1>17. CASE VfioRegister
  BY <1>17 DEF VfioRegister
<1>18. CASE Boot
  BY <1>18 DEF Boot
<1>19. CASE load_bzimage
  BY <1>19 DEF load_bzimage, Load, OpenImage, ReadImage, PlaceImage, Given, AfterInitrd
<1>20. CASE load_initrd
  BY <1>20 DEF load_initrd, Load, OpenImage, ReadImage, PlaceImage, Given, AfterInitrd
<1>21. CASE boot_setup_raw_binary
  BY <1>21 DEF boot_setup_raw_binary, Load, OpenImage, ReadImage, PlaceImage
<1>22. CASE SetupTables
  BY <1>22 DEF SetupTables
<1>23. CASE setup_vcpu_regs
  BY <1>23 DEF setup_vcpu_regs
<1>24. CASE VmStart
  BY <1>24, Footprint DEF VmStart, Touches
<1>25. CASE Stopped
  BY <1>25 DEF Stopped
<1>26. CASE DestroyVcpu
  BY <1>26, Footprint DEF DestroyVcpu, MayCrash, Touches
<1>27. CASE VcpusDestroyed
  BY <1>27 DEF VcpusDestroyed
<1>28. CASE UnregisterDevice
  BY <1>28, Footprint DEF UnregisterDevice, MayCrash, Touches
<1>29. CASE DevicesUnregistered
  BY <1>29 DEF DevicesUnregistered
<1>30. CASE FreeRegions
  BY <1>30, Footprint DEF FreeRegions, Touches
<1>31. CASE DestroyVm
  BY <1>31, Footprint DEF DestroyVm, Touches
<1>32. CASE DestroyContainer
  BY <1>32 DEF DestroyContainer
<1>33. CASE HvCleanup
  BY <1>33 DEF HvCleanup
<1>34. CASE UNCHANGED vars
  BY <1>34 DEF vars
<1>35. QED
  BY <1>1, <1>2, <1>3, <1>4, <1>5, <1>6, <1>7, <1>8, <1>9, <1>10, <1>11, <1>12, <1>13, <1>14,
     <1>15, <1>16, <1>17, <1>18, <1>19, <1>20, <1>21, <1>22, <1>23, <1>24, <1>25, <1>26, <1>27,
     <1>28,
     <1>29, <1>30, <1>31, <1>32, <1>33, <1>34
     DEF Next, Gone

-----------------------------------------------------------------------------
(* Guest memory, strings, images and the container.                         *)

\* Every step keeps guest memory allocated while it is mapped, up to vm_destroy().
LEMMA RamStep == ControlInv /\ TableInv /\ RamInv /\ [Next]_vars => RamInv'
<1> SUFFICES ASSUME ControlInv, TableInv, RamInv, [Next]_vars PROVE RamInv'
  OBVIOUS
<1> USE KindOf
<1> USE DEF RamInv, HeldOf, Closed, Early, NoVm, Goto, Stay, KeepVm, ReturnFailure, Cleanup,
            Proceed, Keep, Acquire, Release, Opened,
            OpsKinds, VmKinds, VcpuKinds, HvVcpuKinds, ThreadKinds, VfioKinds, AllDevKinds,
            StringKinds,
            RamKinds
<1>1. CASE HvInit
  BY <1>1 DEF HvInit
<1>2. CASE KvmVersion
  BY <1>2 DEF KvmVersion
<1>3. CASE HvCreateVm
  BY <1>3, Footprint DEF HvCreateVm, Make, Made, Touches
<1>4. CASE VmCreate
  BY <1>4, Footprint DEF VmCreate, Touches
<1>5. CASE Configure
  BY <1>5, Footprint, FirstZero DEF Configure, Touches
<1>6. CASE AddRam
  <2>1. /\ part \in 0 .. 2 /\ (part = 0 \/ part = 1 \/ part = 2) /\ at = "ram"
        /\ held \cap {R("hva"), R("mapping")} = First(RegionParts, part)
    BY <1>6 DEF ControlInv, AddRam, AddRamWith
  <2>2. CASE Make(RegionParts)
    <3>1. /\ part = 0 \/ part = 1
          /\ held' = held \cup RegionParts[part + 1] /\ at' = "ram" /\ part' = part + 1
      BY <2>1, <2>2, RegionFacts DEF Make
    <3>2. RegionParts[1] = {R("hva")} /\ RegionParts[2] = {R("mapping")}
      BY RegionFacts
    <3>3. CASE part = 0
      BY <2>1, <3>1, <3>2, <3>3, RegionFacts, FirstZero
    <3>4. CASE part = 1
      BY <2>1, <3>1, <3>2, <3>4, RegionFacts
    <3>5. QED
      BY <3>1, <3>3, <3>4
  <2>3. CASE Release(Undone(RegionParts)) /\ at' = "destroy_vcpus"
    <3>1. (held \cap {R("hva"), R("mapping")})' = {}
      BY <2>1, <2>3 DEF Undone
    <3>2. QED
      BY <2>3, <3>1
  <2>4. CASE Made(RegionParts) /\ Keep /\ at' = "vcpus"
    BY <2>1, <2>4, RegionFacts DEF Made
  <2>5. QED
    BY <1>6, <2>2, <2>3, <2>4 DEF AddRam, AddRamWith
<1>7. CASE CreateVcpu
  BY <1>7, Footprint DEF CreateVcpu, CreateVcpuWith, Make, Made, Touches
<1>8. CASE VcpusCreated
  BY <1>8 DEF VcpusCreated
<1>9. CASE CreateDevice
  BY <1>9, Footprint DEF CreateDevice, Make, Made, VmRegisterDevice, Touches
<1>10. CASE DevicesCreated
  BY <1>10 DEF DevicesCreated
<1>11. CASE VfioContainerCreate
  BY <1>11 DEF VfioContainerCreate, VfioStep
<1>12. CASE OpenGroup
  BY <1>12 DEF OpenGroup, VfioStep
<1>13. CASE SetContainer
  BY <1>13 DEF SetContainer, VfioStep
<1>14. CASE GetDeviceFd
  BY <1>14 DEF GetDeviceFd, VfioStep
<1>15. CASE AllocVdev
  BY <1>15 DEF AllocVdev, VfioStep
<1>16. CASE GetDeviceInfo
  BY <1>16, Footprint DEF GetDeviceInfo, Touches
<1>17. CASE VfioRegister
  BY <1>17 DEF VfioRegister
<1>18. CASE Boot
  BY <1>18 DEF Boot
<1>19. CASE load_bzimage
  BY <1>19 DEF load_bzimage, Load, OpenImage, ReadImage, PlaceImage, Given, AfterInitrd
<1>20. CASE load_initrd
  BY <1>20 DEF load_initrd, Load, OpenImage, ReadImage, PlaceImage, Given, AfterInitrd
<1>21. CASE boot_setup_raw_binary
  BY <1>21 DEF boot_setup_raw_binary, Load, OpenImage, ReadImage, PlaceImage
<1>22. CASE SetupTables
  BY <1>22 DEF SetupTables
<1>23. CASE setup_vcpu_regs
  BY <1>23 DEF setup_vcpu_regs
<1>24. CASE VmStart
  BY <1>24, Footprint DEF VmStart, Touches
<1>25. CASE Stopped
  BY <1>25 DEF Stopped
<1>26. CASE DestroyVcpu
  BY <1>26, Footprint DEF DestroyVcpu, MayCrash, Touches
<1>27. CASE VcpusDestroyed
  BY <1>27 DEF VcpusDestroyed
<1>28. CASE UnregisterDevice
  BY <1>28, Footprint DEF UnregisterDevice, MayCrash, Touches
<1>29. CASE DevicesUnregistered
  BY <1>29 DEF DevicesUnregistered
<1>30. CASE FreeRegions
  BY <1>30 DEF FreeRegions, Strings, Unmapped
<1>31. CASE DestroyVm
  <2>1. (held \cap {R("hva"), R("mapping")})' = {}
    BY <1>31, MadeKinds DEF DestroyVm
  <2>2. QED
    BY <1>31, <2>1 DEF DestroyVm
<1>32. CASE DestroyContainer
  BY <1>32 DEF DestroyContainer
<1>33. CASE HvCleanup
  BY <1>33 DEF HvCleanup
<1>34. CASE UNCHANGED vars
  BY <1>34 DEF vars
<1>35. QED
  BY <1>1, <1>2, <1>3, <1>4, <1>5, <1>6, <1>7, <1>8, <1>9, <1>10, <1>11, <1>12, <1>13, <1>14,
     <1>15, <1>16, <1>17, <1>18, <1>19, <1>20, <1>21, <1>22, <1>23, <1>24, <1>25, <1>26, <1>27,
     <1>28,
     <1>29, <1>30, <1>31, <1>32, <1>33, <1>34
     DEF Next, Gone

\* Every step keeps what the loaders and vm_set_*() hold where it is released.
LEMMA BootStep == ControlInv /\ TableInv /\ BootInv /\ [Next]_vars => BootInv'
<1> SUFFICES ASSUME ControlInv, TableInv, BootInv, [Next]_vars PROVE BootInv'
  OBVIOUS
<1> USE KindOf
<1> USE DEF BootInv, Strings, Image, Closed, Early, NoVm, Loaders, Goto, Stay, KeepVm,
            ReturnFailure, Cleanup, Proceed, Keep, Acquire, Release, Opened,
            OpsKinds, VmKinds, VcpuKinds, HvVcpuKinds, ThreadKinds, VfioKinds, AllDevKinds,
            StringKinds,
            RamKinds
<1>1. CASE HvInit
  BY <1>1 DEF HvInit
<1>2. CASE KvmVersion
  BY <1>2 DEF KvmVersion
<1>3. CASE HvCreateVm
  BY <1>3, Footprint DEF HvCreateVm, Make, Made, Touches
<1>4. CASE VmCreate
  BY <1>4, Footprint DEF VmCreate, Touches
<1>5. CASE Configure
  BY <1>5, Footprint DEF Configure, Touches
<1>6. CASE AddRam
  BY <1>6, Footprint DEF AddRam, AddRamWith, Make, Made, Touches
<1>7. CASE CreateVcpu
  BY <1>7, Footprint DEF CreateVcpu, CreateVcpuWith, Make, Made, Touches
<1>8. CASE VcpusCreated
  BY <1>8 DEF VcpusCreated
<1>9. CASE CreateDevice
  BY <1>9, Footprint, SMTT(60) DEF CreateDevice, Make, Made, VmRegisterDevice, Touches
<1>10. CASE DevicesCreated
  BY <1>10 DEF DevicesCreated
<1>11. CASE VfioContainerCreate
  BY <1>11 DEF VfioContainerCreate, VfioStep
<1>12. CASE OpenGroup
  BY <1>12 DEF OpenGroup, VfioStep
<1>13. CASE SetContainer
  BY <1>13 DEF SetContainer, VfioStep
<1>14. CASE GetDeviceFd
  BY <1>14 DEF GetDeviceFd, VfioStep
<1>15. CASE AllocVdev
  BY <1>15 DEF AllocVdev, VfioStep
<1>16. CASE GetDeviceInfo
  BY <1>16, Footprint DEF GetDeviceInfo, Touches
<1>17. CASE VfioRegister
  BY <1>17 DEF VfioRegister
<1>18. CASE Boot
  BY <1>18 DEF Boot
<1>19. CASE load_bzimage
  BY <1>19 DEF load_bzimage, Load, OpenImage, ReadImage, PlaceImage, Given, AfterInitrd
<1>20. CASE load_initrd
  BY <1>20 DEF load_initrd, Load, OpenImage, ReadImage, PlaceImage, Given, AfterInitrd
<1>21. CASE boot_setup_raw_binary
  BY <1>21 DEF boot_setup_raw_binary, Load, OpenImage, ReadImage, PlaceImage
<1>22. CASE SetupTables
  BY <1>22 DEF SetupTables
<1>23. CASE setup_vcpu_regs
  BY <1>23 DEF setup_vcpu_regs
<1>24. CASE VmStart
  <2>1. at = "start" /\ at' \in {"running", "destroy_vcpus"}
    BY <1>24 DEF VmStart
  <2>2. Touches(ThreadKinds)
    BY <1>24, Footprint
  <2>3. held' \cap Image = held \cap Image /\ held' \cap Strings = held \cap Strings
    BY <2>2 DEF Touches
  <2>4. R("container") \in held' <=> R("container") \in held
    BY <2>2 DEF Touches
  <2>5. QED
    BY <2>1, <2>3, <2>4
<1>25. CASE Stopped
  BY <1>25 DEF Stopped
<1>26. CASE DestroyVcpu
  BY <1>26, Footprint DEF DestroyVcpu, MayCrash, Touches
<1>27. CASE VcpusDestroyed
  BY <1>27 DEF VcpusDestroyed
<1>28. CASE UnregisterDevice
  BY <1>28, Footprint DEF UnregisterDevice, MayCrash, Touches
<1>29. CASE DevicesUnregistered
  BY <1>29 DEF DevicesUnregistered
<1>30. CASE FreeRegions
  BY <1>30, Footprint DEF FreeRegions, Touches
<1>31. CASE DestroyVm
  BY <1>31, Footprint DEF DestroyVm, Touches
<1>32. CASE DestroyContainer
  BY <1>32 DEF DestroyContainer
<1>33. CASE HvCleanup
  BY <1>33 DEF HvCleanup
<1>34. CASE UNCHANGED vars
  BY <1>34 DEF vars
<1>35. QED
  BY <1>1, <1>2, <1>3, <1>4, <1>5, <1>6, <1>7, <1>8, <1>9, <1>10, <1>11, <1>12, <1>13, <1>14,
     <1>15, <1>16, <1>17, <1>18, <1>19, <1>20, <1>21, <1>22, <1>23, <1>24, <1>25, <1>26, <1>27,
     <1>28,
     <1>29, <1>30, <1>31, <1>32, <1>33, <1>34
     DEF Next, Gone

-----------------------------------------------------------------------------
(* The table of devices.                                                    *)

\* Taking one element out of a sequence moves the later ones down.
LEMMA RemoveAtFacts ==
    ASSUME NEW S, NEW s \in Seq(S), NEW n \in 1 .. Len(s)
    PROVE  /\ RemoveAt(s, n) \in Seq(S)
           /\ Len(RemoveAt(s, n)) = Len(s) - 1
           /\ \A j \in 1 .. Len(s) - 1 :
                RemoveAt(s, n)[j] = IF j < n THEN s[j] ELSE s[j + 1]
<1> DEFINE a == SubSeq(s, 1, n - 1)
           b == SubSeq(s, n + 1, Len(s))
<1>1. /\ a \in Seq(S) /\ Len(a) = n - 1
      /\ \A j \in 1 .. n - 1 : a[j] = s[j]
  OBVIOUS
<1>2. /\ b \in Seq(S) /\ Len(b) = Len(s) - n
      /\ \A j \in 1 .. Len(s) - n : b[j] = s[n + j]
  OBVIOUS
<1>3. RemoveAt(s, n) = a \o b
  BY DEF RemoveAt
<1> HIDE DEF a, b
<1>4. /\ a \o b \in Seq(S) /\ Len(a \o b) = Len(a) + Len(b)
      /\ \A j \in 1 .. Len(a) + Len(b) :
           (a \o b)[j] = IF j <= Len(a) THEN a[j] ELSE b[j - Len(a)]
  BY <1>1, <1>2, ConcatProperties
<1>5. ASSUME NEW j \in 1 .. Len(s) - 1
      PROVE  (a \o b)[j] = IF j < n THEN s[j] ELSE s[j + 1]
  <2> Len(s) \in Nat /\ n \in Nat /\ j \in Nat
    OBVIOUS
  <2>1. CASE j < n
    BY <1>1, <1>2, <1>4, <2>1
  <2>2. CASE ~(j < n)
    <3>1. (a \o b)[j] = b[j - (n - 1)]
      BY <1>1, <1>2, <1>4, <2>2
    <3>2. j - (n - 1) \in 1 .. Len(s) - n
      BY <2>2
    <3>3. b[j - (n - 1)] = s[j + 1]
      BY <1>2, <3>2
    <3>4. QED
      BY <2>2, <3>1, <3>3
  <2>3. QED
    BY <2>1, <2>2
<1>6. Len(a) + Len(b) = Len(s) - 1
  BY <1>1, <1>2
<1>7. Len(a \o b) = Len(s) - 1
  BY <1>4, <1>6, Zenon
<1>8. \A j \in 1 .. Len(s) - 1 : (a \o b)[j] = IF j < n THEN s[j] ELSE s[j + 1]
  BY <1>5, Zenon
<1>9. QED
  BY <1>3, <1>4, <1>7, <1>8, Zenon

\* What a sequence contains after an element is added.
LEMMA ContainsAppend ==
    ASSUME NEW S, NEW s \in Seq(S), NEW d \in S, NEW e
    PROVE  Contains(Append(s, d), e) <=> Contains(s, e) \/ e = d
<1>1. /\ Len(Append(s, d)) = Len(s) + 1 /\ Append(s, d)[Len(s) + 1] = d /\ Len(s) \in Nat
      /\ \A j \in 1 .. Len(s) : Append(s, d)[j] = s[j]
  OBVIOUS
<1> DEFINE t == Append(s, d)
<1>2. /\ Len(t) = Len(s) + 1 /\ t[Len(s) + 1] = d
      /\ \A j \in 1 .. Len(s) : t[j] = s[j]
  BY <1>1
<1> HIDE DEF t
<1>3. Contains(t, e) <=> Contains(s, e) \/ e = d
  BY <1>1, <1>2 DEF Contains
<1>4. QED
  BY <1>3 DEF t

\* What it contains after an element is taken out.
LEMMA ContainsRemoveAt ==
    ASSUME NEW S, NEW s \in Seq(S), NEW n \in 1 .. Len(s), NEW e, e # s[n]
    PROVE  Contains(RemoveAt(s, n), e) <=> Contains(s, e)
<1> DEFINE t == RemoveAt(s, n)
<1>1. /\ Len(t) = Len(s) - 1 /\ Len(s) \in Nat
      /\ \A j \in 1 .. Len(s) - 1 : t[j] = IF j < n THEN s[j] ELSE s[j + 1]
  BY RemoveAtFacts
<1> HIDE DEF t
<1>2. ASSUME Contains(t, e) PROVE Contains(s, e)
  BY <1>1, <1>2 DEF Contains
<1>3. ASSUME Contains(s, e) PROVE Contains(t, e)
  <2>1. PICK j \in 1 .. Len(s) : s[j] = e
    BY <1>3 DEF Contains
  <2>2. CASE j < n
    BY <1>1, <2>1, <2>2 DEF Contains
  <2>3. CASE j > n
    <3>1. j - 1 \in 1 .. Len(s) - 1 /\ t[j - 1] = s[j]
      BY <1>1, <2>3
    <3>2. QED
      BY <1>1, <2>1, <3>1 DEF Contains
  <2>4. QED
    BY <2>1, <2>2, <2>3
<1>4. QED
  BY <1>2, <1>3 DEF t

\* Every step keeps the table in order and VFIO's the only device bound.
LEMMA TableStep == ControlInv /\ TableInv /\ [Next]_vars => TableInv'
<1> SUFFICES ASSUME ControlInv, TableInv, [Next]_vars PROVE TableInv'
  OBVIOUS
<1> USE DEF TableInv, Early, NoVm, OpenVfio, Contains, Goto, Stay, KeepVm, ReturnFailure,
            Cleanup, Proceed
<1>1. CASE HvInit
  BY <1>1 DEF HvInit
<1>2. CASE KvmVersion
  BY <1>2 DEF KvmVersion
<1>3. CASE HvCreateVm
  BY <1>3 DEF HvCreateVm, Make, Made
<1>4. CASE VmCreate
  BY <1>4 DEF VmCreate
<1>5. CASE Configure
  BY <1>5 DEF Configure
<1>6. CASE AddRam
  BY <1>6 DEF AddRam, AddRamWith, Make, Made
<1>7. CASE CreateVcpu
  BY <1>7 DEF CreateVcpu, CreateVcpuWith, Make, Made
<1>8. CASE VcpusCreated
  BY <1>8 DEF VcpusCreated
<1>9. CASE CreateDevice
  <2>1. i + 1 \in 1 .. 4 /\ i \in Nat /\ at = "devices"
    BY <1>9, DeviceFacts DEF ControlInv, CreateDevice
  <2>2. Devices[i + 1] \in DeviceKinds \ {"vfio"}
    BY <2>1, DeviceFacts
  <2>3. at' = "devices" /\ bound' = bound /\ i' \in {i, i + 1}
    BY <1>9, <2>1 DEF CreateDevice, Make, VmRegisterDevice
  <2>4. CASE devices' = devices
    BY <2>1, <2>3, <2>4
  <2>5. CASE devices' = Append(devices, Devices[i + 1]) /\ i' = i + 1
    <3>1. /\ devices' \in Seq(DeviceKinds) /\ Len(devices') = Len(devices) + 1
          /\ \A j \in 1 .. Len(devices) : devices'[j] = devices[j]
          /\ devices'[Len(devices) + 1] = Devices[i + 1]
      BY <2>2, <2>5
    <3>2. \A j \in DOMAIN devices' : \E l \in 1 .. i + 1 : devices'[j] = Devices[l]
      BY <2>1, <3>1
    <3>3. \A j \in DOMAIN devices' : devices'[j] # "vfio"
      BY <2>1, <3>2, DeviceFacts
    <3>4. QED
      BY <2>1, <2>3, <2>5, <3>1, <3>2, <3>3
  <2>6. QED
    BY <1>9, <2>4, <2>5 DEF CreateDevice, Make, VmRegisterDevice
<1>10. CASE DevicesCreated
  <2>1. i = 4 /\ at = "devices" /\ UNCHANGED <<devices, bound>> /\ at' \in {"vfio", "boot"}
    BY <1>10, DeviceFacts DEF DevicesCreated
  <2>2. \A j \in DOMAIN devices : devices[j] # "vfio"
    BY <2>1, DeviceFacts
  <2>3. QED
    BY <2>1, <2>2
<1>11. CASE VfioContainerCreate
  BY <1>11 DEF VfioContainerCreate, VfioStep
<1>12. CASE OpenGroup
  BY <1>12 DEF OpenGroup, VfioStep
<1>13. CASE SetContainer
  BY <1>13 DEF SetContainer, VfioStep
<1>14. CASE GetDeviceFd
  BY <1>14 DEF GetDeviceFd, VfioStep
<1>15. CASE AllocVdev
  BY <1>15 DEF AllocVdev, VfioStep
<1>16. CASE GetDeviceInfo
  BY <1>16 DEF GetDeviceInfo
<1>17. CASE VfioRegister
  <2>1. at = "register" /\ at' \in {"boot", "destroy_vcpus"}
    BY <1>17 DEF VfioRegister
  <2>2. CASE UNCHANGED <<devices, bound>>
    BY <2>1, <2>2
  <2>3. CASE devices' = Append(devices, "vfio") /\ bound' = bound \cup {"vfio"}
    <3>1. "vfio" \in DeviceKinds
      BY DEF DeviceKinds
    <3>2. /\ devices' \in Seq(DeviceKinds) /\ Len(devices') = Len(devices) + 1
          /\ \A j \in 1 .. Len(devices) : devices'[j] = devices[j]
      BY <2>3, <3>1
    <3>3. QED
      BY <2>1, <2>3, <3>2
  <2>4. QED
    BY <1>17, <2>2, <2>3 DEF VfioRegister
<1>18. CASE Boot
  BY <1>18 DEF Boot
<1>19. CASE load_bzimage
  BY <1>19 DEF load_bzimage, Load, OpenImage, ReadImage, PlaceImage, Given, AfterInitrd
<1>20. CASE load_initrd
  BY <1>20 DEF load_initrd, Load, OpenImage, ReadImage, PlaceImage, Given, AfterInitrd
<1>21. CASE boot_setup_raw_binary
  BY <1>21 DEF boot_setup_raw_binary, Load, OpenImage, ReadImage, PlaceImage
<1>22. CASE SetupTables
  BY <1>22 DEF SetupTables
<1>23. CASE setup_vcpu_regs
  BY <1>23 DEF setup_vcpu_regs
<1>24. CASE VmStart
  BY <1>24 DEF VmStart
<1>25. CASE Stopped
  BY <1>25 DEF Stopped
<1>26. CASE DestroyVcpu
  BY <1>26 DEF DestroyVcpu, MayCrash
<1>27. CASE VcpusDestroyed
  BY <1>27 DEF VcpusDestroyed
<1>28. CASE UnregisterDevice
  <2>1. /\ at = "destroy_devices" /\ at' \in {at, "crashed"} /\ bound' = bound
        /\ i' = i + 1 /\ i \in Nat /\ i < Len(devices)
    BY <1>28 DEF UnregisterDevice, MayCrash, ControlInv
  <2>2. CASE devices' = devices
    BY <2>1, <2>2
  <2>3. CASE devices' = RemoveAt(devices, i + 1)
    <3>1. i + 1 \in 1 .. Len(devices)
      BY <2>1
    <3>2. /\ devices' \in Seq(DeviceKinds) /\ Len(devices') = Len(devices) - 1
          /\ \A j \in 1 .. Len(devices) - 1 :
               devices'[j] = IF j < i + 1 THEN devices[j] ELSE devices[j + 1]
      BY <2>3, <3>1, RemoveAtFacts
    <3>3. \A j, l \in DOMAIN devices' : devices'[j] = "vfio" /\ devices'[l] = "vfio" => j = l
      <4>1. /\ \A j, l \in 1 .. Len(devices) : devices[j] = "vfio" /\ devices[l] = "vfio" => j = l
            /\ DOMAIN devices' = 1 .. Len(devices) - 1 /\ Len(devices) \in Nat
        BY <2>1, <3>2, SMTT(60)
      <4>2. ASSUME NEW j \in 1 .. Len(devices) - 1
            PROVE  \E k \in 1 .. Len(devices) :
                      devices'[j] = devices[k] /\ k = IF j < i + 1 THEN j ELSE j + 1
        BY <2>1, <3>2, <4>1
      <4>3. QED
        BY <2>1, <4>1, <4>2
    <3>4. QED
      BY <2>1, <3>2, <3>3
  <2>4. QED
    BY <1>28, <2>2, <2>3 DEF UnregisterDevice
<1>29. CASE DevicesUnregistered
  BY <1>29 DEF DevicesUnregistered
<1>30. CASE FreeRegions
  BY <1>30 DEF FreeRegions
<1>31. CASE DestroyVm
  BY <1>31 DEF DestroyVm
<1>32. CASE DestroyContainer
  BY <1>32 DEF DestroyContainer
<1>33. CASE HvCleanup
  BY <1>33 DEF HvCleanup
<1>34. CASE UNCHANGED vars
  BY <1>34 DEF vars
<1>35. QED
  BY <1>1, <1>2, <1>3, <1>4, <1>5, <1>6, <1>7, <1>8, <1>9, <1>10, <1>11, <1>12, <1>13, <1>14,
     <1>15, <1>16, <1>17, <1>18, <1>19, <1>20, <1>21, <1>22, <1>23, <1>24, <1>25, <1>26, <1>27,
     <1>28,
     <1>29, <1>30, <1>31, <1>32, <1>33, <1>34
     DEF Next, Gone

\* What vfio_device_close() gives back.
LEMMA VfioCloseSet ==
    VfioDeviceClose = {R("device_fd"), R("attached"), R("group_fd"), R("vdev")}
BY DEF VfioDeviceClose, Handle

\* Every step keeps the descriptors of a VFIO device together.
LEMMA VfioStepInv == ControlInv /\ TableInv /\ VfioInv /\ [Next]_vars => VfioInv'
<1> SUFFICES ASSUME ControlInv, TableInv, VfioInv, [Next]_vars PROVE VfioInv'
  OBVIOUS
<1> USE KindOf, VfioCloseSet
<1> USE DEF VfioInv, HeldOf, Closed, Early, NoVm, Goto, Stay, KeepVm, ReturnFailure, Cleanup,
            Proceed, Keep, Acquire, Release, Opened,
            OpsKinds, VmKinds, VcpuKinds, HvVcpuKinds, ThreadKinds, VfioKinds, AllDevKinds,
            StringKinds,
            RamKinds
<1>1. CASE HvInit
  BY <1>1 DEF HvInit
<1>2. CASE KvmVersion
  BY <1>2 DEF KvmVersion
<1>3. CASE HvCreateVm
  BY <1>3, Footprint DEF HvCreateVm, Make, Made, Touches
<1>4. CASE VmCreate
  BY <1>4, Footprint DEF VmCreate, Touches
<1>5. CASE Configure
  BY <1>5, Footprint DEF Configure, Touches
<1>6. CASE AddRam
  BY <1>6, Footprint DEF AddRam, AddRamWith, Make, Made, Touches
<1>7. CASE CreateVcpu
  BY <1>7, Footprint DEF CreateVcpu, CreateVcpuWith, Make, Made, Touches
<1>8. CASE VcpusCreated
  BY <1>8 DEF VcpusCreated
<1>9. CASE CreateDevice
  <2>1. Touches(AllDevKinds) /\ at = "devices" /\ at' = "devices"
    BY <1>9, Footprint DEF CreateDevice, Make
  <2>2. HeldOf(VfioKinds)' = HeldOf(VfioKinds) /\ (R("stdin") \in held' <=> R("stdin") \in held)
    BY <2>1 DEF Touches
  <2>3. ~Contains(devices, "vfio")'
    <3>1. TableInv' /\ \A l \in 1 .. 4 : Devices[l] # "vfio"
      BY TableStep, DeviceFacts
    <3>2. i' <= 4 /\ i' \in Nat
      BY <2>1, ControlStep DEF ControlInv
    <3>3. QED
      BY <2>1, <3>1, <3>2 DEF TableInv, Contains
  <2>4. QED
    BY <2>1, <2>2, <2>3
<1>10. CASE DevicesCreated
  BY <1>10 DEF DevicesCreated
<1>11. CASE VfioContainerCreate
  BY <1>11 DEF VfioContainerCreate, VfioStep
<1>12. CASE OpenGroup
  BY <1>12 DEF OpenGroup, VfioStep
<1>13. CASE SetContainer
  BY <1>13 DEF SetContainer, VfioStep
<1>14. CASE GetDeviceFd
  BY <1>14 DEF GetDeviceFd, VfioStep
<1>15. CASE AllocVdev
  BY <1>15 DEF AllocVdev, VfioStep
<1>16. CASE GetDeviceInfo
  <2>1. at = "info" /\ UNCHANGED devices /\ ~Contains(devices, "vfio")
    BY <1>16 DEF GetDeviceInfo, TableInv, OpenVfio
  <2>2. CASE at' = "register" /\ held' = held
    BY <2>1, <2>2 DEF Contains
  <2>3. CASE at' = "destroy_vcpus" /\ held' = held \ VfioDeviceClose
    <3>1. HeldOf(VfioKinds)' = {}
      BY <2>1, <2>3
    <3>2. QED
      BY <2>1, <2>3, <3>1 DEF Contains
  <2>4. QED
    BY <1>16, <2>2, <2>3 DEF GetDeviceInfo
<1>17. CASE VfioRegister
  BY <1>17 DEF VfioRegister
<1>18. CASE Boot
  BY <1>18 DEF Boot
<1>19. CASE load_bzimage
  BY <1>19 DEF load_bzimage, Load, OpenImage, ReadImage, PlaceImage, Given, AfterInitrd
<1>20. CASE load_initrd
  BY <1>20 DEF load_initrd, Load, OpenImage, ReadImage, PlaceImage, Given, AfterInitrd
<1>21. CASE boot_setup_raw_binary
  BY <1>21 DEF boot_setup_raw_binary, Load, OpenImage, ReadImage, PlaceImage
<1>22. CASE SetupTables
  BY <1>22 DEF SetupTables
<1>23. CASE setup_vcpu_regs
  BY <1>23 DEF setup_vcpu_regs
<1>24. CASE VmStart
  BY <1>24, Footprint DEF VmStart, Touches
<1>25. CASE Stopped
  BY <1>25 DEF Stopped
<1>26. CASE DestroyVcpu
  BY <1>26, Footprint DEF DestroyVcpu, MayCrash, Touches
<1>27. CASE VcpusDestroyed
  BY <1>27 DEF VcpusDestroyed
<1>28. CASE UnregisterDevice
  <2>1. at = "destroy_devices" /\ at' \in {at, "crashed"} /\ i \in Nat /\ i < Len(devices)
    BY <1>28 DEF UnregisterDevice, MayCrash, ControlInv
  <2>2. CASE UNCHANGED <<held, devices>>
    BY <2>1, <2>2 DEF Contains
  <2>3. CASE /\ devices[i + 1] = "vfio" /\ devices' = RemoveAt(devices, i + 1)
             /\ held' = held \ (OpsDestroy("vfio") \cup DestroyRest("vfio"))
    <3>1. i + 1 \in 1 .. Len(devices) /\ devices \in Seq(DeviceKinds)
      BY <2>1 DEF TableInv
    <3>2. /\ devices' \in Seq(DeviceKinds) /\ Len(devices') = Len(devices) - 1
          /\ \A j \in 1 .. Len(devices) - 1 :
               devices'[j] = IF j < i + 1 THEN devices[j] ELSE devices[j + 1]
      BY <2>3, <3>1, RemoveAtFacts
    <3>3. ~Contains(devices, "vfio")'
      <4> SUFFICES ASSUME NEW j \in 1 .. Len(devices'), devices'[j] = "vfio" PROVE FALSE
        BY DEF Contains
      <4>1. PICK l \in 1 .. Len(devices) : l # i + 1 /\ devices[l] = "vfio"
        BY <2>1, <3>1, <3>2, SMTT(60)
      <4>2. DOMAIN devices = 1 .. Len(devices)
        BY <3>1
      <4>3. QED
        BY <2>3, <3>1, <4>1, <4>2 DEF TableInv
    <3>4. VfioDeviceClose \subseteq OpsDestroy("vfio")
      BY DEF OpsDestroy
    <3>5. HeldOf(VfioKinds) \in {{}, VfioDeviceClose}
      BY <2>1
    <3>6. HeldOf(VfioKinds)' = {}
      BY <2>3, <3>4, <3>5
    <3>7. QED
      BY <2>1, <3>3, <3>6
  <2>4. QED
    BY <1>28, <2>2, <2>3 DEF UnregisterDevice, TableInv
<1>29. CASE DevicesUnregistered
  BY <1>29 DEF DevicesUnregistered
<1>30. CASE FreeRegions
  BY <1>30, Footprint DEF FreeRegions, Touches
<1>31. CASE DestroyVm
  BY <1>31, Footprint DEF DestroyVm, Touches
<1>32. CASE DestroyContainer
  BY <1>32 DEF DestroyContainer
<1>33. CASE HvCleanup
  BY <1>33 DEF HvCleanup
<1>34. CASE UNCHANGED vars
  BY <1>34 DEF vars
<1>35. QED
  BY <1>1, <1>2, <1>3, <1>4, <1>5, <1>6, <1>7, <1>8, <1>9, <1>10, <1>11, <1>12, <1>13, <1>14,
     <1>15, <1>16, <1>17, <1>18, <1>19, <1>20, <1>21, <1>22, <1>23, <1>24, <1>25, <1>26, <1>27,
     <1>28,
     <1>29, <1>30, <1>31, <1>32, <1>33, <1>34
     DEF Next, Gone

\* Every step keeps the parts of a listed device and nothing of another.
LEMMA DeviceStep == ControlInv /\ TableInv /\ DeviceInv /\ [Next]_vars => DeviceInv'
<1> SUFFICES ASSUME ControlInv, TableInv, DeviceInv, [Next]_vars PROVE DeviceInv'
  OBVIOUS
<1> DEFINE Same == \A x : x[1] \in AllDevKinds => (x \in held' <=> x \in held)
<1>A. ASSUME Same, \A j \in 1 .. 4 : Contains(devices', Devices[j]) <=> Contains(devices, Devices[j]),
             at = "devices" => i = 4, at' # "devices"
      PROVE  DeviceInv'
  <2>1. \A j \in 1 .. 4 : HeldOf(DevKinds(Devices[j]))' = HeldOf(DevKinds(Devices[j]))
    BY <1>A, DeviceFacts DEF HeldOf
  <2>2. \A j \in 1 .. 4 : All(DeviceParts(Devices[j])) \subseteq held
                            => All(DeviceParts(Devices[j])) \subseteq held'
    BY <1>A, DeviceFacts, MadeKinds DEF All
  <2>3. QED
    BY <1>A, <2>1, <2>2 DEF DeviceInv
<1> HIDE DEF Same
<1> USE <1>A, KindOf
<1> USE DEF Goto, Stay, KeepVm, ReturnFailure, Cleanup, Proceed
<1>1. CASE HvInit
  <2>1. Same
    BY <1>1 DEF HvInit, Same, Touches,
       Keep, Acquire, Release, Opened, OpsKinds, VmKinds, VcpuKinds, HvVcpuKinds, ThreadKinds,
       VfioKinds, AllDevKinds, StringKinds,
       RamKinds
  <2>2. UNCHANGED devices /\ at # "devices" /\ at' # "devices"
    BY <1>1 DEF HvInit
  <2>3. QED
    BY <2>1, <2>2
<1>2. CASE KvmVersion
  <2>1. Same
    BY <1>2 DEF KvmVersion, Same, Touches,
       Keep, Acquire, Release, Opened, OpsKinds, VmKinds, VcpuKinds, HvVcpuKinds, ThreadKinds,
       VfioKinds, AllDevKinds, StringKinds,
       RamKinds
  <2>2. UNCHANGED devices /\ at # "devices" /\ at' # "devices"
    BY <1>2 DEF KvmVersion
  <2>3. QED
    BY <2>1, <2>2
<1>3. CASE HvCreateVm
  <2>1. Same
    BY <1>3, Footprint DEF HvCreateVm, Make, Made, Same, Touches,
       Keep, Acquire, Release, Opened, OpsKinds, VmKinds, VcpuKinds, HvVcpuKinds, ThreadKinds,
       VfioKinds, AllDevKinds, StringKinds,
       RamKinds
  <2>2. UNCHANGED devices /\ at # "devices" /\ at' # "devices"
    BY <1>3 DEF HvCreateVm, Make, Made
  <2>3. QED
    BY <2>1, <2>2
<1>4. CASE VmCreate
  <2>1. Same
    BY <1>4, Footprint DEF VmCreate, Same, Touches,
       Keep, Acquire, Release, Opened, OpsKinds, VmKinds, VcpuKinds, HvVcpuKinds, ThreadKinds,
       VfioKinds, AllDevKinds, StringKinds,
       RamKinds
  <2>2. UNCHANGED devices /\ at # "devices" /\ at' # "devices"
    BY <1>4 DEF VmCreate
  <2>3. QED
    BY <2>1, <2>2
<1>5. CASE Configure
  <2>1. Same
    BY <1>5, Footprint DEF Configure, Same, Touches,
       Keep, Acquire, Release, Opened, OpsKinds, VmKinds, VcpuKinds, HvVcpuKinds, ThreadKinds,
       VfioKinds, AllDevKinds, StringKinds,
       RamKinds
  <2>2. UNCHANGED devices /\ at # "devices" /\ at' # "devices"
    BY <1>5 DEF Configure
  <2>3. QED
    BY <2>1, <2>2
<1>6. CASE AddRam
  <2>1. Same
    BY <1>6, Footprint DEF AddRam, AddRamWith, Make, Made, Same, Touches,
       Keep, Acquire, Release, Opened, OpsKinds, VmKinds, VcpuKinds, HvVcpuKinds, ThreadKinds,
       VfioKinds, AllDevKinds, StringKinds,
       RamKinds
  <2>2. UNCHANGED devices /\ at # "devices" /\ at' # "devices"
    BY <1>6 DEF AddRam, AddRamWith, Make, Made
  <2>3. QED
    BY <2>1, <2>2
<1>7. CASE CreateVcpu
  <2>1. Same
    BY <1>7, Footprint DEF CreateVcpu, CreateVcpuWith, Make, Made, Same, Touches,
       Keep, Acquire, Release, Opened, OpsKinds, VmKinds, VcpuKinds, HvVcpuKinds, ThreadKinds,
       VfioKinds, AllDevKinds, StringKinds,
       RamKinds
  <2>2. UNCHANGED devices /\ at # "devices" /\ at' # "devices"
    BY <1>7 DEF CreateVcpu, CreateVcpuWith, Make, Made
  <2>3. QED
    BY <2>1, <2>2
<1>8. CASE VcpusCreated
  <2>1. /\ held' = held /\ devices' = devices /\ at' = "devices" /\ i' = 0 /\ part' = 0
        /\ at = "vcpus" /\ devices = <<>>
    BY <1>8 DEF VcpusCreated, Keep, TableInv
  <2>2. \A d : ~Contains(devices, d) /\ ~Contains(devices', d)
    BY <2>1 DEF Contains
  <2>3. \A j \in 1 .. 4 : HeldOf(DevKinds(Devices[j])) = {}
    BY <2>1, <2>2 DEF DeviceInv
  <2>4. \A j \in 1 .. 4 : HeldOf(DevKinds(Devices[j]))' = {}
    BY <2>1, <2>3 DEF HeldOf
  <2>5. First(DeviceParts(Devices[1]), part') = {}
    BY <2>1, FirstZero
  <2>6. \A j \in 1 .. 4 : (i' + 1 = j <=> j = 1)
    BY <2>1
  <2>7. ASSUME NEW j \in 1 .. 4
        PROVE  IF at' = "devices" /\ i' + 1 = j
               THEN HeldOf(DevKinds(Devices[j]))' = First(DeviceParts(Devices[j]), part')
               ELSE IF Contains(devices', Devices[j]) THEN All(DeviceParts(Devices[j])) \subseteq held'
                    ELSE HeldOf(DevKinds(Devices[j]))' = {}
    BY <2>1, <2>2, <2>4, <2>5, <2>6
  <2>8. QED
    BY <2>7 DEF DeviceInv
<1>9. CASE CreateDevice
  <2> DEFINE d == Devices[i + 1]
             parts == DeviceParts(d)
  <2>1. i + 1 \in 1 .. 4 /\ i \in Nat /\ at = "devices" /\ at' = "devices" /\ part \in Nat
    BY <1>9, DeviceFacts DEF ControlInv, CreateDevice, Make
  <2>2. HeldOf(DevKinds(d)) = First(parts, part)
    BY <2>1 DEF DeviceInv
  <2>3. \A x \in held : x[1] \in DevKinds(d) <=> x \in First(parts, part)
    BY <2>2 DEF HeldOf
  <2>4. \A j \in 1 .. 4 : j # i + 1 =>
          /\ HeldOf(DevKinds(Devices[j]))' = HeldOf(DevKinds(Devices[j]))
          /\ All(DeviceParts(Devices[j])) \subseteq held => All(DeviceParts(Devices[j])) \subseteq held'
    <3> SUFFICES ASSUME NEW j \in 1 .. 4, j # i + 1
                 PROVE  /\ HeldOf(DevKinds(Devices[j]))' = HeldOf(DevKinds(Devices[j]))
                        /\ All(DeviceParts(Devices[j])) \subseteq held
                             => All(DeviceParts(Devices[j])) \subseteq held'
      OBVIOUS
    <3>1. \A x : x[1] \in DevKinds(Devices[j]) => (x \in held' <=> x \in held)
      BY <1>9, <2>1, Footprint, DeviceFacts DEF Touches
    <3>2. \A x \in All(DeviceParts(Devices[j])) : x[1] \in DevKinds(Devices[j])
      BY MadeKinds, DeviceFacts DEF All
    <3>3. QED
      BY <3>1, <3>2 DEF HeldOf
  <2>5. \A j \in 1 .. 4 : j > i => ~Contains(devices, Devices[j])
    <3> SUFFICES ASSUME NEW j \in 1 .. 4, j > i, NEW l \in 1 .. Len(devices), devices[l] = Devices[j]
                 PROVE  FALSE
      BY DEF Contains
    <3>1. PICK m \in 1 .. i : devices[l] = Devices[m]
      BY <2>1 DEF TableInv
    <3>2. m \in 1 .. 4 /\ m # j
      BY <2>1, <3>1
    <3>3. QED
      BY <3>1, <3>2, DeviceFacts
  <2>6. CASE Make(parts)
    <3>1. /\ i' = i /\ part' = part + 1 /\ devices' = devices
          /\ held' = held \cup parts[part + 1] /\ part + 1 \in 1 .. Len(parts)
      BY <2>1, <2>6, DeviceFacts DEF Make, Acquire
    <3>2. \A x \in parts[part + 1] : x[1] \in DevKinds(d)
      BY <2>1, <3>1, DeviceFacts
    <3>3. First(parts, part + 1) = First(parts, part) \cup parts[part + 1]
      BY <2>1, FirstNext
    <3>4. HeldOf(DevKinds(d))' = First(parts, part + 1)
      <4> HIDE DEF d, parts
      <4>1. \A x : x \in HeldOf(DevKinds(d))' <=> x \in held' /\ x[1] \in DevKinds(d)
        BY <3>1 DEF HeldOf, d
      <4>2. QED
        BY <2>2, <3>1, <3>2, <3>3, <4>1 DEF HeldOf
    <3>5. QED
      BY <2>1, <2>4, <3>1, <3>4 DEF DeviceInv
  <2>7. CASE /\ i' = i + 1 /\ part' = 0 /\ devices' = Append(devices, d)
             /\ Made(parts) /\ held \subseteq held'
    <3>1. devices \in Seq(DeviceKinds) /\ d \in DeviceKinds
      BY <2>1, DeviceFacts DEF TableInv
    <3>2. \A e : Contains(devices', e) <=> Contains(devices, e) \/ e = d
      <4> HIDE DEF d
      <4>1. QED
        BY <2>7, <3>1, ContainsAppend
    <3>3. All(parts) \subseteq held'
      BY <2>2, <2>7 DEF All, Made, HeldOf
    <3>4. ASSUME NEW j \in 1 .. 4
          PROVE  IF at' = "devices" /\ i' + 1 = j
                 THEN HeldOf(DevKinds(Devices[j]))' = First(DeviceParts(Devices[j]), part')
                 ELSE IF Contains(devices', Devices[j]) THEN All(DeviceParts(Devices[j])) \subseteq held'
                      ELSE HeldOf(DevKinds(Devices[j]))' = {}
      <4>1. CASE j = i + 1
        BY <2>1, <2>7, <3>2, <3>3, <4>1
      <4>2. CASE j = i + 2
        <5>1. HeldOf(DevKinds(Devices[j])) = {}
          BY <2>1, <2>5, <4>2 DEF DeviceInv
        <5>2. HeldOf(DevKinds(Devices[j]))' = {}
          BY <2>1, <2>4, <4>2, <5>1
        <5>3. QED
          BY <2>1, <2>7, <4>2, <5>2, FirstZero
      <4>3. CASE j # i + 1 /\ j # i + 2
        <5>1. IF Contains(devices, Devices[j]) THEN All(DeviceParts(Devices[j])) \subseteq held
                                               ELSE HeldOf(DevKinds(Devices[j])) = {}
          BY <2>1, <4>3 DEF DeviceInv
        <5>2. Devices[j] # d
          BY <2>1, <4>3, DeviceFacts
        <5>3. i' + 1 # j
          BY <2>1, <2>7, <4>3
        <5>4. QED
          BY <2>4, <3>2, <4>3, <5>1, <5>2, <5>3
      <4>4. QED
        BY <4>1, <4>2, <4>3
    <3>5. QED
      BY <3>4 DEF DeviceInv
  <2>8. CASE /\ i' = i + 1 /\ part' = 0 /\ devices' = devices
             /\ held' = held \ First(parts, part)
    <3>1. {x \in held' : x[1] \in DevKinds(d)} = {}
      <4> HIDE DEF d, parts
      <4>1. QED
        BY <2>3, <2>8
    <3>2. ASSUME NEW j \in 1 .. 4
          PROVE  IF at' = "devices" /\ i' + 1 = j
                 THEN HeldOf(DevKinds(Devices[j]))' = First(DeviceParts(Devices[j]), part')
                 ELSE IF Contains(devices', Devices[j]) THEN All(DeviceParts(Devices[j])) \subseteq held'
                      ELSE HeldOf(DevKinds(Devices[j]))' = {}
      <4>1. CASE j = i + 1
        <5>1. HeldOf(DevKinds(Devices[j]))' = {}
          BY <3>1, <4>1 DEF HeldOf
        <5>2. ~Contains(devices', Devices[j]) /\ i' + 1 # j
          BY <2>1, <2>5, <2>8, <4>1
        <5>3. QED
          BY <5>1, <5>2
      <4>2. CASE j = i + 2
        <5>1. HeldOf(DevKinds(Devices[j])) = {}
          BY <2>1, <2>5, <4>2 DEF DeviceInv
        <5>2. HeldOf(DevKinds(Devices[j]))' = {}
          BY <2>1, <2>4, <4>2, <5>1
        <5>3. QED
          BY <2>1, <2>8, <4>2, <5>2, FirstZero
      <4>3. CASE j # i + 1 /\ j # i + 2
        <5>1. IF Contains(devices, Devices[j]) THEN All(DeviceParts(Devices[j])) \subseteq held
                                               ELSE HeldOf(DevKinds(Devices[j])) = {}
          BY <2>1, <4>3 DEF DeviceInv
        <5>2. i' + 1 # j
          BY <2>1, <2>8, <4>3
        <5>3. QED
          BY <2>4, <2>8, <4>3, <5>1, <5>2
      <4>4. QED
        BY <4>1, <4>2, <4>3
    <3>3. QED
      BY <3>2 DEF DeviceInv
  <2>9. QED
    BY <1>9, <2>6, <2>7, <2>8 DEF CreateDevice, VmRegisterDevice, Acquire, Release, Undone
<1>10. CASE DevicesCreated
  <2>1. Same
    BY <1>10 DEF DevicesCreated, Same, Keep
  <2>2. UNCHANGED devices /\ i = 4 /\ at' # "devices"
    BY <1>10, DeviceFacts DEF DevicesCreated
  <2>3. QED
    BY <2>1, <2>2
<1>11. CASE VfioContainerCreate
  <2>1. Same
    BY <1>11 DEF VfioContainerCreate, VfioStep, Same, Touches,
       Keep, Acquire, Release, Opened, OpsKinds, VmKinds, VcpuKinds, HvVcpuKinds, ThreadKinds,
       VfioKinds, AllDevKinds, StringKinds,
       RamKinds
  <2>2. UNCHANGED devices /\ at # "devices" /\ at' # "devices"
    BY <1>11 DEF VfioContainerCreate, VfioStep
  <2>3. QED
    BY <2>1, <2>2
<1>12. CASE OpenGroup
  <2>1. Same
    BY <1>12 DEF OpenGroup, VfioStep, Same, Touches,
       Keep, Acquire, Release, Opened, OpsKinds, VmKinds, VcpuKinds, HvVcpuKinds, ThreadKinds,
       VfioKinds, AllDevKinds, StringKinds,
       RamKinds
  <2>2. UNCHANGED devices /\ at # "devices" /\ at' # "devices"
    BY <1>12 DEF OpenGroup, VfioStep
  <2>3. QED
    BY <2>1, <2>2
<1>13. CASE SetContainer
  <2>1. Same
    BY <1>13 DEF SetContainer, VfioStep, Same, Touches,
       Keep, Acquire, Release, Opened, OpsKinds, VmKinds, VcpuKinds, HvVcpuKinds, ThreadKinds,
       VfioKinds, AllDevKinds, StringKinds,
       RamKinds
  <2>2. UNCHANGED devices /\ at # "devices" /\ at' # "devices"
    BY <1>13 DEF SetContainer, VfioStep
  <2>3. QED
    BY <2>1, <2>2
<1>14. CASE GetDeviceFd
  <2>1. Same
    BY <1>14 DEF GetDeviceFd, VfioStep, Same, Touches,
       Keep, Acquire, Release, Opened, OpsKinds, VmKinds, VcpuKinds, HvVcpuKinds, ThreadKinds,
       VfioKinds, AllDevKinds, StringKinds,
       RamKinds
  <2>2. UNCHANGED devices /\ at # "devices" /\ at' # "devices"
    BY <1>14 DEF GetDeviceFd, VfioStep
  <2>3. QED
    BY <2>1, <2>2
<1>15. CASE AllocVdev
  <2>1. Same
    BY <1>15 DEF AllocVdev, VfioStep, Same, Touches,
       Keep, Acquire, Release, Opened, OpsKinds, VmKinds, VcpuKinds, HvVcpuKinds, ThreadKinds,
       VfioKinds, AllDevKinds, StringKinds,
       RamKinds
  <2>2. UNCHANGED devices /\ at # "devices" /\ at' # "devices"
    BY <1>15 DEF AllocVdev, VfioStep
  <2>3. QED
    BY <2>1, <2>2
<1>16. CASE GetDeviceInfo
  <2>1. Same
    BY <1>16, Footprint DEF GetDeviceInfo, Same, Touches,
       Keep, Acquire, Release, Opened, OpsKinds, VmKinds, VcpuKinds, HvVcpuKinds, ThreadKinds,
       VfioKinds, AllDevKinds, StringKinds,
       RamKinds
  <2>2. UNCHANGED devices /\ at # "devices" /\ at' # "devices"
    BY <1>16 DEF GetDeviceInfo
  <2>3. QED
    BY <2>1, <2>2
<1>17. CASE VfioRegister
  <2>1. Same
    BY <1>17 DEF VfioRegister, Same, Keep, Acquire, AllDevKinds
  <2>2. at # "devices" /\ at' # "devices" /\ devices' \in {devices, Append(devices, "vfio")}
    BY <1>17 DEF VfioRegister
  <2>3. devices \in Seq(DeviceKinds) /\ "vfio" \in DeviceKinds
    BY DEF TableInv, DeviceKinds
  <2>4. \A j \in 1 .. 4 : Contains(devices', Devices[j]) <=> Contains(devices, Devices[j])
    <3>1. \A j \in 1 .. 4 : Contains(Append(devices, "vfio"), Devices[j]) <=>
                              Contains(devices, Devices[j]) \/ Devices[j] = "vfio"
      BY <2>3, ContainsAppend
    <3>2. CASE devices' = devices
      BY <3>2, Zenon
    <3>3. CASE devices' = Append(devices, "vfio")
      <4>1. \A j \in 1 .. 4 : Devices[j] # "vfio"
        BY DeviceFacts
      <4>2. QED
        BY <3>1, <3>3, <4>1, Zenon
    <3>4. QED
      BY <2>2, <3>2, <3>3
  <2>5. QED
    BY <2>1, <2>2, <2>4
<1>18. CASE Boot
  <2>1. Same
    BY <1>18 DEF Boot, Same, Touches,
       Keep, Acquire, Release, Opened, OpsKinds, VmKinds, VcpuKinds, HvVcpuKinds, ThreadKinds,
       VfioKinds, AllDevKinds, StringKinds,
       RamKinds
  <2>2. UNCHANGED devices /\ at # "devices" /\ at' # "devices"
    BY <1>18 DEF Boot
  <2>3. QED
    BY <2>1, <2>2
<1>19. CASE load_bzimage
  <2>1. Same
    BY <1>19 DEF load_bzimage, Load, OpenImage, ReadImage, PlaceImage, Given, AfterInitrd,
       Same, Touches,
       Keep, Acquire, Release, Opened, OpsKinds, VmKinds, VcpuKinds, HvVcpuKinds, ThreadKinds,
       VfioKinds, AllDevKinds, StringKinds,
       RamKinds
  <2>2. UNCHANGED devices /\ at # "devices" /\ at' # "devices"
    BY <1>19 DEF load_bzimage, Load, OpenImage, ReadImage, PlaceImage, Given, AfterInitrd
  <2>3. QED
    BY <2>1, <2>2
<1>20. CASE load_initrd
  <2>1. Same
    BY <1>20 DEF load_initrd, Load, OpenImage, ReadImage, PlaceImage, Given, AfterInitrd, Same,
       Touches,
       Keep, Acquire, Release, Opened, OpsKinds, VmKinds, VcpuKinds, HvVcpuKinds, ThreadKinds,
       VfioKinds, AllDevKinds, StringKinds,
       RamKinds
  <2>2. UNCHANGED devices /\ at # "devices" /\ at' # "devices"
    BY <1>20 DEF load_initrd, Load, OpenImage, ReadImage, PlaceImage, Given, AfterInitrd
  <2>3. QED
    BY <2>1, <2>2
<1>21. CASE boot_setup_raw_binary
  <2>1. Same
    BY <1>21 DEF boot_setup_raw_binary, Load, OpenImage, ReadImage, PlaceImage, Same, Touches,
       Keep, Acquire, Release, Opened, OpsKinds, VmKinds, VcpuKinds, HvVcpuKinds, ThreadKinds,
       VfioKinds, AllDevKinds, StringKinds,
       RamKinds
  <2>2. UNCHANGED devices /\ at # "devices" /\ at' # "devices"
    BY <1>21 DEF boot_setup_raw_binary, Load, OpenImage, ReadImage, PlaceImage
  <2>3. QED
    BY <2>1, <2>2
<1>22. CASE SetupTables
  <2>1. Same
    BY <1>22 DEF SetupTables, Same, Touches,
       Keep, Acquire, Release, Opened, OpsKinds, VmKinds, VcpuKinds, HvVcpuKinds, ThreadKinds,
       VfioKinds, AllDevKinds, StringKinds,
       RamKinds
  <2>2. UNCHANGED devices /\ at # "devices" /\ at' # "devices"
    BY <1>22 DEF SetupTables
  <2>3. QED
    BY <2>1, <2>2
<1>23. CASE setup_vcpu_regs
  <2>1. Same
    BY <1>23 DEF setup_vcpu_regs, Same, Touches,
       Keep, Acquire, Release, Opened, OpsKinds, VmKinds, VcpuKinds, HvVcpuKinds, ThreadKinds,
       VfioKinds, AllDevKinds, StringKinds,
       RamKinds
  <2>2. UNCHANGED devices /\ at # "devices" /\ at' # "devices"
    BY <1>23 DEF setup_vcpu_regs
  <2>3. QED
    BY <2>1, <2>2
<1>24. CASE VmStart
  <2>1. Same
    BY <1>24, Footprint DEF VmStart, Same, Touches,
       Keep, Acquire, Release, Opened, OpsKinds, VmKinds, VcpuKinds, HvVcpuKinds, ThreadKinds,
       VfioKinds, AllDevKinds, StringKinds,
       RamKinds
  <2>2. UNCHANGED devices /\ at # "devices" /\ at' # "devices"
    BY <1>24 DEF VmStart
  <2>3. QED
    BY <2>1, <2>2
<1>25. CASE Stopped
  <2>1. Same
    BY <1>25 DEF Stopped, Same, Touches,
       Keep, Acquire, Release, Opened, OpsKinds, VmKinds, VcpuKinds, HvVcpuKinds, ThreadKinds,
       VfioKinds, AllDevKinds, StringKinds,
       RamKinds
  <2>2. UNCHANGED devices /\ at # "devices" /\ at' # "devices"
    BY <1>25 DEF Stopped
  <2>3. QED
    BY <2>1, <2>2
<1>26. CASE DestroyVcpu
  <2>1. Same
    BY <1>26, Footprint DEF DestroyVcpu, MayCrash, Same, Touches,
       Keep, Acquire, Release, Opened, OpsKinds, VmKinds, VcpuKinds, HvVcpuKinds, ThreadKinds,
       VfioKinds, AllDevKinds, StringKinds,
       RamKinds
  <2>2. UNCHANGED devices /\ at # "devices" /\ at' # "devices"
    BY <1>26 DEF DestroyVcpu, MayCrash
  <2>3. QED
    BY <2>1, <2>2
<1>27. CASE VcpusDestroyed
  <2>1. Same
    BY <1>27 DEF VcpusDestroyed, Same, Touches,
       Keep, Acquire, Release, Opened, OpsKinds, VmKinds, VcpuKinds, HvVcpuKinds, ThreadKinds,
       VfioKinds, AllDevKinds, StringKinds,
       RamKinds
  <2>2. UNCHANGED devices /\ at # "devices" /\ at' # "devices"
    BY <1>27 DEF VcpusDestroyed
  <2>3. QED
    BY <2>1, <2>2
<1>28. CASE UnregisterDevice
  <2>1. Same
    BY <1>28, Footprint DEF Same, Touches, AllDevKinds, VfioKinds
  <2>2. /\ at # "devices" /\ at' # "devices" /\ i + 1 \in 1 .. Len(devices)
        /\ devices \in Seq(DeviceKinds)
    BY <1>28 DEF UnregisterDevice, MayCrash, TableInv, ControlInv
  <2>3. \A j \in 1 .. 4 : Contains(devices', Devices[j]) <=> Contains(devices, Devices[j])
    <3>1. \A j \in 1 .. 4 : Devices[j] # devices[i + 1] =>
            (Contains(RemoveAt(devices, i + 1), Devices[j]) <=> Contains(devices, Devices[j]))
      BY <2>2, ContainsRemoveAt
    <3>2. CASE devices' = devices
      BY <3>2, Zenon
    <3>3. CASE devices' = RemoveAt(devices, i + 1) /\ devices[i + 1] = "vfio"
      <4>1. \A j \in 1 .. 4 : Devices[j] # "vfio"
        BY DeviceFacts
      <4>2. QED
        BY <3>1, <3>3, <4>1, Zenon
    <3>4. QED
      BY <1>28, <3>2, <3>3 DEF UnregisterDevice, TableInv
  <2>4. QED
    BY <2>1, <2>2, <2>3
<1>29. CASE DevicesUnregistered
  <2>1. Same
    BY <1>29 DEF DevicesUnregistered, Same, Touches,
       Keep, Acquire, Release, Opened, OpsKinds, VmKinds, VcpuKinds, HvVcpuKinds, ThreadKinds,
       VfioKinds, AllDevKinds, StringKinds,
       RamKinds
  <2>2. UNCHANGED devices /\ at # "devices" /\ at' # "devices"
    BY <1>29 DEF DevicesUnregistered
  <2>3. QED
    BY <2>1, <2>2
<1>30. CASE FreeRegions
  <2>1. Same
    BY <1>30, Footprint DEF FreeRegions, Same, Touches,
       Keep, Acquire, Release, Opened, OpsKinds, VmKinds, VcpuKinds, HvVcpuKinds, ThreadKinds,
       VfioKinds, AllDevKinds, StringKinds,
       RamKinds
  <2>2. UNCHANGED devices /\ at # "devices" /\ at' # "devices"
    BY <1>30 DEF FreeRegions
  <2>3. QED
    BY <2>1, <2>2
<1>31. CASE DestroyVm
  <2>1. Same
    BY <1>31, Footprint DEF DestroyVm, Same, Touches,
       Keep, Acquire, Release, Opened, OpsKinds, VmKinds, VcpuKinds, HvVcpuKinds, ThreadKinds,
       VfioKinds, AllDevKinds, StringKinds,
       RamKinds
  <2>2. UNCHANGED devices /\ at # "devices" /\ at' # "devices"
    BY <1>31 DEF DestroyVm
  <2>3. QED
    BY <2>1, <2>2
<1>32. CASE DestroyContainer
  <2>1. Same
    BY <1>32 DEF DestroyContainer, Same, Touches,
       Keep, Acquire, Release, Opened, OpsKinds, VmKinds, VcpuKinds, HvVcpuKinds, ThreadKinds,
       VfioKinds, AllDevKinds, StringKinds,
       RamKinds
  <2>2. UNCHANGED devices /\ at # "devices" /\ at' # "devices"
    BY <1>32 DEF DestroyContainer
  <2>3. QED
    BY <2>1, <2>2
<1>33. CASE HvCleanup
  <2>1. Same
    BY <1>33 DEF HvCleanup, Same, Touches,
       Keep, Acquire, Release, Opened, OpsKinds, VmKinds, VcpuKinds, HvVcpuKinds, ThreadKinds,
       VfioKinds, AllDevKinds, StringKinds,
       RamKinds
  <2>2. UNCHANGED devices /\ at # "devices" /\ at' # "devices"
    BY <1>33 DEF HvCleanup
  <2>3. QED
    BY <2>1, <2>2
<1>34. CASE UNCHANGED vars
  BY <1>34 DEF vars, DeviceInv, HeldOf, Contains
<1>35. QED
  BY <1>1, <1>2, <1>3, <1>4, <1>5, <1>6, <1>7, <1>8, <1>9, <1>10, <1>11, <1>12, <1>13, <1>14,
     <1>15, <1>16, <1>17, <1>18, <1>19, <1>20, <1>21, <1>22, <1>23, <1>24, <1>25, <1>26, <1>27,
     <1>28,
     <1>29, <1>30, <1>31, <1>32, <1>33, <1>34
     DEF Next, Gone

-----------------------------------------------------------------------------
(* The vCPUs.                                                               *)

\* What vcpu_create() made is a whole vCPU.
LEMMA VcpuWhole ==
    ASSUME NEW v, HeldVcpu(v) = All(VcpuParts(v))
    PROVE  Whole(v)
<1>1. Platform \in Platforms
  BY PlatformType
<1>2. CASE Platform = "hvf_arm64"
  BY <1>2, VcpuPartsFacts DEF Whole
<1>3. CASE Platform # "hvf_arm64"
  <2> DEFINE A == All(HvVcpuParts(Platform, v))
  <2>1. A \cap Lost(v) = {} /\ HeldVcpu(v) = {Vcpu(v)} \cup A
    BY <1>1, <1>3, HvVcpuFacts, VcpuPartsFacts
  <2> HIDE DEF A
  <2>2. HeldVcpu(v) = {Vcpu(v)} \cup (A \ Lost(v))
    BY <2>1
  <2>3. QED
    BY <2>2 DEF Whole, A
<1>4. QED
  BY <1>2, <1>3

\* Every step keeps the vCPUs whole between their creation and their end.
LEMMA VcpuStep == ControlInv /\ TableInv /\ VcpuInv /\ [Next]_vars => VcpuInv'
<1> SUFFICES ASSUME ControlInv, TableInv, VcpuInv, [Next]_vars PROVE VcpuInv'
  OBVIOUS
<1>P. Platform' = Platform /\ (\A v : VcpuParts(v)' = VcpuParts(v)) /\ VcpuLen' = VcpuLen
  BY PlatformKept
<1> DEFINE Same(v) == HeldVcpu(v)' = HeldVcpu(v)
<1>W. \A v : Same(v) => (Whole(v)' <=> Whole(v))
  BY <1>P DEF Whole
<1>V. N \in Nat \ {0} /\ \A v \in VCPU : v \in Nat /\ v < N
  BY ConstantsAssumption DEF VCPU
<1>T. \A K : Touches(K) /\ K \cap VcpuKinds = {} => \A v : Same(v)
  BY DEF Touches, HeldVcpu
<1> HIDE DEF Same
<1> USE <1>P, <1>V, <1>W
<1>1. CASE HvInit
  <2>1. \A v : Same(v)
    BY <1>1, KindOf DEF HvInit, Same, HeldVcpu, Opened, Image,
       VcpuKinds, HvVcpuKinds, Goto, Stay, KeepVm, ReturnFailure, Cleanup, Proceed, Keep,
       Acquire, Release
  <2>2. QED
    BY <1>1, <2>1, FirstZero DEF HvInit, VcpuInv, ControlInv, Same, Closed, Early, NoVm, Later,
       OpenVfio,
       Loaders, Goto, Stay, KeepVm, ReturnFailure, Cleanup, Proceed, Keep, Acquire, Release
<1>2. CASE KvmVersion
  <2>1. \A v : Same(v)
    BY <1>2, KindOf DEF KvmVersion, Same, HeldVcpu, Opened, Image,
       VcpuKinds, HvVcpuKinds, Goto, Stay, KeepVm, ReturnFailure, Cleanup, Proceed, Keep,
       Acquire, Release
  <2>2. QED
    BY <1>2, <2>1, FirstZero DEF KvmVersion, VcpuInv, ControlInv, Same, Closed, Early, NoVm,
       Later, OpenVfio,
       Loaders, Goto, Stay, KeepVm, ReturnFailure, Cleanup, Proceed, Keep, Acquire, Release
<1>3. CASE HvCreateVm
  <2>1. \A v : Same(v)
    BY <1>3, <1>T, Footprint DEF HvCreateVm, OpsKinds, VmKinds, VcpuKinds, HvVcpuKinds,
       ThreadKinds, VfioKinds, AllDevKinds, StringKinds,
       RamKinds
  <2>2. QED
    BY <1>3, <2>1, FirstZero DEF HvCreateVm, Make, Made, VcpuInv, ControlInv, Same, Closed,
       Early, NoVm, Later, OpenVfio,
       Loaders, Goto, Stay, KeepVm, ReturnFailure, Cleanup, Proceed, Keep, Acquire, Release
<1>4. CASE VmCreate
  <2>1. \A v : Same(v)
    BY <1>4, <1>T, Footprint DEF VmCreate, OpsKinds, VmKinds, VcpuKinds, HvVcpuKinds,
       ThreadKinds, VfioKinds, AllDevKinds, StringKinds,
       RamKinds
  <2>2. QED
    BY <1>4, <2>1, FirstZero DEF VmCreate, VcpuInv, ControlInv, Same, Closed, Early, NoVm,
       Later, OpenVfio,
       Loaders, Goto, Stay, KeepVm, ReturnFailure, Cleanup, Proceed, Keep, Acquire, Release
<1>5. CASE Configure
  <2>1. \A v : Same(v)
    BY <1>5, <1>T, Footprint DEF Configure, OpsKinds, VmKinds, VcpuKinds, HvVcpuKinds,
       ThreadKinds, VfioKinds, AllDevKinds, StringKinds,
       RamKinds
  <2>2. QED
    BY <1>5, <2>1, FirstZero DEF Configure, VcpuInv, ControlInv, Same, Closed, Early, NoVm,
       Later, OpenVfio,
       Loaders, Goto, Stay, KeepVm, ReturnFailure, Cleanup, Proceed, Keep, Acquire, Release
<1>6. CASE AddRam
  <2>1. \A v : Same(v)
    BY <1>6, <1>T, Footprint DEF RamKinds, VcpuKinds, HvVcpuKinds
  <2>2. /\ at = "ram" /\ num_vcpus = 0 /\ num_vcpus' = 0
        /\ at' = "ram" \/ (at' \in {"vcpus", "destroy_vcpus"} /\ i' = 0 /\ part' = 0)
    BY <1>6 DEF AddRam, AddRamWith, Make, Stay, KeepVm, Cleanup, Proceed, Goto, ControlInv
  <2>3. ASSUME NEW v \in VCPU PROVE HeldVcpu(v)' = {} /\ First(VcpuParts(v), 0) = {}
    BY <2>1, <2>2, FirstZero DEF VcpuInv, Same
  <2>4. CASE at' = "vcpus"
    BY <2>2, <2>3, <2>4 DEF VcpuInv, Early, NoVm, Later, OpenVfio, Loaders, Closed
  <2>5. CASE at' # "vcpus"
    BY <2>2, <2>3, <2>5 DEF VcpuInv, Early, NoVm, Later, OpenVfio, Loaders, Closed
  <2>6. QED
    BY <2>4, <2>5
<1>7. CASE CreateVcpu
  <2>1. /\ at = "vcpus" /\ i \in Nat /\ part \in Nat /\ i < N /\ i \in VCPU
        /\ num_vcpus = 0 /\ num_vcpus' = 0
    BY <1>7 DEF CreateVcpu, CreateVcpuWith, ControlInv, VCPU, Make, KeepVm
  <2>2. HeldVcpu(i) = First(VcpuParts(i), part)
    BY <2>1 DEF VcpuInv
  <2>3. CASE Make(VcpuParts(i))
    <3>1. /\ held' = held \cup VcpuParts(i)[part + 1] /\ at' = "vcpus" /\ i' = i /\ part' = part + 1
          /\ part + 1 \in 0 .. VcpuLen
      <4>1. Len(VcpuParts(i)) = VcpuLen /\ VcpuLen \in Nat
        BY VcpuPartsFacts DEF VcpuLen
      <4>2. QED
        BY <2>1, <2>3, <4>1 DEF Make, Acquire, Stay
    <3>2. First(VcpuParts(i), part + 1) = First(VcpuParts(i), part) \cup VcpuParts(i)[part + 1]
      BY <2>1, FirstNext
    <3>3. \A x \in VcpuParts(i)[part + 1] : x[1] \in VcpuKinds /\ x[2] = i
      BY <3>1, <3>2, MadeKinds
    <3> DEFINE new == VcpuParts(i)[part + 1]
               old == First(VcpuParts(i), part)
    <3> HIDE DEF new, old
    <3>4. {x \in held' : x[1] \in VcpuKinds /\ x[2] = i} = old \cup new
      <4>1. held' = held \cup new /\ \A x \in new : x[1] \in VcpuKinds /\ x[2] = i
        BY <3>1, <3>3 DEF new
      <4>2. {x \in held : x[1] \in VcpuKinds /\ x[2] = i} = old
        BY <2>2 DEF HeldVcpu, old
      <4>3. QED
        BY <4>1, <4>2
    <3>5. {x \in held' : x[1] \in VcpuKinds /\ x[2] = i} = First(VcpuParts(i), part + 1)
      BY <3>2, <3>4 DEF old, new
    <3>6. \A v : v # i => Same(v)
      BY <3>1, <3>3 DEF Same, HeldVcpu
    <3>7. ASSUME NEW v \in VCPU, v = i PROVE HeldVcpu(v)' = First(VcpuParts(v), part + 1)
      BY <3>5, <3>7 DEF HeldVcpu
    <3>8. ASSUME NEW v \in VCPU
          PROVE  /\ v < i => HeldVcpu(v)' = All(VcpuParts(v))
                 /\ v = i => HeldVcpu(v)' = First(VcpuParts(v), part + 1)
                 /\ v > i => HeldVcpu(v)' = {}
      BY <2>1, <3>6, <3>7 DEF VcpuInv, Same
    <3>9. QED
      BY <2>1, <3>1, <3>8 DEF VcpuInv, Early, NoVm, Later, OpenVfio, Loaders, Closed
  <2>4. CASE Release(Undone(VcpuParts(i)) \cup Earlier) /\ at' = "destroy_vcpus"
    <3>1. held' = held \ (First(VcpuParts(i), part) \cup Earlier)
      BY <2>4 DEF Release, Undone
    <3>2. ASSUME NEW v \in VCPU PROVE HeldVcpu(v)' = {}
      <4>1. CASE v < i
        <5>1. HeldVcpu(v) = All(VcpuParts(v))
          BY <2>1, <4>1 DEF VcpuInv
        <5>2. All(VcpuParts(v)) \subseteq Earlier
          BY <2>1, <4>1 DEF Earlier
        <5>3. \A x \in held : x[1] \in VcpuKinds /\ x[2] = v => x \in Earlier
          BY <5>1, <5>2 DEF HeldVcpu
        <5>4. QED
          BY <3>1, <5>3 DEF HeldVcpu
      <4>2. CASE v = i
        <5>1. \A x \in held : x[1] \in VcpuKinds /\ x[2] = v => x \in First(VcpuParts(i), part)
          BY <2>2, <4>2 DEF HeldVcpu
        <5>2. QED
          BY <3>1, <5>1 DEF HeldVcpu
      <4>3. CASE v > i
        <5>1. HeldVcpu(v) = {}
          BY <2>1, <4>3 DEF VcpuInv
        <5>2. QED
          BY <3>1, <5>1 DEF HeldVcpu
      <4>4. QED
        BY <2>1, <4>1, <4>2, <4>3
    <3>3. QED
      BY <2>1, <2>4, <3>2 DEF VcpuInv, Early, NoVm, Later, OpenVfio, Loaders, Closed
  <2>5. CASE Made(VcpuParts(i)) /\ i' = i + 1 /\ part' = 0 /\ Keep /\ at' = at
    <3>1. \A v : Same(v)
      BY <2>5 DEF Keep, Same, HeldVcpu
    <3>2. HeldVcpu(i) = All(VcpuParts(i))
      BY <2>2, <2>5 DEF Made, All
    <3>3. ASSUME NEW v \in VCPU
          PROVE  /\ v < i + 1 => HeldVcpu(v)' = All(VcpuParts(v))
                 /\ v = i + 1 => HeldVcpu(v)' = First(VcpuParts(v), 0)
                 /\ v > i + 1 => HeldVcpu(v)' = {}
      BY <2>1, <3>1, <3>2, FirstZero DEF VcpuInv, Same
    <3>4. QED
      BY <2>1, <2>5, <3>3 DEF VcpuInv, Early, NoVm, Later, OpenVfio, Loaders, Closed
  <2>6. QED
    BY <1>7, <2>3, <2>4, <2>5 DEF CreateVcpu, CreateVcpuWith, Cleanup, Goto, Stay
<1>8. CASE VcpusCreated
  <2>1. at = "vcpus" /\ i = N /\ at' = "devices" /\ held' = held
    BY <1>8 DEF VcpusCreated, Proceed, Goto, Keep
  <2>2. \A v : Same(v)
    BY <2>1 DEF Same, HeldVcpu
  <2>3. \A v \in VCPU : HeldVcpu(v) = All(VcpuParts(v))
    BY <2>1 DEF VcpuInv
  <2>4. \A v \in VCPU : Whole(v)
    BY <2>3, VcpuWhole
  <2>5. QED
    BY <2>1, <2>2, <2>4 DEF VcpuInv, Early, NoVm, Later, OpenVfio, Loaders, Closed
<1>9. CASE CreateDevice
  <2>1. \A v : Same(v)
    BY <1>9, <1>T, Footprint DEF CreateDevice, OpsKinds, VmKinds, VcpuKinds, HvVcpuKinds,
       ThreadKinds, VfioKinds, AllDevKinds, StringKinds,
       RamKinds
  <2>2. QED
    BY <1>9, <2>1, FirstZero DEF CreateDevice, Make, Made, VmRegisterDevice, VcpuInv,
       ControlInv, Same, Closed, Early, NoVm, Later, OpenVfio,
       Loaders, Goto, Stay, KeepVm, ReturnFailure, Cleanup, Proceed, Keep, Acquire, Release
<1>10. CASE DevicesCreated
  <2>1. \A v : Same(v)
    BY <1>10, KindOf DEF DevicesCreated, Same, HeldVcpu, Opened, Image,
       VcpuKinds, HvVcpuKinds, Goto, Stay, KeepVm, ReturnFailure, Cleanup, Proceed, Keep,
       Acquire, Release
  <2>2. QED
    BY <1>10, <2>1, FirstZero DEF DevicesCreated, VcpuInv, ControlInv, Same, Closed, Early,
       NoVm, Later, OpenVfio,
       Loaders, Goto, Stay, KeepVm, ReturnFailure, Cleanup, Proceed, Keep, Acquire, Release
<1>11. CASE VfioContainerCreate
  <2>1. \A v : Same(v)
    BY <1>11, KindOf DEF VfioContainerCreate, VfioStep, Same, HeldVcpu, Opened, Image,
       VcpuKinds, HvVcpuKinds, Goto, Stay, KeepVm, ReturnFailure, Cleanup, Proceed, Keep,
       Acquire, Release
  <2>2. QED
    BY <1>11, <2>1, FirstZero DEF VfioContainerCreate, VfioStep, VcpuInv, ControlInv, Same,
       Closed, Early, NoVm, Later, OpenVfio,
       Loaders, Goto, Stay, KeepVm, ReturnFailure, Cleanup, Proceed, Keep, Acquire, Release
<1>12. CASE OpenGroup
  <2>1. \A v : Same(v)
    BY <1>12, KindOf DEF OpenGroup, VfioStep, Same, HeldVcpu, Opened, Image,
       VcpuKinds, HvVcpuKinds, Goto, Stay, KeepVm, ReturnFailure, Cleanup, Proceed, Keep,
       Acquire, Release
  <2>2. QED
    BY <1>12, <2>1, FirstZero DEF OpenGroup, VfioStep, VcpuInv, ControlInv, Same, Closed,
       Early, NoVm, Later, OpenVfio,
       Loaders, Goto, Stay, KeepVm, ReturnFailure, Cleanup, Proceed, Keep, Acquire, Release
<1>13. CASE SetContainer
  <2>1. \A v : Same(v)
    BY <1>13, KindOf DEF SetContainer, VfioStep, Same, HeldVcpu, Opened, Image,
       VcpuKinds, HvVcpuKinds, Goto, Stay, KeepVm, ReturnFailure, Cleanup, Proceed, Keep,
       Acquire, Release
  <2>2. QED
    BY <1>13, <2>1, FirstZero DEF SetContainer, VfioStep, VcpuInv, ControlInv, Same, Closed,
       Early, NoVm, Later, OpenVfio,
       Loaders, Goto, Stay, KeepVm, ReturnFailure, Cleanup, Proceed, Keep, Acquire, Release
<1>14. CASE GetDeviceFd
  <2>1. \A v : Same(v)
    BY <1>14, KindOf DEF GetDeviceFd, VfioStep, Same, HeldVcpu, Opened, Image,
       VcpuKinds, HvVcpuKinds, Goto, Stay, KeepVm, ReturnFailure, Cleanup, Proceed, Keep,
       Acquire, Release
  <2>2. QED
    BY <1>14, <2>1, FirstZero DEF GetDeviceFd, VfioStep, VcpuInv, ControlInv, Same, Closed,
       Early, NoVm, Later, OpenVfio,
       Loaders, Goto, Stay, KeepVm, ReturnFailure, Cleanup, Proceed, Keep, Acquire, Release
<1>15. CASE AllocVdev
  <2>1. \A v : Same(v)
    BY <1>15, KindOf DEF AllocVdev, VfioStep, Same, HeldVcpu, Opened, Image,
       VcpuKinds, HvVcpuKinds, Goto, Stay, KeepVm, ReturnFailure, Cleanup, Proceed, Keep,
       Acquire, Release
  <2>2. QED
    BY <1>15, <2>1, FirstZero DEF AllocVdev, VfioStep, VcpuInv, ControlInv, Same, Closed,
       Early, NoVm, Later, OpenVfio,
       Loaders, Goto, Stay, KeepVm, ReturnFailure, Cleanup, Proceed, Keep, Acquire, Release
<1>16. CASE GetDeviceInfo
  <2>1. \A v : Same(v)
    BY <1>16, <1>T, Footprint DEF GetDeviceInfo, OpsKinds, VmKinds, VcpuKinds, HvVcpuKinds,
       ThreadKinds, VfioKinds, AllDevKinds, StringKinds,
       RamKinds
  <2>2. QED
    BY <1>16, <2>1, FirstZero DEF GetDeviceInfo, VcpuInv, ControlInv, Same, Closed, Early,
       NoVm, Later, OpenVfio,
       Loaders, Goto, Stay, KeepVm, ReturnFailure, Cleanup, Proceed, Keep, Acquire, Release
<1>17. CASE VfioRegister
  <2>1. \A v : Same(v)
    BY <1>17, KindOf DEF VfioRegister, Same, HeldVcpu, Opened, Image,
       VcpuKinds, HvVcpuKinds, Goto, Stay, KeepVm, ReturnFailure, Cleanup, Proceed, Keep,
       Acquire, Release
  <2>2. QED
    BY <1>17, <2>1, FirstZero DEF VfioRegister, VcpuInv, ControlInv, Same, Closed, Early, NoVm,
       Later, OpenVfio,
       Loaders, Goto, Stay, KeepVm, ReturnFailure, Cleanup, Proceed, Keep, Acquire, Release
<1>18. CASE Boot
  <2>1. \A v : Same(v)
    BY <1>18, KindOf DEF Boot, Same, HeldVcpu, Opened, Image,
       VcpuKinds, HvVcpuKinds, Goto, Stay, KeepVm, ReturnFailure, Cleanup, Proceed, Keep,
       Acquire, Release
  <2>2. QED
    BY <1>18, <2>1, FirstZero DEF Boot, VcpuInv, ControlInv, Same, Closed, Early, NoVm, Later,
       OpenVfio,
       Loaders, Goto, Stay, KeepVm, ReturnFailure, Cleanup, Proceed, Keep, Acquire, Release
<1>19. CASE load_bzimage
  <2>1. \A v : Same(v)
    BY <1>19, KindOf DEF load_bzimage, Load, OpenImage, ReadImage, PlaceImage, Given,
       AfterInitrd, Same, HeldVcpu, Opened, Image,
       VcpuKinds, HvVcpuKinds, Goto, Stay, KeepVm, ReturnFailure, Cleanup, Proceed, Keep,
       Acquire, Release
  <2>2. QED
    BY <1>19, <2>1, FirstZero DEF load_bzimage, Load, OpenImage, ReadImage, PlaceImage, Given,
       AfterInitrd, VcpuInv, ControlInv, Same, Closed, Early, NoVm, Later, OpenVfio,
       Loaders, Goto, Stay, KeepVm, ReturnFailure, Cleanup, Proceed, Keep, Acquire, Release
<1>20. CASE load_initrd
  <2>1. \A v : Same(v)
    BY <1>20, KindOf DEF load_initrd, Load, OpenImage, ReadImage, PlaceImage, Given,
       AfterInitrd, Same, HeldVcpu, Opened, Image,
       VcpuKinds, HvVcpuKinds, Goto, Stay, KeepVm, ReturnFailure, Cleanup, Proceed, Keep,
       Acquire, Release
  <2>2. QED
    BY <1>20, <2>1, FirstZero DEF load_initrd, Load, OpenImage, ReadImage, PlaceImage, Given,
       AfterInitrd, VcpuInv, ControlInv, Same, Closed, Early, NoVm, Later, OpenVfio,
       Loaders, Goto, Stay, KeepVm, ReturnFailure, Cleanup, Proceed, Keep, Acquire, Release
<1>21. CASE boot_setup_raw_binary
  <2>1. \A v : Same(v)
    BY <1>21, KindOf DEF boot_setup_raw_binary, Load, OpenImage, ReadImage, PlaceImage, Same,
       HeldVcpu, Opened, Image,
       VcpuKinds, HvVcpuKinds, Goto, Stay, KeepVm, ReturnFailure, Cleanup, Proceed, Keep,
       Acquire, Release
  <2>2. QED
    BY <1>21, <2>1, FirstZero DEF boot_setup_raw_binary, Load, OpenImage, ReadImage,
       PlaceImage, VcpuInv, ControlInv, Same, Closed, Early, NoVm, Later, OpenVfio,
       Loaders, Goto, Stay, KeepVm, ReturnFailure, Cleanup, Proceed, Keep, Acquire, Release
<1>22. CASE SetupTables
  <2>1. \A v : Same(v)
    BY <1>22, KindOf DEF SetupTables, Same, HeldVcpu, Opened, Image,
       VcpuKinds, HvVcpuKinds, Goto, Stay, KeepVm, ReturnFailure, Cleanup, Proceed, Keep,
       Acquire, Release
  <2>2. QED
    BY <1>22, <2>1, FirstZero DEF SetupTables, VcpuInv, ControlInv, Same, Closed, Early, NoVm,
       Later, OpenVfio,
       Loaders, Goto, Stay, KeepVm, ReturnFailure, Cleanup, Proceed, Keep, Acquire, Release
<1>23. CASE setup_vcpu_regs
  <2>1. \A v : Same(v)
    BY <1>23, KindOf DEF setup_vcpu_regs, Same, HeldVcpu, Opened, Image,
       VcpuKinds, HvVcpuKinds, Goto, Stay, KeepVm, ReturnFailure, Cleanup, Proceed, Keep,
       Acquire, Release
  <2>2. QED
    BY <1>23, <2>1, FirstZero DEF setup_vcpu_regs, VcpuInv, ControlInv, Same, Closed, Early,
       NoVm, Later, OpenVfio,
       Loaders, Goto, Stay, KeepVm, ReturnFailure, Cleanup, Proceed, Keep, Acquire, Release
<1>24. CASE VmStart
  <2>1. at = "start" /\ at' \in {"running", "destroy_vcpus"} /\ i' = 0 /\ num_vcpus' = num_vcpus
    BY <1>24 DEF VmStart, Proceed, Cleanup, Goto
  <2>2. num_vcpus = N /\ \A v \in VCPU : Whole(v)
    BY <2>1 DEF VcpuInv, ControlInv, Later
  <2>3. ASSUME NEW v \in VCPU PROVE Whole(v)'
    <3>1. CASE held' = held
      BY <2>2, <3>1 DEF Same, HeldVcpu
    <3>2. CASE /\ Platform = "hvf_arm64"
               /\ \E made \in [VCPU -> UNION {ThreadMakes(w) : w \in VCPU}] :
                    /\ \A w \in VCPU : made[w] \in ThreadMakes(w)
                    /\ Acquire(UNION {made[w] : w \in VCPU})
      <4>1. PICK made : /\ \A w \in VCPU : made[w] \in ThreadMakes(w)
                        /\ held' = held \cup UNION {made[w] : w \in VCPU}
        BY <3>2 DEF Acquire
      <4> DEFINE A(w) == All(HvVcpuParts("hvf_arm64", w))
      <4>2. \A w \in VCPU : A(w) \subseteq HvVcpu(w) \cup Lost(w)
        BY HvVcpuFacts DEF Platforms
      <4>3. \A w \in VCPU : \A x \in HvVcpu(w) : x[1] \in VcpuKinds /\ x[2] = w
        BY PlatformType, HvVcpuFacts DEF VcpuKinds
      <4>4. \A w \in VCPU : \A x \in Lost(w) : x[1] \notin VcpuKinds /\ x[2] = w
        BY DEF Lost, VcpuKinds, HvVcpuKinds
      <4>5. \A w \in VCPU : made[w] \in {{}, {<<"config", w>>}, A(w)}
        BY <4>1 DEF ThreadMakes
      <4>6. \A w \in VCPU : <<"config", w>> \in Lost(w)
        BY DEF Lost
      <4> HIDE DEF A
      <4>7. \A w \in VCPU : \A x \in made[w] : x[2] = w
        BY <4>2, <4>3, <4>4, <4>5, <4>6
      <4>8. HeldVcpu(v)' = HeldVcpu(v) \cup {x \in made[v] : x[1] \in VcpuKinds}
        BY <4>1, <4>7 DEF HeldVcpu
      <4>9. {x \in made[v] : x[1] \in VcpuKinds} \in {{}, A(v) \ Lost(v)}
        <5>1. CASE made[v] = {} \/ made[v] = {<<"config", v>>}
          <6>1. {x \in made[v] : x[1] \in VcpuKinds} = {}
            BY <4>4, <4>6, <5>1
          <6>2. QED
            BY <6>1
        <5>2. CASE made[v] = A(v)
          <6>1. {x \in A(v) : x[1] \in VcpuKinds} = A(v) \ Lost(v)
            BY <4>2, <4>3, <4>4
          <6>2. QED
            BY <5>2, <6>1
        <5>3. QED
          BY <4>5, <5>1, <5>2
      <4>10. HeldVcpu(v) \in {{Vcpu(v)}, {Vcpu(v)} \cup (A(v) \ Lost(v))}
        BY <2>2, <3>2 DEF Whole, A
      <4> DEFINE M == {x \in made[v] : x[1] \in VcpuKinds}
                 D == A(v) \ Lost(v)
                 H == HeldVcpu(v)
      <4>11. M \in {{}, D} /\ H \in {{Vcpu(v)}, {Vcpu(v)} \cup D} /\ HeldVcpu(v)' = H \cup M
        BY <4>8, <4>9, <4>10
      <4>12. D = All(HvVcpuParts("hvf_arm64", v)) \ Lost(v)
        BY DEF A
      <4> HIDE DEF M, D, H
      <4>13. H \cup M \in {{Vcpu(v)}, {Vcpu(v)} \cup D}
        BY <4>11
      <4>14. HeldVcpu(v)' = {Vcpu(v)} \/ HeldVcpu(v)' = {Vcpu(v)} \cup D
        BY <4>11, <4>13
      <4>15. QED
        BY <3>2, <4>12, <4>14 DEF Whole
    <3>3. QED
      BY <1>24, <3>1, <3>2 DEF VmStart, Keep
  <2>4. QED
    BY <2>1, <2>2, <2>3 DEF VcpuInv, Early, NoVm, Later, OpenVfio, Loaders, Closed
<1>25. CASE Stopped
  <2>1. \A v : Same(v)
    BY <1>25, KindOf DEF Stopped, Same, HeldVcpu, Opened, Image,
       VcpuKinds, HvVcpuKinds, Goto, Stay, KeepVm, ReturnFailure, Cleanup, Proceed, Keep,
       Acquire, Release
  <2>2. QED
    BY <1>25, <2>1, FirstZero DEF Stopped, VcpuInv, ControlInv, Same, Closed, Early, NoVm,
       Later, OpenVfio,
       Loaders, Goto, Stay, KeepVm, ReturnFailure, Cleanup, Proceed, Keep, Acquire, Release
<1>26. CASE DestroyVcpu
  <2>1. /\ at = "destroy_vcpus" /\ i \in Nat /\ i < num_vcpus /\ num_vcpus \in {0, N}
        /\ at' \in {"destroy_vcpus", "crashed"} /\ i' = i + 1 /\ num_vcpus' = num_vcpus
        /\ held' = held \ ({Vcpu(i)} \cup HvVcpu(i))
    BY <1>26 DEF DestroyVcpu, MayCrash, KeepVm, ControlInv
  <2>2. i \in VCPU
    BY <2>1 DEF VCPU
  <2>3. \A v : \A x \in HvVcpu(v) : x[1] \in VcpuKinds /\ x[2] = v
    BY PlatformType, HvVcpuFacts DEF VcpuKinds
  <2>4. \A v \in VCPU : v # i => Same(v)
    BY <2>1, <2>3 DEF Same, HeldVcpu, Vcpu
  <2>5. \A v \in VCPU : v = i => HeldVcpu(v)' = {}
    <3>1. Whole(i)
      BY <2>1, <2>2 DEF VcpuInv
    <3>2. \A x \in All(HvVcpuParts(Platform, i)) : x \in HvVcpu(i) \cup Lost(i)
      BY PlatformType, HvVcpuFacts
    <3>3. \A x \in HeldVcpu(i) : x \in {Vcpu(i)} \cup HvVcpu(i)
      BY <3>1, <3>2 DEF Whole
    <3>4. QED
      BY <2>1, <3>3 DEF HeldVcpu
  <2>6. QED
    BY <2>1, <2>4, <2>5 DEF VcpuInv, Same, Early, NoVm, Later, OpenVfio, Loaders, Closed
<1>27. CASE VcpusDestroyed
  <2>1. \A v : Same(v)
    BY <1>27, KindOf DEF VcpusDestroyed, Same, HeldVcpu, Opened, Image,
       VcpuKinds, HvVcpuKinds, Goto, Stay, KeepVm, ReturnFailure, Cleanup, Proceed, Keep,
       Acquire, Release
  <2>2. QED
    BY <1>27, <2>1, FirstZero DEF VcpusDestroyed, VcpuInv, ControlInv, Same, Closed, Early,
       NoVm, Later, OpenVfio,
       Loaders, Goto, Stay, KeepVm, ReturnFailure, Cleanup, Proceed, Keep, Acquire, Release
<1>28. CASE UnregisterDevice
  <2>1. \A v : Same(v)
    BY <1>28, <1>T, Footprint DEF UnregisterDevice, OpsKinds, VmKinds, VcpuKinds, HvVcpuKinds,
       ThreadKinds, VfioKinds, AllDevKinds, StringKinds,
       RamKinds
  <2>2. QED
    BY <1>28, <2>1, FirstZero DEF UnregisterDevice, MayCrash, VcpuInv, ControlInv, Same,
       Closed, Early, NoVm, Later, OpenVfio,
       Loaders, Goto, Stay, KeepVm, ReturnFailure, Cleanup, Proceed, Keep, Acquire, Release
<1>29. CASE DevicesUnregistered
  <2>1. \A v : Same(v)
    BY <1>29, KindOf DEF DevicesUnregistered, Same, HeldVcpu, Opened, Image,
       VcpuKinds, HvVcpuKinds, Goto, Stay, KeepVm, ReturnFailure, Cleanup, Proceed, Keep,
       Acquire, Release
  <2>2. QED
    BY <1>29, <2>1, FirstZero DEF DevicesUnregistered, VcpuInv, ControlInv, Same, Closed,
       Early, NoVm, Later, OpenVfio,
       Loaders, Goto, Stay, KeepVm, ReturnFailure, Cleanup, Proceed, Keep, Acquire, Release
<1>30. CASE FreeRegions
  <2>1. \A v : Same(v)
    BY <1>30, <1>T, Footprint DEF FreeRegions, OpsKinds, VmKinds, VcpuKinds, HvVcpuKinds,
       ThreadKinds, VfioKinds, AllDevKinds, StringKinds,
       RamKinds
  <2>2. QED
    BY <1>30, <2>1, FirstZero DEF FreeRegions, VcpuInv, ControlInv, Same, Closed, Early, NoVm,
       Later, OpenVfio,
       Loaders, Goto, Stay, KeepVm, ReturnFailure, Cleanup, Proceed, Keep, Acquire, Release
<1>31. CASE DestroyVm
  <2>1. \A v : Same(v)
    BY <1>31, <1>T, Footprint DEF DestroyVm, OpsKinds, VmKinds, VcpuKinds, HvVcpuKinds,
       ThreadKinds, VfioKinds, AllDevKinds, StringKinds,
       RamKinds
  <2>2. QED
    BY <1>31, <2>1, FirstZero DEF DestroyVm, VcpuInv, ControlInv, Same, Closed, Early, NoVm,
       Later, OpenVfio,
       Loaders, Goto, Stay, KeepVm, ReturnFailure, Cleanup, Proceed, Keep, Acquire, Release
<1>32. CASE DestroyContainer
  <2>1. \A v : Same(v)
    BY <1>32, KindOf DEF DestroyContainer, Same, HeldVcpu, Opened, Image,
       VcpuKinds, HvVcpuKinds, Goto, Stay, KeepVm, ReturnFailure, Cleanup, Proceed, Keep,
       Acquire, Release
  <2>2. QED
    BY <1>32, <2>1, FirstZero DEF DestroyContainer, VcpuInv, ControlInv, Same, Closed, Early,
       NoVm, Later, OpenVfio,
       Loaders, Goto, Stay, KeepVm, ReturnFailure, Cleanup, Proceed, Keep, Acquire, Release
<1>33. CASE HvCleanup
  <2>1. \A v : Same(v)
    BY <1>33, KindOf DEF HvCleanup, Same, HeldVcpu, Opened, Image,
       VcpuKinds, HvVcpuKinds, Goto, Stay, KeepVm, ReturnFailure, Cleanup, Proceed, Keep,
       Acquire, Release
  <2>2. QED
    BY <1>33, <2>1, FirstZero DEF HvCleanup, VcpuInv, ControlInv, Same, Closed, Early, NoVm,
       Later, OpenVfio,
       Loaders, Goto, Stay, KeepVm, ReturnFailure, Cleanup, Proceed, Keep, Acquire, Release
<1>34. CASE UNCHANGED vars
  <2>1. \A v : Same(v)
    BY <1>34 DEF vars, Same, HeldVcpu
  <2>2. QED
    BY <1>34, <2>1 DEF vars, VcpuInv, Same
<1>35. QED
  BY <1>1, <1>2, <1>3, <1>4, <1>5, <1>6, <1>7, <1>8, <1>9, <1>10, <1>11, <1>12, <1>13, <1>14,
     <1>15, <1>16, <1>17, <1>18, <1>19, <1>20, <1>21, <1>22, <1>23, <1>24, <1>25, <1>26, <1>27,
     <1>28,
     <1>29, <1>30, <1>31, <1>32, <1>33, <1>34
     DEF Next, Gone

-----------------------------------------------------------------------------
(* The inductive invariant holds, and what follows from it.                 *)

\* It holds when parse_args() has returned.
LEMMA SetupInit == Init => SetupInv
<1> SUFFICES ASSUME Init PROVE SetupInv
  OBVIOUS
<1> USE DEF Init
<1>1. ControlInv /\ StatusInv
  BY ConstantsAssumption
     DEF ControlInv, StatusInv, Labels, Early, NoVm, Later, OpenVfio, Loaders
<1>2. OpsInv /\ BootInv
  BY KindOf DEF OpsInv, BootInv, NoVm, Closed, Early, Loaders, Strings, Image
<1>3. HeldOf(VmKinds) = {} /\ HeldOf(VfioKinds) = {} /\ \A v : HeldVcpu(v) = {}
  BY KindOf DEF HeldOf, HeldVcpu, VmKinds, VfioKinds, VcpuKinds, HvVcpuKinds
<1>4. VmInv /\ VcpuInv
  BY <1>3 DEF VmInv, VcpuInv, Early, NoVm, Later, OpenVfio, Loaders
<1>5. RamInv
  BY KindOf DEF RamInv, Early, NoVm, Closed
<1>6. TableInv
  BY DEF TableInv, Early, NoVm, OpenVfio, Contains
<1>7. \A d : ~Contains(devices, d)
  BY DEF Contains
<1>8. VfioInv
  BY <1>3, <1>7 DEF VfioInv, Early, NoVm, Closed
<1>9. DeviceInv
  <2>1. \A K \in SUBSET AllDevKinds : HeldOf(K) = {}
    BY KindOf DEF HeldOf, AllDevKinds
  <2>2. QED
    BY <1>7, <2>1, DeviceFacts DEF DeviceInv
<1>10. QED
  BY <1>1, <1>2, <1>4, <1>5, <1>6, <1>8, <1>9 DEF SetupInv

\* Every step keeps it.
LEMMA SetupStep == SetupInv /\ [Next]_vars => SetupInv'
<1> SUFFICES ASSUME SetupInv, [Next]_vars PROVE SetupInv'
  OBVIOUS
<1>1. /\ ControlInv /\ StatusInv /\ OpsInv /\ VmInv /\ RamInv /\ VcpuInv /\ BootInv
      /\ TableInv /\ VfioInv /\ DeviceInv
  BY DEF SetupInv
<1>2. ControlInv' /\ StatusInv' /\ OpsInv' /\ VmInv' /\ RamInv'
  BY <1>1, ControlStep, StatusStep, OpsStep, VmStep, RamStep
<1>3. VcpuInv' /\ BootInv' /\ TableInv' /\ VfioInv' /\ DeviceInv'
  BY <1>1, VcpuStep, BootStep, TableStep, VfioStepInv, DeviceStep
<1>4. QED
  BY <1>2, <1>3 DEF SetupInv

\* What the backend's VM and its vCPUs have of held.
LEMMA HeldParts ==
    ASSUME SetupInv
    PROVE  /\ held \cap HvVm = HeldOf(VmKinds) /\ DestroyedVm \subseteq HvVm
           /\ \A v \in VCPU : /\ HeldVcpu(v) = {} => held \cap (HvVcpu(v) \cup {Vcpu(v)}) = {}
                              /\ Whole(v) => held \cap HvVcpu(v) \in
                                               {{}, All(HvVcpuParts(Platform, v)) \ Lost(v)}
<1>1. Platform \in Platforms
  BY PlatformType
<1>2. HvVm = {R(kind) : kind \in VmKinds} /\ DestroyedVm \subseteq HvVm
  BY <1>1, VmPartsFacts DEF DestroyedVm, VmKinds
<1>3. held \cap HvVm = HeldOf(VmKinds)
  <2>1. HeldOf(VmKinds) \subseteq HvVm
    <3>1. First(VmParts(Platform), part) \subseteq DestroyedVm \/ at # "hv_create_vm"
      <4>1. Len(VmParts(Platform)) = VmLen /\ VmLen \in Nat
        BY <1>1, VmPartsFacts DEF VmLen
      <4>2. at = "hv_create_vm" => part \in 0 .. VmLen
        BY <4>1 DEF SetupInv, ControlInv
      <4>3. QED
        BY <4>1, <4>2 DEF First, DestroyedVm, All
    <3>2. QED
      BY <1>2, <3>1 DEF SetupInv, VmInv
  <2>2. \A x \in HvVm : x[1] \in VmKinds
    BY <1>2, KindOf
  <2>3. QED
    BY <2>1, <2>2 DEF HeldOf
<1>4. ASSUME NEW v \in VCPU
      PROVE  /\ HeldVcpu(v) = {} => held \cap (HvVcpu(v) \cup {Vcpu(v)}) = {}
             /\ Whole(v) => held \cap HvVcpu(v) \in
                              {{}, All(HvVcpuParts(Platform, v)) \ Lost(v)}
  <2>1. /\ \A x \in HvVcpu(v) \cup {Vcpu(v)} : x[1] \in VcpuKinds /\ x[2] = v
        /\ Vcpu(v) \notin HvVcpu(v)
    BY <1>1, HvVcpuFacts DEF VcpuKinds, HvVcpuKinds, Vcpu
  <2>2. ASSUME HeldVcpu(v) = {} PROVE held \cap (HvVcpu(v) \cup {Vcpu(v)}) = {}
    BY <2>1, <2>2 DEF HeldVcpu
  <2> DEFINE A == All(HvVcpuParts(Platform, v)) \ Lost(v)
  <2>3. A \subseteq HvVcpu(v)
    BY <1>1, HvVcpuFacts
  <2>4. ASSUME Whole(v) PROVE held \cap HvVcpu(v) \in {{}, A}
    <3>1. HeldVcpu(v) = {Vcpu(v)} \cup A \/ HeldVcpu(v) = {Vcpu(v)}
      BY <2>4 DEF Whole
    <3>2. held \cap HvVcpu(v) = HeldVcpu(v) \cap HvVcpu(v)
      BY <2>1 DEF HeldVcpu
    <3> HIDE DEF A
    <3>3. QED
      BY <2>1, <2>3, <3>1, <3>2
  <2>5. QED
    BY <2>2, <2>4
<1>5. QED
  BY <1>2, <1>3, <1>4

\* A vCPU is whole, absent or being made.
LEMMA VcpuState ==
    ASSUME SetupInv, NEW v \in VCPU, ~(at = "vcpus" /\ i = v)
    PROVE  Whole(v) \/ HeldVcpu(v) = {}
<1>1. v \in Nat /\ i \in Nat /\ at \in Labels
  BY ConstantsAssumption DEF VCPU, SetupInv, ControlInv
<1>2. CASE at = "vcpus"
  <2>1. HeldVcpu(v) = All(VcpuParts(v)) \/ HeldVcpu(v) = {}
    BY <1>1, <1>2 DEF SetupInv, VcpuInv
  <2>2. QED
    BY <2>1, VcpuWhole
<1>3. CASE at # "vcpus"
  BY <1>1, <1>3 DEF SetupInv, VcpuInv, Labels, Early, NoVm, Later, OpenVfio, Loaders, Closed
<1>4. QED
  BY <1>2, <1>3

\* main() and the functions it calls tear everything down inside out.
THEOREM BackendNestingThm == Spec => []BackendNesting
<1>1. ASSUME SetupInv PROVE BackendNesting
  <2>1. held \cap HvVm = HeldOf(VmKinds)
    BY <1>1, HeldParts
  <2>2. ASSUME at \in Early \cup Closed \cup {"destroy_vm"} PROVE held \cap HvVcpus = {}
    BY <1>1, <2>2, HeldParts DEF HvVcpus, SetupInv, VcpuInv
  <2>3. ASSUME ~(DestroyedVm \subseteq held)
        PROVE  held \cap (HvVcpus \cup {R("mapping")}) = {}
    <3>1. at \in Early \cup Closed
      BY <1>1, <2>3 DEF SetupInv, VmInv, HeldOf, Early, NoVm
    <3>2. R("mapping") \notin held
      BY <1>1, <3>1 DEF SetupInv, RamInv
    <3>3. QED
      BY <2>2, <3>1, <3>2
  <2>4. ASSUME R("hv_ops") \notin held PROVE held \cap (HvVm \cup {R("kvm_fd")}) = {}
    BY <1>1, <2>1, <2>4 DEF SetupInv, OpsInv, VmInv, Closed
  <2>5. ASSUME R("mapping") \in held, R("hva") \notin held PROVE held \cap HvVcpus = {}
    BY <1>1, <2>2, <2>5 DEF SetupInv, RamInv
  <2>6. QED
    BY <2>3, <2>4, <2>5 DEF BackendNesting
<1>2. QED
  BY <1>1, SetupInit, SetupStep, PTL DEF Spec

\* Whichever call fails, main() returns owning nothing of the hypervisor, the
\* VM, guest memory, the strings, the VFIO container or a boot loader.
THEOREM CleanExitThm == Spec => []CleanExit
<1>1. ASSUME SetupInv PROVE CleanExit
  <2> SUFFICES ASSUME at = "exited"
               PROVE  held \cap (Hypervisor \cup Strings \cup Image
                                   \cup {R("container"), R("args")}) = {}
    BY DEF CleanExit
  <2>1. {R("hv_ops"), R("kvm_fd"), R("vm"), R("args")} \cap held = {}
    BY <1>1 DEF SetupInv, OpsInv, Closed
  <2>2. {R("hva"), R("mapping")} \cap held = {}
    BY <1>1 DEF SetupInv, RamInv, Closed
  <2>3. HvVm \cap held = {}
    BY <1>1, HeldParts DEF SetupInv, VmInv, Closed
  <2>4. (HvVcpus \cup {Vcpu(v) : v \in VCPU}) \cap held = {}
    BY <1>1, HeldParts DEF HvVcpus, SetupInv, VcpuInv, Closed
  <2>5. (Strings \cup Image \cup {R("container")}) \cap held = {}
    BY <1>1 DEF SetupInv, BootInv, Closed, Loaders
  <2>6. Hypervisor \cap held = {}
    BY <2>1, <2>2, <2>3, <2>4 DEF Hypervisor
  <2>7. QED
    BY <2>1, <2>5, <2>6
<1>2. QED
  BY <1>1, SetupInit, SetupStep, PTL DEF Spec

\* A failed create function leaves nothing, a successful one everything.
THEOREM CreateAllOrNothingThm == Spec => []CreateAllOrNothing
<1>1. ASSUME SetupInv PROVE CreateAllOrNothing
  <2>1. ASSUME at # "hv_create_vm" PROVE held \cap HvVm \in {{}, DestroyedVm}
    BY <1>1, <2>1, HeldParts DEF SetupInv, VmInv
  <2>2. ASSUME NEW v \in VCPU, ~(at = "vcpus" /\ i = v)
        PROVE  held \cap HvVcpu(v) \in {{}, All(HvVcpuParts(Platform, v)) \ Lost(v)}
    <3>1. Whole(v) \/ HeldVcpu(v) = {}
      BY <1>1, <2>2, VcpuState
    <3>2. HeldVcpu(v) = {} => held \cap HvVcpu(v) = {}
      BY <1>1, HeldParts
    <3>3. QED
      BY <1>1, <3>1, <3>2, HeldParts
  <2>3. ASSUME NEW k \in DOMAIN Devices, ~(at = "devices" /\ i + 1 = k)
        PROVE  IF Contains(devices, Devices[k])
               THEN All(DeviceParts(Devices[k])) \subseteq held
               ELSE held \cap (All(DeviceParts(Devices[k])) \cup Extra(Devices[k])) = {}
    <3>1. k \in 1 .. 4
      BY DEF Devices
    <3>2. IF Contains(devices, Devices[k]) THEN All(DeviceParts(Devices[k])) \subseteq held
                                           ELSE HeldOf(DevKinds(Devices[k])) = {}
      BY <1>1, <2>3, <3>1 DEF SetupInv, DeviceInv
    <3>3. \A x \in All(DeviceParts(Devices[k])) \cup Extra(Devices[k]) : x[1] \in DevKinds(Devices[k])
      <4>1. ControlInv
        BY <1>1 DEF SetupInv
      <4>2. QED
        BY <3>1, <4>1, MadeKinds, DeviceFacts DEF All
    <3>4. QED
      BY <3>2, <3>3 DEF HeldOf
  <2>4. QED
    BY <2>1, <2>2, <2>3, Zenon DEF CreateAllOrNothing
<1>2. QED
  BY <1>1, SetupInit, SetupStep, PTL DEF Spec

\* vfio_device_open() gives back every descriptor or none.
THEOREM VfioAllOrNothingThm == Spec => []VfioAllOrNothing
<1>1. ASSUME SetupInv PROVE VfioAllOrNothing
  <2> SUFFICES ASSUME at \notin {"attach", "device_fd", "vdev"}
               PROVE  held \cap VfioDeviceClose \in {{}, VfioDeviceClose}
    BY DEF VfioAllOrNothing
  <2>1. HeldOf(VfioKinds) \in {{}, VfioDeviceClose}
    BY <1>1 DEF SetupInv, VfioInv
  <2>2. \A x \in VfioDeviceClose : x[1] \in VfioKinds
    BY VfioCloseSet, KindOf DEF VfioKinds
  <2>3. QED
    BY <2>1, <2>2 DEF HeldOf
<1>2. QED
  BY <1>1, SetupInit, SetupStep, PTL DEF Spec

\* Whatever a step releases is held, but for what NoBadRelease names.
LEMMA FaultStep == SetupInv /\ NoBadRelease /\ [Next]_vars => NoBadRelease'
<1> SUFFICES ASSUME SetupInv, NoBadRelease, [Next]_vars PROVE NoBadRelease'
  OBVIOUS
<1> DEFINE Known == {R("vdev"), <<"vfio", 0>>, <<"vfio", 1>>} \cup {FrameworkExit(v) : v \in VCPU}
<1>A. ASSUME NEW S, S \subseteq held \cup Known, faults' = faults \cup (S \ held) PROVE NoBadRelease'
  BY <1>A DEF NoBadRelease
<1>B. ASSUME faults' = faults PROVE NoBadRelease'
  BY <1>B DEF NoBadRelease
<1>C. /\ ControlInv /\ OpsInv /\ VmInv /\ RamInv /\ VcpuInv /\ BootInv
      /\ TableInv /\ VfioInv /\ DeviceInv
  BY DEF SetupInv
<1>D. at \notin {"hv_init", "kvm_version", "hv_create_vm"} \cup Closed => DestroyedVm \subseteq held
  BY <1>C DEF VmInv, HeldOf
<1> USE <1>B DEF Goto, Stay, KeepVm, ReturnFailure, Cleanup, Proceed
<1>1. CASE HvInit
  <2>1. CASE Release({R("args")})
    <3>1. R("args") \in held
      BY <1>1, <1>C DEF HvInit, OpsInv
    <3>2. QED
      BY <1>A, <2>1, <3>1 DEF Release
  <2>2. QED
    BY <1>1, <2>1 DEF HvInit, Acquire, Release
<1>2. CASE KvmVersion
  <2>1. CASE Release(Opened \cup {R("args")})
    <3>1. Opened \cup {R("args")} \subseteq held
      BY <1>2, <1>C DEF KvmVersion, OpsInv, Opened
    <3>2. QED
      BY <1>A, <2>1, <3>1 DEF Release
  <2>2. QED
    BY <1>2, <2>1 DEF KvmVersion, Keep
<1>3. CASE HvCreateVm
  <2> DEFINE S == Undone(VmParts(Platform)) \cup Opened \cup {R("args")}
  <2>1. CASE Release(S)
    <3>1. at = "hv_create_vm" /\ Opened \cup {R("args")} \subseteq held
      BY <1>3, <1>C DEF HvCreateVm, OpsInv, Opened
    <3>2. Undone(VmParts(Platform)) \subseteq held
      BY <1>C, <3>1 DEF VmInv, HeldOf, Undone
    <3>3. S \subseteq held
      BY <3>1, <3>2
    <3> HIDE DEF S
    <3>4. QED
      BY <1>A, <2>1, <3>3 DEF Release
  <2>2. QED
    BY <1>3, <2>1 DEF HvCreateVm, Make, Acquire, Keep
<1>4. CASE VmCreate
  <2> DEFINE S == DestroyedVm \cup Opened \cup {R("args")}
  <2>1. CASE Release(S)
    <3>1. at = "vm_create" /\ Opened \cup {R("args")} \subseteq held
      BY <1>4, <1>C DEF VmCreate, OpsInv, Opened
    <3>2. S \subseteq held
      BY <1>D, <3>1 DEF Closed
    <3> HIDE DEF S
    <3>3. QED
      BY <1>A, <2>1, <3>2 DEF Release
  <2>2. QED
    BY <1>4, <2>1 DEF VmCreate, Acquire
<1>5. CASE Configure
  BY <1>5 DEF Configure, Keep, Acquire
<1>6. CASE AddRam
  <2>1. CASE Release(Undone(RegionParts))
    <3>1. at = "ram"
      BY <1>6 DEF AddRam, AddRamWith
    <3>2. Undone(RegionParts) \subseteq held
      BY <1>C, <3>1 DEF RamInv, Undone
    <3>3. QED
      BY <1>A, <2>1, <3>2 DEF Release
  <2>2. QED
    BY <1>6, <2>1 DEF AddRam, AddRamWith, Make, Acquire, Keep
<1>7. CASE CreateVcpu
  <2> DEFINE S == Undone(VcpuParts(i)) \cup Earlier
  <2>1. CASE Release(S)
    <3>1. at = "vcpus" /\ i \in VCPU /\ i \in Nat /\ \A v \in 0 .. i - 1 : v \in VCPU /\ v < i
      BY <1>7, <1>C, ConstantsAssumption DEF CreateVcpu, CreateVcpuWith, ControlInv, VCPU
    <3>2. Undone(VcpuParts(i)) \subseteq held
      BY <1>C, <3>1 DEF VcpuInv, HeldVcpu, Undone
    <3>3. \A v \in 0 .. i - 1 : All(VcpuParts(v)) \subseteq held
      BY <1>C, <3>1 DEF VcpuInv, HeldVcpu
    <3>4. S \subseteq held
      BY <3>2, <3>3 DEF Earlier
    <3> HIDE DEF S
    <3>5. QED
      BY <1>A, <2>1, <3>4 DEF Release
  <2>2. QED
    BY <1>7, <2>1 DEF CreateVcpu, CreateVcpuWith, Make, Acquire, Keep
<1>8. CASE VcpusCreated
  BY <1>8 DEF VcpusCreated, Keep, Acquire
<1>9. CASE CreateDevice
  <2> DEFINE S == Undone(DeviceParts(Devices[i + 1]))
  <2>1. CASE Release(S)
    <3>1. at = "devices" /\ i + 1 \in 1 .. 4
      BY <1>9, <1>C, DeviceFacts DEF CreateDevice, ControlInv
    <3>2. S \subseteq held
      BY <1>C, <3>1 DEF DeviceInv, HeldOf, Undone
    <3> HIDE DEF S
    <3>3. QED
      BY <1>A, <2>1, <3>2 DEF Release
  <2>2. QED
    BY <1>9, <2>1 DEF CreateDevice, Make, Acquire, Keep
<1>10. CASE DevicesCreated
  BY <1>10 DEF DevicesCreated, Keep, Acquire
<1>11. CASE VfioContainerCreate
  <2> DEFINE S == {R(r) : r \in {}}
  <2>1. CASE Release(S)
    <3>1. at = "vfio"
      BY <1>11 DEF VfioContainerCreate, VfioStep
    <3>2. S \subseteq held
      BY <1>C, <3>1 DEF VfioInv, HeldOf
    <3> HIDE DEF S
    <3>3. QED
      BY <1>A, <2>1, <3>2 DEF Release
  <2>2. QED
    BY <1>11, <2>1 DEF VfioContainerCreate, VfioStep, Acquire
<1>12. CASE OpenGroup
  <2> DEFINE S == {R(r) : r \in {}}
  <2>1. CASE Release(S)
    <3>1. at = "group"
      BY <1>12 DEF OpenGroup, VfioStep
    <3>2. S \subseteq held
      BY <1>C, <3>1 DEF VfioInv, HeldOf
    <3> HIDE DEF S
    <3>3. QED
      BY <1>A, <2>1, <3>2 DEF Release
  <2>2. QED
    BY <1>12, <2>1 DEF OpenGroup, VfioStep, Acquire
<1>13. CASE SetContainer
  <2> DEFINE S == {R(r) : r \in {"group_fd"}}
  <2>1. CASE Release(S)
    <3>1. at = "attach"
      BY <1>13 DEF SetContainer, VfioStep
    <3>2. S \subseteq held
      BY <1>C, <3>1 DEF VfioInv, HeldOf
    <3> HIDE DEF S
    <3>3. QED
      BY <1>A, <2>1, <3>2 DEF Release
  <2>2. QED
    BY <1>13, <2>1 DEF SetContainer, VfioStep, Acquire
<1>14. CASE GetDeviceFd
  <2> DEFINE S == {R(r) : r \in {"attached", "group_fd"}}
  <2>1. CASE Release(S)
    <3>1. at = "device_fd"
      BY <1>14 DEF GetDeviceFd, VfioStep
    <3>2. S \subseteq held
      BY <1>C, <3>1 DEF VfioInv, HeldOf
    <3> HIDE DEF S
    <3>3. QED
      BY <1>A, <2>1, <3>2 DEF Release
  <2>2. QED
    BY <1>14, <2>1 DEF GetDeviceFd, VfioStep, Acquire
<1>15. CASE AllocVdev
  <2> DEFINE S == {R(r) : r \in {"device_fd", "attached", "group_fd"}}
  <2>1. CASE Release(S)
    <3>1. at = "vdev"
      BY <1>15 DEF AllocVdev, VfioStep
    <3>2. S \subseteq held
      BY <1>C, <3>1 DEF VfioInv, HeldOf
    <3> HIDE DEF S
    <3>3. QED
      BY <1>A, <2>1, <3>2 DEF Release
  <2>2. QED
    BY <1>15, <2>1 DEF AllocVdev, VfioStep, Acquire
<1>16. CASE GetDeviceInfo
  <2>1. CASE Release(VfioDeviceClose)
    <3>1. at = "info"
      BY <1>16 DEF GetDeviceInfo
    <3>2. VfioDeviceClose \subseteq held
      BY <1>C, <3>1 DEF VfioInv, HeldOf
    <3>3. QED
      BY <1>A, <2>1, <3>2 DEF Release
  <2>2. QED
    BY <1>16, <2>1 DEF GetDeviceInfo, Keep
<1>17. CASE VfioRegister
  BY <1>17 DEF VfioRegister, Keep, Acquire
<1>18. CASE Boot
  BY <1>18 DEF Boot, Keep, Acquire
<1>19. CASE load_bzimage
  <2>1. CASE R("buffer") \in held /\ Release({R("buffer")})
    <3>1. {R("buffer")} \subseteq held
      BY <2>1
    <3>2. QED
      BY <1>A, <2>1, <3>1 DEF Release
  <2>2. QED
    BY <1>19, <2>1 DEF load_bzimage, Load, OpenImage, ReadImage, PlaceImage, Acquire, Keep
<1>20. CASE load_initrd
  <2>1. CASE R("buffer") \in held /\ Release({R("buffer")})
    <3>1. {R("buffer")} \subseteq held
      BY <2>1
    <3>2. QED
      BY <1>A, <2>1, <3>1 DEF Release
  <2>2. QED
    BY <1>20, <2>1 DEF load_initrd, Load, OpenImage, ReadImage, PlaceImage, Acquire, Keep
<1>21. CASE boot_setup_raw_binary
  <2>1. CASE R("buffer") \in held /\ Release({R("buffer")})
    <3>1. {R("buffer")} \subseteq held
      BY <2>1
    <3>2. QED
      BY <1>A, <2>1, <3>1 DEF Release
  <2>2. QED
    BY <1>21, <2>1 DEF boot_setup_raw_binary, Load, OpenImage, ReadImage, PlaceImage, Acquire,
       Keep
<1>22. CASE SetupTables
  BY <1>22 DEF SetupTables, Keep, Acquire
<1>23. CASE setup_vcpu_regs
  BY <1>23 DEF setup_vcpu_regs, Keep, Acquire
<1>24. CASE VmStart
  BY <1>24 DEF VmStart, Keep, Acquire
<1>25. CASE Stopped
  BY <1>25 DEF Stopped, Keep, Acquire
<1>26. CASE DestroyVcpu
  <2>1. at = "destroy_vcpus" /\ i \in VCPU /\ i < num_vcpus /\ i \in Nat
    BY <1>26, <1>C, ConstantsAssumption DEF DestroyVcpu, ControlInv, VCPU
  <2>2. Vcpu(i) \in held
    <3>1. Whole(i)
      BY <1>C, <2>1 DEF VcpuInv
    <3>2. QED
      BY <3>1 DEF Whole, HeldVcpu
  <2>3. HvDestroyVcpuFaults(i) \subseteq Known
    <3>1. CASE Platform = "kvm"
      <4>1. {R("hv_vm"), R("vm_data")} \subseteq DestroyedVm
        BY <3>1, PlatformType, VmPartsFacts DEF DestroyedVm
      <4>2. {R("hv_vm"), R("vm_data")} \subseteq held
        BY <1>D, <2>1, <4>1 DEF Closed
      <4>3. QED
        BY <3>1, <4>2 DEF HvDestroyVcpuFaults
    <3>2. CASE Platform = "hvf_x86"
      BY <3>2 DEF HvDestroyVcpuFaults
    <3>3. CASE Platform = "hvf_arm64"
      BY <2>1, <3>3 DEF HvDestroyVcpuFaults
    <3>4. QED
      BY <3>1, <3>2, <3>3, PlatformType DEF Platforms
  <2>4. faults' \subseteq faults \cup HvDestroyVcpuFaults(i)
    BY <1>26, <2>2 DEF DestroyVcpu
  <2>5. QED
    BY <2>3, <2>4 DEF NoBadRelease
<1>27. CASE VcpusDestroyed
  BY <1>27 DEF VcpusDestroyed, Keep, Acquire
<1>28. CASE UnregisterDevice
  <2>1. i + 1 \in 1 .. Len(devices)
    BY <1>28, <1>C DEF UnregisterDevice, ControlInv, TableInv
  <2>2. CASE faults' = faults
    BY <2>2
  <2>3. CASE /\ devices[i + 1] = "vfio"
             /\ faults' = faults \cup (OpsDestroy("vfio") \ held)
                            \cup (DestroyRest("vfio") \ (held \ OpsDestroy("vfio")))
    <3>1. Contains(devices, "vfio")
      BY <2>1, <2>3 DEF Contains
    <3>2. VfioDeviceClose \cup {<<"vfio", 0>>, <<"vfio", 1>>, R("stdin")} \subseteq held
      BY <1>C, <3>1 DEF VfioInv
    <3>3. OpsDestroy("vfio") = VfioDeviceClose \cup {<<"vfio", 0>>, <<"vfio", 1>>}
      BY DEF OpsDestroy
    <3>4. DestroyRest("vfio") = {R("stdin"), R("vdev"), <<"vfio", 0>>, <<"vfio", 1>>}
      BY DEF DestroyRest, Private
    <3>5. R("stdin") \notin OpsDestroy("vfio")
      BY <3>3, VfioCloseSet DEF R
    <3>6. OpsDestroy("vfio") \subseteq held
      BY <3>2, <3>3
    <3>7. QED
      BY <2>3, <3>2, <3>4, <3>5, <3>6 DEF NoBadRelease
  <2>4. QED
    BY <1>28, <1>C, <2>2, <2>3 DEF UnregisterDevice, TableInv, Keep
<1>29. CASE DevicesUnregistered
  BY <1>29 DEF DevicesUnregistered, Keep, Acquire
<1>30. CASE FreeRegions
  <2>1. faults' = faults
    BY <1>30 DEF FreeRegions, Release
  <2>2. QED
    BY <2>1
<1>31. CASE DestroyVm
  <2> DEFINE S == DestroyedVm \cup {R("vm")} \cup ({R("mapping")} \cap held)
  <2>1. Release(S) /\ at = "destroy_vm"
    BY <1>31 DEF DestroyVm
  <2>2. R("vm") \in held
    BY <1>C, <2>1 DEF OpsInv, NoVm, Closed
  <2>3. S \subseteq held
    BY <1>D, <2>1, <2>2 DEF Closed
  <2> HIDE DEF S
  <2>4. QED
    BY <1>A, <2>1, <2>3 DEF Release
<1>32. CASE DestroyContainer
  <2>1. faults' = faults
    BY <1>32 DEF DestroyContainer, Release
  <2>2. QED
    BY <2>1
<1>33. CASE HvCleanup
  <2>1. faults' = faults
    BY <1>33, <1>C DEF HvCleanup, Release, Opened, OpsInv
  <2>2. QED
    BY <2>1
<1>34. CASE UNCHANGED vars
  BY <1>34 DEF vars
<1>35. QED
  BY <1>1, <1>2, <1>3, <1>4, <1>5, <1>6, <1>7, <1>8, <1>9, <1>10, <1>11, <1>12, <1>13, <1>14,
     <1>15, <1>16, <1>17, <1>18, <1>19, <1>20, <1>21, <1>22, <1>23, <1>24, <1>25, <1>26, <1>27,
     <1>28,
     <1>29, <1>30, <1>31, <1>32, <1>33, <1>34
     DEF Next, Gone

\* Nothing is released twice but what the two double frees of NoBadRelease name.
THEOREM NoBadReleaseThm == Spec => []NoBadRelease
<1>1. Init => NoBadRelease
  BY DEF Init, NoBadRelease
<1>2. QED
  BY <1>1, SetupInit, SetupStep, FaultStep, PTL DEF Spec

-----------------------------------------------------------------------------
(* Types.                                                                   *)

\* What a step acquires is a resource.
LEMMA HeldStep == SetupInv /\ held \subseteq Resources /\ [Next]_vars => held' \subseteq Resources
<1> SUFFICES ASSUME SetupInv, held \subseteq Resources, [Next]_vars PROVE held' \subseteq Resources
  OBVIOUS
<1>A. ASSUME NEW S, S \subseteq Resources, held' \subseteq held \cup S PROVE held' \subseteq Resources
  BY <1>A
<1>B. /\ {R("hv_ops"), R("kvm_fd"), R("vm"), R("hva"), R("mapping")} \subseteq Resources
      /\ HvVm \subseteq Resources /\ HvVcpus \subseteq Resources /\ {Vcpu(v) : v \in VCPU} \subseteq Resources
      /\ Strings \subseteq Resources /\ OfDevices \subseteq Resources /\ Image \subseteq Resources
      /\ R("container") \in Resources
      /\ \A v \in VCPU : Lost(v) \subseteq Resources
  BY DEF Resources, Hypervisor
<1>C. {R("device_fd"), R("attached"), R("group_fd"), R("vdev"), <<"vfio", 0>>, <<"vfio", 1>>}
        \subseteq Resources
  <2>1. "vfio" \in DeviceKinds
    BY DEF DeviceKinds
  <2>2. {<<"vfio", 0>>, <<"vfio", 1>>} \cup Private("vfio") \cup Handle("vfio") \subseteq OfDevices
    BY <2>1 DEF OfDevices
  <2>3. QED
    BY <1>B, <2>2 DEF Private, Handle
<1> HIDE DEF Resources
<1> USE <1>B, <1>C DEF Goto, Stay, KeepVm, ReturnFailure, Cleanup, Proceed
<1>1. CASE HvInit
  BY <1>1 DEF HvInit, Keep, Acquire, Release
<1>2. CASE KvmVersion
  BY <1>2 DEF KvmVersion, Keep, Acquire, Release
<1>3. CASE HvCreateVm
  <2>1. Len(VmParts(Platform)) \in Nat /\ part \in Nat
    BY PlatformType, VmPartsFacts DEF SetupInv, ControlInv
  <2>2. \A j \in 1 .. Len(VmParts(Platform)) : VmParts(Platform)[j] \subseteq HvVm
    BY PlatformType, VmPartsFacts DEF HvVm
  <2>3. QED
    BY <1>3, <2>1, <2>2 DEF HvCreateVm, Make, Keep, Acquire, Release
<1>4. CASE VmCreate
  BY <1>4 DEF VmCreate, Keep, Acquire, Release
<1>5. CASE Configure
  BY <1>5 DEF Configure, Keep, Acquire, Release
<1>6. CASE AddRam
  <2>1. Len(RegionParts) = 2 /\ RegionParts[1] = {R("hva")} /\ RegionParts[2] = {R("mapping")}
    BY RegionFacts
  <2>2. part \in Nat
    BY DEF SetupInv, ControlInv
  <2>3. \A j \in 1 .. 2 : RegionParts[j] \subseteq Resources
    <3>1. \A j \in 1 .. 2 : j = 1 \/ j = 2
      OBVIOUS
    <3>2. QED
      BY <2>1, <3>1
  <2>4. QED
    BY <1>6, <2>1, <2>2, <2>3 DEF AddRam, AddRamWith, Make, Keep, Acquire, Release
<1>7. CASE CreateVcpu
  <2>1. /\ i \in VCPU /\ part \in Nat /\ Len(VcpuParts(i)) \in Nat
    BY <1>7, ConstantsAssumption, VcpuPartsFacts
       DEF CreateVcpu, CreateVcpuWith, SetupInv, ControlInv, VCPU, VcpuLen
  <2>2. HvVcpu(i) \cup {Vcpu(i)} \subseteq Resources
    BY <2>1 DEF HvVcpus
  <2>3. \A j \in 1 .. Len(VcpuParts(i)) : VcpuParts(i)[j] \subseteq Resources
    BY <2>2, VcpuPartsFacts
  <2>4. QED
    BY <1>7, <2>1, <2>3 DEF CreateVcpu, CreateVcpuWith, Make, Keep, Acquire, Release
<1>8. CASE VcpusCreated
  BY <1>8 DEF VcpusCreated, Keep, Acquire, Release
<1>9. CASE CreateDevice
  <2> DEFINE d == Devices[i + 1]
             parts == DeviceParts(d)
  <2>1. i + 1 \in 1 .. 4 /\ part \in Nat
    BY <1>9, DeviceFacts DEF CreateDevice, SetupInv, ControlInv
  <2>2. d \in {"mmio", "virtio-console", "virtio-block", "virtio-net"} /\ d \in DeviceKinds
    BY <2>1 DEF Devices, DeviceKinds
  <2> HIDE DEF d
  <2>3. {<<d, 0>>, <<d, 1>>, <<d, 2>>} \cup Private(d) \cup Handle(d) \subseteq Resources
    BY <2>2 DEF OfDevices
  <2>4. Len(parts) \in Nat /\ \A j \in 1 .. Len(parts) : parts[j] \subseteq Resources
    <3>1. CASE d = "mmio"
      BY <2>3, <3>1 DEF DeviceParts
    <3>2. CASE d = "virtio-console"
      BY <2>3, <3>2 DEF DeviceParts
    <3>3. CASE d = "virtio-block"
      BY <2>3, <3>3 DEF DeviceParts
    <3>4. CASE d = "virtio-net"
      BY <2>3, <3>4 DEF DeviceParts
    <3>5. QED
      BY <2>2, <3>1, <3>2, <3>3, <3>4
  <2>5. Extra(d) \subseteq Resources
    BY <2>3 DEF Extra
  <2>6. \/ Make(parts) \/ held' \subseteq held \/ held' = held \cup Extra(d)
    BY <1>9 DEF CreateDevice, Acquire, Release, d
  <2> HIDE DEF parts
  <2>7. QED
    BY <2>1, <2>4, <2>5, <2>6 DEF Make, Acquire
<1>10. CASE DevicesCreated
  BY <1>10 DEF DevicesCreated, Keep, Acquire, Release
<1>11. CASE VfioContainerCreate
  BY <1>11 DEF VfioContainerCreate, VfioStep, Keep, Acquire, Release
<1>12. CASE OpenGroup
  BY <1>12 DEF OpenGroup, VfioStep, Keep, Acquire, Release
<1>13. CASE SetContainer
  BY <1>13 DEF SetContainer, VfioStep, Keep, Acquire, Release
<1>14. CASE GetDeviceFd
  BY <1>14 DEF GetDeviceFd, VfioStep, Keep, Acquire, Release
<1>15. CASE AllocVdev
  BY <1>15 DEF AllocVdev, VfioStep, Keep, Acquire, Release
<1>16. CASE GetDeviceInfo
  BY <1>16 DEF GetDeviceInfo, Keep, Acquire, Release
<1>17. CASE VfioRegister
  BY <1>17 DEF VfioRegister, Keep, Acquire, Release
<1>18. CASE Boot
  BY <1>18 DEF Boot, Keep, Acquire, Release
<1>19. CASE load_bzimage
  <2>1. {R("file"), R("buffer")} \subseteq Resources
    BY DEF Image
  <2>2. QED
    BY <1>19, <2>1 DEF load_bzimage, Load, OpenImage, ReadImage, PlaceImage, Keep, Acquire,
       Release
<1>20. CASE load_initrd
  <2>1. {R("file"), R("buffer")} \subseteq Resources
    BY DEF Image
  <2>2. QED
    BY <1>20, <2>1 DEF load_initrd, Load, OpenImage, ReadImage, PlaceImage, Keep, Acquire,
       Release
<1>21. CASE boot_setup_raw_binary
  <2>1. {R("file"), R("buffer")} \subseteq Resources
    BY DEF Image
  <2>2. QED
    BY <1>21, <2>1 DEF boot_setup_raw_binary, Load, OpenImage, ReadImage, PlaceImage, Keep,
       Acquire, Release
<1>22. CASE SetupTables
  BY <1>22 DEF SetupTables, Keep, Acquire, Release
<1>23. CASE setup_vcpu_regs
  BY <1>23 DEF setup_vcpu_regs, Keep, Acquire, Release
<1>24. CASE VmStart
  <2>1. CASE held' = held
    BY <2>1
  <2>2. CASE \E made \in [VCPU -> UNION {ThreadMakes(v) : v \in VCPU}] :
               /\ \A v \in VCPU : made[v] \in ThreadMakes(v)
               /\ Acquire(UNION {made[v] : v \in VCPU})
    <3>1. PICK made : /\ \A v \in VCPU : made[v] \in ThreadMakes(v)
                      /\ held' = held \cup UNION {made[v] : v \in VCPU}
      BY <2>2 DEF Acquire
    <3>2. \A v \in VCPU : HvVcpu(v) \cup Lost(v) \subseteq Resources
      BY DEF HvVcpus
    <3>3. \A v \in VCPU : All(HvVcpuParts("hvf_arm64", v)) \subseteq HvVcpu(v) \cup Lost(v)
      BY HvVcpuFacts DEF Platforms
    <3>4. \A v \in VCPU : <<"config", v>> \in Lost(v)
      BY DEF Lost
    <3>5. \A v \in VCPU : made[v] \subseteq Resources
      BY <3>1, <3>2, <3>3, <3>4 DEF ThreadMakes
    <3>6. QED
      BY <3>1, <3>5
  <2>3. QED
    BY <1>24, <2>1, <2>2 DEF VmStart, Keep
<1>25. CASE Stopped
  BY <1>25 DEF Stopped, Keep, Acquire, Release
<1>26. CASE DestroyVcpu
  BY <1>26 DEF DestroyVcpu, MayCrash, Keep, Acquire, Release
<1>27. CASE VcpusDestroyed
  BY <1>27 DEF VcpusDestroyed, Keep, Acquire, Release
<1>28. CASE UnregisterDevice
  BY <1>28 DEF UnregisterDevice, MayCrash, Keep, Acquire, Release
<1>29. CASE DevicesUnregistered
  BY <1>29 DEF DevicesUnregistered, Keep, Acquire, Release
<1>30. CASE FreeRegions
  BY <1>30 DEF FreeRegions, Keep, Acquire, Release
<1>31. CASE DestroyVm
  BY <1>31 DEF DestroyVm, Keep, Acquire, Release
<1>32. CASE DestroyContainer
  BY <1>32 DEF DestroyContainer, Keep, Acquire, Release
<1>33. CASE HvCleanup
  BY <1>33 DEF HvCleanup, Keep, Acquire, Release
<1>34. CASE UNCHANGED vars
  BY <1>34 DEF vars
<1>35. QED
  BY <1>1, <1>2, <1>3, <1>4, <1>5, <1>6, <1>7, <1>8, <1>9, <1>10, <1>11, <1>12, <1>13, <1>14,
     <1>15, <1>16, <1>17, <1>18, <1>19, <1>20, <1>21, <1>22, <1>23, <1>24, <1>25, <1>26, <1>27,
     <1>28,
     <1>29, <1>30, <1>31, <1>32, <1>33, <1>34
     DEF Next, Gone

\* The type invariant, for any number of vCPUs and any options.
THEOREM TypeOKThm == Spec => []TypeOK
<1> DEFINE TInv == SetupInv /\ NoBadRelease /\ held \subseteq Resources
<1>1. Init => TInv
  <2>1. Init => SetupInv
    BY SetupInit
  <2>2. Init => NoBadRelease /\ held \subseteq Resources
    BY DEF Init, NoBadRelease, Resources
  <2>3. QED
    BY <2>1, <2>2
<1>2. TInv /\ [Next]_vars => TInv'
  BY SetupStep, FaultStep, HeldStep
<1>3. ASSUME TInv PROVE TypeOK
  <2>1. ControlInv /\ StatusInv /\ TableInv
    BY <1>3 DEF SetupInv
  <2>2. Len(Devices) = 4 /\ N \in Nat \ {0} /\ Configs \subseteq SUBSET Options
    BY DeviceFacts, ConstantsAssumption
  <2>3. i \in 0 .. N + Len(Devices) + 1
    <3>1. Len(devices) \in Nat /\ Len(devices) <= 5 /\ (at = "destroy_devices" => i <= Len(devices) + 1)
      BY <2>1 DEF TableInv
    <3>2. QED
      BY <2>1, <2>2, <3>1 DEF ControlInv
  <2>4. part \in 0 .. 5
    <3>1. VmLen <= 5 /\ VcpuLen <= 5 /\ VmLen \in Nat /\ VcpuLen \in Nat
      BY DEF VmLen, VcpuLen
    <3>2. at = "devices" /\ part # 0 => part <= 4
      BY <2>1, DeviceFacts DEF ControlInv
    <3>3. QED
      BY <2>1, <3>1, <3>2 DEF ControlInv
  <2>5. at \in Labels /\ opts \in SUBSET Options /\ num_vcpus \in {0, N}
    BY <2>1, <2>2 DEF ControlInv
  <2>6. faults \subseteq Resources
    <3>1. "vfio" \in DeviceKinds
      BY DEF DeviceKinds
    <3>2. {<<"vfio", 0>>, <<"vfio", 1>>} \cup Private("vfio") \subseteq OfDevices
      BY <3>1 DEF OfDevices
    <3>3. \A v \in VCPU : FrameworkExit(v) \in Resources
      BY DEF Resources
    <3>4. OfDevices \subseteq Resources
      BY DEF Resources
    <3>5. QED
      BY <1>3, <3>2, <3>3, <3>4 DEF NoBadRelease, Private
  <2>7. devices \in Seq(DeviceKinds) /\ bound \subseteq DeviceKinds
    BY <2>1 DEF TableInv, DeviceKinds
  <2>8. ret \in {-1, 0} /\ ran \in BOOLEAN /\ status \in {"none", "EXIT_SUCCESS", "EXIT_FAILURE"}
    BY <2>1 DEF StatusInv
  <2>9. QED
    BY <1>3, <2>3, <2>4, <2>5, <2>6, <2>7, <2>8 DEF TypeOK
<1> HIDE DEF TInv
<1>4. QED
  BY <1>1, <1>2, <1>3, PTL DEF Spec
=============================================================================
