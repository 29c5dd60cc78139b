------------------------------ MODULE VmSetup ------------------------------
(***************************************************************************)
(* What main() acquires before the virtual machine runs, in which order,   *)
(* and what each path out of main() releases (src/main.c, src/vm.c,        *)
(* src/devices.c, src/vfio.c and the create and destroy operations of the  *)
(* backends).  Every acquisition may fail; a failure undoes some of the    *)
(* earlier ones on the spot and sends main() to its "cleanup" label or     *)
(* straight to its return.                                                 *)
(*                                                                         *)
(* A resource is a pair <<kind, number>>.  held is the set of resources    *)
(* the process owns.  What one create function makes is a sequence of      *)
(* parts, the sets of resources its steps acquire, {} for a step that only *)
(* checks.  Releasing a resource that is not held is undefined behaviour:  *)
(* it is recorded in faults, and the process may crash there or go on.  A  *)
(* null pointer that is dereferenced is a crash.  While the machine runs   *)
(* this module leaves the threads to VmLifecycle.                          *)
(***************************************************************************)
EXTENDS Integers, Sequences, SequencesExt, FiniteSets

CONSTANTS
    N,          \* args.num_vcpus
    Configs     \* the platforms and options the program may be started with

\* The options that decide what main() creates.  Without "kernel" the
\* program was given --binary.  "arm64" and "hvf_x86" are the platform, HVF
\* on an ARM64 or an Intel machine; without either it is KVM on Linux.
Options == {"kernel", "initrd", "disk", "net", "vfio", "arm64", "hvf_x86"}

ASSUME ConstantsAssumption ==
    /\ N \in Nat \ {0}
    /\ Configs \subseteq SUBSET Options
    /\ \A S \in Configs : Cardinality(S \cap {"arm64", "hvf_x86", "vfio"}) <= 1

VCPU == 0 .. N - 1

R(kind) == <<kind, 0>>

\* The first k parts of a sequence of parts, and all of them.
First(parts, k) == UNION {parts[j] : j \in 1 .. k}
All(parts)      == First(parts, Len(parts))

\* The backend's VM.  kvm_create_vm() ends by asking for the size of the run
\* structure; the HVF backends end by hv_vm_create().
VmParts(platform) ==
    IF platform = "kvm" THEN <<{R("vm_fd")}, {R("hv_vm")}, {R("vm_data")}, {}>>
                        ELSE <<{R("hv_vm")}, {R("vm_data")}, {R("hvf_vm")}>>

\* The backend's vCPU.  hv_vcpu_create() of ARM64 replaces the exit_info
\* block by one of the framework's, and nobody keeps the config object.
HvVcpuParts(platform, v) ==
    CASE platform = "kvm" ->
           <<{<<"vcpu_fd", v>>}, {<<"hv_vcpu", v>>}, {<<"vcpu_data", v>>}, {<<"run", v>>}>>
      [] platform = "hvf_x86" ->
           <<{<<"hv_vcpu", v>>}, {<<"vcpu_data", v>>}, {<<"run", v>>}, {<<"hvf_vcpu", v>>}>>
      [] platform = "hvf_arm64" ->
           <<{<<"hv_vcpu", v>>}, {<<"vcpu_data", v>>}, {<<"exit_info", v>>},
             {<<"config", v>>}, {<<"hvf_vcpu", v>>}>>

Lost(v) == {<<"exit_info", v>>, <<"config", v>>}

\* The exit information hv_vcpu_create() hands out; it is the framework's.
FrameworkExit(v) == <<"framework_exit", v>>

Platforms == {"kvm", "hvf_x86", "hvf_arm64"}

HvVcpu(v) == (UNION {All(HvVcpuParts(p, v)) : p \in Platforms}) \ Lost(v)

HvVcpus == UNION {HvVcpu(v) : v \in VCPU}

Vcpu(v) == <<"vcpu", v>>

Strings == {R("kernel_path"), R("initrd_path"), R("cmdline")}

\* The devices in the order main() creates them, the option each needs, the
\* descriptor its create function opens and the blocks it allocates.
Devices == <<"mmio", "virtio-console", "virtio-block", "virtio-net">>

Wanted(d, opts) ==
    \/ d \in {"mmio", "virtio-console"}
    \/ d = "virtio-block" /\ "disk" \in opts
    \/ d = "virtio-net" /\ "net" \in opts

Handle(d) == CASE d = "mmio"         -> {R("log_file")}
               [] d = "virtio-block" -> {R("disk_fd")}
               [] d = "virtio-net"   -> {R("tap_fd")}
               [] d = "vfio"         -> {R("device_fd"), R("attached"), R("group_fd")}
               [] OTHER              -> {}

\* dev->data: a block of its own for the MMIO console, the vfio_dev for VFIO;
\* for virtio it is the virtio_dev, the block that holds the device itself.
Private(d) == CASE d = "mmio" -> {R("mmio_state")}
                [] d = "vfio" -> {R("vdev")}
                [] OTHER      -> {<<d, 0>>}

\* What the create function of a device acquires, step by step.  A virtio
\* device, <<d, 0>>, has a state block, <<d, 2>>, and virtio-block asks for the
\* size of its file.  The last two blocks of the MMIO console are its name
\* and its state.
DeviceParts(d) ==
    CASE d = "mmio"           -> <<{<<d, 0>>}, {<<d, 1>>}, Private(d)>>
      [] d = "virtio-console" -> <<{<<d, 0>>}, {<<d, 2>>}>>
      [] d = "virtio-block"   -> <<{<<d, 0>>}, {<<d, 2>>}, Handle(d), {}>>
      [] d = "virtio-net"     -> <<{<<d, 0>>}, {<<d, 2>>}, Handle(d)>>

\* What a device also has when the call for it succeeds: its log file or,
\* for virtio, its name.
Extra(d) == IF d = "mmio" THEN Handle(d) ELSE {<<d, 1>>}

DeviceKinds == {Devices[k] : k \in DOMAIN Devices} \cup {"vfio"}

\* Everything a device holds, its blocks and its descriptor.
OfDevices ==
    UNION {{<<d, 0>>, <<d, 1>>, <<d, 2>>} \cup Private(d) \cup Handle(d) : d \in DeviceKinds}

HvVm == UNION {All(VmParts(p)) : p \in Platforms}

Hypervisor == {R("hv_ops"), R("kvm_fd"), R("vm"), R("hva"), R("mapping")}
                \cup HvVm \cup HvVcpus \cup {Vcpu(v) : v \in VCPU}

\* What a loader of boot.c holds while it runs.
Image == {R("file"), R("buffer")}

Resources == Hypervisor \cup Strings \cup OfDevices \cup Image
               \cup {R("container"), R("args"), R("stdin")}
               \cup UNION {Lost(v) \cup {FrameworkExit(v)} : v \in VCPU}

VARIABLES
    at,          \* where main() is
    i,           \* its loop variable
    part,        \* how many parts the create function it is in has made
    opts,        \* the platform and the parsed options
    ret,         \* its variable ret
    held,        \* the resources the process owns
    devices,     \* vm->devices[0 .. num_devices - 1]
    bound,       \* the devices whose dev->vm is set
    num_vcpus,   \* vm->num_vcpus
    faults,      \* resources used or released when not held
    ran,         \* whether vm_start() succeeded
    status       \* the exit status of the process

vars == <<at, i, part, opts, ret, held, devices, bound, num_vcpus, faults, ran, status>>

Labels == {"hv_init", "kvm_version", "hv_create_vm", "vm_create", "config",
           "ram", "vcpus", "devices", "vfio", "group", "attach", "device_fd",
           "vdev", "info", "register", "boot", "binary", "bzimage", "initrd",
           "cmdline", "e820", "regs", "start", "running", "destroy_vcpus",
           "destroy_devices", "free_regions", "destroy_vm", "container",
           "hv_cleanup", "exited", "crashed"}

Platform == IF "arm64" \in opts THEN "hvf_arm64"
            ELSE IF "hvf_x86" \in opts THEN "hvf_x86" ELSE "kvm"

TypeOK ==
    /\ at \in Labels
    /\ i \in 0 .. N + Len(Devices) + 1
    /\ part \in 0 .. 5
    /\ opts \in SUBSET Options
    /\ ret \in {-1, 0}
    /\ held \subseteq Resources /\ faults \subseteq Resources
    /\ devices \in Seq(DeviceKinds) /\ bound \subseteq DeviceKinds
    /\ num_vcpus \in {0, N}
    /\ ran \in BOOLEAN
    /\ status \in {"none", "EXIT_SUCCESS", "EXIT_FAILURE"}

\* parse_args() has accepted the command line and copied its strings.
Init ==
    /\ at = "hv_init" /\ i = 0 /\ part = 0 /\ ret = 0
    /\ opts \in Configs
    /\ held = {R("args"), R("stdin")}
    /\ devices = <<>> /\ bound = {} /\ num_vcpus = 0
    /\ faults = {} /\ ran = FALSE /\ status = "none"

Goto(label)   == at' = label /\ i' = 0 /\ part' = 0
Stay          == UNCHANGED <<at, opts, ret, status>>
Acquire(S)    == held' = held \cup S /\ UNCHANGED faults

\* Release what is in S; releasing what is not held is a fault.
Release(S)    == held' = held \ S /\ faults' = faults \cup (S \ held)
Keep          == UNCHANGED <<held, faults>>
KeepVm        == UNCHANGED <<devices, bound, num_vcpus, ran>>

\* return EXIT_FAILURE before there is a VM: free_args() and return.
ReturnFailure(S) ==
    /\ Release(S \cup {R("args")})
    /\ Goto("exited") /\ status' = "EXIT_FAILURE" /\ ret' = -1
    /\ KeepVm /\ UNCHANGED opts

\* goto cleanup, with ret as the failed call left it.
Cleanup(r) ==
    /\ Goto("destroy_vcpus") /\ ret' = r
    /\ UNCHANGED <<opts, status>>

Proceed(label) == Goto(label) /\ ret' = 0 /\ UNCHANGED <<opts, status>>

----------------------------------------------------------------------------
(* The backend and the VM                                                  *)

\* What hv_cleanup() closes: kvm_cleanup() has a descriptor, HVF nothing.
Opened == {R("hv_ops"), R("kvm_fd")} \cap held

\* hv_init() selects the backend and calls its init; the HVF ones create a VM
\* and destroy it again.
HvInit ==
    /\ at = "hv_init"
    /\ \/ /\ Platform = "kvm"
          /\ Proceed("kvm_version") /\ Acquire({R("hv_ops"), R("kvm_fd")}) /\ KeepVm
       \/ /\ Platform # "kvm"
          /\ Proceed("hv_create_vm") /\ Acquire({R("hv_ops")}) /\ KeepVm
       \/ ReturnFailure({})

\* The rest of kvm_init(): with the wrong version it closes the descriptor
\* and hv_init() clears g_hv_ops.
KvmVersion ==
    /\ at = "kvm_version"
    /\ \/ Proceed("hv_create_vm") /\ Keep /\ KeepVm
       \/ ReturnFailure(Opened)

\* The next step of a create function succeeds.
Make(parts) ==
    /\ part < Len(parts)
    /\ Acquire(parts[part + 1])
    /\ part' = part + 1
    /\ UNCHANGED i /\ Stay /\ KeepVm

Made(parts) == part = Len(parts)

\* MUTANT of Undone: what the last step made is forgotten.
UndoneButLast(parts) == First(parts, part - 1)

\* What a create function gives back when its next step fails.
Undone(parts) == First(parts, part)

\* hv_create_vm(): a failed step undoes the earlier ones.
HvCreateVm ==
    LET parts == VmParts(Platform) IN
    /\ at = "hv_create_vm"
    /\ \/ Make(parts)
       \/ ~Made(parts) /\ ReturnFailure(Undone(parts) \cup Opened)
       \/ Made(parts) /\ Proceed("vm_create") /\ Keep /\ KeepVm

\* hv_destroy_vm()
DestroyedVm == All(VmParts(Platform))

\* MUTANT of VmCreate: the failed calloc() forgets hv_destroy_vm().
VmCreateLeaks ==
    /\ at = "vm_create"
    /\ \/ Proceed("config") /\ Acquire({R("vm")}) /\ KeepVm
       \/ ReturnFailure(Opened)

VmCreate ==
    /\ at = "vm_create"
    /\ \/ Proceed("config") /\ Acquire({R("vm")}) /\ KeepVm
       \/ ReturnFailure(DestroyedVm \cup Opened)

\* The results of vm_set_kernel(), vm_set_initrd() and vm_set_cmdline() are
\* ignored: any of the copies may be missing.  strdup(NULL) is undefined.
Configure ==
    /\ at = "config" /\ KeepVm
    /\ \/ "kernel" \notin opts /\ Proceed("ram") /\ Keep
       \/ /\ "kernel" \in opts /\ "initrd" \in opts
          /\ \E S \in SUBSET Strings : Acquire(S)
          /\ Proceed("ram")
       \/ /\ "kernel" \in opts /\ "initrd" \notin opts
          /\ Proceed("crashed") /\ Keep

\* The region of main(): its block and what map_mem() of the backend adds.
RegionParts == <<{R("hva")}, {R("mapping")}>>

\* vm_add_memory_region(vm, 0, ram_size); r is what ret is after a failure.
AddRamWith(r) ==
    /\ at = "ram"
    /\ \/ Make(RegionParts)
       \/ ~Made(RegionParts) /\ Release(Undone(RegionParts)) /\ Cleanup(r) /\ KeepVm
       \/ Made(RegionParts) /\ Proceed("vcpus") /\ Keep /\ KeepVm

\* MUTANT of AddRam: the result of vm_add_memory_region() is not kept in ret.
AddRamForgotten == AddRamWith(ret)

AddRam == AddRamWith(-1)

\* What vcpu_create() makes: on x86_64 the backend's vCPU as well, on ARM64
\* that is left to the thread.
VcpuParts(v) ==
    <<{Vcpu(v)}>> \o IF Platform = "hvf_arm64" THEN <<>> ELSE HvVcpuParts(Platform, v)

\* What vm_create_vcpus() destroys when vCPU i cannot be created.
Earlier == UNION {All(VcpuParts(v)) : v \in 0 .. i - 1}

\* vcpu_create(vm, i) while i is below n.  A failed step leads to undo.
CreateVcpuWith(n, undo) ==
    /\ at = "vcpus" /\ i < n
    /\ LET parts == VcpuParts(i) IN
       \/ Make(parts)
       \/ ~Made(parts) /\ Release(undo) /\ Cleanup(-1) /\ KeepVm
       \/ /\ Made(parts)
          /\ i' = i + 1 /\ part' = 0
          /\ Keep /\ KeepVm /\ Stay

\* MUTANT of CreateVcpu: the loop runs once too often.
CreateVcpuOffByOne == CreateVcpuWith(N + 1, Undone(VcpuParts(i)) \cup Earlier)

\* MUTANT of CreateVcpu: the earlier vCPUs are not destroyed.
CreateVcpuNoRollback == CreateVcpuWith(N, Undone(VcpuParts(i)))

\* A failed vcpu_create() frees its own parts; vm_create_vcpus() then destroys
\* the earlier vCPUs, and num_vcpus stays 0.
CreateVcpu == CreateVcpuWith(N, Undone(VcpuParts(i)) \cup Earlier)

VcpusCreated ==
    /\ at = "vcpus" /\ i = N
    /\ num_vcpus' = N
    /\ Proceed("devices") /\ Keep
    /\ UNCHANGED <<devices, bound, ran>>

----------------------------------------------------------------------------
(* Devices                                                                 *)

\* MUTANT of VmRegisterDevice: it sets dev->vm, as device_register() does.
VmRegisterDeviceBinds(d) ==
    /\ devices' = Append(devices, d)
    /\ bound' = bound \cup {d}

\* vm_register_device(): the VM lists the device; dev->vm is not set.  The
\* table has 16 places and main() creates at most five devices.
VmRegisterDevice(d) ==
    /\ devices' = Append(devices, d)
    /\ UNCHANGED bound

\* A device that cannot be created is left out, with no error.  The MMIO
\* console goes on without its log file when fopen() fails; a virtio device
\* without its descriptor is not created.
CreateDevice ==
    /\ at = "devices" /\ i < Len(Devices)
    /\ LET d == Devices[i + 1]
           parts == DeviceParts(d) IN
       \/ Wanted(d, opts) /\ Make(parts)
       \/ /\ Wanted(d, opts) /\ Made(parts)
          /\ \E S \in {{}, Extra(d)} : Acquire(S)
          /\ VmRegisterDevice(d)
          /\ i' = i + 1 /\ part' = 0
          /\ UNCHANGED <<num_vcpus, ran>> /\ Stay
       \/ /\ Wanted(d, opts) => ~Made(parts)
          /\ Release(Undone(parts))
          /\ i' = i + 1 /\ part' = 0
          /\ KeepVm /\ Stay

DevicesCreated ==
    /\ at = "devices" /\ i = Len(Devices)
    /\ Proceed(IF "vfio" \in opts THEN "vfio" ELSE "boot")
    /\ Keep /\ KeepVm

----------------------------------------------------------------------------
(* VFIO                                                                    *)

\* A step of vfio_container_create() or vfio_device_open() at label: it
\* acquires what, or it undoes S and main() goes to cleanup.  Neither
\* function returns an error code: ret keeps the 0 of vm_create_vcpus().
VfioStep(label, what, S, next) ==
    /\ at = label /\ KeepVm
    /\ \/ Proceed(next) /\ Acquire({R(what)})
       \/ Cleanup(ret) /\ Release({R(r) : r \in S})

VfioContainerCreate == VfioStep("vfio", "container", {}, "group")

\* parse_bdf(), the group path, open() and the group's status.
OpenGroup == VfioStep("group", "group_fd", {}, "attach")

SetContainer == VfioStep("attach", "attached", {"group_fd"}, "device_fd")

\* VFIO_SET_IOMMU and VFIO_GROUP_GET_DEVICE_FD undo the same steps.
GetDeviceFd == VfioStep("device_fd", "device_fd", {"attached", "group_fd"}, "vdev")

\* MUTANT of AllocVdev: the failed calloc() leaves device_fd open.
AllocVdevLeaks == VfioStep("vdev", "vdev", {"attached", "group_fd"}, "info")

AllocVdev == VfioStep("vdev", "vdev", {"device_fd", "attached", "group_fd"}, "info")

\* VFIO_DEVICE_GET_INFO; vfio_device_close() on failure.
VfioDeviceClose == Handle("vfio") \cup {R("vdev")}

GetDeviceInfo ==
    /\ at = "info" /\ KeepVm
    /\ \/ Proceed("register") /\ Keep
       \/ Cleanup(ret) /\ Release(VfioDeviceClose)

\* vfio_register_with_vm(): device_register() sets dev->vm; irq_fd is the 0
\* calloc() left, so no eventfd is made.  When calloc() fails nobody closes
\* vdev.
VfioRegister ==
    /\ at = "register"
    /\ \/ /\ Acquire({<<"vfio", 0>>, <<"vfio", 1>>})
          /\ devices' = Append(devices, "vfio")
          /\ bound' = bound \cup {"vfio"}
          /\ Proceed("boot")
       \/ Cleanup(-1) /\ Keep /\ UNCHANGED <<devices, bound>>
    /\ UNCHANGED <<num_vcpus, ran>>

----------------------------------------------------------------------------
(* Boot and run                                                            *)

\* main() picks the loader; boot_setup_linux() fails without kernel_path.
Boot ==
    /\ at = "boot" /\ KeepVm /\ Keep
    /\ \/ "kernel" \notin opts /\ Proceed("binary")
       \/ "kernel" \in opts /\ R("kernel_path") \in held /\ Proceed("bzimage")
       \/ "kernel" \in opts /\ R("kernel_path") \notin held /\ Cleanup(-1)

\* A loader opens the file, reads it into a buffer and closes it, checks it and
\* copies it to guest memory, and frees the buffer.  Every step may fail.
OpenImage(label) ==
    /\ at = label /\ held \cap Image = {}
    /\ \/ Acquire({R("file")}) /\ UNCHANGED <<i, part>> /\ Stay
       \/ Keep /\ Cleanup(-1)

ReadImage(label) ==
    /\ at = label /\ R("file") \in held /\ UNCHANGED faults
    /\ \/ /\ held' = (held \ {R("file")}) \cup {R("buffer")}
          /\ UNCHANGED <<i, part>> /\ Stay
       \/ held' = held \ {R("file")} /\ Cleanup(-1)

PlaceImage(label, next) ==
    /\ at = label /\ R("buffer") \in held
    /\ Release({R("buffer")})
    /\ Proceed(next) \/ Cleanup(-1)

Load(label, next) ==
    /\ OpenImage(label) \/ ReadImage(label) \/ PlaceImage(label, next)
    /\ KeepVm

\* The string is set: its strdup() did not fail.
Given(string, label, next) == IF R(string) \in held THEN label ELSE next

AfterInitrd == Given("cmdline", "cmdline", "e820")

load_bzimage == Load("bzimage", Given("initrd_path", "initrd", AfterInitrd))

load_initrd == Load("initrd", AfterInitrd)

\* On ARM64 the entry is kept for the thread; on x86_64 the results of
\* hv_set_sregs() and hv_set_regs() are ignored.
boot_setup_raw_binary == Load("binary", "start")

\* setup_cmdline() and setup_e820() fail when guest memory is too small.
SetupTables ==
    /\ at \in {"cmdline", "e820"} /\ KeepVm /\ Keep
    /\ Proceed(IF at = "cmdline" THEN "e820" ELSE "regs") \/ Cleanup(-1)

\* setup_vcpu_regs() uses the hv_vcpu of vCPU 0; on ARM64 its thread has yet to
\* create it and the null pointer is dereferenced.
setup_vcpu_regs ==
    /\ at = "regs" /\ KeepVm /\ Keep
    /\ \/ <<"hv_vcpu", 0>> \in held /\ (Proceed("start") \/ Cleanup(-1))
       \/ <<"hv_vcpu", 0>> \notin held /\ Proceed("crashed")

\* What hvf_arm64_create_vcpu() leaves in each case: nothing, the config
\* object when hv_vcpu_create() fails, or everything.
ThreadMakes(v) == {{}, {<<"config", v>>}, All(HvVcpuParts("hvf_arm64", v))}

\* vm_start().  On ARM64 the threads that started create their hv_vcpu.
VmStart ==
    /\ at = "start"
    /\ \/ Platform # "hvf_arm64" /\ Keep
       \/ /\ Platform = "hvf_arm64"
          /\ \E made \in [VCPU -> UNION {ThreadMakes(v) : v \in VCPU}] :
               /\ \A v \in VCPU : made[v] \in ThreadMakes(v)
               /\ Acquire(UNION {made[v] : v \in VCPU})
    /\ \/ Proceed("running") /\ ran' = TRUE
       \/ Cleanup(-1) /\ UNCHANGED ran
    /\ UNCHANGED <<devices, bound, num_vcpus>>

\* main()'s wait ends and the statistics are printed.
Stopped == at = "running" /\ Cleanup(ret) /\ Keep /\ KeepVm

----------------------------------------------------------------------------
(* Teardown                                                                *)

\* The process may crash where it releases what it does not hold.
MayCrash == at' \in {at} \cup IF faults' = faults THEN {} ELSE {"crashed"}

\* hv_destroy_vcpu().  kvm_destroy_vcpu() unmaps with the size it reads from
\* the hv_vm; hvf_arm64_destroy_vcpu() frees the framework's exit information.
HvDestroyVcpuFaults(v) ==
    (CASE Platform = "kvm"       -> {R("hv_vm"), R("vm_data")}
       [] Platform = "hvf_x86"   -> {}
       [] Platform = "hvf_arm64" -> {FrameworkExit(v)}) \ held

\* vm_destroy() destroys num_vcpus vCPUs; hv_destroy_vcpu(NULL) does nothing.
DestroyVcpu ==
    /\ at = "destroy_vcpus" /\ i < num_vcpus
    /\ LET hv == HvVcpu(i) \cap held IN
         /\ held' = held \ ({Vcpu(i)} \cup hv)
         /\ faults' = faults \cup ({Vcpu(i)} \ held)
              \cup IF hv # {} THEN HvDestroyVcpuFaults(i) ELSE {}
    /\ MayCrash
    /\ i' = i + 1
    /\ KeepVm /\ UNCHANGED <<part, opts, ret, status>>

VcpusDestroyed ==
    /\ at = "destroy_vcpus" /\ i = num_vcpus
    /\ Goto("destroy_devices") /\ Keep
    /\ KeepVm /\ UNCHANGED <<opts, ret, status>>

\* ops->destroy(dev).  mmio_console_destroy() closes stdin and the log file;
\* the virtio functions free the state and the virtio_dev but not the name;
\* the VFIO one closes vdev and frees the name and the device.
OpsDestroy(d) ==
    CASE d = "mmio" -> (Handle(d) \cap held) \cup {R("stdin")}
      [] d = "vfio" -> VfioDeviceClose \cup {<<d, 0>>, <<d, 1>>}
      [] OTHER      -> Handle(d) \cup {<<d, 0>>, <<d, 2>>}

\* What device_destroy() then releases itself: irq_fd, which only
\* device_create() sets to -1, dev->data, the name and the device.
DestroyRest(d) ==
    (IF d = "mmio" THEN {} ELSE {R("stdin")})
      \cup Private(d) \cup {<<d, 0>>, <<d, 1>>}

\* device_unregister(): nothing unless dev->vm is set; otherwise the device
\* leaves the table, the later ones move down, and it is destroyed.
\* vm_destroy()'s loop then goes to the next place.
UnregisterDevice ==
    /\ at = "destroy_devices" /\ i < Len(devices)
    /\ LET d == devices[i + 1] IN
       \/ /\ d \notin bound
          /\ Keep /\ UNCHANGED devices
       \/ /\ d \in bound
          /\ devices' = RemoveAt(devices, i + 1)
          /\ held' = held \ (OpsDestroy(d) \cup DestroyRest(d))
          /\ faults' = faults \cup (OpsDestroy(d) \ held)
                         \cup (DestroyRest(d) \ (held \ OpsDestroy(d)))
    /\ MayCrash
    /\ i' = i + 1
    /\ UNCHANGED <<part, bound, num_vcpus, ran, opts, ret, status>>

DevicesUnregistered ==
    /\ at = "destroy_devices" /\ i >= Len(devices)
    /\ Goto("free_regions") /\ Keep
    /\ KeepVm /\ UNCHANGED <<opts, ret, status>>

\* What hv_unmap_mem() ends: with HVF nothing, on KVM it may fail and its result
\* is ignored.
Unmapped == IF Platform = "kvm" THEN {{}, {R("mapping")}} ELSE {{}}

\* hv_unmap_mem() and free() of the region in use, and the strings.
FreeRegions ==
    /\ at = "free_regions"
    /\ \E S \in Unmapped :
         Release((S \cup {R("hva")} \cup Strings) \cap held)
    /\ Goto("destroy_vm")
    /\ KeepVm /\ UNCHANGED <<opts, ret, status>>

\* hv_destroy_vm(), which ends every mapping, and free(vm).
DestroyVm ==
    /\ at = "destroy_vm"
    /\ Release(DestroyedVm \cup {R("vm")} \cup ({R("mapping")} \cap held))
    /\ Goto("container")
    /\ KeepVm /\ UNCHANGED <<opts, ret, status>>

\* if (vfio_cont) vfio_container_destroy(vfio_cont)
DestroyContainer ==
    /\ at = "container"
    /\ Release({R("container")} \cap held)
    /\ Goto("hv_cleanup")
    /\ KeepVm /\ UNCHANGED <<opts, ret, status>>

\* hv_cleanup(), free_args() and the return.
HvCleanup ==
    /\ at = "hv_cleanup"
    /\ Release({R("hv_ops"), R("args")} \cup Opened)
    /\ Goto("exited")
    /\ status' = IF ret < 0 THEN "EXIT_FAILURE" ELSE "EXIT_SUCCESS"
    /\ KeepVm /\ UNCHANGED <<opts, ret>>

\* The process is gone.
Gone == at \in {"exited", "crashed"} /\ UNCHANGED vars

Next ==
    \/ HvInit \/ KvmVersion \/ HvCreateVm \/ VmCreate \/ Configure \/ AddRam
    \/ CreateVcpu \/ VcpusCreated \/ CreateDevice \/ DevicesCreated
    \/ VfioContainerCreate \/ OpenGroup \/ SetContainer \/ GetDeviceFd
    \/ AllocVdev \/ GetDeviceInfo \/ VfioRegister
    \/ Boot \/ load_bzimage \/ load_initrd \/ boot_setup_raw_binary
    \/ SetupTables \/ setup_vcpu_regs \/ VmStart \/ Stopped
    \/ DestroyVcpu \/ VcpusDestroyed \/ UnregisterDevice \/ DevicesUnregistered
    \/ FreeRegions \/ DestroyVm \/ DestroyContainer \/ HvCleanup
    \/ Gone

Spec == Init /\ [][Next]_vars

----------------------------------------------------------------------------
(* Properties                                                              *)

\* No part outlives what it was made from, on any path out of main(): a
\* backend vCPU or a mapping only exists inside its hv_vm, the hv_vm only
\* while the backend is open, and guest memory that is still mapped is only
\* freed once no vCPU can reach it.  vm_destroy() and the unwinding of
\* vm_create() and vm_create_vcpus() depend on this order.
BackendNesting ==
    /\ ~(DestroyedVm \subseteq held) => held \cap (HvVcpus \cup {R("mapping")}) = {}
    /\ R("hv_ops") \notin held => held \cap (HvVm \cup {R("kvm_fd")}) = {}
    /\ (R("mapping") \in held /\ R("hva") \notin held) => held \cap HvVcpus = {}

\* Whichever call fails, the process returns from main() owning nothing of
\* the hypervisor, the VM, guest memory, the strings, the VFIO container or
\* the file and buffer of a loader.  Only what hvf_arm64_create_vcpu() loses
\* track of stays, the exit_info block and the config object of a vCPU.
CleanExit ==
    at = "exited" =>
        held \cap (Hypervisor \cup Strings \cup Image \cup {R("container"), R("args")}) = {}

\* Nothing is released that is not held: no double free, no double close and
\* no hv_vcpu destroyed through a freed hv_vm.  There are two exceptions.  The
\* vdev, name and device of a registered VFIO device are freed both by
\* vfio_device_destroy_wrapper() and by the device_destroy() that called it,
\* and hvf_arm64_destroy_vcpu() frees exit information it does not own.
NoBadRelease ==
    faults \subseteq {R("vdev"), <<"vfio", 0>>, <<"vfio", 1>>}
                       \cup {FrameworkExit(v) : v \in VCPU}

\* A create function that fails leaves nothing behind and one that succeeds
\* everything its users rely on: but for the object being made, the parts of
\* the backend's VM, of each backend vCPU and of each device in the VM's
\* table are all there or none is.
CreateAllOrNothing ==
    /\ at # "hv_create_vm" => held \cap HvVm \in {{}, DestroyedVm}
    /\ \A v \in VCPU : ~(at = "vcpus" /\ i = v) =>
         held \cap HvVcpu(v) \in {{}, All(HvVcpuParts(Platform, v)) \ Lost(v)}
    /\ \A k \in DOMAIN Devices : ~(at = "devices" /\ i + 1 = k) =>
         LET d == Devices[k] IN
         IF Contains(devices, d)
         THEN All(DeviceParts(d)) \subseteq held
         ELSE held \cap (All(DeviceParts(d)) \cup Extra(d)) = {}

\* main() reports success only when the VM ran: its return statement turns
\* a negative ret into EXIT_FAILURE, so every failed step must leave one.
HonestStatus == status = "EXIT_SUCCESS" => ran

\* Outside the VFIO part of main() every failed step does.
HonestWithoutVfio == "vfio" \notin opts => HonestStatus

\* vfio_device_open() gives back every descriptor or none: from the moment it
\* has returned, the group, its place in the container, the device
\* descriptor and vdev exist together or not at all.
VfioAllOrNothing ==
    at \notin {"attach", "device_fd", "vdev"} =>
        held \cap VfioDeviceClose \in {{}, VfioDeviceClose}
=============================================================================
