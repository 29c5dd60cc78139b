# Vibe-VMM in TLA+

Vibe-VMM is a small virtual machine monitor: `main()` builds a VM on KVM or on
Apple's Hypervisor.framework (HVF), starts one thread per vCPU, waits, and
tears everything down. This directory models the parts of it whose correctness
depends on order, interleaving or failure, checks them with TLC on small
instances, and proves every safety property of a passing run, and a refinement,
with TLAPS for every instance.

## 1. Inventory of the system

| Component | State | Operations | Talks to |
|---|---|---|---|
| `main.c` | `g_vm`, `g_running`, the parsed arguments | set-up, wait loop, teardown, signal handler | everything |
| VM (`vm.c`) | `state`, vCPU, device and memory-region arrays, boot strings | create, start, stop, destroy, add memory, register device, translate | hypervisor, vCPUs, devices |
| vCPU (`vcpu.c`) | `state`, `should_stop`, `hv_vcpu`, thread, counters | create, start, stop, destroy, the thread's run loop, exit handlers | hypervisor, VM, devices |
| Hypervisor (`hypervisor.c`, `hypervisor/*.c`) | operation table, KVM file descriptors or HVF objects | init, create/destroy VM and vCPU, map, run, get exit, registers, exit request | KVM, HVF |
| Devices (`devices.c`) | per device: address window, operations, `irq_fd`, back pointer to the VM | create, register, unregister, destroy, MMIO dispatch, IRQ lines | VM |
| MMIO console (`devices/mmio.c`) | 16550 registers | register reads and writes, output | stdout, log file |
| Virtio (`devices/virtio*.c`) | transport registers, queues, per-device files | register window, queue pop and push, request processing | guest memory, files, tap |
| Boot (`boot.c`) | none of its own | place kernel, initrd, command line, E820 map; initial registers | guest memory, vCPU 0 |
| Guest memory (`vm.c`, `mm.c`) | slots (guest address, host address, size) | add, find, translate, read, write | hypervisor |
| VFIO (`vfio.c`) | container, group and device descriptors, regions | open, close, map BARs, interrupts, configuration space | kernel VFIO, VM |

What is hard here: `vm_stop()` is called by `main()` and, through the signal
handler, on top of any thread at any moment; the vCPU threads are stopped by a
flag, an exit request and a cancellation, and joined; they share
`should_stop`, `hv_vcpu` and `state` with no lock; every step of the set-up can
fail and has its own clean-up; the guest decides what exits come and when.

What makes each component correct:

* lifecycle: nothing is freed while a thread uses it; a stop request is never
  lost and always completes; a failed start leaves no thread behind;
* exit path: an access reaches the one device that owns the address and its
  result reaches the guest; counters count exits;
* set-up and teardown: every failure path releases what was acquired, once, in
  reverse order, and reports failure;
* guest memory: a translated range lies inside one region;
* virtio: each available buffer is taken once and returned once;
* boot: loaded objects do not overlap and lie inside RAM;
* VFIO: descriptors are closed once, after their users.

The hazards, each at the line where it bites, are listed in `PROJECT.json`
together with the properties that cover them.

## 2. The modules

| Module | Role |
|---|---|
| `VmLifecycle` | `main()` from `vm_start()` to its return, the vCPU threads, the signal handler |
| `VcpuLife` | what the rest of the program may rely on of one vCPU; `VmLifecycle` implements it |
| `VmLifecycleProofs` | theorems about `VmLifecycle` |
| `VmLifecycleRefinement` | the proof that `VmLifecycle` implements `VcpuLife` |
| `VmSetup` | everything `main()` acquires and releases, each call of which may fail |
| `ExitPath` | one guest instruction through decoding, dispatch, device and back |
| `BootImage` | the two boot loaders, guest memory and the initial registers of vCPU 0 |
| `VmSetupProofs`, `ExitPathProofs`, `BootImageProofs` | theorems about those three modules |
| `MCVmLifecycle`, `MCVmSetup`, `MCExitPath`, `MCBootImage` | constants for TLC |

The models meet at three points. `VmSetup` goes from "start" to "running"
and from there to teardown in one step each; `VmLifecycle` is what happens in
between and during the destruction of the vCPUs. `VmLifecycle` takes the outcome
of an exit from a set (`Outcomes`: go on, stop, fail); `ExitPath` computes that
outcome. `VmSetup` knows of a boot loader only what it holds and that it may
fail; `BootImage` has the addresses, the copies and the registers.

`hv_init()` chooses one of three backends: KVM, HVF on ARM64 and HVF on an Intel
Mac. `VmSetup`, `ExitPath` and `BootImage` have all three. `VmLifecycle` has two,
with and without an exit request; HVF on x86_64 has none
(`src/src/hypervisor.c:193`), so its threads behave like those of KVM.

### 2.1 VmLifecycle

State: `vm->state`, `g_running`, and per vCPU `state`, `should_stop`,
`exit_count`, whether it was freed, where its thread is (`thr`), a pending exit
request (`exitReq`, the effect of `hv_vcpus_exit()`) and a pending
`pthread_cancel()`. `pc` and `k` are the position of `main()` and its loop index.

`vm_stop()` and `vcpu_stop()` are run by several activations at once: by
`main()` itself (agent 0, in `vm_destroy()` or in the rollback of `vm_start()`)
and by each delivery of a signal (agents 1..MaxSignals). `at`, `idx` and `on`
give each agent its step, the vCPU it has reached and the thread it runs on; a
thread runs its newest agent only (`Top`), and its own code when it has none
(`MainRuns`, `VcpuRuns`). A signal is not delivered on top of its own handler,
but the other handled signals are (`Deliverable`; `sa_mask` is empty and three
signals are handled).

| Actions | Code |
|---|---|
| `VcpuStart`, `VcpuStartFails`, `VmStarted`, `StartFailed` | `vm_start()` with its rollback, `vcpu_start()` |
| `WaitPoll`, `WaitDone`, `Report` | the wait loop and the statistics, printed under the lock of the stream |
| `VmDestroy`, `VcpuDestroy`, `FreeVm`, `ExitMain` | `vm_destroy()` and the end of `main()` |
| `ThreadBoot`, `LoopTest`, `RunFails`, `GuestExit`, `CanceledExit`, `PrintDone`, `ActOnCancel` | `vcpu_thread_func()` |
| `Signal`, `VmStop`, `StopReturn` | `signal_handler()`, `vm_stop()` |
| `VcpuStopSkip`, `VcpuStopRequest`, `VcpuStopKick`, `JoinWaits`, `JoinTwice`, `JoinSelf`, `JoinDone` | `vcpu_stop()` |

`vcpu_stop()` is four steps because other threads see its intermediate states:
the test of `state` and the store to `should_stop`, the exit request and
cancellation, the start of the join, its return. `pthread_join()` of a
thread that is joined already returns an error, which the code ignores
(`JoinTwice`); of the own thread it returns an error or hangs
(`SelfJoinReturns`). `badJoin` is a history variable: some join did not join.
`WeakMemory` lets the plain stores to `should_stop` and `hv_vcpu` be seen late.

`VcpuLife` is the abstract specification: a vCPU is new, out of the guest, in
it, over or freed. It is started once, does not enter the guest after it was
asked to stop, is freed last and never under a running thread. `LifeOf` is the
refinement mapping from the thread's position and `freed`; `should_stop` is
itself the abstract request. `ImplementsVcpuLife` is the refinement, and
`AskedVcpuEnds` the abstract liveness property under the mapping.

### 2.2 VmSetup

`held` is the set of resources the process owns: the backend, the `hv_vm`, the
VM, guest memory and its mapping, vCPUs and their backend halves, the strings,
every device with its blocks and descriptor, the VFIO container, group and
device, and the file and buffer of a boot loader. Each action is one call with
both outcomes: success acquires, failure releases what that code path releases
and goes to `cleanup` or to the early return. Releasing what is not held goes
into `faults`. What a create function makes is a sequence of parts, one for
each of its steps (`VmParts`, `HvVcpuParts`, `RegionParts`, `DeviceParts`); it stops at
any of them and gives back what it has (`Make`, `Undone`). On ARM64 the backend's
vCPU is made by the thread, inside `VmStart`; what that function loses track of
(the block `hv_vcpu_create()` replaces, the config object) is `Lost`. `opts` is the command line, plus the platform. `devices` is the
device table and `bound` says for which devices `dev->vm` is set:
`vm_register_device()` does not set it, `device_register()` does, and
`device_unregister()` acts only where it is set.

### 2.3 ExitPath

Each vCPU goes round guest, exited, decoded, (logging,) handled. `GuestExits` is
the hypervisor: it picks an instruction and leaves its data in the run page.
`pc` counts instructions from there: -1 is the instruction itself, 0 the next one,
which is right, and more than 0 means that instructions were skipped. A run that
fails is one of two actions. `RunFails` is a failure the backend reports: the
thread ends, or goes round when `errno` is EINTR. `RunFailsUnnoticed` is one that
`hvf_run()` and `hvf_arm64_run()` return as 0 (all but HV_ERROR and, on ARM64,
HV_UNSUPPORTED): the guest has not moved, and the loop decodes the `exit_info` of
the run before once more. `fresh` says which of the two the last exit is.

`GetExit` is `kvm_get_exit()` or `hvf_arm64_get_exit()`; HVF on x86_64 reports HLT
whatever happened. On ARM64 every exception with a virtual address becomes a byte
store of X0, and the PC moves on by one whenever it does, wherever it is. Such an
exception is a load or a store, or any other one that reports an address (op
"abort", an instruction abort for instance); "exception" is one that reports none.
One action per case of `vcpu_handle_exit()` follows;
the store to the console's transmit register takes two, because standard output
and the log file are written one after the other and another vCPU may come in
between. `Finish` is the second increment of `exit_count` and the limit.
The virtio devices have their registers and the configuration space of
console, block and net, each field with its width. An interrupt acknowledgement
takes two steps, because `device_deassert_irq()` reads descriptor 0, standard
input, and comes back only when that read does (`StdinReady`).
`made`, `seen`, `fresh`, `invented`, `unasked`, `exits` and `answer` are history
variables: `made` has the loads and stores of a vCPU to an address some device
owns, `seen` what the callbacks were given for them, `invented` counts what they
were given besides and `unasked` the aborts and the unnoticed failures, which are
the only things an access can be invented from. `DeliveredOnceInOrder` relates
them: `seen` is `made`, once and in order; `invented` never exceeds `unasked`,
which is 0 on KVM; and the PC is right behind the instruction, or ahead by at
most one for each unnoticed failure, and exact after every run that succeeded.
`ConsoleAgrees` compares two streams that several threads write
without a lock; it says that for each vCPU there is an order-preserving map
from its places in the log onto its places in the output, all but the last
while a byte is on its way from one to the other. The kernel's side of
the run page is modelled as `src/src/hypervisor/kvm.c` declares it.

### 2.4 BootImage

Guest memory is a function from addresses to tags: which file, and which place in
it, a unit of memory was copied from, or which field of the boot parameters was
stored there with which value. The boot parameters are not a variable of their
own: `load_bzimage()` copies the setup part of the image to 0x10000, and
`load_initrd()`, `setup_cmdline()` and `setup_e820()` store their fields over its
bytes (`Store`, `Slot`), at the offsets `Offset` and with the widths `Width`.
`BootHandover` therefore says that the setup part holds the image's bytes *except*
in the fields this boot writes (`Written`), and that each of these holds what was
announced; `E820Honest` reads the map from guest memory (`ReadMap`). All sizes and addresses are unsigned
numbers below `Wrap` (2^64), with the sums and differences of C; the fields of the
boot parameters keep 32 bits (`Low32`, `Word`). `vm_gpa_to_hva()` is the only guard
of every copy. A copy outside guest memory or outside the buffer it reads goes
into `wild`, and the process may crash there.

| Actions | Code |
|---|---|
| `AddRam` | the cap of 128 MB and `vm_add_memory_region()` |
| `load_bzimage`, `load_initrd`, `setup_cmdline`, `setup_e820`, `setup_vcpu_regs` | `boot_setup_linux()` |
| `LoadBinary`, `BinaryRegs` | `boot_setup_raw_binary()` |
| `StartVcpu`, `EnterGuest` | `vm_start()`, `vcpu_thread_func()` up to the first run |

Registers are modelled by who wrote them last: `regs[r]` is the reset value, the
Linux loader's or the raw loader's. KVM sets all or none; HVF on x86_64 writes
one after the other and stops at the first failure; on ARM64 only CPSR and PC
must succeed.

## 3. What is checked

Runs that pass:

| Run | Instance | Shows |
|---|---|---|
| `lifecycle_hvf` | ARM64, 2 vCPUs, 2 signals on the main thread, guests that print | `FreedIsDead`, `StopTouchesNoFreed`, `StoppedBeforeFree`, `NoLostStop`, `ImplementsVcpuLife`: teardown frees nothing in use, no stop is lost and each vCPU follows its abstract life, wherever handlers interrupt `main()` or each other |
| `lifecycle_anythread` | KVM, 2 vCPUs, 2 signals on any thread, late stores, failing self-joins | `TeardownSafeIfJoined`: the same as long as every join joins |
| `lifecycle_hvf_live` | ARM64, 2 vCPUs, 2 signals, fairness | `StopCompletes`: once `g_running` is cleared the program ends, although guests may never exit by themselves; `AskedVcpuEnds`: so does each vCPU that was asked |
| `setup_all` | each backend, 2 vCPUs, every command line | `BackendNesting`, `CleanExit`, `NoBadRelease`, `CreateAllOrNothing`, `VfioAllOrNothing`, `HonestWithoutVfio` for every combination of failing calls |
| `exits_all` | each backend, 2 vCPUs, 3 instructions each, fairness | `DeliveredOnceInOrder`, `ConsoleAgrees`, `ExitsBounded`, `ShutdownStops`, and `ExitAnswered`: the vCPU runs again or its thread ends after every exit |
| `boot_all` | each backend, memory, files and entries around every fixed address | `CopiesInside`, `BootHandover`, `E820Honest`, `EntersPrepared` |

Runs that show where the code departs from what its documentation or comments
say; `PROJECT.json` quotes the lines:

| Run | Property | What happens |
|---|---|---|
| `lifecycle_kvm_hang` | `StopCompletes` | on KVM nothing makes `KVM_RUN` return, so a guest that does not exit makes the join hang |
| `lifecycle_guest_end` | `EndOfGuestEndsProgram` | a thread that ends by an error or by the limit leaves `should_stop` clear and `main()` waits for ever |
| `lifecycle_print_deadlock` | `StopCompletes` | a handler on top of a `printf()` of `main()` waits for a vCPU thread that waits for the stream |
| `lifecycle_freed_alive` | `FreedIsDead` | a handler on a vCPU thread joins itself, the error is ignored, the vCPU is freed under its thread |
| `exits_load` | `LoadSeesDevice` | the answer of a device to a load never reaches the guest |
| `exits_ack` | `ExitAnswered` | a guest that acknowledges an interrupt of a virtio device makes its vCPU thread wait for standard input |

Bounds. Two vCPUs are the smallest number with a sibling that is still running
while the other is stopped, freed or printing, and with a vCPU before and after
the one that fails to start. Two signals let a handler interrupt a handler, or
one run on a vCPU thread and one on `main()`. `ExitLimit = 2` stands for 1000:
with a counter that moves by two it is reached after one exit and passed after
the second, so threads end by the limit and otherwise. Three instructions per
vCPU are one more than that limit allows: the bound never ends a vCPU that the
code would end. They suffice for a run that succeeds followed by failed ones whose
exit is decoded again, and for a register that one vCPU sets and the other uses.
`setup_all` has no bound besides the number of vCPUs.

`boot_all` scales the address space down to 128 units with the order of the fixed
addresses kept: parameters 8, command line 16, end of low memory 24, kernel 32,
cap 48, fallback 56, a 32-bit word 64. A page has 8 units, a sector 4; the five
fields are at 3 to 7 of the page, so that a setup part of one sector holds the
first of them and one of two sectors holds all. The sizes and entries in `MCBootImage`
lie before, at and behind each of these, and are large enough for the end of a
file to wrap. `boot.c` does not test some of its inputs; the properties name
them: `Untested` (a bzImage that ends inside its header or setup part, an initrd
larger than memory, a raw entry whose end wraps) and `Disjoint` (nothing keeps a
long setup part, command line or initrd from overlapping another area, and the
kernel is entered at 1 MiB wherever `code32_start` put it).

Deadlock is checked except in `lifecycle_hvf` and `lifecycle_print_deadlock`,
where guests print: the shutdown can then really hang, which is the point of
the second. `ConsoleOutput = FALSE` in `lifecycle_hvf_live` is a guest that does
not print and a log level above INFO.

Fairness (`FairSpec`): weak fairness of each step of `main()`, of each step of a
vCPU thread that does not wait for the guest, of `CanceledExit` (Apple documents
that `hv_vcpus_exit()` makes `hv_vcpu_run()` return) and of each step of an
activation of `vm_stop()`. This is the operating system scheduling every
runnable thread. Nothing is assumed about the guest, which may run for ever
without an exit, about signals, or about a cancellation acting in code that
does not block. In `ExitPath` it is weak fairness of the steps of each thread
between two runs of the guest, for the same reason; a read of standard input is
not among the steps that are always possible, and `exits_all` assumes
`StdinReady` where `exits_ack` does not.

Each property of a passing run has a mutant of the code that violates it
(`PROJECT.json`, `mutants`): a join left out, a stop without its flag or without
its exit request, a rollback that stops one vCPU too few or destroys none, an
undo list that forgets a descriptor, a lost error code, a PC that is not
advanced, a range check that looks at the first byte only, and so on.

## 4. What is proved

Everything below holds for every value of the constants that satisfies the named
assumptions of the module; TLC evaluates these on the instances of the runs.

`VmLifecycleProofs` and `VmLifecycleRefinement`, for every number of vCPUs and
signals and every limit:

| Theorem | Assumes | States |
|---|---|---|
| `TypeCorrect` | | `[]TypeOK` |
| `StoppedBeforeFreeThm` | | `[]StoppedBeforeFree` |
| `FreedIsDeadThm` | signals on the main thread | `[]FreedIsDead` |
| `StopTouchesNoFreedThm` | signals on the main thread | `[]StopTouchesNoFreed` |
| `TeardownSafeIfJoinedThm` | | `[]TeardownSafeIfJoined` |
| `NoLostStopThm` | ARM64, ordered memory | `[]NoLostStop` |
| `RefinesVcpuLife` | signals on the main thread, ordered memory | `ImplementsVcpuLife` |

The other three modules; none of these theorems assumes more than the module
does:

| Module | For every | Theorems, each `Spec => []` the property of that name |
|---|---|---|
| `VmSetupProofs` | number of vCPUs, set of command lines | `BackendNestingThm`, `CleanExitThm`, `NoBadReleaseThm`, `CreateAllOrNothingThm`, `VfioAllOrNothingThm`, `HonestWithoutVfioThm`, `TypeOKThm` |
| `ExitPathProofs` | number of vCPUs, guests, limit, number of instructions | `DeliveredOnceInOrderThm`, `ConsoleAgreesThm`, `ExitsBoundedThm`, `ShutdownStopsThm`, `TypeOKThm` |
| `BootImageProofs` | layout, word sizes, sizes of memory, files and command line, entry | `CopiesInsideThm`, `BootHandoverThm`, `E820HonestThm`, `EntersPreparedThm`, `TypeOKThm` |

### 4.1 VmLifecycle

The assumptions on the constants are those of `ConstantsAssumption`. The run
`lifecycle_freed_alive` shows that `FreedIsDead` fails without its assumption.

The argument. `BaseInv` is the type invariant with three facts every later step
needs: where agents can be (`AgentInv`: in `vcpu_stop()` the index names a vCPU,
and agent 0 exists only inside `vm_start()` and `vm_destroy()`), that a living
thread has not passed the limit (`CountInv`, without which `exit_count` has no
bound), and the order of the phases of `main()` (`PhaseInv`). `StoppedInv` says
what a partly executed `vm_stop()` has achieved: all vCPUs below its index are
STOPPED, and all of them once `vm->state` is STOPPED. This is what makes
`StoppedBeforeFree` inductive: a handler may have done part of the work.

STOPPED alone does not mean that a thread is over, as the state is also set when
a join fails. With signals on the main thread, `AwaitedInv` fills the gap: a
STOPPED vCPU's thread is over or some activation deeper in the stack still waits
for it; since `main()` goes on only when all activations above it are gone,
nothing is awaited when it frees. `NoLateStop` says that no handler is past the
test of `vm->state` by then. With signals anywhere, `JoinedInv` takes the place of
`AwaitedInv`: while no join was improper, STOPPED means joined. `FlaggedInv`
(`should_stop` is set while a vCPU is being stopped) and a case split on the
moment of the thread give `NoLostStop`: either the exit request finds the
`hv_vcpu`, or the thread has yet to test `should_stop`.

The refinement uses these invariants and one more, `ReadyInv`: a vCPU that is yet
to be started was not asked to stop, and only one that was started is RUNNING.
Without the second half `vcpu_stop()` could ask a new vCPU, which `VcpuLife` does
not allow. Each action then either leaves `thr`, `freed` and `shouldStop` alone
(`LifeKept`), moves one thread (`ThreadMoves`), frees one vCPU or asks one. Ordered
memory is needed where `LoopTest` enters the guest, signals on the main thread
where a vCPU is freed or asked.

### 4.2 VmSetup

`SetupInv` says for each label of `main()` what is held there, one conjunct per
part: `ControlInv` (loop indices), `StatusInv` (`ret` on the way to the return
statement), `OpsInv` (backend and `struct vm`), `VmInv`, `RamInv`, `VcpuInv`
(`First(parts, part)` while a create function is at work, all afterwards, none
before), `BootInv` (strings, loaders, container), `TableInv` (the device table),
`VfioInv` and `DeviceInv` (what a listed device owns). The properties follow from
it label by label; none is inductive alone, because `vm_destroy()` finds its way
by `num_vcpus` and the device table and not by what is really held.
`NoBadRelease` and `TypeOK` are proved on top of `SetupInv`: every release takes
what the invariant says is held at that label. `VfioInv` and `DeviceInv` are where
the missing `dev->vm` matters: a device of `main()` is never destroyed, and the
VFIO device at most once.

### 4.3 ExitPath

`ExitInv` has the types of everything, and:

* `DecodeInv`: what was decoded is what the backend reports for the instruction
  of the last exit;
* `PcInv`: outside HVF on x86_64 the PC is at the instruction only until a fresh
  exit is decoded, then right behind it, and ahead only after unnoticed failures,
  by no more than their number;
* `InventInv`: every access that was given to a device unasked, or is about to be,
  has an abort or an unnoticed failure of its own in `unasked`;
* `CountInv`: `exit_count` is 2, 1 or 0 short of twice the number of exits,
  depending on the stage, and a thread in the guest has not passed the limit;
* `DeliverInv`: `seen` lags behind `made` by exactly the access that is between
  exit and callback;
* `ConsoleInv`: the map `ConsoleAgrees` asks for exists, and the byte about to be
  logged is the last one its vCPU printed. A byte of another vCPU in between
  moves nothing, since positions in the streams only grow;
* `StopInv`: a handled shutdown has set `should_stop`.

`ConstantsAssumption` says that the elements of `Instructions` are instructions
(an access size of 1, 2, 4 or 8, ports of at most 4, a queue the device has) and
that ARM64 guests leave by the reasons `hvf_arm64_get_exit()` distinguishes.

### 4.4 BootImage

`BootInv` adds to the types and to `CopiesInside` what is unset where (`PathInv`),
that a kernel that was placed lies in memory (`KernelInv`), `BootHandover` for the
loaders that have done their part (`HandoverInv`), that the E820 map and its
number of ranges are in place from `setup_e820()` on (`MapInv`), and the registers
set so far (`RegsInv`). The lemmas it rests on are about the operators: sums and differences
that wrap (`Unsigned`), `Low32`, rounding to a page, where `load_initrd()` puts an
initrd (`InitrdPlace`), and that a range `vm_gpa_to_hva()` accepts lies inside
memory unless its end wraps. `HandoverInv` is preserved because each copy goes to
a range disjoint from those of the earlier ones, given `Disjoint`, and because a
store changes the units of its field and no others (`StoreSetup`, `StoreOther`,
`StoreHolds`): the fields do not overlap, lie below the command line, and lie in
guest memory whenever the kernel is at its usual place (`SlotsInside`).

`FieldsAssumption` says that the fields lie within the page and do not overlap;
0x1E8, 0x218, 0x21C, 0x228 and 0x2D0 with their widths satisfy it.

`LayoutAssumption` keeps the order of the fixed addresses of `boot.c`; it also
says that a 32-bit word is at most half of a 64-bit one and that the largest
setup part (255 + 1 sectors of 512 bytes) is shorter than 2^32. `InputsAssumption`
has sizes of files and strings below half of `Wrap`: `ftell()` gives a `long`, and
a string lies in the memory of the process. Without it the sum of an address
below 2^32 and a size could wrap, which no file can make happen.

### 4.5 What is not proved

* Liveness (`StopCompletes`, `AskedVcpuEnds`, `ExitAnswered`) needs fairness and
  `ENABLED`, which the prover does not handle; TLC checks it on the instances of
  `lifecycle_hvf_live` and `exits_all`.
* The violations are counterexamples of TLC on one instance, which is all they
  need to be.
* `RefinesVcpuLife` needs its two assumptions. With signals on any thread the
  run `lifecycle_freed_alive` frees a vCPU under its thread; with late stores a
  thread may enter the guest after it was asked to stop.

## 5. Observations without a run

* With late stores (`WeakMemory`) a stop can be lost on ARM64: the stopper reads
  `hv_vcpu` as NULL and the thread reads `should_stop` as 0 (`src/src/vcpu.c:196`,
  `:203`). `NoLostStopThm` therefore assumes ordered memory.
* A signal that interrupts `vm_destroy()`'s own `vm_stop()` joins the same thread
  a second time (`src/src/vcpu.c:193`): the state is tested before the join and set after.
* `g_vm` is not cleared when the VM is freed (`src/src/main.c:469`), so a handler
  that runs before `main()` returns reads freed memory.
* `--kernel` without `--initrd`, as in the example at `src/src/main.c:132`, passes
  NULL to `strdup()`; on ARM64 `--kernel` sets registers of a vCPU that its thread
  has yet to create. `VmSetup` ends in "crashed" there.
* A VFIO device that is destroyed frees `vdev`, its name and itself twice
  (`src/src/vfio.c:637` and `device_destroy()`); `NoBadRelease` names this exception.
* The data of an OUT are dropped (`src/src/hypervisor/kvm.c:537`), so COM1 prints zero bytes.
* `exit_count` is incremented twice per exit: "Total VM exits"
  (`src/include/vcpu.h:35`) is twice that, and the limit of 1000 ends a thread at
  its 501st exit.
* A KVM system event becomes UNKNOWN and ends the thread without `should_stop`.
* On ARM64 every faulting access is taken for a byte store of X0, loads too
  (`src/src/hypervisor/hvf_arm64.c:444`); `DeliveredOnceInOrder` demands only
  the address there, except for byte stores of X0.
* The test at `src/src/hypervisor/hvf_arm64.c:440` looks at the virtual address only,
  though the comment above it says "If the fault address is in device region": an
  instruction abort is a store to a device if its physical address is one, and the
  guest goes on behind the instruction that faulted.
* A failure of `hv_vcpu_run()` other than HV_ERROR and HV_UNSUPPORTED is returned as
  success (`src/src/hypervisor/hvf_arm64.c:347`; likewise `src/src/hypervisor/hvf.c:363`,
  where it only repeats a HLT): an MMIO store of the run before is made a second
  time and the PC skips an instruction. `DeliveredOnceInOrder` bounds both by the
  number of such failures.
* `vmm_console.log` and standard output may order the bytes of two vCPUs differently.
* When `vfio_container_create()` or `vfio_device_open()` fails, `ret` is still 0
  and the program ends with `EXIT_SUCCESS` (`src/src/main.c:392`);
  `HonestWithoutVfio` leaves `--vfio` out for that reason.
* `vm_register_device()` does not set `dev->vm` (`src/src/vm.c:259`), so
  `device_unregister()` returns at once and `vm_destroy()` destroys none of the
  devices `main()` registered, although `src/docs/architecture-overview.md:393`
  says "Destroy all devices". The operating system closes what they opened.
* `hv_vcpu_create()` of ARM64 is given the address of `exit_info` and replaces the
  block; `hvf_arm64_destroy_vcpu()` then frees the framework's
  (`src/src/hypervisor/hvf_arm64.c:267`). `NoBadRelease` names this exception.
* On an Intel Mac vCPUs are created by `main()` and run by their threads, though
  `src/src/vcpu.c:106` says that HVF requires both in the same thread.
* Guest memory comes from `calloc()` (`src/src/vm.c:188`), which does not align it to
  pages, and KVM refuses an unaligned address: `AddRam` may fail.
* `setup_e820()` announces 640 KiB and `mem_size - 0x100000` without a test; only
  a kernel loaded at 1 MiB makes them right (`E820Honest`).
* The registers of vCPUs other than 0 are never set, and `--mem` above 128 MB is
  cut to 128 MB (`src/src/main.c:341`) where `src/docs/README.md:507` says 256 MB.

## 6. What is not modelled

* Virtqueues and the requests of block, net and console: `virtqueue_setup()` has
  no caller and no register makes a queue ready, so a notification finds an
  empty queue. A model of the rings would start in a state the program never
  reaches. For the same reason `device_assert_irq()` is never called.
* The features register of virtio (0x10), whose value comes from an undefined
  shift, and notifications of queues beyond the eight a device has.
* VFIO regions, interrupts and DMA: the functions have no caller, and a registered
  device has an empty window. The descriptors are in `VmSetup`.
* `mm.c`, `vm_pause()`, `vcpu_reset()`, the register getters and the interrupt
  lines of the backends: no caller, or empty.
* Logging, formatting, statistics, the option parser: no state that anything
  depends on.

## 7. Plan

Every invariant of a passing run and the refinement of `VcpuLife` are proved. Next:

1. A weaker abstract life for signals on any thread: as long as every join joins,
   `VmLifecycle` implements it (from `JoinedInv` instead of `AwaitedInv`).
2. An abstract specification of `VmSetup`, in which resources are acquired and
   released as wholes, and the proof that the steps of the create functions
   implement it.
3. Action properties of `ExitPath`: a thread changes no register of a device
   outside its own callback, and the streams only grow.
