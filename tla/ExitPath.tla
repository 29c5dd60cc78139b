------------------------------ MODULE ExitPath ------------------------------
(***************************************************************************)
(* The way of one guest instruction through the monitor: the hypervisor    *)
(* stops the vCPU, the backend decodes the exit (kvm_get_exit(),           *)
(* hvf_arm64_get_exit()), vcpu_handle_exit() dispatches it, a device       *)
(* callback answers, and vcpu_thread_func() resumes the guest or ends.     *)
(* Each vCPU does this on its own thread; the devices and the console      *)
(* streams are shared and no lock protects a device.                       *)
(*                                                                         *)
(* The kernel side of KVM is modelled as src/hypervisor/kvm.c declares it: *)
(* a store leaves its data in the run page, and a load takes its result    *)
(* from there when the guest is resumed.  HVF on x86_64 reports each exit  *)
(* as HLT and leaves the guest's RIP where it is.                          *)
(***************************************************************************)
EXTENDS Integers, Sequences

CONSTANTS
    N,              \* number of vCPUs
    Platforms,      \* a subset of {"kvm", "hvf_arm64", "hvf_x86"}
    Instructions,   \* Instructions[p]: what the guests of platform p execute
    MaxInstr,       \* bound: instructions of one vCPU
    ExitLimit,      \* the 1000 of vcpu_thread_func()
    LogFile,        \* whether vmm_console.log could be opened
    StdinReady      \* whether a read of standard input returns: data or its end

Ops == {"store", "load", "out", "in", "hlt", "shutdown", "intr", "fail_entry",
        "internal_error", "abort", "exception", "system_event", "vtimer",
        "canceled", "other"}

\* What leaves a guest of HVF on ARM64; the framework has no other reasons.  Of
\* the exceptions that are no data access, an "abort" is one that reports a
\* virtual address (an instruction abort, say), an "exception" reports 0.
ArmOps == {"store", "load", "hlt", "abort", "exception", "vtimer", "canceled", "other"}

Virtio == {"console", "block", "net"}

Places == Virtio \cup {"uart", "unmapped", "com1", "vga", "other"}

Instruction == [op : Ops, dev : Places, off : Nat, size : {1, 2, 4, 8}, val : Nat, x0 : Nat]

\* A guest instruction.  dev and off are the address of a store or a load, or
\* the port of an out or an in, or what an abort reports as the physical
\* address; x0 is what register X0 holds at the time.  Of
\* virtio, the features (0x10, the result of an undefined shift) and the
\* notification (0x34) of a queue beyond the eight of a device are left out.
IsInstruction(a) ==
    /\ a \in Instruction
    /\ a.op \in {"store", "load", "abort"} => a.dev \in Virtio \cup {"uart", "unmapped"}
    /\ a.op \in {"out", "in"} => a.size # 8
    /\ a.dev \in Virtio => a.off # 16 /\ (a.off = 52 => a.val % 256 < 8)

ASSUME ConstantsAssumption ==
    /\ N \in Nat \ {0} /\ MaxInstr \in Nat /\ ExitLimit \in Nat
    /\ Platforms \subseteq {"kvm", "hvf_arm64", "hvf_x86"}
    /\ LogFile \in BOOLEAN /\ StdinReady \in BOOLEAN
    /\ \A p \in Platforms : \A a \in Instructions[p] :
         IsInstruction(a) /\ (IF p = "hvf_arm64" THEN a.op \in ArmOps ELSE a.op # "abort")

VCPU == 0 .. N - 1
Byte == 0 .. 255
HalfWord == 65536
Half == 0 .. HalfWord - 1

VARIABLES
    platform,      \* the backend hv_init() chose
    stage,         \* stage[v]: where the thread of v is in its loop
    cur,           \* cur[v]: the instruction of the last exit of v: exit_info
    pc,            \* pc[v]: where v goes on: -1 at cur[v], n behind it and n more
    page,          \* page[v]: the data in the run page of v
    exit,          \* exit[v]: the hv_exit on the thread's stack
    ret,           \* ret[v]: the result of vcpu_handle_exit()
    should_stop, exit_count,
    uart,          \* the registers of the MMIO console
    virtio,        \* virtio[d]: the registers and configuration of device d
    stdout, log,   \* what was printed and what was logged
    made,          \* history: made[v], the loads and stores v made to a device
    fresh,         \* history: fresh[v], the last run of v succeeded
    seen,          \* history: seen[v], the accesses of v that devices were given
    invented,      \* history: invented[v], the number of other accesses given for v
    unasked,       \* history: unasked[v], the aborts of v and its failed runs that
                   \* were taken for exits: what an access can be invented from
    exits,         \* history: exits[v], the number of runs of v taken for exits
    answer,        \* history: answer[v], what the device read last for v
    got            \* got[v]: what the last load of v put in its register

guest == <<cur, pc, page, got, made, fresh, unasked>>
loop  == <<ret, should_stop, exit_count, exits>>
device == <<uart, virtio, stdout, log, seen, invented, answer>>
vars == <<platform, stage, exit, guest, loop, device>>

Arm64 == platform = "hvf_arm64"

NoExit == [reason |-> "none", dev |-> "other", off |-> 0, size |-> 1,
           write |-> FALSE, data |-> 0]

\* exit_info before the first exit: zeroed, and 0 is HV_EXIT_REASON_CANCELED.
NoInstruction == [op |-> "canceled", dev |-> "other", off |-> 0, size |-> 1, val |-> 0, x0 |-> 0]

Access(a) == [dev |-> a.dev, off |-> a.off, size |-> a.size,
              write |-> a.op = "store",
              data |-> IF a.op = "store" THEN a.val ELSE 0]

\* The fields of the configuration space by their offsets.  The console has
\* its columns, rows, ports and emergency write; the disk its capacity in two
\* halves, segment sizes, geometry and block size; the network card its MAC
\* address, link status and queue pairs.
Fields == [d \in Virtio |-> CASE d = "console" -> {0, 2, 4, 16}
                              [] d = "block"   -> {0, 4, 8, 12, 16, 24}
                              [] d = "net"     -> {0, 6, 8}]

\* The fields of 16 bits.
Short == {<<"console", 0>>, <<"console", 2>>, <<"net", 6>>, <<"net", 8>>}

\* What the create functions set; the disk has 64 sectors.
Configuration ==
    [d \in Virtio |-> [f \in Fields[d] |->
        CASE d = "console" /\ f = 0 -> 80
          [] d = "console" /\ f = 2 -> 25
          [] d = "console" /\ f = 4 -> 1
          [] d = "block" /\ f = 0   -> 64
          [] d = "block" /\ f = 8   -> 65535
          [] d = "block" /\ f = 12  -> 128
          [] d = "block" /\ f = 24  -> 512
          [] d = "net" /\ f = 0     -> 2
          [] d = "net" /\ f \in {6, 8} -> 1
          [] OTHER -> 0]]

TypeOK ==
    /\ platform \in Platforms
    /\ stage \in [VCPU -> {"guest", "exited", "decoded", "logging", "acking", "handled", "dead"}]
    /\ pc \in [VCPU -> Nat \cup {-1}] /\ fresh \in [VCPU -> BOOLEAN]
    /\ unasked \in [VCPU -> Nat] /\ invented \in [VCPU -> Nat]
    /\ \A v \in VCPU : page[v] \in Nat /\ got[v] \in Nat /\ answer[v] \in Nat
    /\ ret \in [VCPU -> {-1, 0}] /\ should_stop \in [VCPU -> BOOLEAN]
    /\ exit_count \in [VCPU -> 0 .. ExitLimit + 2]
    /\ uart \in [dlab : BOOLEAN, dll : Byte, dlm : Byte, ier : Byte,
                 lcr : Byte, mcr : Byte, scr : Byte]
    /\ \A d \in Virtio :
         /\ virtio[d].status \in Byte /\ virtio[d].features \in Nat
         /\ \A f \in Fields[d] : virtio[d].config[f] \in IF <<d, f>> \in Short THEN Half ELSE Nat
    /\ \A k \in DOMAIN stdout : stdout[k].byte \in Byte
    /\ \A k \in DOMAIN log : log[k].byte \in Byte

Init ==
    /\ platform \in Platforms
    /\ stage = [v \in VCPU |-> "guest"]
    /\ cur = [v \in VCPU |-> NoInstruction]
    /\ pc = [v \in VCPU |-> 0]
    /\ page = [v \in VCPU |-> 0]
    /\ exit = [v \in VCPU |-> NoExit]
    /\ ret = [v \in VCPU |-> 0]
    /\ should_stop = [v \in VCPU |-> FALSE]
    /\ exit_count = [v \in VCPU |-> 0]
    /\ uart = [dlab |-> FALSE, dll |-> 0, dlm |-> 0, ier |-> 0, lcr |-> 0,
               mcr |-> 0, scr |-> 0]
    /\ virtio = [d \in Virtio |->
                    [status |-> 0, features |-> 0, config |-> Configuration[d]]]
    /\ stdout = <<>> /\ log = <<>>
    /\ made = [v \in VCPU |-> <<>>] /\ seen = [v \in VCPU |-> <<>>]
    /\ fresh = [v \in VCPU |-> TRUE] /\ unasked = [v \in VCPU |-> 0]
    /\ invented = [v \in VCPU |-> 0] /\ exits = [v \in VCPU |-> 0]
    /\ answer = [v \in VCPU |-> 0] /\ got = [v \in VCPU |-> 0]

----------------------------------------------------------------------------
(* The guest and the hypervisor                                            *)

IsAccess(a) == a.op \in {"store", "load"}

\* There is a device at the address.
Mapped(a) == a.dev # "unmapped"

\* Whether the hypervisor leaves the PC at the instruction: KVM completes it
\* itself when the guest is resumed, HVF does not.
StaysAt(a) ==
    \/ platform = "hvf_arm64" /\ (IsAccess(a) \/ a.op = "abort")
    \/ platform = "hvf_x86" /\ a.op # "intr"

\* The guest runs up to an instruction that leaves it.  On KVM a signal is one
\* more such exit ("intr"): kvm_run() returns 0 for EINTR.
GuestExits(v) ==
    /\ stage[v] = "guest" /\ ~should_stop[v]
    /\ exits[v] < MaxInstr
    /\ \E a \in Instructions[platform] :
         /\ pc[v] = -1 => a = cur[v]
         /\ cur' = [cur EXCEPT ![v] = a]
         /\ page' = [page EXCEPT ![v] = IF a.op \in {"store", "out"} THEN a.val ELSE @]
         /\ made' = [made EXCEPT ![v] =
                       IF IsAccess(a) /\ Mapped(a) /\ pc[v] # -1 THEN Append(@, a) ELSE @]
         /\ pc' = [pc EXCEPT ![v] = IF StaysAt(a) THEN -1 ELSE 0]
         /\ unasked' = [unasked EXCEPT ![v] = IF a.op = "abort" THEN @ + 1 ELSE @]
    /\ fresh' = [fresh EXCEPT ![v] = TRUE]
    /\ exits' = [exits EXCEPT ![v] = @ + 1]
    /\ stage' = [stage EXCEPT ![v] = "exited"]
    /\ UNCHANGED <<platform, exit, got, ret, should_stop, exit_count, device>>

\* KVM_RUN or hv_vcpu_run() fails and the backend says so: the loop ends, or
\* goes round once more when errno is EINTR.
RunFails(v) ==
    /\ stage[v] = "guest" /\ ~should_stop[v]
    /\ \E s \in {"dead", "guest"} : stage' = [stage EXCEPT ![v] = s]
    /\ UNCHANGED <<platform, exit, guest, loop, device>>

\* hv_vcpu_run() fails, but not with HV_ERROR (nor with HV_UNSUPPORTED on
\* ARM64): hvf_run() and hvf_arm64_run() return 0 all the same, and the loop
\* decodes the exit before once more.  The guest has not moved.
RunFailsUnnoticed(v) ==
    /\ platform # "kvm"
    /\ stage[v] = "guest" /\ ~should_stop[v]
    /\ exits[v] < MaxInstr
    /\ fresh' = [fresh EXCEPT ![v] = FALSE]
    /\ unasked' = [unasked EXCEPT ![v] = @ + 1]
    /\ exits' = [exits EXCEPT ![v] = @ + 1]
    /\ stage' = [stage EXCEPT ![v] = "exited"]
    /\ UNCHANGED <<platform, exit, cur, pc, page, got, made, ret, should_stop, exit_count, device>>

\* while (!vcpu->should_stop)
LoopEnds(v) ==
    /\ stage[v] = "guest" /\ should_stop[v]
    /\ stage' = [stage EXCEPT ![v] = "dead"]
    /\ UNCHANGED <<platform, exit, guest, loop, device>>

----------------------------------------------------------------------------
(* Decoding                                                                *)

kvm_convert_exit_reason(op) ==
    CASE op = "hlt"            -> "HLT"
      [] op \in {"out", "in"}  -> "IO"
      [] op \in {"store", "load"} -> "MMIO"
      [] op = "intr"           -> "EXTERNAL"
      [] op = "fail_entry"     -> "FAIL_ENTRY"
      [] op = "shutdown"       -> "SHUTDOWN"
      [] op = "internal_error" -> "INTERNAL_ERROR"
      [] op = "exception"      -> "EXCEPTION"
      [] OTHER                 -> "UNKNOWN"

\* memset() clears the data that is not copied: only an IN copies the port
\* data and only a store copies the MMIO data.
kvm_get_exit(a, data) ==
    [NoExit EXCEPT
       !.reason = kvm_convert_exit_reason(a.op),
       !.dev = a.dev, !.off = a.off, !.size = a.size,
       !.write = a.op \in {"store", "out"},
       !.data = IF a.op \in {"store", "in"} THEN data ELSE 0]

\* Only the virtual address is tested: whatever reports one, a store, a load or
\* an abort, is taken for a byte store of X0 to the physical address.
hvf_arm64_get_exit(a) ==
    CASE a.op = "canceled" -> [NoExit EXCEPT !.reason = "CANCELED"]
      [] IsAccess(a) \/ a.op = "abort" ->
           [reason |-> "MMIO", dev |-> a.dev, off |-> a.off, size |-> 1,
            write |-> TRUE, data |-> a.x0 % 256]
      [] a.op = "exception" -> [NoExit EXCEPT !.reason = "EXCEPTION"]
      [] a.op = "vtimer" -> [NoExit EXCEPT !.reason = "VTIMER"]
      [] OTHER -> [NoExit EXCEPT !.reason = "HLT"]

\* hvf_get_exit() does not look at the exit.
hvf_get_exit == [NoExit EXCEPT !.reason = "HLT"]

hv_get_exit(v) ==
    CASE platform = "kvm"       -> kvm_get_exit(cur[v], page[v])
      [] platform = "hvf_arm64" -> hvf_arm64_get_exit(cur[v])
      [] platform = "hvf_x86"   -> hvf_get_exit

\* MUTANT of GetExit: the PC is not advanced.
GetExitSamePc(v) ==
    /\ stage[v] = "exited"
    /\ exit' = [exit EXCEPT ![v] = hv_get_exit(v)]
    /\ stage' = [stage EXCEPT ![v] = "decoded"]
    /\ UNCHANGED <<platform, guest, loop, device>>

\* hv_get_exit().  On ARM64 it also moves the PC on by one instruction whenever
\* it reports an MMIO access, wherever the PC is.
GetExit(v) ==
    /\ stage[v] = "exited"
    /\ exit' = [exit EXCEPT ![v] = hv_get_exit(v)]
    /\ pc' = [pc EXCEPT ![v] = IF Arm64 /\ exit'[v].reason = "MMIO" THEN @ + 1 ELSE @]
    /\ stage' = [stage EXCEPT ![v] = "decoded"]
    /\ UNCHANGED <<platform, cur, page, got, made, fresh, unasked, loop, device>>

----------------------------------------------------------------------------
(* Devices                                                                 *)

\* MUTANT of LowByte: the whole value.
LowByteWide(data) == data

\* *(const uint8_t *)data
LowByte(data) == data % 256

\* mmio_console_read().  Nothing fills rx_buf or sets DR: the receive buffer
\* reads 0, the line status 0x60 and the interrupt identification 1.
mmio_console_read(off) ==
    CASE off = 0 -> IF uart.dlab THEN uart.dll ELSE 0
      [] off = 1 -> IF uart.dlab THEN uart.dlm ELSE uart.ier
      [] off = 2 -> 1
      [] off = 3 -> uart.lcr
      [] off = 4 -> uart.mcr
      [] off = 5 -> 96
      [] off = 7 -> uart.scr
      [] OTHER   -> 0

\* The registers after mmio_console_write().
mmio_console_regs(off, b) ==
    CASE off = 0 /\ uart.dlab  -> [uart EXCEPT !.dll = b]
      [] off = 1 /\ uart.dlab  -> [uart EXCEPT !.dlm = b]
      [] off = 1 /\ ~uart.dlab -> [uart EXCEPT !.ier = b]
      [] off = 3 -> [uart EXCEPT !.lcr = b, !.dlab = b >= 128]
      [] off = 4 -> [uart EXCEPT !.mcr = b]
      [] off = 7 -> [uart EXCEPT !.scr = b]
      [] OTHER   -> uart

\* virtio_mmio_read() and virtio_mmio_write(), for accesses of four bytes.  No
\* register sets up a queue, so a notification finds nothing to do.
ConfigAt(off) == off - 256

DeviceId == [d \in Virtio |-> CASE d = "net" -> 1 [] d = "block" -> 2 [] d = "console" -> 3]

virtio_mmio_read(d, off) ==
    CASE off = 0  -> 1953655158
      [] off = 4  -> 1
      [] off = 8  -> DeviceId[d]
      [] off = 32 -> 32
      [] off = 56 -> 1
      [] off = 64 -> virtio[d].status
      [] ConfigAt(off) \in Fields[d] -> virtio[d].config[ConfigAt(off)]
      [] OTHER    -> 0

\* The fields a guest may set; the disk has no config_write.
Writable(d, f) == <<d, f>> \in {<<"console", 0>>, <<"console", 2>>, <<"net", 0>>, <<"net", 6>>}

\* The part of the value the field keeps.
Stored(d, f, val) == IF <<d, f>> \in Short THEN val % HalfWord ELSE val

virtio_mmio_write(d, off, val) ==
    CASE off = 24 -> [virtio EXCEPT ![d].features = val]
      [] off = 64 -> [virtio EXCEPT ![d].status = LowByte(val)]
      [] Writable(d, ConfigAt(off)) ->
           [virtio EXCEPT ![d].config[ConfigAt(off)] = Stored(d, ConfigAt(off), val)]
      [] OTHER    -> virtio

Printed(v, b, via) == [by |-> v, byte |-> b, via |-> via]

\* The exit of v is the one of a load or a store that it has just made.
Asked(v) == fresh[v] /\ IsAccess(cur[v])

\* The access the device is given.
See(v, e) ==
    /\ seen' = IF Asked(v)
                  THEN [seen EXCEPT ![v] = Append(@, [dev |-> e.dev, off |-> e.off, size |-> e.size,
                                                      write |-> e.write, data |-> e.data])]
                  ELSE seen
    /\ invented' = IF Asked(v) THEN invented ELSE [invented EXCEPT ![v] = @ + 1]

----------------------------------------------------------------------------
(* vcpu_handle_exit()                                                      *)

Entered(v, reasons) ==
    /\ stage[v] = "decoded" /\ exit[v].reason \in reasons
    /\ exit_count' = [exit_count EXCEPT ![v] = @ + 1]

Returns(v, r) ==
    /\ ret' = [ret EXCEPT ![v] = r]
    /\ stage' = [stage EXCEPT ![v] = "handled"]
    /\ UNCHANGED <<platform, exit, guest, exits>>

\* HLT, EXTERNAL and VTIMER continue; UNKNOWN fails.
HandleOther(v) ==
    /\ Entered(v, {"HLT", "EXTERNAL", "VTIMER", "UNKNOWN"})
    /\ Returns(v, IF exit[v].reason = "UNKNOWN" THEN -1 ELSE 0)
    /\ UNCHANGED <<should_stop, device>>

\* MUTANT of HandleStop: should_stop is set only together with an error.
HandleStopErrors(v) ==
    /\ Entered(v, {"SHUTDOWN", "EXCEPTION", "CANCELED", "FAIL_ENTRY", "INTERNAL_ERROR"})
    /\ should_stop' = [should_stop EXCEPT ![v] =
                          @ \/ exit[v].reason \in {"FAIL_ENTRY", "INTERNAL_ERROR"}]
    /\ Returns(v, IF exit[v].reason \in {"FAIL_ENTRY", "INTERNAL_ERROR"} THEN -1 ELSE 0)
    /\ UNCHANGED device

HandleStop(v) ==
    /\ Entered(v, {"SHUTDOWN", "EXCEPTION", "CANCELED", "FAIL_ENTRY", "INTERNAL_ERROR"})
    /\ should_stop' = [should_stop EXCEPT ![v] = TRUE]
    /\ Returns(v, IF exit[v].reason \in {"FAIL_ENTRY", "INTERNAL_ERROR"} THEN -1 ELSE 0)
    /\ UNCHANGED device

\* What the bytes of a value are worth.
Weight == <<1, 256, 65536, 16777216>>

\* The bytes of io->data, as an OUT of v to COM1 prints them.
OutBytes(v, e) ==
    [k \in 1 .. e.size |-> Printed(v, (e.data \div Weight[k]) % 256, "com1")]

\* vcpu_handle_io_exit(): an OUT to COM1 prints the bytes of io->data; every
\* other access changes at most the exit record.
vcpu_handle_io_exit(v) ==
    /\ Entered(v, {"IO"})
    /\ LET e == exit[v] IN
         stdout' = IF e.dev = "com1" /\ e.write THEN stdout \o OutBytes(v, e) ELSE stdout
    /\ Returns(v, 0)
    /\ UNCHANGED <<should_stop, uart, virtio, log, seen, invented, answer>>

\* The callbacks return 0, except that virtio wants four bytes.
MmioResult(e) == IF e.dev \in Virtio /\ e.size # 4 THEN -1 ELSE 0

\* A load: the device fills the handler's own variable, nothing else.
MmioRead(v) ==
    /\ Entered(v, {"MMIO"}) /\ ~exit[v].write
    /\ LET e == exit[v] IN
         /\ e.dev # "unmapped"
         /\ See(v, e)
         /\ answer' = [answer EXCEPT ![v] =
                         IF e.dev = "uart" THEN mmio_console_read(e.off)
                         ELSE IF e.size = 4 THEN virtio_mmio_read(e.dev, e.off) ELSE @]
         /\ Returns(v, MmioResult(e))
    /\ UNCHANGED <<should_stop, uart, virtio, stdout, log>>

\* An interrupt acknowledgement that virtio_mmio_write() acts on.
IsAck(e) == e.dev \in Virtio /\ e.off = 56 /\ e.size = 4

TxOpen(e) == e.dev = "uart" /\ e.off = 0 /\ ~uart.dlab

\* A store that only changes registers.
MmioWrite(v) ==
    /\ Entered(v, {"MMIO"}) /\ exit[v].write
    /\ LET e == exit[v] IN
         /\ e.dev # "unmapped" /\ ~TxOpen(e) /\ ~IsAck(e)
         /\ See(v, e)
         /\ uart' = IF e.dev = "uart" THEN mmio_console_regs(e.off, LowByte(e.data)) ELSE uart
         /\ virtio' = IF e.dev \in Virtio /\ e.size = 4
                        THEN virtio_mmio_write(e.dev, e.off, e.data) ELSE virtio
         /\ Returns(v, MmioResult(e))
    /\ UNCHANGED <<should_stop, stdout, log, answer>>

\* A store to the transmit register: putchar(), then the log file.
ConsolePut(v) ==
    /\ Entered(v, {"MMIO"}) /\ exit[v].write /\ TxOpen(exit[v])
    /\ See(v, exit[v])
    /\ stdout' = Append(stdout, Printed(v, LowByte(exit[v].data), "uart"))
    /\ stage' = [stage EXCEPT ![v] = "logging"]
    /\ UNCHANGED <<platform, exit, guest, ret, should_stop, exits, uart, virtio, log, answer>>

\* MUTANT of ConsoleLog: a byte 0 is not logged.
ConsoleLogText(v) ==
    /\ stage[v] = "logging"
    /\ log' = IF LogFile /\ LowByte(exit[v].data) # 0
                THEN Append(log, Printed(v, LowByte(exit[v].data), "uart")) ELSE log
    /\ Returns(v, 0)
    /\ UNCHANGED <<should_stop, exit_count, uart, virtio, stdout, seen, invented, answer>>

ConsoleLog(v) ==
    /\ stage[v] = "logging"
    /\ log' = IF LogFile THEN Append(log, Printed(v, LowByte(exit[v].data), "uart")) ELSE log
    /\ Returns(v, 0)
    /\ UNCHANGED <<should_stop, exit_count, uart, virtio, stdout, seen, invented, answer>>

\* device_deassert_irq(): virtio_init() leaves irq_fd 0, so it is standard
\* input that is read.
Ack(v) ==
    /\ Entered(v, {"MMIO"}) /\ exit[v].write /\ IsAck(exit[v])
    /\ See(v, exit[v])
    /\ stage' = [stage EXCEPT ![v] = "acking"]
    /\ UNCHANGED <<platform, exit, guest, ret, should_stop, exits, uart, virtio, stdout,
                   log, answer>>

\* MUTANT of AckRead: the read is repeated until it gives eight bytes.
AckReadAgain(v) == stage[v] = "acking" /\ UNCHANGED vars

\* read() comes back, with whatever result.
AckRead(v) ==
    /\ stage[v] = "acking" /\ StdinReady
    /\ Returns(v, 0)
    /\ UNCHANGED <<should_stop, exit_count, device>>

\* No device at this address: a warning, and 0.
MmioUnmapped(v) ==
    /\ Entered(v, {"MMIO"}) /\ exit[v].dev = "unmapped"
    /\ Returns(v, 0)
    /\ UNCHANGED <<should_stop, device>>

\* MUTANT of Finish: the limit on exits is not tested.
FinishUnlimited(v) ==
    /\ stage[v] = "handled"
    /\ exit_count' = [exit_count EXCEPT ![v] = IF ret[v] < 0 THEN @ ELSE @ + 1]
    /\ stage' = [stage EXCEPT ![v] =
                   IF ret[v] < 0 THEN "dead" ELSE "guest"]
    /\ UNCHANGED <<platform, exit, guest, ret, should_stop, exits, device>>

\* The rest of the loop body: an error or the limit ends the thread; on KVM
\* the next KVM_RUN completes the access with what the run page holds.
Finish(v) ==
    /\ stage[v] = "handled"
    /\ exit_count' = [exit_count EXCEPT ![v] = IF ret[v] < 0 THEN @ ELSE @ + 1]
    /\ LET dead == ret[v] < 0 \/ exit_count'[v] > ExitLimit IN
         /\ stage' = [stage EXCEPT ![v] = IF dead THEN "dead" ELSE "guest"]
         /\ got' = [got EXCEPT ![v] =
                      IF ~dead /\ platform = "kvm" /\ cur[v].op \in {"load", "in"} THEN page[v] ELSE @]
    /\ UNCHANGED <<platform, exit, cur, pc, page, made, fresh, unasked, ret, should_stop, exits, device>>

Handle(v) ==
    \/ HandleOther(v) \/ HandleStop(v) \/ vcpu_handle_io_exit(v)
    \/ MmioRead(v) \/ MmioWrite(v) \/ ConsolePut(v) \/ ConsoleLog(v) \/ MmioUnmapped(v)
    \/ Ack(v) \/ AckRead(v)

\* Every thread has ended or used up the bound on its instructions.
Done ==
    /\ \A v \in VCPU : stage[v] = "dead" \/ (stage[v] = "guest" /\ exits[v] = MaxInstr)
    /\ UNCHANGED vars

Next ==
    \/ \E v \in VCPU :
         \/ GuestExits(v) \/ RunFails(v) \/ RunFailsUnnoticed(v) \/ LoopEnds(v)
         \/ GetExit(v) \/ Handle(v) \/ Finish(v)
    \/ Done

Spec == Init /\ [][Next]_vars

\* The steps of the monitor between two runs of the guest.
Thread(v) == LoopEnds(v) \/ GetExit(v) \/ Handle(v) \/ Finish(v)

\* The operating system schedules every thread.
FairSpec == Spec /\ \A v \in VCPU : WF_vars(Thread(v))

----------------------------------------------------------------------------
(* Properties                                                              *)

\* HVF reports every access as a byte store of X0; of other accesses only the
\* address is right.
Faithful(p, a) == p = "hvf_arm64" => a.op = "store" /\ a.size = 1 /\ a.val = a.x0 % 256

\* The device was given access s for instruction a of a guest of platform p.
Matches(p, s, a) ==
    /\ s.dev = a.dev /\ s.off = a.off
    /\ Faithful(p, a) => s = Access(a)

\* Between two runs of a vCPU, the devices have been given exactly the accesses
\* it made to them, each once, in its order and at its address, and on KVM with
\* its size, direction and data, whatever the other vCPUs do.  What else a
\* device is given is invented by HVF on ARM64, at most once for each abort
\* (hvf_arm64_get_exit() looks only at the virtual address) and for each failed
\* run that hvf_arm64_run() does not report, whose exit before is decoded again.
\* Unless the last run is such a one, the guest goes on right behind the
\* instruction: hvf_arm64_get_exit() has advanced the PC by exactly one; each
\* failed run skips at most one more.  On x86_64 HVF nothing is delivered.
DeliveredOnceInOrder ==
    platform # "hvf_x86" => \A v \in VCPU :
        stage[v] \notin {"exited", "decoded"} =>
            /\ Len(seen[v]) = Len(made[v])
            /\ \A k \in DOMAIN made[v] : Matches(platform, seen[v][k], made[v][k])
            /\ invented[v] <= unasked[v] /\ (platform = "kvm" => unasked[v] = 0)
            /\ pc[v] \in 0 .. unasked[v] /\ (fresh[v] => pc[v] = 0)

\* Where in stream s the bytes are that v printed through the MMIO console.
By(s, v) == {k \in DOMAIN s : s[k].by = v /\ s[k].via = "uart"}

\* The places of v in the output whose bytes have been logged: all, but for the
\* last one while mmio_console_write() is between putchar() and fputc().
Logged(v) ==
    {k \in By(stdout, v) : stage[v] = "logging" => \E l \in By(stdout, v) : k < l}

\* mmio_console_write() prints a byte and then logs it, with no lock: the two
\* streams may order the bytes of different vCPUs differently, but for each
\* vCPU vmm_console.log is its output, at most the last byte behind: its
\* places in the log correspond to those in the output, in order, byte by byte.
ConsoleAgrees ==
    LogFile => \A v \in VCPU :
        \E f \in [By(log, v) -> By(stdout, v)] :
            /\ {f[k] : k \in By(log, v)} = Logged(v)
            /\ \A k, l \in By(log, v) : k < l => f[k] < f[l]
            /\ \A k \in By(log, v) : log[k].byte = stdout[f[k]].byte

\* The guard of vcpu_thread_func() against endless exits works although
\* exit_count moves by two for each exit: no vCPU exits more often than half
\* the limit and once more.
ExitsBounded == \A v \in VCPU : exits[v] <= ExitLimit \div 2 + 1

\* A guest that shuts down leaves should_stop set, which is what makes main()
\* end the program.  A system event does not: kvm_convert_exit_reason() has no
\* case for it, and neither does any exit of x86_64 HVF.
ShutdownStops ==
    platform # "hvf_x86" => \A v \in VCPU :
        (stage[v] = "dead" /\ cur[v].op = "shutdown") => should_stop[v]

\* Every exit is answered: the vCPU runs again or its thread ends, and it ends
\* after a shutdown.  No device callback keeps a thread for ever.
ExitAnswered ==
    \A v \in VCPU :
        stage[v] = "exited" ~>
            \/ stage[v] = "dead"
            \/ stage[v] = "guest" /\ (cur[v].op = "shutdown" => platform = "hvf_x86")

Resumed(v) == stage[v] = "guest" /\ exits[v] > 0

\* A load that completed put in the guest's register what the device answered.
LoadSeesDevice ==
    \A v \in VCPU :
        (Resumed(v) /\ cur[v].op = "load" /\ Mapped(cur[v])) => got[v] = answer[v]
=============================================================================
