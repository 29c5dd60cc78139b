-------------------------- MODULE ExitPathProofs ---------------------------
(***************************************************************************)
(* Machine-checked proofs about ExitPath, for any number of vCPUs, any     *)
(* platforms, guests, bound on instructions and limit on exits.            *)
(***************************************************************************)
EXTENDS ExitPath, SequenceTheorems, TLAPS

-----------------------------------------------------------------------------
(* The inductive invariant.                                                 *)

Stages    == {"guest", "exited", "decoded", "logging", "acking", "handled", "dead"}
Reasons   == {"none", "HLT", "IO", "MMIO", "EXTERNAL", "FAIL_ENTRY", "SHUTDOWN", "INTERNAL_ERROR",
              "EXCEPTION", "UNKNOWN", "CANCELED", "VTIMER"}
Exit      == [reason : Reasons, dev : Places, off : Nat, size : {1, 2, 4, 8}, write : BOOLEAN,
              data : Nat]
AccessSet == [dev : Places, off : Nat, size : {1, 2, 4, 8}, write : BOOLEAN, data : Nat]
Prints    == [by : VCPU, byte : Byte, via : {"uart", "com1"}]
Uart      == [dlab : BOOLEAN, dll : Byte, dlm : Byte, ier : Byte, lcr : Byte, mcr : Byte,
              scr : Byte]

\* What a field of the configuration space of device d holds.
FieldType(d, f) == IF <<d, f>> \in Short THEN Half ELSE Nat

VirtioType(w) ==
    \A d \in Virtio :
        /\ w[d] \in [status : Byte, features : Nat, config : [Fields[d] -> Nat]]
        /\ \A f \in Fields[d] : w[d].config[f] \in FieldType(d, f)

VirtioTableOf(w) == DOMAIN w = Virtio /\ w = [d \in Virtio |-> w[d]] /\ VirtioType(w)

\* What leaves a guest of platform p.
PlatformOp(p, op) == IF p = "hvf_arm64" THEN op \in ArmOps ELSE op # "abort"

\* The thread and the guest of each vCPU.
ThreadType ==
    /\ platform \in Platforms
    /\ stage \in [VCPU -> Stages]
    /\ cur \in [VCPU -> Instruction]
    /\ \A v \in VCPU : /\ IsInstruction(cur[v])
                       /\ PlatformOp(platform, cur[v].op)
    /\ pc \in [VCPU -> Nat \cup {-1}] /\ fresh \in [VCPU -> BOOLEAN]
    /\ unasked \in [VCPU -> Nat]
    /\ page \in [VCPU -> Nat] /\ got \in [VCPU -> Nat]
    /\ exit \in [VCPU -> Exit]
    /\ ret \in [VCPU -> {-1, 0}] /\ should_stop \in [VCPU -> BOOLEAN]
    /\ exit_count \in [VCPU -> Nat] /\ exits \in [VCPU -> Nat]

\* The devices, the streams and the histories.
DeviceType ==
    /\ uart \in Uart
    /\ VirtioTableOf(virtio)
    /\ stdout \in Seq(Prints) /\ log \in Seq(Prints)
    /\ made \in [VCPU -> Seq(Instruction)] /\ seen \in [VCPU -> Seq(AccessSet)]
    /\ invented \in [VCPU -> Nat] /\ answer \in [VCPU -> Nat]

\* A decoded exit is the one the backend reports for the instruction of the last
\* exit, whether the run succeeded or not; the run page of KVM still has the data
\* of a store.
DecodeInv ==
    \A v \in VCPU :
        /\ cur[v].op = "store" => page[v] = cur[v].val
        /\ stage[v] = "decoded" => exit[v] = hv_get_exit(v)

\* But for x86_64 HVF the PC is at the instruction only until that is decoded; a
\* failed run that is not reported moves it at most by one, and KVM reports all.
PcAt(v) ==
    /\ platform = "kvm" => fresh[v] /\ unasked[v] = 0
    /\ stage[v] = "exited" /\ fresh[v] => pc[v] = IF StaysAt(cur[v]) THEN -1 ELSE 0
    /\ stage[v] = "exited" /\ ~fresh[v] => pc[v] \in 0 .. unasked[v] - 1
    /\ stage[v] # "exited" => pc[v] \in 0 .. unasked[v] /\ (fresh[v] => pc[v] = 0)

PcInv == platform # "hvf_x86" => \A v \in VCPU : PcAt(v)

\* exit_count is twice the number of exits that have been answered, once more
\* after vcpu_handle_exit() counted the current one, and a thread that runs the
\* guest has not passed the limit.
CountInv ==
    \A v \in VCPU :
        /\ stage[v] = "guest" => exit_count[v] = 2 * exits[v] /\ exit_count[v] <= ExitLimit
        /\ stage[v] \in {"exited", "decoded"} =>
             exit_count[v] = 2 * exits[v] - 2 /\ exit_count[v] <= ExitLimit
        /\ stage[v] \in {"logging", "acking", "handled"} =>
             exit_count[v] = 2 * exits[v] - 1 /\ exit_count[v] <= ExitLimit + 1
        /\ stage[v] = "dead" => 2 * exits[v] <= ExitLimit + 2 /\ exit_count[v] <= ExitLimit + 2

\* A shutdown that has been handled has set should_stop.
StopInv ==
    platform # "hvf_x86" => \A v \in VCPU :
        stage[v] \notin {"exited", "decoded"} /\ cur[v].op = "shutdown" => should_stop[v]

\* v is between the exit and the callback of a device.
Pending(v) == stage[v] \in {"exited", "decoded"} /\ Asked(v) /\ Mapped(cur[v])

\* v is between an exit that is no access of its own and the end of its handling.
Inventing(v) == stage[v] \in {"exited", "decoded"} /\ (~fresh[v] \/ cur[v].op = "abort")

\* Each abort and each failed run accounts for one access at most.
InventInv ==
    \A v \in VCPU : invented[v] <= unasked[v] - (IF Inventing(v) THEN 1 ELSE 0)

\* The devices have been given the accesses of v, all but a pending one.
DeliverInv ==
    platform # "hvf_x86" => \A v \in VCPU :
        /\ Len(made[v]) = Len(seen[v]) + (IF Pending(v) THEN 1 ELSE 0)
        /\ Pending(v) => made[v][Len(made[v])] = cur[v]
        /\ \A k \in 1 .. Len(seen[v]) : Matches(platform, seen[v][k], made[v][k])

\* f takes the places of v in the log to the places in the output they stand for.
Corresponds(f, v) ==
    /\ f \in [By(log, v) -> By(stdout, v)]
    /\ {f[k] : k \in By(log, v)} = Logged(v)
    /\ \A k, l \in By(log, v) : k < l => f[k] < f[l]
    /\ \A k \in By(log, v) : log[k].byte = stdout[f[k]].byte

\* The byte mmio_console_write() is to log is the last one v printed.
LastPrinted(v) ==
    stage[v] = "logging" =>
        \E l \in By(stdout, v) : /\ \A k \in By(stdout, v) : k <= l
                                 /\ stdout[l].byte = LowByte(exit[v].data)

ConsoleAt(v) == (LogFile => \E f : Corresponds(f, v)) /\ LastPrinted(v)

ConsoleInv == \A v \in VCPU : ConsoleAt(v)

ExitInv == /\ ThreadType /\ DeviceType /\ DecodeInv /\ CountInv /\ StopInv
           /\ PcInv /\ InventInv /\ DeliverInv /\ ConsoleInv

-----------------------------------------------------------------------------
(* Types.                                                                   *)

\* Every backend reports an exit record.
LEMMA ExitType ==
    ASSUME ThreadType, NEW v \in VCPU
    PROVE  hv_get_exit(v) \in Exit
<1>1. /\ cur[v] \in Instruction /\ page[v] \in Nat /\ platform \in {"kvm", "hvf_arm64", "hvf_x86"}
  BY ConstantsAssumption DEF ThreadType
<1>2. \A op : kvm_convert_exit_reason(op) \in Reasons
  BY DEF kvm_convert_exit_reason, Reasons
<1>3. NoExit \in Exit
  BY DEF NoExit, Exit, Places, Virtio, Reasons
<1>4. cur[v].x0 % 256 \in Nat
  BY <1>1 DEF Instruction
<1>5. CASE platform = "kvm"
  <2> DEFINE e == hv_get_exit(v)
             w == cur[v].op \in {"store", "out"}
             d == IF cur[v].op \in {"store", "in"} THEN page[v] ELSE 0
  <2>1. e = [NoExit EXCEPT !.reason = kvm_convert_exit_reason(cur[v].op), !.dev = cur[v].dev,
               !.off = cur[v].off, !.size = cur[v].size, !.write = w, !.data = d]
    BY <1>5 DEF hv_get_exit, kvm_get_exit
  <2>2. w \in BOOLEAN /\ d \in Nat
    BY <1>1
  <2>3. /\ cur[v].dev \in Places /\ cur[v].off \in Nat /\ cur[v].size \in {1, 2, 4, 8}
    BY <1>1 DEF Instruction
  <2> HIDE DEF e, w, d
  <2>4. e \in Exit
    BY <1>2, <1>3, <2>1, <2>2, <2>3 DEF Exit
  <2>5. QED
    BY <2>4 DEF e
<1>6. CASE platform = "hvf_arm64"
  <2>1. hv_get_exit(v) = hvf_arm64_get_exit(cur[v])
    BY <1>6 DEF hv_get_exit
  <2>2. [reason |-> "MMIO", dev |-> cur[v].dev, off |-> cur[v].off, size |-> 1, write |-> TRUE,
         data |-> cur[v].x0 % 256] \in Exit
    BY <1>1, <1>4 DEF Exit, Instruction, Reasons
  <2>3. \A r \in Reasons : [NoExit EXCEPT !.reason = r] \in Exit
    BY <1>3 DEF Exit
  <2>4. QED
    BY <2>1, <2>2, <2>3 DEF hvf_arm64_get_exit, Reasons
<1>7. CASE platform = "hvf_x86"
  BY <1>3, <1>7 DEF hv_get_exit, hvf_get_exit, Exit, Reasons
<1>8. QED
  BY <1>1, <1>5, <1>6, <1>7

\* The threads have their types at the start.
LEMMA ThreadStart == Init => ThreadType
<1> SUFFICES ASSUME Init PROVE ThreadType
  OBVIOUS
<1>1. NoInstruction \in Instruction /\ IsInstruction(NoInstruction)
  BY DEF NoInstruction, Instruction, IsInstruction, Ops, Places, Virtio
<1>2. PlatformOp(platform, NoInstruction.op)
  BY DEF NoInstruction, PlatformOp, ArmOps
<1>3. NoExit \in Exit
  BY DEF NoExit, Exit, Reasons, Places
<1>4. /\ cur \in [VCPU -> Instruction] /\ exit \in [VCPU -> Exit]
      /\ \A v \in VCPU : IsInstruction(cur[v]) /\ PlatformOp(platform, cur[v].op)
  BY <1>1, <1>2, <1>3 DEF Init
<1>5. QED
  BY <1>4 DEF Init, ThreadType, Stages

\* Every step keeps the types of the threads.
LEMMA ThreadStep == ThreadType /\ [Next]_vars => ThreadType'
<1> SUFFICES ASSUME ThreadType, [Next]_vars PROVE ThreadType'
  OBVIOUS
<1> USE DEF ThreadType, Stages, Entered, Returns, guest, loop, device, vars
<1>1. ASSUME NEW v \in VCPU, GuestExits(v) PROVE ThreadType'
  <2>1. PICK a \in Instructions[platform] :
          /\ cur' = [cur EXCEPT ![v] = a]
          /\ page' = [page EXCEPT ![v] = IF a.op \in {"store", "out"} THEN a.val ELSE @]
          /\ pc' = [pc EXCEPT ![v] = IF StaysAt(a) THEN -1 ELSE 0]
          /\ unasked' = [unasked EXCEPT ![v] = IF a.op = "abort" THEN @ + 1 ELSE @]
    BY <1>1 DEF GuestExits
  <2>2. IsInstruction(a) /\ PlatformOp(platform, a.op)
    BY ConstantsAssumption DEF PlatformOp
  <2>3. a \in Instruction /\ a.val \in Nat
    BY <2>2 DEF IsInstruction, Instruction
  <2>4. /\ cur' \in [VCPU -> Instruction] /\ page' \in [VCPU -> Nat]
        /\ \A w \in VCPU : /\ IsInstruction(cur'[w])
                           /\ PlatformOp(platform, cur'[w].op)
    BY <2>1, <2>2, <2>3
  <2>5. pc' \in [VCPU -> Nat \cup {-1}] /\ unasked' \in [VCPU -> Nat]
    BY <2>1
  <2>6. QED
    BY <1>1, <2>4, <2>5 DEF GuestExits
<1>2. ASSUME NEW v \in VCPU, RunFails(v) PROVE ThreadType'
  BY <1>2 DEF RunFails
<1>2a. ASSUME NEW v \in VCPU, RunFailsUnnoticed(v) PROVE ThreadType'
  BY <1>2a DEF RunFailsUnnoticed
<1>3. ASSUME NEW v \in VCPU, LoopEnds(v) PROVE ThreadType'
  BY <1>3 DEF LoopEnds
<1>4. ASSUME NEW v \in VCPU, GetExit(v) PROVE ThreadType'
  <2>1. exit' \in [VCPU -> Exit]
    BY <1>4, ExitType DEF GetExit
  <2>2. pc' \in [VCPU -> Nat \cup {-1}]
    BY <1>4 DEF GetExit
  <2>3. QED
    BY <1>4, <2>1, <2>2 DEF GetExit
<1>5. ASSUME NEW v \in VCPU, HandleOther(v) PROVE ThreadType'
  BY <1>5 DEF HandleOther
<1>6. ASSUME NEW v \in VCPU, HandleStop(v) PROVE ThreadType'
  BY <1>6 DEF HandleStop
<1>7. ASSUME NEW v \in VCPU, vcpu_handle_io_exit(v) PROVE ThreadType'
  BY <1>7 DEF vcpu_handle_io_exit
<1>8. ASSUME NEW v \in VCPU, MmioRead(v) PROVE ThreadType'
  BY <1>8 DEF MmioRead, MmioResult
<1>9. ASSUME NEW v \in VCPU, MmioWrite(v) PROVE ThreadType'
  BY <1>9 DEF MmioWrite, MmioResult
<1>10. ASSUME NEW v \in VCPU, ConsolePut(v) PROVE ThreadType'
  BY <1>10 DEF ConsolePut
<1>11. ASSUME NEW v \in VCPU, ConsoleLog(v) PROVE ThreadType'
  BY <1>11 DEF ConsoleLog
<1>12. ASSUME NEW v \in VCPU, MmioUnmapped(v) PROVE ThreadType'
  BY <1>12 DEF MmioUnmapped
<1>13. ASSUME NEW v \in VCPU, Ack(v) PROVE ThreadType'
  BY <1>13 DEF Ack
<1>14. ASSUME NEW v \in VCPU, AckRead(v) PROVE ThreadType'
  BY <1>14 DEF AckRead
<1>15. ASSUME NEW v \in VCPU, Finish(v) PROVE ThreadType'
  BY <1>15 DEF Finish
<1>16. CASE UNCHANGED vars
  BY <1>16
<1>17. QED
  BY <1>1, <1>2, <1>2a, <1>3, <1>4, <1>5, <1>6, <1>7, <1>8, <1>9, <1>10, <1>11, <1>12, <1>13, <1>14, <1>15,
     <1>16 DEF Next, Handle, Done

-----------------------------------------------------------------------------
(* What a decoded exit says about the instruction.                          *)

\* The number of a decoded exit's bytes and its address, and what the record
\* tells of the access.
LEMMA Decoded ==
    ASSUME ThreadType, DecodeInv, NEW v \in VCPU, stage[v] = "decoded"
    PROVE  /\ exit[v].reason = "MMIO" =>
                /\ platform # "hvf_x86"
                /\ IsAccess(cur[v]) \/ cur[v].op = "abort"
                /\ exit[v].dev = cur[v].dev /\ exit[v].off = cur[v].off
                /\ exit[v].dev \in Virtio \cup {"uart", "unmapped"}
                /\ IsAccess(cur[v]) /\ Faithful(platform, cur[v]) =>
                     [dev |-> exit[v].dev, off |-> exit[v].off, size |-> exit[v].size,
                      write |-> exit[v].write, data |-> exit[v].data] = Access(cur[v])
           /\ platform # "hvf_x86" /\ exit[v].reason # "MMIO" => ~IsAccess(cur[v]) /\ cur[v].op # "abort"
           /\ platform # "hvf_x86" /\ cur[v].op = "shutdown" => exit[v].reason = "SHUTDOWN"
           /\ exit[v].reason = "IO" => exit[v].size \in {1, 2, 4}
<1>1. /\ cur[v] \in Instruction /\ IsInstruction(cur[v])
      /\ PlatformOp(platform, cur[v].op)
      /\ platform \in {"kvm", "hvf_arm64", "hvf_x86"}
      /\ exit[v] = hv_get_exit(v) /\ (cur[v].op = "store" => page[v] = cur[v].val)
  BY ConstantsAssumption DEF ThreadType, DecodeInv
<1>2. CASE platform = "hvf_x86"
  BY <1>1, <1>2 DEF hv_get_exit, hvf_get_exit, NoExit
<1>3. CASE platform = "hvf_arm64"
  <2>1. exit[v] = hvf_arm64_get_exit(cur[v])
    BY <1>1, <1>3 DEF hv_get_exit
  <2>2. CASE IsAccess(cur[v]) \/ cur[v].op = "abort"
    <3>1. exit[v] = [reason |-> "MMIO", dev |-> cur[v].dev, off |-> cur[v].off, size |-> 1,
                     write |-> TRUE, data |-> cur[v].x0 % 256]
      BY <2>1, <2>2 DEF hvf_arm64_get_exit, IsAccess
    <3>2. cur[v].op # "shutdown" /\ exit[v].dev \in Virtio \cup {"uart", "unmapped"}
      BY <1>1, <2>2, <3>1 DEF IsAccess, IsInstruction
    <3>3. ASSUME IsAccess(cur[v]), Faithful(platform, cur[v])
          PROVE  [dev |-> exit[v].dev, off |-> exit[v].off, size |-> exit[v].size,
                  write |-> exit[v].write, data |-> exit[v].data] = Access(cur[v])
      <4>1. cur[v].op = "store" /\ cur[v].size = 1 /\ cur[v].val = cur[v].x0 % 256
        BY <1>3, <3>3 DEF Faithful
      <4>2. /\ exit[v].dev = cur[v].dev /\ exit[v].off = cur[v].off /\ exit[v].size = cur[v].size
            /\ exit[v].data = cur[v].val /\ exit[v].write = TRUE
        BY <3>1, <4>1
      <4>3. (cur[v].op = "store") = TRUE
        BY <4>1
      <4>4. Access(cur[v]) = [dev |-> cur[v].dev, off |-> cur[v].off, size |-> cur[v].size,
                              write |-> TRUE, data |-> cur[v].val]
        BY <4>1, <4>3, Zenon DEF Access
      <4>5. QED
        BY <4>2, <4>4, Zenon
    <3>4. QED
      BY <1>3, <2>2, <3>1, <3>2, <3>3
  <2>3. CASE ~IsAccess(cur[v]) /\ cur[v].op # "abort"
    <3>1. exit[v].reason \in {"CANCELED", "EXCEPTION", "VTIMER", "HLT"}
      BY <2>1, <2>3 DEF hvf_arm64_get_exit, NoExit
    <3>2. QED
      BY <1>1, <1>3, <2>3, <3>1 DEF ArmOps, PlatformOp
  <2>4. QED
    BY <2>2, <2>3
<1>4. CASE platform = "kvm"
  <2>1. exit[v] = kvm_get_exit(cur[v], page[v])
    BY <1>1, <1>4 DEF hv_get_exit
  <2>2. /\ exit[v].reason = kvm_convert_exit_reason(cur[v].op) /\ exit[v].dev = cur[v].dev
        /\ exit[v].off = cur[v].off /\ exit[v].size = cur[v].size
        /\ exit[v].write = (cur[v].op \in {"store", "out"})
        /\ exit[v].data = IF cur[v].op \in {"store", "in"} THEN page[v] ELSE 0
    BY <2>1 DEF kvm_get_exit, NoExit
  <2>3. CASE IsAccess(cur[v])
    <3>1. exit[v].reason = "MMIO" /\ exit[v].dev \in Virtio \cup {"uart", "unmapped"}
      BY <1>1, <2>2, <2>3 DEF kvm_convert_exit_reason, IsAccess, IsInstruction
    <3>2. exit[v].write = (cur[v].op = "store")
      BY <2>2, <2>3 DEF IsAccess
    <3>3. exit[v].data = IF cur[v].op = "store" THEN cur[v].val ELSE 0
      BY <1>1, <2>2, <2>3 DEF IsAccess
    <3>4. [dev |-> exit[v].dev, off |-> exit[v].off, size |-> exit[v].size,
           write |-> exit[v].write, data |-> exit[v].data] = Access(cur[v])
      BY <2>2, <3>2, <3>3 DEF Access
    <3>5. QED
      BY <1>4, <2>2, <2>3, <3>1, <3>4 DEF IsAccess
  <2>4. CASE ~IsAccess(cur[v])
    <3>1. exit[v].reason # "MMIO" /\ (cur[v].op = "shutdown" => exit[v].reason = "SHUTDOWN")
      BY <2>2, <2>4 DEF kvm_convert_exit_reason, IsAccess
    <3>2. exit[v].reason = "IO" => cur[v].op \in {"out", "in"}
      BY <2>2 DEF kvm_convert_exit_reason
    <3>3. exit[v].reason = "IO" => exit[v].size \in {1, 2, 4}
      BY <1>1, <2>2, <3>2 DEF IsInstruction, Instruction
    <3>4. QED
      BY <1>1, <1>4, <2>4, <3>1, <3>3 DEF PlatformOp
  <2>5. QED
    BY <2>3, <2>4
<1>5. QED
  BY <1>1, <1>2, <1>3, <1>4

\* The platform never changes.
LEMMA PlatformKept == [Next]_vars => platform' = platform
<1>1. ASSUME NEW v \in VCPU, \/ GuestExits(v) \/ RunFails(v) \/ RunFailsUnnoticed(v)
                            \/ LoopEnds(v) \/ GetExit(v) \/ Finish(v)
      PROVE  platform' = platform
  BY <1>1, SMTT(60) DEF GuestExits, RunFails, RunFailsUnnoticed, LoopEnds, GetExit, Finish
<1>2. ASSUME NEW v \in VCPU, Handle(v) PROVE platform' = platform
  BY <1>2, SMTT(60) DEF Handle, HandleOther, HandleStop, vcpu_handle_io_exit, MmioRead, MmioWrite,
                        ConsolePut, ConsoleLog, MmioUnmapped, Ack, AckRead, Returns
<1>3. ASSUME UNCHANGED vars PROVE platform' = platform
  BY <1>3 DEF vars
<1>4. QED
  BY <1>1, <1>2, <1>3 DEF Next, Done

\* Every step keeps a decoded exit the one of its instruction.
LEMMA DecodeStep == ThreadType /\ DecodeInv /\ [Next]_vars => DecodeInv'
<1> SUFFICES ASSUME ThreadType, DecodeInv, [Next]_vars PROVE DecodeInv'
  OBVIOUS
<1>A. platform' = platform
  BY PlatformKept
<1>B. ASSUME NEW v \in VCPU, UNCHANGED <<cur, page>> PROVE hv_get_exit(v)' = hv_get_exit(v)
  BY <1>A, <1>B, Zenon DEF hv_get_exit
<1> USE <1>A, <1>B DEF ThreadType, Stages, DecodeInv, Entered, Returns, guest, loop, device, vars
<1>1. ASSUME NEW v \in VCPU, GuestExits(v) PROVE DecodeInv'
  <2>1. PICK a \in Instructions[platform] :
          /\ cur' = [cur EXCEPT ![v] = a]
          /\ page' = [page EXCEPT ![v] = IF a.op \in {"store", "out"} THEN a.val ELSE @]
    BY <1>1 DEF GuestExits
  <2>2. stage' = [stage EXCEPT ![v] = "exited"] /\ exit' = exit
    BY <1>1 DEF GuestExits
  <2>3. ASSUME NEW w \in VCPU, w # v PROVE hv_get_exit(w)' = hv_get_exit(w)
    <3>1. cur'[w] = cur[w] /\ page'[w] = page[w]
      BY <2>1, <2>3
    <3>2. QED
      BY <3>1, Zenon DEF hv_get_exit
  <2>4. ASSUME NEW w \in VCPU
        PROVE  /\ cur'[w].op = "store" => page'[w] = cur'[w].val
               /\ stage'[w] = "decoded" => exit'[w] = hv_get_exit(w)'
    <3>1. CASE w = v
      BY <2>1, <2>2, <3>1
    <3>2. CASE w # v
      BY <2>1, <2>2, <2>3, <3>2
    <3>3. QED
      BY <3>1, <3>2
  <2>5. QED
    BY <2>4
<1>2. ASSUME NEW v \in VCPU, RunFails(v) PROVE DecodeInv'
  BY <1>2 DEF RunFails
<1>2a. ASSUME NEW v \in VCPU, RunFailsUnnoticed(v) PROVE DecodeInv'
  BY <1>2a DEF RunFailsUnnoticed
<1>3. ASSUME NEW v \in VCPU, LoopEnds(v) PROVE DecodeInv'
  BY <1>3 DEF LoopEnds
<1>4. ASSUME NEW v \in VCPU, GetExit(v) PROVE DecodeInv'
  <2>1. /\ stage' = [stage EXCEPT ![v] = "decoded"] /\ UNCHANGED <<cur, page>>
        /\ exit' = [exit EXCEPT ![v] = hv_get_exit(v)]
    BY <1>4 DEF GetExit
  <2>2. /\ \A w \in VCPU : w # v => exit'[w] = exit[w] /\ stage'[w] = stage[w]
        /\ exit'[v] = hv_get_exit(v)
    BY <2>1
  <2>3. QED
    BY <2>1, <2>2
<1>5. ASSUME NEW v \in VCPU, HandleOther(v) PROVE DecodeInv'
  BY <1>5 DEF HandleOther
<1>6. ASSUME NEW v \in VCPU, HandleStop(v) PROVE DecodeInv'
  BY <1>6 DEF HandleStop
<1>7. ASSUME NEW v \in VCPU, vcpu_handle_io_exit(v) PROVE DecodeInv'
  BY <1>7 DEF vcpu_handle_io_exit
<1>8. ASSUME NEW v \in VCPU, MmioRead(v) PROVE DecodeInv'
  BY <1>8 DEF MmioRead
<1>9. ASSUME NEW v \in VCPU, MmioWrite(v) PROVE DecodeInv'
  BY <1>9 DEF MmioWrite
<1>10. ASSUME NEW v \in VCPU, ConsolePut(v) PROVE DecodeInv'
  BY <1>10 DEF ConsolePut
<1>11. ASSUME NEW v \in VCPU, ConsoleLog(v) PROVE DecodeInv'
  BY <1>11 DEF ConsoleLog
<1>12. ASSUME NEW v \in VCPU, MmioUnmapped(v) PROVE DecodeInv'
  BY <1>12 DEF MmioUnmapped
<1>13. ASSUME NEW v \in VCPU, Ack(v) PROVE DecodeInv'
  BY <1>13 DEF Ack
<1>14. ASSUME NEW v \in VCPU, AckRead(v) PROVE DecodeInv'
  BY <1>14 DEF AckRead
<1>15. ASSUME NEW v \in VCPU, Finish(v) PROVE DecodeInv'
  BY <1>15 DEF Finish
<1>16. CASE UNCHANGED vars
  BY <1>16
<1>17. QED
  BY <1>1, <1>2, <1>2a, <1>3, <1>4, <1>5, <1>6, <1>7, <1>8, <1>9, <1>10, <1>11, <1>12, <1>13, <1>14, <1>15,
     <1>16 DEF Next, Handle, Done

-----------------------------------------------------------------------------
(* The limit on exits and the end after a shutdown.                         *)

\* Every step keeps exit_count in step with the exits.
LEMMA CountStep == ThreadType /\ CountInv /\ [Next]_vars => CountInv'
<1> SUFFICES ASSUME ThreadType, CountInv, [Next]_vars PROVE CountInv'
  OBVIOUS
<1> USE ConstantsAssumption
<1> USE DEF ThreadType, Stages, CountInv, Entered, Returns, guest, loop, device, vars
<1>1. ASSUME NEW v \in VCPU, GuestExits(v) PROVE CountInv'
  BY <1>1 DEF GuestExits
<1>2. ASSUME NEW v \in VCPU, RunFails(v) PROVE CountInv'
  BY <1>2 DEF RunFails
<1>2a. ASSUME NEW v \in VCPU, RunFailsUnnoticed(v) PROVE CountInv'
  BY <1>2a DEF RunFailsUnnoticed
<1>3. ASSUME NEW v \in VCPU, LoopEnds(v) PROVE CountInv'
  BY <1>3 DEF LoopEnds
<1>4. ASSUME NEW v \in VCPU, GetExit(v) PROVE CountInv'
  BY <1>4 DEF GetExit
<1>5. ASSUME NEW v \in VCPU, HandleOther(v) PROVE CountInv'
  BY <1>5 DEF HandleOther
<1>6. ASSUME NEW v \in VCPU, HandleStop(v) PROVE CountInv'
  BY <1>6 DEF HandleStop
<1>7. ASSUME NEW v \in VCPU, vcpu_handle_io_exit(v) PROVE CountInv'
  BY <1>7 DEF vcpu_handle_io_exit
<1>8. ASSUME NEW v \in VCPU, MmioRead(v) PROVE CountInv'
  BY <1>8 DEF MmioRead
<1>9. ASSUME NEW v \in VCPU, MmioWrite(v) PROVE CountInv'
  BY <1>9 DEF MmioWrite
<1>10. ASSUME NEW v \in VCPU, ConsolePut(v) PROVE CountInv'
  BY <1>10 DEF ConsolePut
<1>11. ASSUME NEW v \in VCPU, ConsoleLog(v) PROVE CountInv'
  BY <1>11 DEF ConsoleLog
<1>12. ASSUME NEW v \in VCPU, MmioUnmapped(v) PROVE CountInv'
  BY <1>12 DEF MmioUnmapped
<1>13. ASSUME NEW v \in VCPU, Ack(v) PROVE CountInv'
  BY <1>13 DEF Ack
<1>14. ASSUME NEW v \in VCPU, AckRead(v) PROVE CountInv'
  BY <1>14 DEF AckRead
<1>15. ASSUME NEW v \in VCPU, Finish(v) PROVE CountInv'
  BY <1>15 DEF Finish
<1>16. CASE UNCHANGED vars
  BY <1>16
<1>17. QED
  BY <1>1, <1>2, <1>2a, <1>3, <1>4, <1>5, <1>6, <1>7, <1>8, <1>9, <1>10, <1>11, <1>12, <1>13, <1>14, <1>15,
     <1>16 DEF Next, Handle, Done

\* The guard against endless exits ends the thread in time, whatever the limit.
THEOREM ExitsBoundedThm == Spec => []ExitsBounded
<1>1. Init => ThreadType /\ CountInv
  <2> SUFFICES ASSUME Init PROVE ThreadType /\ CountInv
    OBVIOUS
  <2>1. QED
    BY ThreadStart, ConstantsAssumption DEF Init, CountInv
<1>2. ThreadType /\ CountInv /\ [Next]_vars => (ThreadType /\ CountInv)'
  BY ThreadStep, CountStep
<1>3. ThreadType /\ CountInv => ExitsBounded
  <2> SUFFICES ASSUME ThreadType, CountInv, NEW v \in VCPU PROVE exits[v] <= ExitLimit \div 2 + 1
    BY DEF ExitsBounded
  <2>1. /\ exits[v] \in Nat /\ stage[v] \in Stages /\ ExitLimit \in Nat
    BY ConstantsAssumption DEF ThreadType
  <2>2. 2 * exits[v] <= ExitLimit + 2
    BY <2>1 DEF CountInv, Stages
  <2>3. QED
    BY <2>1, <2>2
<1>4. QED
  BY <1>1, <1>2, <1>3, PTL DEF Spec

\* Every step keeps should_stop set after a shutdown.
LEMMA StopStep == ThreadType /\ DecodeInv /\ StopInv /\ [Next]_vars => StopInv'
<1> SUFFICES ASSUME ThreadType, DecodeInv, StopInv, [Next]_vars PROVE StopInv'
  OBVIOUS
<1> USE Decoded
<1> USE DEF ThreadType, Stages, StopInv, Entered, Returns, guest, loop, device, vars
<1>1. ASSUME NEW v \in VCPU, GuestExits(v) PROVE StopInv'
  BY <1>1 DEF GuestExits
<1>2. ASSUME NEW v \in VCPU, RunFails(v) PROVE StopInv'
  BY <1>2 DEF RunFails
<1>2a. ASSUME NEW v \in VCPU, RunFailsUnnoticed(v) PROVE StopInv'
  BY <1>2a DEF RunFailsUnnoticed
<1>3. ASSUME NEW v \in VCPU, LoopEnds(v) PROVE StopInv'
  BY <1>3 DEF LoopEnds
<1>4. ASSUME NEW v \in VCPU, GetExit(v) PROVE StopInv'
  BY <1>4 DEF GetExit
<1>5. ASSUME NEW v \in VCPU, HandleOther(v) PROVE StopInv'
  BY <1>5 DEF HandleOther
<1>6. ASSUME NEW v \in VCPU, HandleStop(v) PROVE StopInv'
  BY <1>6 DEF HandleStop
<1>7. ASSUME NEW v \in VCPU, vcpu_handle_io_exit(v) PROVE StopInv'
  BY <1>7 DEF vcpu_handle_io_exit
<1>8. ASSUME NEW v \in VCPU, MmioRead(v) PROVE StopInv'
  BY <1>8 DEF MmioRead
<1>9. ASSUME NEW v \in VCPU, MmioWrite(v) PROVE StopInv'
  BY <1>9 DEF MmioWrite
<1>10. ASSUME NEW v \in VCPU, ConsolePut(v) PROVE StopInv'
  BY <1>10 DEF ConsolePut
<1>11. ASSUME NEW v \in VCPU, ConsoleLog(v) PROVE StopInv'
  BY <1>11 DEF ConsoleLog
<1>12. ASSUME NEW v \in VCPU, MmioUnmapped(v) PROVE StopInv'
  BY <1>12 DEF MmioUnmapped
<1>13. ASSUME NEW v \in VCPU, Ack(v) PROVE StopInv'
  BY <1>13 DEF Ack
<1>14. ASSUME NEW v \in VCPU, AckRead(v) PROVE StopInv'
  BY <1>14 DEF AckRead
<1>15. ASSUME NEW v \in VCPU, Finish(v) PROVE StopInv'
  BY <1>15 DEF Finish
<1>16. CASE UNCHANGED vars
  BY <1>16
<1>17. QED
  BY <1>1, <1>2, <1>2a, <1>3, <1>4, <1>5, <1>6, <1>7, <1>8, <1>9, <1>10, <1>11, <1>12, <1>13, <1>14, <1>15,
     <1>16 DEF Next, Handle, Done

-----------------------------------------------------------------------------
(* The PC and the invented accesses.                                        *)

\* What vcpu_handle_exit() leaves alone: the guest, and the thread up to its stage.
LEMMA HandleFrame ==
    ASSUME ThreadType, NEW v \in VCPU, Handle(v)
    PROVE  /\ UNCHANGED <<pc, unasked, fresh, cur>> /\ stage[v] \notin {"guest", "exited", "dead"}
           /\ \E t \in {"logging", "acking", "handled"} : stage' = [stage EXCEPT ![v] = t]
<1> USE DEF Entered, Returns, guest
<1>1. CASE HandleOther(v) \/ HandleStop(v) \/ vcpu_handle_io_exit(v)
  BY <1>1 DEF HandleOther, HandleStop, vcpu_handle_io_exit
<1>2. CASE MmioRead(v) \/ MmioWrite(v)
  BY <1>2 DEF MmioRead, MmioWrite
<1>3. CASE ConsolePut(v) \/ ConsoleLog(v) \/ MmioUnmapped(v)
  BY <1>3 DEF ConsolePut, ConsoleLog, MmioUnmapped
<1>4. CASE Ack(v) \/ AckRead(v)
  BY <1>4 DEF Ack, AckRead
<1>5. QED
  BY <1>1, <1>2, <1>3, <1>4 DEF Handle

\* Every step keeps the PC where the exit and the failed runs put it.
LEMMA PcStep == ThreadType /\ DecodeInv /\ PcInv /\ [Next]_vars => PcInv'
<1> SUFFICES ASSUME ThreadType, DecodeInv, PcInv, [Next]_vars, platform # "hvf_x86",
                    NEW w \in VCPU
             PROVE  PcAt(w)'
  BY PlatformKept DEF PcInv
<1>P. platform' = platform /\ platform \in {"kvm", "hvf_arm64"} /\ PcAt(w)
  BY PlatformKept, ConstantsAssumption DEF ThreadType, PcInv
<1>T. /\ pc[w] \in Nat \cup {-1} /\ unasked[w] \in Nat /\ stage[w] \in Stages
      /\ fresh[w] \in BOOLEAN
  BY DEF ThreadType
<1>K. ASSUME pc'[w] = pc[w], unasked'[w] = unasked[w], fresh'[w] = fresh[w],
             stage'[w] = stage[w], cur'[w] = cur[w]
      PROVE  PcAt(w)'
  BY <1>K, <1>P DEF PcAt, StaysAt
<1>M. ASSUME pc'[w] = pc[w], unasked'[w] = unasked[w], fresh'[w] = fresh[w],
             stage[w] # "exited", stage'[w] # "exited"
      PROVE  PcAt(w)'
  BY <1>M, <1>P DEF PcAt
<1> USE <1>P DEF Entered, Returns, guest, loop, device, vars
<1>1. ASSUME NEW v \in VCPU, GuestExits(v) PROVE PcAt(w)'
  <2>1. PICK a \in Instructions[platform] :
          /\ cur' = [cur EXCEPT ![v] = a]
          /\ pc' = [pc EXCEPT ![v] = IF StaysAt(a) THEN -1 ELSE 0]
          /\ unasked' = [unasked EXCEPT ![v] = IF a.op = "abort" THEN @ + 1 ELSE @]
    BY <1>1 DEF GuestExits
  <2>2. fresh' = [fresh EXCEPT ![v] = TRUE] /\ stage' = [stage EXCEPT ![v] = "exited"]
    BY <1>1 DEF GuestExits
  <2>3. CASE w = v
    <3>1. /\ cur'[w] = a /\ pc'[w] = IF StaysAt(a) THEN -1 ELSE 0
          /\ fresh'[w] = TRUE /\ stage'[w] = "exited"
          /\ a.op # "abort" => unasked'[w] = unasked[w]
      BY <2>1, <2>2, <2>3 DEF ThreadType
    <3>2. platform = "kvm" => a.op # "abort"
      BY ConstantsAssumption DEF ThreadType
    <3>3. StaysAt(cur[w])' <=> StaysAt(a)
      BY <3>1 DEF StaysAt, IsAccess
    <3>4. QED
      BY <3>1, <3>2, <3>3 DEF PcAt
  <2>4. CASE w # v
    <3>1. /\ pc'[w] = pc[w] /\ unasked'[w] = unasked[w] /\ fresh'[w] = fresh[w]
          /\ stage'[w] = stage[w] /\ cur'[w] = cur[w]
      BY <2>1, <2>2, <2>4 DEF ThreadType
    <3>2. QED
      BY <1>K, <3>1
  <2>5. QED
    BY <2>3, <2>4
<1>2. ASSUME NEW v \in VCPU, RunFails(v) PROVE PcAt(w)'
  <2>1. /\ pc'[w] = pc[w] /\ unasked'[w] = unasked[w] /\ fresh'[w] = fresh[w] /\ cur'[w] = cur[w]
        /\ stage'[w] = stage[w] \/ (stage[w] # "exited" /\ stage'[w] # "exited")
    BY <1>2 DEF RunFails, ThreadType
  <2>2. QED
    BY <1>K, <1>M, <2>1
<1>2a. ASSUME NEW v \in VCPU, RunFailsUnnoticed(v) PROVE PcAt(w)'
  <2>1. CASE w = v
    <3>1. /\ pc'[w] = pc[w] /\ unasked'[w] = unasked[w] + 1 /\ fresh'[w] = FALSE
          /\ stage[w] = "guest" /\ stage'[w] = "exited" /\ platform # "kvm"
      BY <1>2a, <2>1 DEF RunFailsUnnoticed, ThreadType
    <3>2. QED
      BY <1>T, <3>1 DEF PcAt
  <2>2. CASE w # v
    <3>1. /\ pc'[w] = pc[w] /\ unasked'[w] = unasked[w] /\ fresh'[w] = fresh[w]
          /\ stage'[w] = stage[w] /\ cur'[w] = cur[w]
      BY <1>2a, <2>2 DEF RunFailsUnnoticed, ThreadType
    <3>2. QED
      BY <1>K, <3>1
  <2>3. QED
    BY <2>1, <2>2
<1>3. ASSUME NEW v \in VCPU, LoopEnds(v) PROVE PcAt(w)'
  <2>1. /\ pc'[w] = pc[w] /\ unasked'[w] = unasked[w] /\ fresh'[w] = fresh[w] /\ cur'[w] = cur[w]
        /\ stage'[w] = stage[w] \/ (stage[w] # "exited" /\ stage'[w] # "exited")
    BY <1>3 DEF LoopEnds, ThreadType
  <2>2. QED
    BY <1>K, <1>M, <2>1
<1>4. ASSUME NEW v \in VCPU, GetExit(v) PROVE PcAt(w)'
  <2>1. /\ exit' = [exit EXCEPT ![v] = hv_get_exit(v)] /\ stage[v] = "exited"
        /\ pc' = [pc EXCEPT ![v] = IF Arm64 /\ exit'[v].reason = "MMIO" THEN @ + 1 ELSE @]
        /\ stage' = [stage EXCEPT ![v] = "decoded"] /\ UNCHANGED <<cur, unasked, fresh>>
    BY <1>4 DEF GetExit
  <2>2. CASE w = v
    <3>1. /\ stage[w] = "exited" /\ stage'[w] = "decoded"
          /\ exit'[w] = hv_get_exit(w)
          /\ pc'[w] = IF Arm64 /\ exit'[w].reason = "MMIO" THEN pc[w] + 1 ELSE pc[w]
      BY <2>1, <2>2 DEF ThreadType
    <3>2. platform = "hvf_arm64" => (hv_get_exit(w).reason = "MMIO" <=> StaysAt(cur[w]))
      <4>1. platform = "hvf_arm64" => hv_get_exit(w) = hvf_arm64_get_exit(cur[w])
        BY DEF hv_get_exit
      <4>2. hvf_arm64_get_exit(cur[w]).reason = "MMIO" <=> (IsAccess(cur[w]) \/ cur[w].op = "abort")
        BY DEF hvf_arm64_get_exit, NoExit, IsAccess
      <4>3. platform = "hvf_arm64" => (StaysAt(cur[w]) <=> (IsAccess(cur[w]) \/ cur[w].op = "abort"))
        BY DEF StaysAt
      <4>4. QED
        BY <4>1, <4>2, <4>3
    <3>3. platform = "kvm" => ~StaysAt(cur[w])
      BY DEF StaysAt
    <3>4. Arm64 <=> platform = "hvf_arm64"
      BY DEF Arm64
    <3>5. pc'[w] \in 0 .. unasked[w] /\ (fresh[w] => pc'[w] = 0)
      <4>1. CASE fresh[w]
        <5>1. pc[w] = IF StaysAt(cur[w]) THEN -1 ELSE 0
          BY <3>1, <4>1 DEF PcAt
        <5>2. pc'[w] = 0
          BY <3>1, <3>2, <3>3, <3>4, <5>1
        <5>3. QED
          BY <1>T, <5>2
      <4>2. CASE ~fresh[w]
        <5>1. pc[w] \in 0 .. unasked[w] - 1
          BY <3>1, <4>2 DEF PcAt
        <5>2. pc'[w] = pc[w] + 1 \/ pc'[w] = pc[w]
          BY <3>1
        <5>3. QED
          BY <1>T, <4>2, <5>1, <5>2
      <4>3. QED
        BY <4>1, <4>2
    <3>6. QED
      BY <2>1, <3>1, <3>5 DEF PcAt
  <2>3. CASE w # v
    <3>1. /\ pc'[w] = pc[w] /\ unasked'[w] = unasked[w] /\ fresh'[w] = fresh[w]
          /\ stage'[w] = stage[w] /\ cur'[w] = cur[w]
      BY <2>1, <2>3 DEF ThreadType
    <3>2. QED
      BY <1>K, <3>1
  <2>4. QED
    BY <2>2, <2>3
<1>5. ASSUME NEW v \in VCPU, Handle(v) PROVE PcAt(w)'
  <2>1. /\ UNCHANGED <<pc, unasked, fresh, cur>> /\ stage[v] # "exited"
        /\ \E t \in {"logging", "acking", "handled"} : stage' = [stage EXCEPT ![v] = t]
    BY <1>5, HandleFrame
  <2>2. stage'[w] = stage[w] \/ (stage[w] # "exited" /\ stage'[w] # "exited")
    BY <2>1 DEF ThreadType
  <2>3. QED
    BY <1>K, <1>M, <2>1, <2>2
<1>6. ASSUME NEW v \in VCPU, Finish(v) PROVE PcAt(w)'
  <2>1. /\ pc'[w] = pc[w] /\ unasked'[w] = unasked[w] /\ fresh'[w] = fresh[w] /\ cur'[w] = cur[w]
        /\ stage'[w] = stage[w] \/ (stage[w] # "exited" /\ stage'[w] # "exited")
    BY <1>6 DEF Finish, ThreadType
  <2>2. QED
    BY <1>K, <1>M, <2>1
<1>7. CASE UNCHANGED vars
  BY <1>7, <1>K
<1>8. QED
  BY <1>1, <1>2, <1>2a, <1>3, <1>4, <1>5, <1>6, <1>7 DEF Next, Done

\* Handling an exit gives a device at most the one access it may invent.
LEMMA HandleInvents ==
    ASSUME ThreadType, DeviceType, DecodeInv, NEW v \in VCPU, Handle(v)
    PROVE  \/ invented' = invented
           \/ /\ Inventing(v)
              /\ invented' = [invented EXCEPT ![v] = @ + 1]
<1> USE DEF Entered, Returns, device
<1>1. ASSUME stage[v] = "decoded", exit[v].reason = "MMIO", See(v, exit[v])
      PROVE  \/ invented' = invented
             \/ /\ Inventing(v)
                /\ invented' = [invented EXCEPT ![v] = @ + 1]
  <2>1. CASE Asked(v)
    BY <1>1, <2>1 DEF See
  <2>2. CASE ~Asked(v)
    <3>1. Inventing(v)
      BY <1>1, <2>2, Decoded DEF Inventing, Asked, ThreadType
    <3>2. QED
      BY <1>1, <2>2, <3>1 DEF See
  <2>3. QED
    BY <2>1, <2>2
<1>2. CASE HandleOther(v) \/ HandleStop(v) \/ vcpu_handle_io_exit(v)
  BY <1>2 DEF HandleOther, HandleStop, vcpu_handle_io_exit
<1>3. CASE MmioRead(v) \/ MmioWrite(v)
  BY <1>1, <1>3 DEF MmioRead, MmioWrite
<1>4. CASE ConsoleLog(v) \/ MmioUnmapped(v) \/ AckRead(v)
  BY <1>4 DEF ConsoleLog, MmioUnmapped, AckRead
<1>5. CASE ConsolePut(v) \/ Ack(v)
  BY <1>1, <1>5 DEF ConsolePut, Ack
<1>6. QED
  BY <1>2, <1>3, <1>4, <1>5 DEF Handle

\* Every step keeps the invented accesses within the aborts and the failed runs.
LEMMA InventStep ==
    ThreadType /\ DeviceType /\ DecodeInv /\ InventInv /\ [Next]_vars => InventInv'
<1> SUFFICES ASSUME ThreadType, DeviceType, DecodeInv, InventInv, [Next]_vars, NEW w \in VCPU
             PROVE  invented'[w] <= unasked'[w] - (IF Inventing(w)' THEN 1 ELSE 0)
  BY DEF InventInv
<1> DEFINE Goal == invented'[w] <= unasked'[w] - (IF Inventing(w)' THEN 1 ELSE 0)
<1>T. /\ invented[w] \in Nat /\ unasked[w] \in Nat
      /\ invented[w] <= unasked[w] - (IF Inventing(w) THEN 1 ELSE 0)
  BY DEF ThreadType, DeviceType, InventInv
<1>K. ASSUME invented'[w] = invented[w], unasked'[w] = unasked[w], Inventing(w)' => Inventing(w)
      PROVE  Goal
  BY <1>T, <1>K
<1>N. ASSUME invented'[w] = invented[w], unasked'[w] = unasked[w] + 1
      PROVE  Goal
  BY <1>T, <1>N
<1> HIDE DEF Goal
<1> USE DEF Entered, Returns, guest, loop, device, vars
<1>1. ASSUME NEW v \in VCPU, GuestExits(v) PROVE Goal
  <2>1. PICK a \in Instructions[platform] :
          /\ cur' = [cur EXCEPT ![v] = a]
          /\ unasked' = [unasked EXCEPT ![v] = IF a.op = "abort" THEN @ + 1 ELSE @]
    BY <1>1 DEF GuestExits
  <2>2. /\ fresh' = [fresh EXCEPT ![v] = TRUE] /\ stage' = [stage EXCEPT ![v] = "exited"]
        /\ invented' = invented
    BY <1>1 DEF GuestExits
  <2>3. CASE w = v /\ a.op = "abort"
    <3>1. unasked'[w] = unasked[w] + 1
      BY <2>1, <2>3 DEF ThreadType
    <3>2. QED
      BY <1>N, <2>2, <3>1
  <2>4. CASE w = v /\ a.op # "abort"
    <3>1. unasked'[w] = unasked[w] /\ ~Inventing(w)'
      BY <2>1, <2>2, <2>4 DEF ThreadType, Inventing
    <3>2. QED
      BY <1>K, <2>2, <3>1
  <2>5. CASE w # v
    <3>1. unasked'[w] = unasked[w] /\ (Inventing(w)' => Inventing(w))
      BY <2>1, <2>2, <2>5 DEF ThreadType, Inventing
    <3>2. QED
      BY <1>K, <2>2, <3>1
  <2>6. QED
    BY <2>3, <2>4, <2>5
<1>2. ASSUME NEW v \in VCPU, RunFails(v) PROVE Goal
  <2>1. UNCHANGED <<invented, unasked>> /\ (Inventing(w)' => Inventing(w))
    BY <1>2 DEF RunFails, ThreadType, Inventing
  <2>2. QED
    BY <1>K, <2>1
<1>2a. ASSUME NEW v \in VCPU, RunFailsUnnoticed(v) PROVE Goal
  <2>1. CASE w = v
    <3>1. unasked'[w] = unasked[w] + 1 /\ invented' = invented
      BY <1>2a, <2>1 DEF RunFailsUnnoticed, ThreadType
    <3>2. QED
      BY <1>N, <3>1
  <2>2. CASE w # v
    <3>1. unasked'[w] = unasked[w] /\ invented' = invented /\ (Inventing(w)' => Inventing(w))
      BY <1>2a, <2>2 DEF RunFailsUnnoticed, ThreadType, Inventing
    <3>2. QED
      BY <1>K, <3>1
  <2>3. QED
    BY <2>1, <2>2
<1>3. ASSUME NEW v \in VCPU, LoopEnds(v) PROVE Goal
  <2>1. UNCHANGED <<invented, unasked>> /\ (Inventing(w)' => Inventing(w))
    BY <1>3 DEF LoopEnds, ThreadType, Inventing
  <2>2. QED
    BY <1>K, <2>1
<1>4. ASSUME NEW v \in VCPU, GetExit(v) PROVE Goal
  <2>1. UNCHANGED <<invented, unasked>> /\ (Inventing(w)' => Inventing(w))
    BY <1>4 DEF GetExit, ThreadType, Inventing
  <2>2. QED
    BY <1>K, <2>1
<1>5. ASSUME NEW v \in VCPU, Handle(v) PROVE Goal
  <2>1. /\ UNCHANGED <<unasked, fresh, cur>>
        /\ \E t \in {"logging", "acking", "handled"} : stage' = [stage EXCEPT ![v] = t]
    BY <1>5, HandleFrame
  <2>2. Inventing(w)' => Inventing(w) /\ w # v
    BY <2>1 DEF ThreadType, Inventing
  <2>3. CASE invented' = invented
    BY <1>K, <2>1, <2>2, <2>3
  <2>4. CASE Inventing(v) /\ invented' = [invented EXCEPT ![v] = @ + 1]
    <3>1. CASE w = v
      <4>1. invented'[w] = invented[w] + 1 /\ ~Inventing(w)' /\ Inventing(w)
        BY <2>2, <2>4, <3>1 DEF DeviceType
      <4>2. QED
        BY <1>T, <2>1, <4>1 DEF Goal
    <3>2. CASE w # v
      <4>1. invented'[w] = invented[w]
        BY <2>4, <3>2 DEF DeviceType
      <4>2. QED
        BY <1>K, <2>1, <2>2, <4>1
    <3>3. QED
      BY <3>1, <3>2
  <2>5. QED
    BY <1>5, <2>3, <2>4, HandleInvents
<1>6. ASSUME NEW v \in VCPU, Finish(v) PROVE Goal
  <2>1. UNCHANGED <<invented, unasked>> /\ (Inventing(w)' => Inventing(w))
    BY <1>6 DEF Finish, ThreadType, Inventing
  <2>2. QED
    BY <1>K, <2>1
<1>7. CASE UNCHANGED vars
  <2>1. UNCHANGED <<stage, fresh, cur, invented, unasked>>
    BY <1>7
  <2>2. Inventing(w)' => Inventing(w)
    BY <2>1 DEF Inventing
  <2>3. invented'[w] = invented[w] /\ unasked'[w] = unasked[w]
    BY <2>1
  <2>4. QED
    BY <1>K, <2>2, <2>3 DEF Goal
<1>8. QED
  BY <1>1, <1>2, <1>2a, <1>3, <1>4, <1>5, <1>6, <1>7 DEF Next, Done, Goal

-----------------------------------------------------------------------------
(* The accesses reach the devices.                                          *)

\* An access that is handed to a device is the pending one.
LEMMA GivenStep ==
    ASSUME ThreadType, DeviceType, DecodeInv, DeliverInv, platform # "hvf_x86", platform' = platform,
           NEW v \in VCPU, stage[v] = "decoded", exit[v].reason = "MMIO", exit[v].dev # "unmapped",
           See(v, exit[v]), Asked(v), UNCHANGED <<cur, made, fresh>>,
           NEW s \in {"logging", "acking", "handled"}, stage' = [stage EXCEPT ![v] = s]
    PROVE  DeliverInv'
<1> DEFINE e == [dev |-> exit[v].dev, off |-> exit[v].off, size |-> exit[v].size,
                 write |-> exit[v].write, data |-> exit[v].data]
<1>1. Pending(v) /\ Matches(platform, e, cur[v])
  BY Decoded DEF Pending, Mapped, Matches, Asked
<1>2. exit[v] \in Exit
  BY DEF ThreadType
<1>3. e \in AccessSet
  BY <1>2 DEF Exit, AccessSet
<1>4. seen' = [seen EXCEPT ![v] = Append(@, e)]
  BY DEF See
<1> HIDE DEF e
<1>5. seen[v] \in Seq(AccessSet) /\ made[v] \in Seq(Instruction)
  BY DEF DeviceType
<1>6. /\ Len(made[v]) = Len(seen[v]) + 1 /\ made[v][Len(made[v])] = cur[v]
      /\ \A k \in 1 .. Len(seen[v]) : Matches(platform, seen[v][k], made[v][k])
  BY <1>1 DEF DeliverInv
<1>7. seen'[v] = Append(seen[v], e)
  BY <1>4 DEF DeviceType
<1>8. /\ Len(seen'[v]) = Len(seen[v]) + 1 /\ seen'[v][Len(seen[v]) + 1] = e
      /\ \A k \in 1 .. Len(seen[v]) : seen'[v][k] = seen[v][k]
  BY <1>3, <1>5, <1>7
<1>9. \A k \in 1 .. Len(seen'[v]) : Matches(platform, seen'[v][k], made[v][k])
  <2> SUFFICES ASSUME NEW k \in 1 .. Len(seen'[v]) PROVE Matches(platform, seen'[v][k], made[v][k])
    OBVIOUS
  <2>1. CASE k = Len(seen[v]) + 1
    BY <1>1, <1>6, <1>8, <2>1
  <2>2. CASE k # Len(seen[v]) + 1
    <3>1. k \in 1 .. Len(seen[v])
      BY <1>5, <1>8, <2>2
    <3>2. QED
      BY <1>6, <1>8, <3>1
  <2>3. QED
    BY <2>1, <2>2
<1>10. ASSUME NEW w \in VCPU
       PROVE  /\ Len(made'[w]) = Len(seen'[w]) + (IF Pending(w)' THEN 1 ELSE 0)
              /\ Pending(w)' => made'[w][Len(made'[w])] = cur'[w]
              /\ \A k \in 1 .. Len(seen'[w]) : Matches(platform, seen'[w][k], made'[w][k])
  <2>1. CASE w = v
    <3>1. ~Pending(w)'
      BY <2>1 DEF Pending, ThreadType
    <3>2. QED
      BY <1>6, <1>8, <1>9, <2>1, <3>1
  <2>2. CASE w # v
    <3>1. seen'[w] = seen[w] /\ (Pending(w)' <=> Pending(w))
      BY <1>4, <2>2 DEF Pending, Asked, ThreadType, DeviceType
    <3>2. QED
      BY <2>2, <3>1 DEF DeliverInv
  <2>3. QED
    BY <2>1, <2>2
<1>11. QED
  BY <1>10 DEF DeliverInv

\* Every step keeps the accesses of a vCPU and what the devices were given alike.
LEMMA DeliverStep ==
    ThreadType /\ DeviceType /\ DecodeInv /\ PcInv /\ DeliverInv /\ [Next]_vars => DeliverInv'
<1> SUFFICES ASSUME ThreadType, DeviceType, DecodeInv, PcInv, DeliverInv, [Next]_vars,
                    platform # "hvf_x86"
             PROVE  DeliverInv'
  BY PlatformKept DEF DeliverInv
<1>P. platform' = platform
  BY PlatformKept
<1>A. ASSUME UNCHANGED <<made, seen>>, \A w \in VCPU : Pending(w)' <=> Pending(w),
             \A w \in VCPU : Pending(w) => cur'[w] = cur[w]
      PROVE  DeliverInv'
  BY <1>A, <1>P DEF DeliverInv
<1>G. ASSUME NEW v \in VCPU, stage[v] = "decoded", exit[v].reason = "MMIO", exit[v].dev # "unmapped",
             See(v, exit[v]), UNCHANGED <<cur, made, fresh>>,
             NEW s \in {"logging", "acking", "handled"}, stage' = [stage EXCEPT ![v] = s]
      PROVE  DeliverInv'
  <2>1. CASE Asked(v)
    BY <1>G, <1>P, <2>1, GivenStep
  <2>2. CASE ~Asked(v)
    <3>1. UNCHANGED <<made, seen>> /\ ~Pending(v) /\ ~Pending(v)'
      BY <1>G, <2>2 DEF See, Pending, Asked
    <3>2. \A w \in VCPU : w # v => (Pending(w)' <=> Pending(w))
      BY <1>G DEF Pending, Asked, ThreadType
    <3>3. QED
      BY <1>A, <1>G, <3>1, <3>2
  <2>3. QED
    BY <2>1, <2>2
<1> USE <1>P DEF Entered, Returns, guest, loop, device, vars
<1>1. ASSUME NEW v \in VCPU, GuestExits(v) PROVE DeliverInv'
  <2>1. PICK a \in Instructions[platform] :
          /\ cur' = [cur EXCEPT ![v] = a]
          /\ made' = [made EXCEPT ![v] =
                        IF IsAccess(a) /\ Mapped(a) /\ pc[v] # -1 THEN Append(@, a) ELSE @]
    BY <1>1 DEF GuestExits
  <2>2. /\ stage[v] = "guest" /\ stage' = [stage EXCEPT ![v] = "exited"] /\ seen' = seen
        /\ fresh' = [fresh EXCEPT ![v] = TRUE]
    BY <1>1 DEF GuestExits
  <2>3. pc[v] # -1 /\ ~Pending(v)
    BY <2>2 DEF PcInv, PcAt, ThreadType, Pending
  <2>4. a \in Instruction
    BY ConstantsAssumption DEF ThreadType, IsInstruction
  <2>5. made[v] \in Seq(Instruction) /\ seen[v] \in Seq(AccessSet)
    BY DEF DeviceType
  <2>6. /\ cur'[v] = a /\ stage'[v] = "exited" /\ fresh'[v] = TRUE
        /\ made'[v] = IF IsAccess(a) /\ Mapped(a) THEN Append(made[v], a) ELSE made[v]
    BY <2>1, <2>2, <2>3 DEF ThreadType, DeviceType
  <2>7. /\ Len(made[v]) = Len(seen[v])
        /\ \A k \in 1 .. Len(seen[v]) : Matches(platform, seen[v][k], made[v][k])
    <3>1. /\ Len(made[v]) = Len(seen[v]) + (IF Pending(v) THEN 1 ELSE 0)
          /\ \A k \in 1 .. Len(seen[v]) : Matches(platform, seen[v][k], made[v][k])
      BY DEF DeliverInv
    <3>2. Len(seen[v]) \in Nat
      BY <2>5
    <3>3. QED
      BY <2>3, <3>1, <3>2
  <2>8. Pending(v)' <=> IsAccess(a) /\ Mapped(a)
    BY <2>6 DEF Pending, Asked, IsAccess, Mapped
  <2>9. ASSUME NEW w \in VCPU
        PROVE  /\ Len(made'[w]) = Len(seen'[w]) + (IF Pending(w)' THEN 1 ELSE 0)
               /\ Pending(w)' => made'[w][Len(made'[w])] = cur'[w]
               /\ \A k \in 1 .. Len(seen'[w]) : Matches(platform, seen'[w][k], made'[w][k])
    <3>1. CASE w = v /\ IsAccess(a) /\ Mapped(a)
      <4>1. /\ Len(made'[v]) = Len(made[v]) + 1 /\ made'[v][Len(made'[v])] = a
            /\ \A k \in 1 .. Len(made[v]) : made'[v][k] = made[v][k]
        BY <2>4, <2>5, <2>6, <3>1
      <4>2. QED
        BY <2>2, <2>6, <2>7, <2>8, <3>1, <4>1
    <3>2. CASE w = v /\ ~(IsAccess(a) /\ Mapped(a))
      <4>1. made'[v] = made[v] /\ seen'[v] = seen[v] /\ ~Pending(v)' /\ Len(seen[v]) \in Nat
        BY <2>2, <2>5, <2>6, <2>8, <3>2
      <4>2. Len(made'[v]) = Len(seen'[v]) + (IF Pending(v)' THEN 1 ELSE 0)
        BY <2>7, <4>1
      <4>3. QED
        BY <2>7, <3>2, <4>1, <4>2
    <3>3. CASE w # v
      <4>1. /\ made'[w] = made[w] /\ seen'[w] = seen[w] /\ cur'[w] = cur[w]
            /\ Pending(w)' <=> Pending(w)
        BY <2>1, <2>2, <3>3 DEF ThreadType, DeviceType, Pending, Asked
      <4>2. QED
        BY <4>1 DEF DeliverInv
    <3>4. QED
      BY <3>1, <3>2, <3>3
  <2>10. QED
    BY <2>9 DEF DeliverInv
<1>2. ASSUME NEW v \in VCPU, RunFails(v) PROVE DeliverInv'
  <2>1. /\ UNCHANGED <<made, seen>> /\ \A w \in VCPU : Pending(w)' <=> Pending(w)
        /\ \A w \in VCPU : Pending(w) => cur'[w] = cur[w]
    BY <1>2 DEF RunFails, ThreadType, Pending, Asked, Mapped
  <2>2. QED
    BY <1>A, <2>1
<1>2a. ASSUME NEW v \in VCPU, RunFailsUnnoticed(v) PROVE DeliverInv'
  <2>1. /\ UNCHANGED <<made, seen>> /\ \A w \in VCPU : Pending(w)' <=> Pending(w)
        /\ \A w \in VCPU : Pending(w) => cur'[w] = cur[w]
    BY <1>2a DEF RunFailsUnnoticed, ThreadType, Pending, Asked, Mapped
  <2>2. QED
    BY <1>A, <2>1
<1>3. ASSUME NEW v \in VCPU, LoopEnds(v) PROVE DeliverInv'
  <2>1. /\ UNCHANGED <<made, seen>> /\ \A w \in VCPU : Pending(w)' <=> Pending(w)
        /\ \A w \in VCPU : Pending(w) => cur'[w] = cur[w]
    BY <1>3 DEF LoopEnds, ThreadType, Pending, Asked, Mapped
  <2>2. QED
    BY <1>A, <2>1
<1>4. ASSUME NEW v \in VCPU, GetExit(v) PROVE DeliverInv'
  <2>1. /\ UNCHANGED <<made, seen>> /\ \A w \in VCPU : Pending(w)' <=> Pending(w)
        /\ \A w \in VCPU : Pending(w) => cur'[w] = cur[w]
    BY <1>4 DEF GetExit, ThreadType, Pending, Asked, Mapped
  <2>2. QED
    BY <1>A, <2>1
<1>5. ASSUME NEW v \in VCPU, HandleOther(v) PROVE DeliverInv'
  <2>1. /\ UNCHANGED <<made, seen>> /\ \A w \in VCPU : Pending(w)' <=> Pending(w)
        /\ \A w \in VCPU : Pending(w) => cur'[w] = cur[w]
    BY <1>5, Decoded DEF HandleOther, ThreadType, Pending, Asked, Mapped
  <2>2. QED
    BY <1>A, <2>1
<1>6. ASSUME NEW v \in VCPU, HandleStop(v) PROVE DeliverInv'
  <2>1. /\ UNCHANGED <<made, seen>> /\ \A w \in VCPU : Pending(w)' <=> Pending(w)
        /\ \A w \in VCPU : Pending(w) => cur'[w] = cur[w]
    BY <1>6, Decoded DEF HandleStop, ThreadType, Pending, Asked, Mapped
  <2>2. QED
    BY <1>A, <2>1
<1>7. ASSUME NEW v \in VCPU, vcpu_handle_io_exit(v) PROVE DeliverInv'
  <2>1. /\ UNCHANGED <<made, seen>> /\ \A w \in VCPU : Pending(w)' <=> Pending(w)
        /\ \A w \in VCPU : Pending(w) => cur'[w] = cur[w]
    BY <1>7, Decoded DEF vcpu_handle_io_exit, ThreadType, Pending, Asked, Mapped
  <2>2. QED
    BY <1>A, <2>1
<1>8. ASSUME NEW v \in VCPU, MmioRead(v) PROVE DeliverInv'
  <2>1. /\ stage[v] = "decoded" /\ exit[v].reason = "MMIO" /\ exit[v].dev # "unmapped"
        /\ See(v, exit[v]) /\ UNCHANGED <<cur, made, fresh>> /\ stage' = [stage EXCEPT ![v] = "handled"]
    BY <1>8 DEF MmioRead
  <2>2. QED
    BY <1>G, <2>1
<1>9. ASSUME NEW v \in VCPU, MmioWrite(v) PROVE DeliverInv'
  <2>1. /\ stage[v] = "decoded" /\ exit[v].reason = "MMIO" /\ exit[v].dev # "unmapped"
        /\ See(v, exit[v]) /\ UNCHANGED <<cur, made, fresh>> /\ stage' = [stage EXCEPT ![v] = "handled"]
    BY <1>9 DEF MmioWrite
  <2>2. QED
    BY <1>G, <2>1
<1>10. ASSUME NEW v \in VCPU, ConsolePut(v) PROVE DeliverInv'
  <2>1. /\ stage[v] = "decoded" /\ exit[v].reason = "MMIO" /\ exit[v].dev # "unmapped"
        /\ See(v, exit[v]) /\ UNCHANGED <<cur, made, fresh>> /\ stage' = [stage EXCEPT ![v] = "logging"]
    BY <1>10 DEF ConsolePut, TxOpen
  <2>2. QED
    BY <1>G, <2>1
<1>11. ASSUME NEW v \in VCPU, ConsoleLog(v) PROVE DeliverInv'
  <2>1. /\ UNCHANGED <<made, seen>> /\ \A w \in VCPU : Pending(w)' <=> Pending(w)
        /\ \A w \in VCPU : Pending(w) => cur'[w] = cur[w]
    BY <1>11 DEF ConsoleLog, ThreadType, Pending, Asked, Mapped
  <2>2. QED
    BY <1>A, <2>1
<1>12. ASSUME NEW v \in VCPU, MmioUnmapped(v) PROVE DeliverInv'
  <2>1. /\ UNCHANGED <<made, seen>> /\ \A w \in VCPU : Pending(w)' <=> Pending(w)
        /\ \A w \in VCPU : Pending(w) => cur'[w] = cur[w]
    BY <1>12, Decoded DEF MmioUnmapped, ThreadType, Pending, Asked, Mapped
  <2>2. QED
    BY <1>A, <2>1
<1>13. ASSUME NEW v \in VCPU, Ack(v) PROVE DeliverInv'
  <2>1. /\ stage[v] = "decoded" /\ exit[v].reason = "MMIO" /\ exit[v].dev # "unmapped"
        /\ See(v, exit[v]) /\ UNCHANGED <<cur, made, fresh>> /\ stage' = [stage EXCEPT ![v] = "acking"]
    BY <1>13 DEF Ack, IsAck, Virtio
  <2>2. QED
    BY <1>G, <2>1
<1>14. ASSUME NEW v \in VCPU, AckRead(v) PROVE DeliverInv'
  <2>1. /\ UNCHANGED <<made, seen>> /\ \A w \in VCPU : Pending(w)' <=> Pending(w)
        /\ \A w \in VCPU : Pending(w) => cur'[w] = cur[w]
    BY <1>14 DEF AckRead, ThreadType, Pending, Asked, Mapped
  <2>2. QED
    BY <1>A, <2>1
<1>15. ASSUME NEW v \in VCPU, Finish(v) PROVE DeliverInv'
  <2>1. /\ UNCHANGED <<made, seen>> /\ \A w \in VCPU : Pending(w)' <=> Pending(w)
        /\ \A w \in VCPU : Pending(w) => cur'[w] = cur[w]
    BY <1>15 DEF Finish, ThreadType, Pending, Asked, Mapped
  <2>2. QED
    BY <1>A, <2>1
<1>16. CASE UNCHANGED vars
  <2>1. /\ UNCHANGED <<made, seen>> /\ \A w \in VCPU : Pending(w)' <=> Pending(w)
        /\ \A w \in VCPU : Pending(w) => cur'[w] = cur[w]
    BY <1>16 DEF Pending, Asked
  <2>2. QED
    BY <1>A, <2>1
<1>17. QED
  BY <1>1, <1>2, <1>2a, <1>3, <1>4, <1>5, <1>6, <1>7, <1>8, <1>9, <1>10, <1>11, <1>12, <1>13, <1>14, <1>15,
     <1>16 DEF Next, Handle, Done

-----------------------------------------------------------------------------
(* The devices keep their types.                                            *)

\* What the MMIO console answers is a number.
LEMMA ConsoleReadType ==
    ASSUME uart \in Uart, NEW off
    PROVE  mmio_console_read(off) \in Nat
BY DEF mmio_console_read, Uart, Byte

\* A byte written to the MMIO console leaves its registers bytes.
LEMMA ConsoleRegsType ==
    ASSUME uart \in Uart, NEW off, NEW b \in Byte
    PROVE  mmio_console_regs(off, b) \in Uart
<1> DEFINE high == b >= 128
<1>1. high \in BOOLEAN
  BY DEF Byte
<1> HIDE DEF high
<1>2. /\ [uart EXCEPT !.dll = b] \in Uart /\ [uart EXCEPT !.dlm = b] \in Uart
      /\ [uart EXCEPT !.ier = b] \in Uart /\ [uart EXCEPT !.mcr = b] \in Uart
      /\ [uart EXCEPT !.scr = b] \in Uart
  BY DEF Uart
<1>3. [uart EXCEPT !.lcr = b, !.dlab = high] \in Uart
  BY <1>1 DEF Uart
<1>4. QED
  BY <1>2, <1>3 DEF mmio_console_regs, high

\* What a virtio device answers is a number.
LEMMA VirtioReadType ==
    ASSUME VirtioType(virtio), NEW d \in Virtio, NEW off \in Nat
    PROVE  virtio_mmio_read(d, off) \in Nat
<1>1. virtio[d] \in [status : Byte, features : Nat, config : [Fields[d] -> Nat]]
  BY DEF VirtioType
<1>2. virtio[d].status \in Nat /\ \A f \in Fields[d] : virtio[d].config[f] \in Nat
  BY <1>1 DEF Byte
<1>3. DeviceId[d] \in Nat
  BY DEF DeviceId, Virtio
<1>4. QED
  BY <1>2, <1>3 DEF virtio_mmio_read

\* A field of 16 bits holds every number up to 80.
LEMMA HalfFacts == HalfWord \in Nat /\ 80 < HalfWord
BY DEF HalfWord

\* A field keeps what it can of a value.
LEMMA StoredType ==
    ASSUME NEW d, NEW f, NEW val \in Nat
    PROVE  Stored(d, f, val) \in FieldType(d, f) /\ Stored(d, f, val) \in Nat
<1> DEFINE short == <<d, f>> \in Short
           low == val % HalfWord
<1>1. low \in Half /\ low \in Nat
  BY HalfFacts DEF Half
<1>2. /\ Stored(d, f, val) = IF short THEN low ELSE val
      /\ FieldType(d, f) = IF short THEN Half ELSE Nat
  BY SMT DEF Stored, FieldType
<1> HIDE DEF short, low
<1>3. CASE short
  <2>1. Stored(d, f, val) = low /\ FieldType(d, f) = Half
    BY <1>2, <1>3, Zenon
  <2>2. QED
    BY <1>1, <2>1
<1>4. CASE ~short
  <2>1. Stored(d, f, val) = val /\ FieldType(d, f) = Nat
    BY <1>2, <1>4, Zenon
  <2>2. QED
    BY <2>1
<1>5. QED
  BY <1>3, <1>4

\* A write leaves the registers and the configuration of a virtio device typed:
\* a field of 16 bits keeps 16 bits.
LEMMA VirtioWriteType ==
    ASSUME VirtioTableOf(virtio), NEW d \in Virtio, NEW off \in Nat, NEW val \in Nat
    PROVE  VirtioTableOf(virtio_mmio_write(d, off, val))
<1>1. virtio[d] \in [status : Byte, features : Nat, config : [Fields[d] -> Nat]]
  BY DEF VirtioTableOf, VirtioType
<1> DEFINE next == virtio_mmio_write(d, off, val)
           f == ConfigAt(off)
<1>2. CASE next = virtio
  BY <1>2
<1>3. ASSUME NEW r \in [status : Byte, features : Nat, config : [Fields[d] -> Nat]],
             next = [virtio EXCEPT ![d] = r],
             \A g \in Fields[d] : r.config[g] \in FieldType(d, g)
      PROVE  VirtioTableOf(next)
  <2>1. /\ DOMAIN next = Virtio /\ next = [c \in Virtio |-> next[c]] /\ next[d] = r
        /\ \A c \in Virtio : c # d => next[c] = virtio[c]
    BY <1>3 DEF VirtioTableOf
  <2> HIDE DEF next
  <2>2. ASSUME NEW c \in Virtio
        PROVE  /\ next[c] \in [status : Byte, features : Nat, config : [Fields[c] -> Nat]]
               /\ \A g \in Fields[c] : next[c].config[g] \in FieldType(c, g)
    <3>1. CASE c = d
      BY <1>3, <2>1, <3>1
    <3>2. CASE c # d
      BY <2>1, <3>2 DEF VirtioTableOf, VirtioType
    <3>3. QED
      BY <3>1, <3>2
  <2>3. VirtioType(next)
    BY <2>2 DEF VirtioType
  <2>4. QED
    BY <2>1, <2>3 DEF VirtioTableOf
<1>4. \A g \in Fields[d] : virtio[d].config[g] \in FieldType(d, g)
  BY DEF VirtioTableOf, VirtioType
<1>5. CASE off = 24
  <2> DEFINE r == [virtio[d] EXCEPT !.features = val]
  <2>1. next = [virtio EXCEPT ![d] = r]
    <3>1. next = [virtio EXCEPT ![d].features = val]
      <4>1. ~Writable(d, ConfigAt(off))
        BY <1>5 DEF Writable, ConfigAt
      <4>2. QED
        BY <1>5, <4>1 DEF virtio_mmio_write
    <3>2. QED
      BY <3>1, Zenon
  <2>2. r \in [status : Byte, features : Nat, config : [Fields[d] -> Nat]] /\ r.config = virtio[d].config
    BY <1>1
  <2> HIDE DEF next, r
  <2>3. QED
    BY <1>3, <1>4, <2>1, <2>2 DEF next
<1>6. CASE off = 64
  <2> DEFINE r == [virtio[d] EXCEPT !.status = LowByte(val)]
  <2>1. next = [virtio EXCEPT ![d] = r]
    <3>1. next = [virtio EXCEPT ![d].status = LowByte(val)]
      <4>1. ~Writable(d, ConfigAt(off))
        BY <1>6 DEF Writable, ConfigAt
      <4>2. QED
        BY <1>6, <4>1 DEF virtio_mmio_write
    <3>2. QED
      BY <3>1, Zenon
  <2>2. LowByte(val) \in Byte
    BY DEF LowByte, Byte
  <2>3. r \in [status : Byte, features : Nat, config : [Fields[d] -> Nat]] /\ r.config = virtio[d].config
    BY <1>1, <2>2
  <2> HIDE DEF next, r
  <2>4. QED
    BY <1>3, <1>4, <2>1, <2>3 DEF next
<1>7. CASE off # 24 /\ off # 64 /\ Writable(d, f)
  <2> DEFINE q == Stored(d, f, val)
             g == [virtio[d].config EXCEPT ![f] = q]
             r == [virtio[d] EXCEPT !.config = g]
  <2>1. next = [virtio EXCEPT ![d] = r]
    BY <1>7 DEF virtio_mmio_write
  <2>2. f \in Fields[d] /\ q \in FieldType(d, f) /\ q \in Nat
    <3>1. f \in Fields[d]
      <4>1. \/ d = "console" /\ f \in {0, 2}
            \/ d = "net" /\ f \in {0, 6}
        BY <1>7 DEF Writable
      <4>2. Fields["console"] = {0, 2, 4, 16} /\ Fields["net"] = {0, 6, 8}
        BY DEF Fields, Virtio
      <4>3. QED
        BY <4>1, <4>2
    <3>2. q \in FieldType(d, f) /\ q \in Nat
      BY StoredType
    <3>3. QED
      BY <3>1, <3>2
  <2> HIDE DEF f, q
  <2>3. g \in [Fields[d] -> Nat] /\ \A c \in Fields[d] : g[c] \in FieldType(d, c)
    BY <1>1, <1>4, <2>2
  <2> HIDE DEF g
  <2>4. r \in [status : Byte, features : Nat, config : [Fields[d] -> Nat]] /\ r.config = g
    BY <1>1, <2>3
  <2> HIDE DEF next, r
  <2>5. QED
    BY <1>3, <2>1, <2>3, <2>4 DEF next
<1>8. CASE off # 24 /\ off # 64 /\ ~Writable(d, f)
  BY <1>2, <1>8 DEF virtio_mmio_write
<1>9. QED
  BY <1>5, <1>6, <1>7, <1>8

\* The bytes of a port access are bytes.
LEMMA PortBytes ==
    ASSUME NEW v \in VCPU, NEW e, e.data \in Nat, e.size \in {1, 2, 4}
    PROVE  /\ OutBytes(v, e) \in Seq(Prints)
           /\ \A k \in 1 .. Len(OutBytes(v, e)) : OutBytes(v, e)[k].via = "com1"
<1> DEFINE b(k) == Printed(v, (e.data \div Weight[k]) % 256, "com1")
<1>1. ASSUME NEW k \in 1 .. e.size PROVE b(k) \in Prints /\ b(k).via = "com1"
  <2>1. Weight[k] \in Nat \ {0}
    BY DEF Weight
  <2>2. e.data \div Weight[k] \in Nat
    BY <2>1
  <2>3. (e.data \div Weight[k]) % 256 \in Byte
    BY <2>2 DEF Byte
  <2>4. QED
    BY <2>3 DEF Printed, Prints
<1>2. OutBytes(v, e) = [k \in 1 .. e.size |-> b(k)] /\ e.size \in Nat
  BY DEF OutBytes
<1> HIDE DEF b
<1>3. [k \in 1 .. e.size |-> b(k)] \in Seq(Prints)
  BY <1>1, <1>2
<1>4. Len([k \in 1 .. e.size |-> b(k)]) = e.size
  BY <1>2
<1>5. QED
  BY <1>1, <1>2, <1>3, <1>4

\* Every step keeps the types of the devices, the streams and the histories.
LEMMA DeviceStep == ThreadType /\ DecodeInv /\ DeviceType /\ [Next]_vars => DeviceType'
<1> SUFFICES ASSUME ThreadType, DecodeInv, DeviceType, [Next]_vars PROVE DeviceType'
  OBVIOUS
<1>A. ASSUME NEW v \in VCPU, stage[v] = "decoded"
      PROVE  /\ exit[v] \in Exit /\ LowByte(exit[v].data) \in Byte
             /\ exit[v].off \in Nat /\ exit[v].data \in Nat
             /\ [dev |-> exit[v].dev, off |-> exit[v].off, size |-> exit[v].size,
                 write |-> exit[v].write, data |-> exit[v].data] \in AccessSet
  <2>1. exit[v] \in Exit
    BY DEF ThreadType
  <2>2. QED
    BY <2>1 DEF Exit, AccessSet, LowByte, Byte
<1>S. ASSUME NEW v \in VCPU, stage[v] = "decoded", See(v, exit[v])
      PROVE  seen' \in [VCPU -> Seq(AccessSet)] /\ invented' \in [VCPU -> Nat]
  <2> DEFINE e == [dev |-> exit[v].dev, off |-> exit[v].off, size |-> exit[v].size,
                   write |-> exit[v].write, data |-> exit[v].data]
  <2>1. /\ e \in AccessSet
        /\ \/ seen' = [seen EXCEPT ![v] = Append(@, e)] /\ invented' = invented
           \/ seen' = seen /\ invented' = [invented EXCEPT ![v] = @ + 1]
    BY <1>A, <1>S DEF See
  <2> HIDE DEF e
  <2>2. /\ seen \in [VCPU -> Seq(AccessSet)] /\ invented \in [VCPU -> Nat]
    BY DEF DeviceType
  <2>3. [seen EXCEPT ![v] = Append(@, e)] \in [VCPU -> Seq(AccessSet)]
    BY <2>1, <2>2
  <2>4. [invented EXCEPT ![v] = @ + 1] \in [VCPU -> Nat]
    BY <2>2
  <2>5. QED
    BY <2>1, <2>2, <2>3, <2>4, Zenon
<1>L. ASSUME NEW v \in VCPU
      PROVE  Printed(v, LowByte(exit[v].data), "uart") \in Prints
  <2>1. exit[v].data \in Nat
    BY DEF ThreadType, Exit
  <2>2. QED
    BY <2>1 DEF Printed, Prints, LowByte, Byte
<1> USE DEF DeviceType, Entered, Returns, guest, loop, device, vars
<1>1. ASSUME NEW v \in VCPU, GuestExits(v) PROVE DeviceType'
  <2>1. PICK a \in Instructions[platform] :
          made' = [made EXCEPT ![v] =
                     IF IsAccess(a) /\ Mapped(a) /\ pc[v] # -1 THEN Append(@, a) ELSE @]
    BY <1>1 DEF GuestExits
  <2>2. a \in Instruction
    BY ConstantsAssumption DEF ThreadType, IsInstruction
  <2>3. made' \in [VCPU -> Seq(Instruction)]
    BY <2>1, <2>2
  <2>4. QED
    BY <1>1, <2>3 DEF GuestExits
<1>2. ASSUME NEW v \in VCPU, RunFails(v) PROVE DeviceType'
  BY <1>2 DEF RunFails
<1>2a. ASSUME NEW v \in VCPU, RunFailsUnnoticed(v) PROVE DeviceType'
  BY <1>2a DEF RunFailsUnnoticed
<1>3. ASSUME NEW v \in VCPU, LoopEnds(v) PROVE DeviceType'
  BY <1>3 DEF LoopEnds
<1>4. ASSUME NEW v \in VCPU, GetExit(v) PROVE DeviceType'
  BY <1>4 DEF GetExit
<1>5. ASSUME NEW v \in VCPU, HandleOther(v) PROVE DeviceType'
  BY <1>5 DEF HandleOther
<1>6. ASSUME NEW v \in VCPU, HandleStop(v) PROVE DeviceType'
  BY <1>6 DEF HandleStop
<1>7. ASSUME NEW v \in VCPU, vcpu_handle_io_exit(v) PROVE DeviceType'
  <2>1. /\ stage[v] = "decoded" /\ exit[v].reason = "IO" /\ UNCHANGED <<uart, virtio, log, seen, invented, answer, made>>
        /\ \/ stdout' = stdout
           \/ stdout' = stdout \o OutBytes(v, exit[v])
    BY <1>7 DEF vcpu_handle_io_exit
  <2>2. exit[v].size \in {1, 2, 4} /\ exit[v].data \in Nat
    BY <2>1, <1>A, Decoded
  <2>3. OutBytes(v, exit[v]) \in Seq(Prints)
    BY <2>2, PortBytes
  <2>4. stdout' \in Seq(Prints)
    <3> DEFINE t == OutBytes(v, exit[v])
    <3>1. t \in Seq(Prints) /\ (stdout' = stdout \/ stdout' = stdout \o t)
      BY <2>1, <2>3
    <3>2. stdout \in Seq(Prints)
      OBVIOUS
    <3> HIDE DEF t, DeviceType
    <3>3. stdout \o t \in Seq(Prints)
      BY <3>1, <3>2, ConcatProperties
    <3>4. QED
      BY <3>1, <3>2, <3>3
  <2>5. QED
    BY <2>1, <2>4
<1>8. ASSUME NEW v \in VCPU, MmioRead(v) PROVE DeviceType'
  <2>1. /\ stage[v] = "decoded" /\ exit[v].reason = "MMIO" /\ See(v, exit[v])
        /\ exit[v].dev # "unmapped" /\ UNCHANGED <<uart, virtio, stdout, log, made>>
        /\ answer' = [answer EXCEPT ![v] =
                        IF exit[v].dev = "uart" THEN mmio_console_read(exit[v].off)
                        ELSE IF exit[v].size = 4 THEN virtio_mmio_read(exit[v].dev, exit[v].off) ELSE @]
    BY <1>8 DEF MmioRead
  <2>2. exit[v].dev = "uart" \/ exit[v].dev \in Virtio
    BY <2>1, Decoded
  <2>3. mmio_console_read(exit[v].off) \in Nat
    BY ConsoleReadType
  <2>4. exit[v].dev \in Virtio => virtio_mmio_read(exit[v].dev, exit[v].off) \in Nat
    BY <1>A, <2>1, VirtioReadType DEF VirtioTableOf
  <2>5. answer' \in [VCPU -> Nat]
    BY <2>1, <2>2, <2>3, <2>4 DEF Virtio
  <2>6. QED
    BY <1>S, <2>1, <2>5
<1>9. ASSUME NEW v \in VCPU, MmioWrite(v) PROVE DeviceType'
  <2>1. /\ stage[v] = "decoded" /\ exit[v].reason = "MMIO" /\ See(v, exit[v])
        /\ UNCHANGED <<stdout, log, made, answer>>
        /\ uart' = IF exit[v].dev = "uart" THEN mmio_console_regs(exit[v].off, LowByte(exit[v].data))
                   ELSE uart
        /\ virtio' = IF exit[v].dev \in Virtio /\ exit[v].size = 4
                       THEN virtio_mmio_write(exit[v].dev, exit[v].off, exit[v].data) ELSE virtio
    BY <1>9 DEF MmioWrite
  <2>2. uart' \in Uart
    BY <1>A, <2>1, ConsoleRegsType
  <2>3. VirtioTableOf(virtio')
    BY <1>A, <2>1, VirtioWriteType
  <2>4. QED
    BY <1>S, <2>1, <2>2, <2>3
<1>10. ASSUME NEW v \in VCPU, ConsolePut(v) PROVE DeviceType'
  <2>1. stdout' \in Seq(Prints)
    BY <1>10, <1>L DEF ConsolePut
  <2>2. QED
    BY <1>10, <1>S, <2>1 DEF ConsolePut
<1>11. ASSUME NEW v \in VCPU, ConsoleLog(v) PROVE DeviceType'
  <2>1. log' \in Seq(Prints)
    BY <1>11, <1>L DEF ConsoleLog
  <2>2. QED
    BY <1>11, <2>1 DEF ConsoleLog
<1>12. ASSUME NEW v \in VCPU, MmioUnmapped(v) PROVE DeviceType'
  BY <1>12 DEF MmioUnmapped
<1>13. ASSUME NEW v \in VCPU, Ack(v) PROVE DeviceType'
  BY <1>13, <1>S DEF Ack
<1>14. ASSUME NEW v \in VCPU, AckRead(v) PROVE DeviceType'
  BY <1>14 DEF AckRead
<1>15. ASSUME NEW v \in VCPU, Finish(v) PROVE DeviceType'
  BY <1>15 DEF Finish
<1>16. CASE UNCHANGED vars
  BY <1>16
<1>17. QED
  BY <1>1, <1>2, <1>2a, <1>3, <1>4, <1>5, <1>6, <1>7, <1>8, <1>9, <1>10, <1>11, <1>12, <1>13, <1>14, <1>15,
     <1>16 DEF Next, Handle, Done

-----------------------------------------------------------------------------
(* The log of the console follows its output.                               *)

\* What a stream with one more entry has of each vCPU.
Appended(s, t, x, v) ==
    /\ \A k \in By(s, v) : k \in 1 .. Len(s) /\ t[k] = s[k]
    /\ x.by = v /\ x.via = "uart" => By(t, v) = By(s, v) \cup {Len(s) + 1}
    /\ x.by # v => By(t, v) = By(s, v)
    /\ t[Len(s) + 1] = x

\* Append() gives such a stream.
LEMMA ByAppend ==
    ASSUME NEW s \in Seq(Prints), NEW x \in Prints, NEW v
    PROVE  Appended(s, Append(s, x), x, v)
<1>1. /\ DOMAIN s = 1 .. Len(s) /\ DOMAIN Append(s, x) = 1 .. (Len(s) + 1) /\ Len(s) \in Nat
      /\ Append(s, x)[Len(s) + 1] = x /\ \A k \in 1 .. Len(s) : Append(s, x)[k] = s[k]
  OBVIOUS
<1> DEFINE t == Append(s, x)
           n == Len(s) + 1
<1>2. /\ DOMAIN s = 1 .. n - 1 /\ DOMAIN t = 1 .. n /\ n \in Nat \ {0}
      /\ t[n] = x /\ \A k \in 1 .. n - 1 : t[k] = s[k]
  BY <1>1
<1> HIDE DEF t, n
<1>3. /\ \A k \in By(s, v) : k \in 1 .. n - 1 /\ t[k] = s[k]
      /\ x.by = v /\ x.via = "uart" => By(t, v) = By(s, v) \cup {n}
      /\ x.by # v => By(t, v) = By(s, v)
  BY <1>2 DEF By
<1>4. QED
  BY <1>1, <1>3 DEF t, n, Appended

\* Stream t has what s has of v.
SameOf(s, t, v) == By(t, v) = By(s, v) /\ \A k \in By(s, v) : t[k] = s[k]

\* Bytes printed through COM1 are none of the MMIO console.
LEMMA ByConcat ==
    ASSUME NEW s \in Seq(Prints), NEW u \in Seq(Prints), \A k \in 1 .. Len(u) : u[k].via = "com1", NEW v
    PROVE  SameOf(s, s \o u, v)
<1>1. /\ Len(s) \in Nat /\ Len(u) \in Nat /\ DOMAIN s = 1 .. Len(s) /\ s \o u \in Seq(Prints)
      /\ Len(s \o u) = Len(s) + Len(u)
      /\ \A k \in 1 .. Len(s) + Len(u) :
           (s \o u)[k] = IF k <= Len(s) THEN s[k] ELSE u[k - Len(s)]
  BY ConcatProperties
<1> DEFINE t == s \o u
<1>2. DOMAIN t = 1 .. Len(s) + Len(u)
  BY <1>1
<1> HIDE DEF t
<1>3. ASSUME NEW k \in 1 .. Len(s) + Len(u)
      PROVE  /\ k \in 1 .. Len(s) => t[k] = s[k]
             /\ k \notin 1 .. Len(s) => t[k].via = "com1"
  <2>1. CASE k <= Len(s)
    BY <1>1, <2>1 DEF t
  <2>2. CASE ~(k <= Len(s))
    <3>1. k - Len(s) \in 1 .. Len(u) /\ t[k] = u[k - Len(s)]
      BY <1>1, <2>2 DEF t
    <3>2. QED
      BY <1>1, <2>2, <3>1
  <2>3. QED
    BY <2>1, <2>2
<1>4. 1 .. Len(s) \subseteq 1 .. Len(s) + Len(u)
  BY <1>1
<1>5. By(t, v) = By(s, v) /\ \A k \in By(s, v) : t[k] = s[k]
  BY <1>1, <1>2, <1>3, <1>4 DEF By
<1>6. QED
  BY <1>5 DEF t, SameOf

\* The two streams and the thread of w are as they were for w.
Kept(w) ==
    /\ By(stdout', w) = By(stdout, w) /\ By(log', w) = By(log, w)
    /\ \A k \in By(stdout, w) : stdout'[k] = stdout[k]
    /\ \A k \in By(log, w) : log'[k] = log[k]
    /\ stage'[w] = "logging" <=> stage[w] = "logging"
    /\ stage[w] = "logging" => exit'[w] = exit[w]

\* What ConsoleInv says of v is about the entries of v and its thread.
LEMMA KeptConsole ==
    ASSUME NEW w \in VCPU, Kept(w), ConsoleAt(w)
    PROVE  ConsoleAt(w)'
<1>1. Logged(w)' = Logged(w)
  BY DEF Kept, Logged
<1>2. ASSUME NEW f, Corresponds(f, w) PROVE Corresponds(f, w)'
  <2>1. f \in [By(log', w) -> By(stdout', w)] /\ {f[k] : k \in By(log', w)} = Logged(w)'
    BY <1>1, <1>2, Zenon DEF Kept, Corresponds
  <2>2. \A k, l \in By(log', w) : k < l => f[k] < f[l]
    BY <1>2, Zenon DEF Kept, Corresponds
  <2>3. \A k \in By(log', w) : log'[k].byte = stdout'[f[k]].byte
    BY <1>2 DEF Kept, Corresponds
  <2>4. QED
    BY <2>1, <2>2, <2>3, Zenon DEF Corresponds
<1>3. LogFile => (\E f : Corresponds(f, w))'
  <2> SUFFICES ASSUME LogFile PROVE (\E f : Corresponds(f, w))'
    OBVIOUS
  <2>1. PICK f : Corresponds(f, w)
    BY DEF ConsoleAt
  <2>2. Corresponds(f, w)'
    BY <1>2, <2>1
  <2>3. QED
    BY <2>2, Zenon
<1>4. LastPrinted(w)'
  <2> SUFFICES ASSUME stage'[w] = "logging" PROVE LastPrinted(w)'
    BY Zenon DEF LastPrinted
  <2>1. stage[w] = "logging" /\ exit'[w] = exit[w]
    BY DEF Kept
  <2>2. PICK l \in By(stdout, w) : /\ \A k \in By(stdout, w) : k <= l
                                   /\ stdout[l].byte = LowByte(exit[w].data)
    BY <2>1 DEF ConsoleAt, LastPrinted
  <2>3. /\ l \in By(stdout', w) /\ \A k \in By(stdout', w) : k <= l
        /\ stdout'[l].byte = LowByte(exit'[w].data)
    BY <2>1, <2>2 DEF Kept
  <2>4. QED
    BY <2>3 DEF LastPrinted
<1>5. QED
  BY <1>3, <1>4, Zenon DEF ConsoleAt

\* A byte that is printed is the last of its vCPU, and the log lacks it.
LEMMA PutConsole ==
    ASSUME ThreadType, DeviceType, NEW v \in VCPU, ConsoleAt(v), ConsolePut(v)
    PROVE  ConsoleAt(v)'
<1> DEFINE x == Printed(v, LowByte(exit[v].data), "uart")
           n == Len(stdout) + 1
<1>1. /\ stdout' = Append(stdout, x) /\ log' = log /\ exit' = exit
      /\ stage[v] = "decoded" /\ stage'[v] = "logging"
  BY DEF ConsolePut, Entered, ThreadType
<1>2. x \in Prints /\ stdout \in Seq(Prints) /\ n \in Nat
  <2>1. exit[v].data \in Nat
    BY DEF ThreadType, Exit
  <2>2. LowByte(exit[v].data) \in Byte
    BY <2>1 DEF LowByte, Byte
  <2>3. QED
    BY <2>2 DEF DeviceType, Printed, Prints
<1>3. x.by = v /\ x.via = "uart" /\ x.byte = LowByte(exit[v].data)
  BY DEF Printed
<1> HIDE DEF x
<1>4. /\ \A k \in By(stdout, v) : k \in 1 .. Len(stdout) /\ stdout'[k] = stdout[k]
      /\ By(stdout', v) = By(stdout, v) \cup {n} /\ stdout'[n] = x
  <2>1. Appended(stdout, Append(stdout, x), x, v)
    BY <1>2, ByAppend
  <2>2. Appended(stdout, stdout', x, v)
    BY <1>1, <2>1
  <2>3. QED
    BY <1>3, <2>2 DEF Appended
<1>5. \A k \in By(stdout, v) : k \in Nat /\ k < n
  BY <1>2, <1>4
<1> HIDE DEF n
<1>6. Logged(v) = By(stdout, v)
  BY <1>1 DEF Logged
<1>7. Logged(v)' = By(stdout, v)
  <2>1. Logged(v)' = {k \in By(stdout', v) : \E l \in By(stdout', v) : k < l}
    BY <1>1 DEF Logged
  <2>2. ~(n < n) /\ \A l \in By(stdout, v) : ~(n < l)
    BY <1>2, <1>5
  <2>3. QED
    BY <1>4, <1>5, <2>1, <2>2
<1>8. ASSUME NEW f, Corresponds(f, v) PROVE Corresponds(f, v)'
  <2>1. By(stdout, v) \subseteq By(stdout', v) /\ log' = log
    BY <1>1, <1>4
  <2>2. f \in [By(log', v) -> By(stdout', v)]
    BY <1>8, <2>1 DEF Corresponds
  <2>3. {f[k] : k \in By(log', v)} = Logged(v)'
    BY <1>6, <1>7, <1>8, <2>1, Zenon DEF Corresponds
  <2>4. \A k, l \in By(log', v) : k < l => f[k] < f[l]
    BY <1>8, <2>1, Zenon DEF Corresponds
  <2>5. \A k \in By(log', v) : log'[k].byte = stdout'[f[k]].byte
    BY <1>4, <1>8, <2>1 DEF Corresponds
  <2>6. QED
    BY <2>2, <2>3, <2>4, <2>5, Zenon DEF Corresponds
<1>9. LogFile => (\E f : Corresponds(f, v))'
  <2> SUFFICES ASSUME LogFile PROVE (\E f : Corresponds(f, v))'
    OBVIOUS
  <2>1. PICK f : Corresponds(f, v)
    BY DEF ConsoleAt
  <2>2. Corresponds(f, v)'
    BY <1>8, <2>1
  <2>3. QED
    BY <2>2, Zenon
<1>10. LastPrinted(v)'
  <2>1. /\ n \in By(stdout', v) /\ \A k \in By(stdout', v) : k <= n
        /\ stdout'[n].byte = LowByte(exit'[v].data)
    BY <1>1, <1>2, <1>3, <1>4, <1>5
  <2>2. QED
    BY <2>1 DEF LastPrinted
<1>11. QED
  BY <1>9, <1>10, Zenon DEF ConsoleAt

\* A byte that is logged is the last one its vCPU printed.
LEMMA LogConsole ==
    ASSUME ThreadType, DeviceType, NEW v \in VCPU, ConsoleAt(v), ConsoleLog(v), LogFile
    PROVE  ConsoleAt(v)'
<1> DEFINE x == Printed(v, LowByte(exit[v].data), "uart")
           m == Len(log) + 1
<1>1. /\ log' = Append(log, x) /\ stdout' = stdout
      /\ stage[v] = "logging" /\ stage'[v] = "handled"
  BY DEF ConsoleLog, Returns, ThreadType
<1>2. x \in Prints /\ log \in Seq(Prints) /\ m \in Nat
  <2>1. exit[v].data \in Nat
    BY DEF ThreadType, Exit
  <2>2. LowByte(exit[v].data) \in Byte
    BY <2>1 DEF LowByte, Byte
  <2>3. QED
    BY <2>2 DEF DeviceType, Printed, Prints
<1>3. x.by = v /\ x.via = "uart" /\ x.byte = LowByte(exit[v].data)
  BY DEF Printed
<1> HIDE DEF x
<1>4. /\ \A k \in By(log, v) : k \in 1 .. Len(log) /\ log'[k] = log[k]
      /\ By(log', v) = By(log, v) \cup {m} /\ log'[m] = x
  <2>1. log' = Append(log, x)
    BY <1>1
  <2>2. /\ \A k \in By(log, v) : k \in 1 .. Len(log) /\ Append(log, x)[k] = log[k]
        /\ By(Append(log, x), v) = By(log, v) \cup {Len(log) + 1} /\ Append(log, x)[Len(log) + 1] = x
    <3>1. x \in Prints /\ log \in Seq(Prints)
      BY <1>2
    <3>2. Appended(log, Append(log, x), x, v)
      BY <3>1, ByAppend
    <3>3. QED
      BY <1>3, <3>2, Zenon DEF Appended
  <2>3. m = Len(log) + 1
    OBVIOUS
  <2> HIDE DEF m
  <2>4. By(log', v) = By(log, v) \cup {m} /\ log'[m] = x
    BY <2>1, <2>2, <2>3, Zenon
  <2>5. QED
    BY <2>1, <2>2, <2>4, Zenon
<1>5. \A k \in By(log, v) : k \in Nat /\ k < m
  BY <1>2, <1>4
<1> HIDE DEF m
<1>6. PICK l \in By(stdout, v) : /\ \A k \in By(stdout, v) : k <= l
                                 /\ stdout[l].byte = LowByte(exit[v].data)
  BY <1>1 DEF ConsoleAt, LastPrinted
<1>7. \A k \in By(stdout, v) : k \in Nat
  <2>1. DOMAIN stdout = 1 .. Len(stdout) /\ Len(stdout) \in Nat
    BY DEF DeviceType
  <2>2. QED
    BY <2>1 DEF By
<1>8. /\ Logged(v) \cup {l} = By(stdout, v) /\ \A k \in Logged(v) : k < l
  <2>1. Logged(v) = {k \in By(stdout, v) : \E j \in By(stdout, v) : k < j}
    BY <1>1 DEF Logged
  <2>2. \A k \in Logged(v) : k < l
    BY <1>6, <1>7, <2>1
  <2>3. \A k \in By(stdout, v) : k = l \/ k < l
    BY <1>6, <1>7
  <2>4. QED
    BY <1>6, <2>1, <2>2, <2>3
<1>9. Logged(v)' = By(stdout, v)
  BY <1>1 DEF Logged
<1>10. PICK f : Corresponds(f, v)
  BY DEF ConsoleAt
<1>11. /\ f \in [By(log, v) -> By(stdout, v)] /\ {f[k] : k \in By(log, v)} = Logged(v)
       /\ \A i, j \in By(log, v) : i < j => f[i] < f[j]
       /\ \A k \in By(log, v) : log[k].byte = stdout[f[k]].byte
  BY <1>10, Zenon DEF Corresponds
<1>G. PICK g : g = [k \in By(log', v) |-> IF k = m THEN l ELSE f[k]]
  OBVIOUS
<1>12. /\ g[m] = l /\ \A k \in By(log, v) : g[k] = f[k] /\ f[k] \in Logged(v)
  <2>1. \A k \in By(log, v) : k # m
    BY <1>2, <1>5
  <2>2. \A k \in By(log, v) : f[k] \in Logged(v)
    BY <1>11
  <2>3. QED
    BY <1>4, <1>G, <2>1, <2>2
<1>13. g \in [By(log', v) -> By(stdout', v)]
  BY <1>1, <1>4, <1>6, <1>11, <1>G
<1>14. {g[k] : k \in By(log', v)} = Logged(v)'
  <2>1. {g[k] : k \in By(log', v)} = {f[k] : k \in By(log, v)} \cup {l}
    BY <1>4, <1>12
  <2>2. QED
    BY <1>8, <1>9, <1>11, <2>1
<1>15. ASSUME NEW i \in By(log', v), NEW j \in By(log', v), i < j PROVE g[i] < g[j]
  <2>1. i # m
    BY <1>2, <1>4, <1>5, <1>15
  <2>2. i \in By(log, v) /\ g[i] = f[i] /\ f[i] \in Logged(v)
    BY <1>4, <1>12, <2>1
  <2>3. CASE j = m
    BY <1>8, <1>12, <2>2, <2>3
  <2>4. CASE j # m
    <3>1. j \in By(log, v) /\ g[j] = f[j]
      BY <1>4, <1>12, <2>4
    <3>2. QED
      BY <1>11, <1>15, <2>2, <3>1
  <2>5. QED
    BY <2>3, <2>4
<1>16. ASSUME NEW k \in By(log', v) PROVE log'[k].byte = stdout'[g[k]].byte
  <2>1. CASE k = m
    BY <1>1, <1>3, <1>4, <1>6, <1>12, <2>1
  <2>2. CASE k # m
    BY <1>1, <1>4, <1>11, <1>12, <2>2
  <2>3. QED
    BY <2>1, <2>2
<1>17. Corresponds(g, v)'
  <2>1. g \in [By(log', v) -> By(stdout', v)]
    BY <1>13
  <2>2. \A i, j \in By(log', v) : i < j => g[i] < g[j]
    BY <1>15
  <2>3. \A k \in By(log', v) : log'[k].byte = stdout'[g[k]].byte
    BY <1>16
  <2>4. QED
    BY <1>14, <2>1, <2>2, <2>3, Zenon DEF Corresponds
<1>18. (\E h : Corresponds(h, v))'
  BY <1>17
<1>19. LastPrinted(v)'
  BY <1>1 DEF LastPrinted
<1>20. QED
  BY <1>18, <1>19, Zenon DEF ConsoleAt

\* Every step keeps the log of each vCPU its output.
LEMMA ConsoleStep ==
    ThreadType /\ DeviceType /\ DecodeInv /\ ConsoleInv /\ [Next]_vars => ConsoleInv'
<1> SUFFICES ASSUME ThreadType, DeviceType, DecodeInv, ConsoleInv, [Next]_vars PROVE ConsoleInv'
  OBVIOUS
<1>K. ASSUME \A w \in VCPU : Kept(w) PROVE ConsoleInv'
  BY <1>K, KeptConsole, Zenon DEF ConsoleInv
<1>W. ASSUME NEW v \in VCPU, \A w \in VCPU : w # v => Kept(w), ConsoleAt(v)' PROVE ConsoleInv'
  BY <1>W, KeptConsole, Zenon DEF ConsoleInv
<1>P. ASSUME NEW v \in VCPU
      PROVE  /\ Printed(v, LowByte(exit[v].data), "uart") \in Prints
             /\ Printed(v, LowByte(exit[v].data), "uart").by = v
  <2>1. exit[v].data \in Nat
    BY DEF ThreadType, Exit
  <2>2. QED
    BY <2>1 DEF Printed, Prints, LowByte, Byte
<1>Q. stdout \in Seq(Prints) /\ log \in Seq(Prints)
  BY DEF DeviceType
<1> USE DEF Entered, Returns, guest, loop, device, vars
<1>1. ASSUME NEW v \in VCPU, GuestExits(v) PROVE ConsoleInv'
  <2>1. /\ UNCHANGED <<stdout, log>>
        /\ \A w \in VCPU : /\ stage'[w] = "logging" <=> stage[w] = "logging"
                           /\ stage[w] = "logging" => exit'[w] = exit[w]
    BY <1>1 DEF GuestExits, ThreadType
  <2>2. QED
    BY <1>K, <2>1 DEF Kept
<1>2. ASSUME NEW v \in VCPU, RunFails(v) PROVE ConsoleInv'
  <2>1. /\ UNCHANGED <<stdout, log>>
        /\ \A w \in VCPU : /\ stage'[w] = "logging" <=> stage[w] = "logging"
                           /\ stage[w] = "logging" => exit'[w] = exit[w]
    BY <1>2 DEF RunFails, ThreadType
  <2>2. QED
    BY <1>K, <2>1 DEF Kept
<1>2a. ASSUME NEW v \in VCPU, RunFailsUnnoticed(v) PROVE ConsoleInv'
  <2>1. /\ UNCHANGED <<stdout, log>>
        /\ \A w \in VCPU : /\ stage'[w] = "logging" <=> stage[w] = "logging"
                           /\ stage[w] = "logging" => exit'[w] = exit[w]
    BY <1>2a DEF RunFailsUnnoticed, ThreadType
  <2>2. QED
    BY <1>K, <2>1 DEF Kept
<1>3. ASSUME NEW v \in VCPU, LoopEnds(v) PROVE ConsoleInv'
  <2>1. /\ UNCHANGED <<stdout, log>>
        /\ \A w \in VCPU : /\ stage'[w] = "logging" <=> stage[w] = "logging"
                           /\ stage[w] = "logging" => exit'[w] = exit[w]
    BY <1>3 DEF LoopEnds, ThreadType
  <2>2. QED
    BY <1>K, <2>1 DEF Kept
<1>4. ASSUME NEW v \in VCPU, GetExit(v) PROVE ConsoleInv'
  <2>1. /\ UNCHANGED <<stdout, log>>
        /\ \A w \in VCPU : /\ stage'[w] = "logging" <=> stage[w] = "logging"
                           /\ stage[w] = "logging" => exit'[w] = exit[w]
    BY <1>4 DEF GetExit, ThreadType
  <2>2. QED
    BY <1>K, <2>1 DEF Kept
<1>5. ASSUME NEW v \in VCPU, HandleOther(v) PROVE ConsoleInv'
  <2>1. /\ UNCHANGED <<stdout, log>>
        /\ \A w \in VCPU : /\ stage'[w] = "logging" <=> stage[w] = "logging"
                           /\ stage[w] = "logging" => exit'[w] = exit[w]
    BY <1>5 DEF HandleOther, ThreadType
  <2>2. QED
    BY <1>K, <2>1 DEF Kept
<1>6. ASSUME NEW v \in VCPU, HandleStop(v) PROVE ConsoleInv'
  <2>1. /\ UNCHANGED <<stdout, log>>
        /\ \A w \in VCPU : /\ stage'[w] = "logging" <=> stage[w] = "logging"
                           /\ stage[w] = "logging" => exit'[w] = exit[w]
    BY <1>6 DEF HandleStop, ThreadType
  <2>2. QED
    BY <1>K, <2>1 DEF Kept
<1>7. ASSUME NEW v \in VCPU, vcpu_handle_io_exit(v) PROVE ConsoleInv'
  <2> DEFINE u == OutBytes(v, exit[v])
  <2>1. /\ log' = log /\ exit' = exit /\ stage[v] = "decoded" /\ exit[v].reason = "IO"
        /\ stage' = [stage EXCEPT ![v] = "handled"]
        /\ stdout' = stdout \/ stdout' = stdout \o u
    BY <1>7 DEF vcpu_handle_io_exit
  <2>2. exit[v].size \in {1, 2, 4} /\ exit[v].data \in Nat
    BY <2>1, Decoded DEF ThreadType, Exit
  <2>3. u \in Seq(Prints)
    BY <2>2, PortBytes
  <2>4. \A k \in 1 .. Len(u) : u[k].via = "com1"
    BY <2>2, PortBytes
  <2> HIDE DEF u
  <2>5. ASSUME NEW w \in VCPU
        PROVE  By(stdout', w) = By(stdout, w) /\ \A k \in By(stdout, w) : stdout'[k] = stdout[k]
    <3>1. CASE stdout' = stdout
      BY <3>1
    <3>2. CASE stdout' = stdout \o u
      <4>1. SameOf(stdout, stdout \o u, w)
        BY <1>Q, <2>3, <2>4, ByConcat
      <4>2. QED
        BY <3>2, <4>1, Zenon DEF SameOf
    <3>3. QED
      BY <2>1, <3>1, <3>2
  <2>6. ASSUME NEW w \in VCPU PROVE stage'[w] = "logging" <=> stage[w] = "logging"
    BY <2>1 DEF ThreadType
  <2>7. QED
    BY <1>K, <2>1, <2>5, <2>6 DEF Kept
<1>8. ASSUME NEW v \in VCPU, MmioRead(v) PROVE ConsoleInv'
  <2>1. /\ UNCHANGED <<stdout, log>>
        /\ \A w \in VCPU : /\ stage'[w] = "logging" <=> stage[w] = "logging"
                           /\ stage[w] = "logging" => exit'[w] = exit[w]
    BY <1>8 DEF MmioRead, ThreadType
  <2>2. QED
    BY <1>K, <2>1 DEF Kept
<1>9. ASSUME NEW v \in VCPU, MmioWrite(v) PROVE ConsoleInv'
  <2>1. /\ UNCHANGED <<stdout, log>>
        /\ \A w \in VCPU : /\ stage'[w] = "logging" <=> stage[w] = "logging"
                           /\ stage[w] = "logging" => exit'[w] = exit[w]
    BY <1>9 DEF MmioWrite, ThreadType
  <2>2. QED
    BY <1>K, <2>1 DEF Kept
<1>10. ASSUME NEW v \in VCPU, ConsolePut(v) PROVE ConsoleInv'
  <2>1. ConsoleAt(v)'
    BY <1>10, PutConsole DEF ConsoleInv
  <2>2. /\ stdout' = Append(stdout, Printed(v, LowByte(exit[v].data), "uart"))
        /\ log' = log /\ exit' = exit /\ stage' = [stage EXCEPT ![v] = "logging"]
    BY <1>10 DEF ConsolePut
  <2>3. ASSUME NEW w \in VCPU, w # v PROVE Kept(w)
    <3>1. By(stdout', w) = By(stdout, w) /\ \A k \in By(stdout, w) : stdout'[k] = stdout[k]
      <4> DEFINE x == Printed(v, LowByte(exit[v].data), "uart")
      <4>1. x \in Prints /\ stdout \in Seq(Prints) /\ x.by = v
        BY <1>P, <1>Q DEF Printed
      <4> HIDE DEF x
      <4>2. Appended(stdout, Append(stdout, x), x, w)
        BY <4>1, ByAppend
      <4>3. stdout' = Append(stdout, x)
        BY <2>2 DEF x
      <4>4. QED
        BY <2>3, <4>1, <4>2, <4>3, Zenon DEF Appended
    <3>2. stage'[w] = stage[w]
      BY <2>2, <2>3 DEF ThreadType
    <3>3. QED
      BY <2>2, <3>1, <3>2 DEF Kept
  <2>4. QED
    BY <1>W, <2>1, <2>3
<1>11. ASSUME NEW v \in VCPU, ConsoleLog(v) PROVE ConsoleInv'
  <2>1. /\ log' = IF LogFile THEN Append(log, Printed(v, LowByte(exit[v].data), "uart")) ELSE log
        /\ stdout' = stdout /\ exit' = exit /\ stage' = [stage EXCEPT ![v] = "handled"]
    BY <1>11 DEF ConsoleLog
  <2>2. ConsoleAt(v)'
    <3>1. CASE LogFile
      BY <1>11, <3>1, LogConsole DEF ConsoleInv
    <3>2. CASE ~LogFile
      <4>1. stage'[v] # "logging"
        BY <2>1 DEF ThreadType
      <4>2. QED
        BY <3>2, <4>1 DEF ConsoleAt, LastPrinted
    <3>3. QED
      BY <3>1, <3>2
  <2>3. ASSUME NEW w \in VCPU, w # v PROVE Kept(w)
    <3>1. By(log', w) = By(log, w) /\ \A k \in By(log, w) : log'[k] = log[k]
      <4> DEFINE x == Printed(v, LowByte(exit[v].data), "uart")
      <4>1. x \in Prints /\ log \in Seq(Prints) /\ x.by = v
        BY <1>P, <1>Q DEF Printed
      <4> HIDE DEF x
      <4>2. Appended(log, Append(log, x), x, w)
        BY <4>1, ByAppend
      <4>3. log' = Append(log, x) \/ log' = log
        BY <2>1 DEF x
      <4>4. QED
        BY <2>3, <4>1, <4>2, <4>3, Zenon DEF Appended
    <3>2. stage'[w] = stage[w]
      BY <2>1, <2>3 DEF ThreadType
    <3>3. QED
      BY <2>1, <3>1, <3>2 DEF Kept
  <2>4. QED
    BY <1>W, <2>2, <2>3
<1>12. ASSUME NEW v \in VCPU, MmioUnmapped(v) PROVE ConsoleInv'
  <2>1. /\ UNCHANGED <<stdout, log>>
        /\ \A w \in VCPU : /\ stage'[w] = "logging" <=> stage[w] = "logging"
                           /\ stage[w] = "logging" => exit'[w] = exit[w]
    BY <1>12 DEF MmioUnmapped, ThreadType
  <2>2. QED
    BY <1>K, <2>1 DEF Kept
<1>13. ASSUME NEW v \in VCPU, Ack(v) PROVE ConsoleInv'
  <2>1. /\ UNCHANGED <<stdout, log>>
        /\ \A w \in VCPU : /\ stage'[w] = "logging" <=> stage[w] = "logging"
                           /\ stage[w] = "logging" => exit'[w] = exit[w]
    BY <1>13 DEF Ack, ThreadType
  <2>2. QED
    BY <1>K, <2>1 DEF Kept
<1>14. ASSUME NEW v \in VCPU, AckRead(v) PROVE ConsoleInv'
  <2>1. /\ UNCHANGED <<stdout, log>>
        /\ \A w \in VCPU : /\ stage'[w] = "logging" <=> stage[w] = "logging"
                           /\ stage[w] = "logging" => exit'[w] = exit[w]
    BY <1>14 DEF AckRead, ThreadType
  <2>2. QED
    BY <1>K, <2>1 DEF Kept
<1>15. ASSUME NEW v \in VCPU, Finish(v) PROVE ConsoleInv'
  <2>1. /\ UNCHANGED <<stdout, log>>
        /\ \A w \in VCPU : /\ stage'[w] = "logging" <=> stage[w] = "logging"
                           /\ stage[w] = "logging" => exit'[w] = exit[w]
    BY <1>15 DEF Finish, ThreadType
  <2>2. QED
    BY <1>K, <2>1 DEF Kept
<1>16. CASE UNCHANGED vars
  <2>1. \A w \in VCPU : Kept(w)
    BY <1>16 DEF Kept
  <2>2. QED
    BY <1>K, <2>1
<1>17. QED
  BY <1>1, <1>2, <1>2a, <1>3, <1>4, <1>5, <1>6, <1>7, <1>8, <1>9, <1>10, <1>11, <1>12, <1>13, <1>14, <1>15,
     <1>16 DEF Next, Handle, Done

-----------------------------------------------------------------------------
(* The theorems.                                                            *)

\* The inductive invariant holds at the start.
LEMMA ExitStart == Init => ExitInv
<1> SUFFICES ASSUME Init PROVE ExitInv
  OBVIOUS
<1> USE DEF Init
<1>1. ThreadType
  BY ThreadStart
<1>2. DeviceType
  <2>1. uart \in Uart
    BY DEF Uart, Byte
  <2>2. ASSUME NEW d \in Virtio
        PROVE  /\ Configuration[d] \in [Fields[d] -> Nat]
               /\ \A f \in Fields[d] : Configuration[d][f] \in FieldType(d, f)
    <3>1. Configuration[d] = [f \in Fields[d] |-> Configuration[d][f]]
      BY DEF Configuration
    <3>2. ASSUME NEW f \in Fields[d]
          PROVE  /\ Configuration[d][f] \in Nat
                 /\ <<d, f>> \in Short => Configuration[d][f] \in 0 .. 80
      <4>1. CASE d = "console"
        BY <4>1 DEF Configuration, Short, Fields
      <4>2. CASE d = "block"
        BY <4>2 DEF Configuration, Short, Fields
      <4>3. CASE d = "net"
        BY <4>3 DEF Configuration, Short, Fields
      <4>4. QED
        BY <4>1, <4>2, <4>3 DEF Virtio
    <3>3. ASSUME NEW f \in Fields[d] PROVE Configuration[d][f] \in Nat
      BY <3>2
    <3>4. ASSUME NEW f \in Fields[d] PROVE Configuration[d][f] \in FieldType(d, f)
      <4>1. CASE <<d, f>> \in Short
        <5>1. Configuration[d][f] \in Half
          <6>1. Configuration[d][f] \in 0 .. 80
            BY <3>2, <4>1
          <6>2. \A c \in 0 .. 80 : c \in Half
            BY HalfFacts DEF Half
          <6>3. QED
            BY <6>1, <6>2, Zenon
        <5>2. FieldType(d, f) = Half
          BY <4>1, Zenon DEF FieldType
        <5>3. QED
          BY <5>1, <5>2, Zenon
      <4>2. CASE <<d, f>> \notin Short
        <5>1. FieldType(d, f) = Nat
          BY <4>2, Zenon DEF FieldType
        <5>2. QED
          BY <3>3, <5>1
      <4>3. QED
        BY <4>1, <4>2
    <3>5. QED
      BY <3>1, <3>3, <3>4
  <2>3. ASSUME NEW d \in Virtio
        PROVE  /\ virtio[d] \in [status : Byte, features : Nat, config : [Fields[d] -> Nat]]
               /\ \A f \in Fields[d] : virtio[d].config[f] \in FieldType(d, f)
    <3>1. virtio[d] = [status |-> 0, features |-> 0, config |-> Configuration[d]]
      OBVIOUS
    <3>2. QED
      BY <2>2, <3>1 DEF Byte
  <2>4. VirtioTableOf(virtio)
    <3>1. VirtioType(virtio)
      BY <2>3 DEF VirtioType
    <3>2. QED
      BY <3>1 DEF VirtioTableOf
  <2>5. QED
    BY <2>1, <2>4 DEF DeviceType
<1>3. DecodeInv /\ CountInv /\ StopInv
  BY ConstantsAssumption DEF DecodeInv, CountInv, StopInv, NoInstruction
<1>3a. PcInv /\ InventInv
  BY DEF PcInv, PcAt, InventInv, Inventing
<1>4. DeliverInv
  <2>1. \A v \in VCPU : ~Pending(v) /\ made[v] = <<>> /\ seen[v] = <<>>
    BY DEF Pending
  <2>2. QED
    BY <2>1 DEF DeliverInv
<1>5. ConsoleInv
  <2>1. ASSUME NEW v \in VCPU
        PROVE  /\ By(log, v) = {} /\ By(stdout, v) = {} /\ Logged(v) = {} /\ stage[v] # "logging"
    BY DEF By, Logged
  <2>2. ASSUME NEW v \in VCPU PROVE Corresponds([k \in {} |-> k], v)
    BY <2>1 DEF Corresponds
  <2>3. QED
    BY <2>1, <2>2 DEF ConsoleInv, ConsoleAt, LastPrinted
<1>6. QED
  BY <1>1, <1>2, <1>3, <1>3a, <1>4, <1>5 DEF ExitInv

\* The inductive invariant holds throughout.
THEOREM ExitInvThm == Spec => []ExitInv
<1>1. ExitInv /\ [Next]_vars => ExitInv'
  BY ThreadStep, DeviceStep, DecodeStep, CountStep, StopStep, PcStep, InventStep, DeliverStep, ConsoleStep DEF ExitInv
<1>2. QED
  BY ExitStart, <1>1, PTL DEF Spec

\* Every variable keeps its type: registers stay bytes, fields of 16 bits stay
\* 16 bits and exit_count stays within two of the limit.
THEOREM TypeOKThm == Spec => []TypeOK
<1>1. ExitInv => TypeOK
  <2> SUFFICES ASSUME ExitInv PROVE TypeOK
    OBVIOUS
  <2>1. ThreadType /\ DeviceType /\ CountInv
    BY DEF ExitInv
  <2>2. exit_count \in [VCPU -> 0 .. ExitLimit + 2]
    BY <2>1, ConstantsAssumption DEF ThreadType, CountInv, Stages
  <2>3. \A d \in Virtio :
          /\ virtio[d].status \in Byte /\ virtio[d].features \in Nat
          /\ \A f \in Fields[d] : virtio[d].config[f] \in IF <<d, f>> \in Short THEN Half ELSE Nat
    <3>1. \A d \in Virtio :
            /\ virtio[d] \in [status : Byte, features : Nat, config : [Fields[d] -> Nat]]
            /\ \A f \in Fields[d] : virtio[d].config[f] \in FieldType(d, f)
      BY <2>1 DEF DeviceType, VirtioTableOf, VirtioType
    <3>2. QED
      BY <3>1 DEF FieldType
  <2>4. /\ \A k \in DOMAIN stdout : stdout[k].byte \in Byte
        /\ \A k \in DOMAIN log : log[k].byte \in Byte
    <3>1. /\ \A k \in DOMAIN stdout : stdout[k] \in Prints
          /\ \A k \in DOMAIN log : log[k] \in Prints
      BY <2>1 DEF DeviceType
    <3>2. \A x \in Prints : x.byte \in Byte
      BY DEF Prints
    <3>3. QED
      BY <3>1, <3>2
  <2>5. QED
    BY <2>1, <2>2, <2>3, <2>4 DEF TypeOK, ThreadType, DeviceType, Stages, Uart
<1>2. QED
  BY ExitInvThm, <1>1, PTL

\* Between two runs of a vCPU the devices have been given its accesses, each once
\* and in order, and besides at most one for each abort and each failed run that
\* the backend did not report; after an exit of its own the vCPU goes on right
\* behind the instruction.
THEOREM DeliveredOnceInOrderThm == Spec => []DeliveredOnceInOrder
<1>1. ExitInv => DeliveredOnceInOrder
  <2> SUFFICES ASSUME ExitInv, platform # "hvf_x86", NEW v \in VCPU, stage[v] \notin {"exited", "decoded"}
               PROVE  /\ Len(seen[v]) = Len(made[v])
                      /\ \A k \in DOMAIN made[v] : Matches(platform, seen[v][k], made[v][k])
                      /\ invented[v] <= unasked[v] /\ (platform = "kvm" => unasked[v] = 0)
                      /\ pc[v] \in 0 .. unasked[v] /\ (fresh[v] => pc[v] = 0)
    BY DEF DeliveredOnceInOrder
  <2>1. seen[v] \in Seq(AccessSet) /\ made[v] \in Seq(Instruction)
    BY DEF ExitInv, DeviceType
  <2>2. Len(seen[v]) \in Nat /\ DOMAIN made[v] = 1 .. Len(made[v])
    BY <2>1
  <2>3. ~Pending(v)
    BY DEF Pending
  <2>4. /\ Len(made[v]) = Len(seen[v]) + (IF Pending(v) THEN 1 ELSE 0)
        /\ \A k \in 1 .. Len(seen[v]) : Matches(platform, seen[v][k], made[v][k])
    BY DEF ExitInv, DeliverInv
  <2>5. invented[v] <= unasked[v]
    <3>1. invented[v] \in Nat /\ unasked[v] \in Nat
      BY DEF ExitInv, ThreadType, DeviceType
    <3>2. ~Inventing(v) /\ invented[v] <= unasked[v] - (IF Inventing(v) THEN 1 ELSE 0)
      BY DEF ExitInv, InventInv, Inventing
    <3>3. QED
      BY <3>1, <3>2
  <2>6. /\ platform = "kvm" => unasked[v] = 0
        /\ pc[v] \in 0 .. unasked[v] /\ (fresh[v] => pc[v] = 0)
    BY DEF ExitInv, PcInv, PcAt
  <2>7. QED
    BY <2>2, <2>3, <2>4, <2>5, <2>6
<1>2. QED
  BY ExitInvThm, <1>1, PTL

\* For each vCPU vmm_console.log is its output, at most the last byte behind.
THEOREM ConsoleAgreesThm == Spec => []ConsoleAgrees
<1>1. ExitInv => ConsoleAgrees
  <2> SUFFICES ASSUME ExitInv, LogFile, NEW v \in VCPU
               PROVE  \E f \in [By(log, v) -> By(stdout, v)] :
                          /\ {f[k] : k \in By(log, v)} = Logged(v)
                          /\ \A k, l \in By(log, v) : k < l => f[k] < f[l]
                          /\ \A k \in By(log, v) : log[k].byte = stdout[f[k]].byte
    BY DEF ConsoleAgrees
  <2>1. PICK f : Corresponds(f, v)
    BY DEF ExitInv, ConsoleInv, ConsoleAt
  <2>2. QED
    BY <2>1, Zenon DEF Corresponds
<1>2. QED
  BY ExitInvThm, <1>1, PTL

\* A thread that ends after a shutdown has set should_stop.
THEOREM ShutdownStopsThm == Spec => []ShutdownStops
<1>1. ExitInv => ShutdownStops
  BY DEF ExitInv, StopInv, ShutdownStops
<1>2. QED
  BY ExitInvThm, <1>1, PTL
=============================================================================
