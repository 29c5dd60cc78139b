---------------------------- MODULE VmLifecycle ----------------------------
(***************************************************************************)
(* The life of a running VM: main() from vm_start() to its exit, one       *)
(* thread per vCPU, and the signal handler, which may interrupt any of     *)
(* them and calls vm_stop() from there.                                    *)
(*                                                                         *)
(* Threads are numbered: v \in VCPU is the thread of vCPU v, Main is       *)
(* main()'s.  An "agent" is one activation of vcpu_stop()'s callers: agent *)
(* 0 is main()'s own call (vm_destroy's vm_stop, or vm_start's rollback),  *)
(* agent h \in Handlers is the h-th delivery of a signal.  Agents nest: a  *)
(* thread runs its newest agent, and its own code only when it has none.   *)
(***************************************************************************)
EXTENDS Naturals, FiniteSets

CONSTANTS
    N,               \* vm->num_vcpus
    Arm64,           \* build: TRUE for __aarch64__ (Apple HVF), FALSE for KVM
    ExitLimit,       \* bound on exit_count (1000 in vcpu_thread_func)
    MaxSignals,      \* bound: how many signals are delivered in a run
    SigThreads,      \* the threads the system delivers signals to
    SelfJoinReturns, \* pthread_join(self): TRUE if it fails with EDEADLK
    ConsoleOutput,   \* TRUE if guests make the vCPU threads print
    WeakMemory       \* TRUE if unsynchronised stores may be seen late

VCPU     == 0..(N - 1)
Main     == N
Threads  == 0..N
Handlers == 1..MaxSignals
Agents   == 0..MaxSignals

ASSUME ConstantsAssumption ==
    /\ N \in Nat \ {0}
    /\ MaxSignals \in Nat
    /\ ExitLimit \in Nat
    /\ SigThreads \subseteq Threads
    /\ {Arm64, SelfJoinReturns, ConsoleOutput, WeakMemory} \subseteq BOOLEAN

VARIABLES
    vmState,     \* vm->state
    gRunning,    \* g_running
    pc,          \* where main() is
    k,           \* index of the loop main() is in (vm_start, vm_destroy)
    vcpuState,   \* vcpu->state
    shouldStop,  \* vcpu->should_stop
    exitCount,   \* vcpu->exit_count
    thr,         \* where the vCPU's thread is
    exitReq,     \* a pending hv_vcpus_exit() request (Apple HVF)
    cancel,      \* a pending pthread_cancel()
    freed,       \* the struct vcpu was freed
    at,          \* agent -> its step of vm_stop()/vcpu_stop(), or "off"
    idx,         \* agent -> the vCPU it is at
    on,          \* agent -> the thread it runs on
    sent,        \* signals delivered so far
    badJoin      \* some pthread_join() did not join the thread it named

mainVars  == <<pc, k, vmState, gRunning>>
vcpuVars  == <<vcpuState, shouldStop, exitCount, thr, exitReq, cancel, freed>>
agentVars == <<at, idx, on, sent, badJoin>>
vars      == <<mainVars, vcpuVars, agentVars>>

MainPc  == {"start", "rollback", "wait", "report", "destroy", "free",
            "cleanup", "gone"}
Live    == {"boot", "created", "loop", "guest", "print"}
ThrPc   == Live \cup {"none", "done", "joined"}
AgentPc == {"off", "test", "stop", "kick", "join", "wait"}

Init ==
    /\ vmState = "STOPPED"
    /\ gRunning = TRUE
    /\ pc = "start"
    /\ k = 0
    /\ vcpuState = [v \in VCPU |-> "STOPPED"]
    /\ shouldStop = [v \in VCPU |-> FALSE]
    /\ exitCount = [v \in VCPU |-> 0]
    /\ thr = [v \in VCPU |-> "none"]
    /\ exitReq = [v \in VCPU |-> FALSE]
    /\ cancel = [v \in VCPU |-> FALSE]
    /\ freed = [v \in VCPU |-> FALSE]
    /\ at = [a \in Agents |-> "off"]
    /\ idx = [a \in Agents |-> 0]
    /\ on = [a \in Agents |-> Main]
    /\ sent = 0
    /\ badJoin = FALSE

-----------------------------------------------------------------------------
(* Who runs on a thread.                                                    *)

Active(a) == at[a] # "off"

\* Thread t runs no signal handler.
Undisturbed(t) == \A h \in Handlers : Active(h) => on[h] # t

\* Agent a is the newest one of its thread, and the process still runs.
Top(a) == /\ pc # "gone"
          /\ \A h \in Handlers : h > a /\ Active(h) => on[h] # on[a]

MainRuns == at[0] = "off" /\ Undisturbed(Main)

\* vm_destroy() ended with free(vm); g_vm still points there.
VmFreed == pc \in {"cleanup", "gone"}

-----------------------------------------------------------------------------
(* main(): vm_start(), the wait loop, vm_destroy().                         *)

\* vm_start: vcpu_start() of vCPU k succeeds.
VcpuStart ==
    /\ pc = "start" /\ MainRuns /\ k < N
    /\ shouldStop' = [shouldStop EXCEPT ![k] = FALSE]
    /\ thr' = [thr EXCEPT ![k] = "boot"]
    /\ vcpuState' = [vcpuState EXCEPT ![k] = "RUNNING"]
    /\ k' = k + 1
    /\ UNCHANGED <<pc, vmState, gRunning, exitCount, exitReq, cancel, freed,
                   agentVars>>

\* vm_start: pthread_create() fails; stop the vCPUs started so far.
VcpuStartFails ==
    /\ pc = "start" /\ MainRuns /\ k < N
    /\ pc' = "rollback"
    /\ shouldStop' = [shouldStop EXCEPT ![k] = FALSE]
    /\ at' = [at EXCEPT ![0] = "stop"]
    /\ idx' = [idx EXCEPT ![0] = 0]
    /\ UNCHANGED <<k, vmState, gRunning, vcpuState, exitCount, thr, exitReq,
                   cancel, freed, on, sent, badJoin>>

\* vm_start returns -1: main goes to cleanup.
StartFailed ==
    /\ pc = "rollback" /\ MainRuns
    /\ pc' = "destroy"
    /\ UNCHANGED <<k, vmState, gRunning, vcpuVars, agentVars>>

\* vm_start: every vCPU runs.
VmStarted ==
    /\ pc = "start" /\ MainRuns /\ k = N
    /\ vmState' = "RUNNING"
    /\ pc' = "wait"
    /\ UNCHANGED <<k, gRunning, vcpuVars, agentVars>>

\* One round of the wait loop: sleep(1), then look for a vCPU that stopped.
WaitPoll ==
    /\ pc = "wait" /\ MainRuns
    /\ gRunning /\ vmState = "RUNNING"
    /\ gRunning' = ~ \E v \in VCPU : shouldStop[v]
    /\ UNCHANGED <<pc, k, vmState, vcpuVars, agentVars>>

\* The loop ends; main prints while it holds the stream's lock.
WaitDone ==
    /\ pc = "wait" /\ MainRuns
    /\ ~(gRunning /\ vmState = "RUNNING")
    /\ pc' = "report"
    /\ UNCHANGED <<k, vmState, gRunning, vcpuVars, agentVars>>

Report ==
    /\ pc = "report" /\ MainRuns
    /\ pc' = "destroy"
    /\ UNCHANGED <<k, vmState, gRunning, vcpuVars, agentVars>>

\* vm_destroy: vm_stop() if the VM is running, else go on to free the vCPUs.
VmDestroy ==
    /\ pc = "destroy" /\ MainRuns
    /\ IF vmState = "RUNNING"
       THEN /\ at' = [at EXCEPT ![0] = "stop"]
            /\ idx' = [idx EXCEPT ![0] = 0]
            /\ UNCHANGED <<pc, k>>
       ELSE /\ pc' = "free"
            /\ k' = 0
            /\ UNCHANGED <<at, idx>>
    /\ UNCHANGED <<vmState, gRunning, vcpuVars, on, sent, badJoin>>

\* vcpu_destroy(): stop the vCPU if it is running, then free it.
VcpuDestroy ==
    /\ pc = "free" /\ MainRuns /\ k < N
    /\ IF vcpuState[k] = "RUNNING"
       THEN /\ at' = [at EXCEPT ![0] = "stop"]
            /\ idx' = [idx EXCEPT ![0] = k]
            /\ UNCHANGED <<k, freed>>
       ELSE /\ freed' = [freed EXCEPT ![k] = TRUE]
            /\ k' = k + 1
            /\ UNCHANGED <<at, idx>>
    /\ UNCHANGED <<pc, vmState, gRunning, vcpuState, shouldStop, exitCount,
                   thr, exitReq, cancel, on, sent, badJoin>>

\* vm_destroy: devices, memory and the hypervisor VM go, then free(vm).
FreeVm ==
    /\ pc = "free" /\ MainRuns /\ k = N
    /\ pc' = "cleanup"
    /\ UNCHANGED <<k, vmState, gRunning, vcpuVars, agentVars>>

\* hv_cleanup(), free_args(), return: the process ends with its threads.
ExitMain ==
    /\ pc = "cleanup" /\ MainRuns
    /\ pc' = "gone"
    /\ UNCHANGED <<k, vmState, gRunning, vcpuVars, agentVars>>

MainStep ==
    \/ VcpuStart \/ VcpuStartFails \/ StartFailed \/ VmStarted
    \/ WaitPoll \/ WaitDone \/ Report \/ VmDestroy \/ VcpuDestroy
    \/ FreeVm \/ ExitMain

-----------------------------------------------------------------------------
(* vcpu_thread_func().                                                      *)

VcpuRuns(v) == pc # "gone" /\ Undisturbed(v)

\* On Apple HVF the thread creates the hypervisor vCPU, and gives up if that
\* or the initial register state fails.
ThreadBoot(v) ==
    /\ thr[v] = "boot" /\ VcpuRuns(v)
    /\ \E to \in (IF Arm64 THEN {"created", "done"} ELSE {"loop"}) :
           thr' = [thr EXCEPT ![v] = to]
    /\ UNCHANGED <<mainVars, vcpuState, shouldStop, exitCount, exitReq, cancel,
                   freed, agentVars>>

\* Some agent's should_stop = 1 may still be in its core's store buffer: the
\* store is only ordered by pthread_cancel().
StopInFlight(v) ==
    /\ WeakMemory /\ thr[v] = "created"
    /\ \E a \in Agents : at[a] \in {"kick", "join"} /\ idx[a] = v /\ on[a] # v

\* Mutant: should_stop is tested after the guest ran, not before.
LoopTestAfter(v) ==
    /\ thr[v] \in {"created", "loop"} /\ VcpuRuns(v)
    /\ thr' = [thr EXCEPT ![v] = IF shouldStop[v] /\ exitCount[v] > 0 THEN "done"
                                                                    ELSE "guest"]
    /\ UNCHANGED <<mainVars, vcpuState, shouldStop, exitCount, exitReq, cancel,
                   freed, agentVars>>

\* The loop's test of should_stop.
LoopTest(v) ==
    /\ thr[v] \in {"created", "loop"} /\ VcpuRuns(v)
    /\ \E seen \in {shouldStop[v]} \cup
                   (IF StopInFlight(v) THEN {FALSE} ELSE {}) :
           thr' = [thr EXCEPT ![v] = IF seen THEN "done" ELSE "guest"]
    /\ UNCHANGED <<mainVars, vcpuState, shouldStop, exitCount, exitReq, cancel,
                   freed, agentVars>>

\* hv_run() fails: the loop breaks, or goes on if errno happens to be EINTR.
RunFails(v) ==
    /\ thr[v] = "guest" /\ VcpuRuns(v)
    /\ \E to \in {"done", "loop"} : thr' = [thr EXCEPT ![v] = to]
    /\ UNCHANGED <<mainVars, vcpuState, shouldStop, exitCount, exitReq, cancel,
                   freed, agentVars>>

\* What vcpu_handle_exit() makes of an exit: whether it sets should_stop, and
\* whether it returns an error.  HVF/ARM64 reports no exit that does both.
Outcomes ==
    {o \in [stop : BOOLEAN, error : BOOLEAN] : Arm64 => ~(o.stop /\ o.error)}

\* Mutant: the safety limit on exits is gone.
HandleExitUnlimited(v, o) ==
    /\ exitCount' = [exitCount EXCEPT ![v] = @ + 2]
    /\ shouldStop' = [shouldStop EXCEPT ![v] = @ \/ o.stop]
    /\ thr' = [thr EXCEPT ![v] = IF o.error THEN "done" ELSE "loop"]

\* vcpu_handle_exit() and the end of the loop's body.  exit_count is bumped
\* by both; an error or too many exits end the thread, without should_stop.
HandleExit(v, o) ==
    LET n == exitCount[v] + (IF o.error THEN 1 ELSE 2)
    IN  /\ exitCount' = [exitCount EXCEPT ![v] = n]
        /\ shouldStop' = [shouldStop EXCEPT ![v] = @ \/ o.stop]
        /\ IF o.error \/ n > ExitLimit
           THEN thr' = [thr EXCEPT ![v] = "done"]
           ELSE \E to \in (IF ConsoleOutput THEN {"loop", "print"}
                                            ELSE {"loop"}) :
                    thr' = [thr EXCEPT ![v] = to]

\* The guest exits by itself (or KVM_RUN is interrupted: HV_EXIT_EXTERNAL).
GuestExit(v) ==
    /\ thr[v] = "guest" /\ VcpuRuns(v)
    /\ \E o \in Outcomes : HandleExit(v, o)
    /\ UNCHANGED <<mainVars, vcpuState, exitReq, cancel, freed, agentVars>>

\* hv_vcpu_run() honours an exit request: HV_EXIT_CANCELED.
CanceledExit(v) ==
    /\ thr[v] = "guest" /\ exitReq[v] /\ VcpuRuns(v)
    /\ HandleExit(v, [stop |-> TRUE, error |-> FALSE])
    /\ exitReq' = [exitReq EXCEPT ![v] = FALSE]
    /\ UNCHANGED <<mainVars, vcpuState, cancel, freed, agentVars>>

\* Console or log output needs the stream lock, which main() holds in Report.
PrintDone(v) ==
    /\ thr[v] = "print" /\ VcpuRuns(v) /\ pc # "report"
    /\ thr' = [thr EXCEPT ![v] = "loop"]
    /\ UNCHANGED <<mainVars, vcpuState, shouldStop, exitCount, exitReq, cancel,
                   freed, agentVars>>

\* A pending pthread_cancel() ends the thread at a cancellation point: output
\* in its own code or in a handler it runs, pthread_join().  hv_run() is none.
ActOnCancel(v) ==
    /\ cancel[v] /\ thr[v] \in Live /\ pc # "gone"
    /\ Undisturbed(v) => thr[v] # "guest" /\ ~(thr[v] = "print" /\ pc = "report")
    /\ thr' = [thr EXCEPT ![v] = "done"]
    /\ at' = [a \in Agents |-> IF on[a] = v THEN "off" ELSE at[a]]
    /\ UNCHANGED <<mainVars, vcpuState, shouldStop, exitCount, exitReq, cancel,
                   freed, idx, on, sent, badJoin>>

VcpuStep(v) ==
    \/ ThreadBoot(v) \/ LoopTest(v) \/ RunFails(v) \/ GuestExit(v)
    \/ CanceledExit(v) \/ PrintDone(v) \/ ActOnCancel(v)

-----------------------------------------------------------------------------
(* signal_handler(), vm_stop() and vcpu_stop().                             *)

\* SIGINT, SIGTERM and SIGPIPE are handled, each blocked in its own handler.
HandledSignals == 3

Deliverable(t) ==
    /\ IF t = Main THEN pc # "gone" ELSE thr[t] \in Live /\ pc # "gone"
    /\ Cardinality({h \in Handlers : Active(h) /\ on[h] = t}) < HandledSignals

\* A signal interrupts thread t: signal_handler() clears g_running.
Signal(t) ==
    /\ sent < MaxSignals /\ Deliverable(t)
    /\ sent' = sent + 1
    /\ gRunning' = FALSE
    /\ at' = [at EXCEPT ![sent + 1] = "test"]
    /\ on' = [on EXCEPT ![sent + 1] = t]
    /\ UNCHANGED <<pc, k, vmState, vcpuVars, idx, badJoin>>

\* Mutant: vm_stop() does not look at vm->state first.
VmStopAlways(h) ==
    /\ at[h] = "test" /\ Top(h)
    /\ at' = [at EXCEPT ![h] = "stop"]
    /\ idx' = [idx EXCEPT ![h] = 0]
    /\ UNCHANGED <<mainVars, vcpuVars, on, sent, badJoin>>

\* vm_stop(g_vm) returns at once if the VM is STOPPED.  The memory of a freed
\* VM holds anything: the call returns or faults.
VmStop(h) ==
    /\ at[h] = "test" /\ Top(h)
    /\ \/ /\ ~VmFreed
          /\ at' = [at EXCEPT ![h] = IF vmState = "STOPPED" THEN "off" ELSE "stop"]
          /\ idx' = [idx EXCEPT ![h] = 0]
          /\ UNCHANGED pc
       \/ /\ VmFreed
          /\ at' = [at EXCEPT ![h] = "off"]
          /\ pc' \in {pc, "gone"}
          /\ UNCHANGED idx
    /\ UNCHANGED <<k, vmState, gRunning, vcpuVars, on, sent, badJoin>>

\* Mutant: the rollback misses the vCPU started last.
LimitShort(a) == IF a = 0 /\ pc = "rollback" /\ k > 0 THEN k - 1
                 ELSE IF a = 0 /\ pc = "rollback" THEN 0
                 ELSE IF a = 0 /\ pc = "free" THEN k + 1
                 ELSE N

\* How many vCPUs agent a's loop goes through: vm_start's rollback only the
\* ones before k, vcpu_destroy only k, vm_stop all of them.
Limit(a) == IF a = 0 /\ pc = "rollback" THEN k
            ELSE IF a = 0 /\ pc = "free" THEN k + 1
            ELSE N

IsVmStop(a) == a \in Handlers \/ pc = "destroy"

\* The loop of vm_stop() (or of the rollback) ends.
StopReturn(a) ==
    /\ at[a] = "stop" /\ Top(a) /\ idx[a] >= Limit(a)
    /\ at' = [at EXCEPT ![a] = "off"]
    /\ vmState' = IF IsVmStop(a) THEN "STOPPED" ELSE vmState
    /\ UNCHANGED <<pc, k, gRunning, vcpuVars, idx, on, sent, badJoin>>

\* vcpu_stop(): nothing to do for a vCPU that is not RUNNING.
VcpuStopSkip(a) ==
    /\ at[a] = "stop" /\ Top(a) /\ idx[a] < Limit(a)
    /\ vcpuState[idx[a]] # "RUNNING"
    /\ idx' = [idx EXCEPT ![a] = @ + 1]
    /\ UNCHANGED <<mainVars, vcpuVars, at, on, sent, badJoin>>

\* Mutant: vcpu_stop() relies on the exit request alone.
VcpuStopNoFlag(a) ==
    /\ at[a] = "stop" /\ Top(a) /\ idx[a] < Limit(a)
    /\ vcpuState[idx[a]] = "RUNNING"
    /\ at' = [at EXCEPT ![a] = "kick"]
    /\ UNCHANGED <<mainVars, vcpuVars, idx, on, sent, badJoin>>

\* vcpu_stop(): should_stop = 1.
VcpuStopRequest(a) ==
    /\ at[a] = "stop" /\ Top(a) /\ idx[a] < Limit(a)
    /\ vcpuState[idx[a]] = "RUNNING"
    /\ shouldStop' = [shouldStop EXCEPT ![idx[a]] = TRUE]
    /\ at' = [at EXCEPT ![a] = "kick"]
    /\ UNCHANGED <<mainVars, vcpuState, exitCount, thr, exitReq, cancel, freed,
                   idx, on, sent, badJoin>>

\* Mutant: the exit request is skipped on ARM64 too.
VcpuStopNoKick(a) ==
    /\ at[a] = "kick" /\ Top(a)
    /\ at' = [at EXCEPT ![a] = "join"]
    /\ UNCHANGED <<mainVars, vcpuVars, idx, on, sent, badJoin>>

\* vcpu_stop() on ARM64: hv_vcpu_exit() if vcpu->hv_vcpu is set.  The thread's
\* store to hv_vcpu may not have arrived yet when it was just made.
VcpuStopKick(a) ==
    /\ at[a] = "kick" /\ Top(a)
    /\ \E created \in {thr[idx[a]] \notin {"none", "boot"}} \cup
                      (IF WeakMemory /\ thr[idx[a]] = "created" THEN {FALSE}
                                                                ELSE {}) :
           exitReq' = [exitReq EXCEPT ![idx[a]] = @ \/ (Arm64 /\ created)]
    /\ at' = [at EXCEPT ![a] = "join"]
    /\ UNCHANGED <<mainVars, vcpuState, shouldStop, exitCount, thr, cancel,
                   freed, idx, on, sent, badJoin>>

\* vcpu_stop() after pthread_join(): state = STOPPED, on to the next vCPU.
JoinReturns(a) ==
    /\ vcpuState' = [vcpuState EXCEPT ![idx[a]] = "STOPPED"]
    /\ idx' = [idx EXCEPT ![a] = @ + 1]
    /\ at' = [at EXCEPT ![a] = "stop"]

BeingJoined(v) == \E b \in Agents : at[b] = "wait" /\ idx[b] = v

\* Mutant: the thread is cancelled but not joined.
JoinOmitted(a) ==
    /\ at[a] = "join" /\ Top(a)
    /\ on[a] # idx[a] /\ thr[idx[a]] # "joined" /\ ~BeingJoined(idx[a])
    /\ cancel' = [cancel EXCEPT ![idx[a]] = TRUE]
    /\ JoinReturns(a)
    /\ UNCHANGED <<mainVars, shouldStop, exitCount, thr, exitReq, freed, on,
                   sent, badJoin>>

\* pthread_cancel(), then pthread_join() with nobody else in it: wait.
JoinWaits(a) ==
    /\ at[a] = "join" /\ Top(a)
    /\ on[a] # idx[a] /\ thr[idx[a]] # "joined" /\ ~BeingJoined(idx[a])
    /\ cancel' = [cancel EXCEPT ![idx[a]] = TRUE]
    /\ at' = [at EXCEPT ![a] = "wait"]
    /\ UNCHANGED <<mainVars, vcpuState, shouldStop, exitCount, thr, exitReq,
                   freed, idx, on, sent, badJoin>>

\* pthread_join() of a thread somebody joins or joined already: undefined;
\* an implementation returns an error (EINVAL, ESRCH) or waits too.
JoinTwice(a) ==
    /\ at[a] = "join" /\ Top(a)
    /\ thr[idx[a]] = "joined" \/ BeingJoined(idx[a])
    /\ cancel' = [cancel EXCEPT ![idx[a]] = TRUE]
    /\ badJoin' = TRUE
    /\ \/ JoinReturns(a)
       \/ at' = [at EXCEPT ![a] = "wait"] /\ UNCHANGED <<vcpuState, idx>>
    /\ UNCHANGED <<mainVars, shouldStop, exitCount, thr, exitReq, freed, on,
                   sent>>

\* A handler on the vCPU's own thread cancels and joins itself: EDEADLK, or
\* the cancellation acts in pthread_join().
JoinSelf(a) ==
    /\ at[a] = "join" /\ Top(a) /\ on[a] = idx[a] /\ ~BeingJoined(idx[a])
    /\ cancel' = [cancel EXCEPT ![idx[a]] = TRUE]
    /\ IF SelfJoinReturns
       THEN JoinReturns(a) /\ badJoin' = TRUE
       ELSE at' = [at EXCEPT ![a] = "wait"] /\ UNCHANGED <<vcpuState, idx, badJoin>>
    /\ UNCHANGED <<mainVars, shouldStop, exitCount, thr, exitReq, freed, on,
                   sent>>

\* The awaited thread is over.
JoinDone(a) ==
    /\ at[a] = "wait" /\ Top(a)
    /\ thr[idx[a]] \in {"done", "joined"}
    /\ thr' = [thr EXCEPT ![idx[a]] = "joined"]
    /\ JoinReturns(a)
    /\ UNCHANGED <<mainVars, shouldStop, exitCount, exitReq, cancel, freed, on,
                   sent, badJoin>>

StopStep(a) ==
    \/ StopReturn(a) \/ VcpuStopSkip(a) \/ VcpuStopRequest(a)
    \/ VcpuStopKick(a) \/ JoinWaits(a) \/ JoinTwice(a) \/ JoinSelf(a)
    \/ JoinDone(a)

\* The process is over.
Terminated == pc = "gone" /\ UNCHANGED vars

Next ==
    \/ MainStep
    \/ \E v \in VCPU : VcpuStep(v)
    \/ \E t \in SigThreads : Signal(t)
    \/ \E h \in Handlers : VmStop(h)
    \/ \E a \in Agents : StopStep(a)
    \/ Terminated

Spec == Init /\ [][Next]_vars

\* Every thread is scheduled and an exit request makes hv_vcpu_run() return.
\* Nothing makes a guest exit, a signal arrive or a deferred cancellation act
\* in code that does not block.
Fairness ==
    /\ WF_vars(MainStep)
    /\ \A v \in VCPU : /\ WF_vars(ThreadBoot(v))
                       /\ WF_vars(LoopTest(v))
                       /\ WF_vars(CanceledExit(v))
                       /\ WF_vars(PrintDone(v))
    /\ \A h \in Handlers : WF_vars(VmStop(h))
    /\ \A a \in Agents : WF_vars(StopStep(a))

FairSpec == Spec /\ Fairness

-----------------------------------------------------------------------------
(* Properties.                                                              *)

\* The variables keep the types of the C fields they stand for.
TypeOK ==
    /\ vmState \in {"STOPPED", "RUNNING"}
    /\ gRunning \in BOOLEAN
    /\ pc \in MainPc
    /\ k \in 0..N
    /\ vcpuState \in [VCPU -> {"STOPPED", "RUNNING"}]
    /\ shouldStop \in [VCPU -> BOOLEAN]
    /\ exitCount \in [VCPU -> 0..(ExitLimit + 2)]
    /\ thr \in [VCPU -> ThrPc]
    /\ exitReq \in [VCPU -> BOOLEAN]
    /\ cancel \in [VCPU -> BOOLEAN]
    /\ freed \in [VCPU -> BOOLEAN]
    /\ at \in [Agents -> AgentPc]
    /\ idx \in [Agents -> 0..N]
    /\ on \in [Agents -> Threads]
    /\ sent \in 0..MaxSignals
    /\ badJoin \in BOOLEAN

\* vcpu_destroy() frees a struct vcpu only when the thread that runs on it,
\* and reads it in every iteration, is over.
FreedIsDead == \A v \in VCPU : freed[v] => thr[v] \notin Live

\* No activation of vm_stop() or vcpu_stop() is at a vCPU already freed:
\* vm->vcpus[] keeps the pointers, only vm->state keeps handlers away.
StopTouchesNoFreed ==
    \A a \in Agents :
        at[a] \in {"stop", "kick", "join", "wait"} /\ idx[a] < Limit(a)
            => ~freed[idx[a]]

\* Both hold wherever signals are delivered, as long as every pthread_join()
\* joined the thread it named.
TeardownSafeIfJoined == badJoin \/ (FreedIsDead /\ StopTouchesNoFreed)

\* When vm_destroy() frees the vCPUs, vm_start's rollback or vm_stop() has
\* stopped every one that was started.
StoppedBeforeFree ==
    pc = "free" => \A v \in VCPU : vcpuState[v] = "STOPPED"

\* On ARM64 no stop request is lost: once vcpu_stop() is past hv_vcpu_exit(),
\* the thread is not in the guest without a pending exit request.
NoLostStop ==
    \A a \in Agents :
        at[a] \in {"join", "wait"} /\ thr[idx[a]] = "guest"
            => exitReq[idx[a]]

\* Once g_running is cleared, by a signal or by a vCPU that stopped, the
\* program stops every vCPU, frees the VM and exits.
StopCompletes == ~gRunning ~> pc = "gone"

\* When every vCPU's thread has ended, the program ends.
EndOfGuestEndsProgram ==
    (pc = "wait" /\ \A v \in VCPU : thr[v] = "done") ~> pc = "gone"

-----------------------------------------------------------------------------
(* What the rest of the program may rely on: VcpuLife.                      *)

LifeOf(v) == IF freed[v] THEN "freed"
             ELSE IF thr[v] = "none" THEN "new"
             ELSE IF thr[v] = "guest" THEN "guest"
             ELSE IF thr[v] \in Live THEN "out"
             ELSE "over"

Life == INSTANCE VcpuLife WITH
            life <- [v \in VCPU |-> LifeOf(v)],
            stop <- shouldStop

\* The threads, handlers, exit requests and joins implement the life of a
\* vCPU that vcpu.h promises: started once, not in the guest again after
\* vcpu_stop() asked, freed last and only when its thread is over.
ImplementsVcpuLife == Life!Spec

\* With the exit requests of Apple HVF a vCPU that was asked to stop, by
\* vcpu_stop() or by its own guest, leaves the guest and its thread ends.
AskedVcpuEnds == Life!StopEnds
=============================================================================
