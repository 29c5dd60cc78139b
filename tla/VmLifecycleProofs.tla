------------------------- MODULE VmLifecycleProofs -------------------------
(***************************************************************************)
(* Machine-checked proofs about VmLifecycle, for any number of vCPUs and   *)
(* of signals.                                                             *)
(***************************************************************************)
EXTENDS VmLifecycle, TLAPS

-----------------------------------------------------------------------------
(* The inductive invariants.                                                *)

InVcpuStop == {"kick", "join", "wait"}
InVmStop   == InVcpuStop \cup {"stop"}

\* Where the agents can be: agent 0 is main()'s and runs only inside vm_start
\* or vm_destroy, agents not delivered yet are off, and inside vcpu_stop() the
\* index names a vCPU.
AgentInv ==
    /\ on[0] = Main
    /\ at[0] # "test"
    /\ at[0] # "off" => pc \in {"rollback", "destroy", "free"}
    /\ at[0] # "off" /\ pc = "free" => k < N /\ idx[0] >= k
    /\ \A h \in Handlers : h > sent => at[h] = "off"
    /\ \A a \in Agents : at[a] \in InVcpuStop => idx[a] < N

\* A thread that has not ended is below the limit on exits.
CountInv == \A v \in VCPU : thr[v] \in Live \cup {"none"} => exitCount[v] <= ExitLimit

\* The order of main()'s phases: nothing is freed or stopped before vm_start
\* is done, the VM is RUNNING only between vm_start and vm_stop.
PhaseInv ==
    /\ pc = "start" => \A v \in VCPU : v >= k => thr[v] = "none" /\ vcpuState[v] = "STOPPED"
    /\ vmState = "RUNNING" => pc \in {"wait", "report", "destroy"}
    /\ \A a \in Agents : at[a] \in InVmStop => pc # "start"
    /\ \A v \in VCPU : freed[v] =>
           /\ pc \in {"free", "cleanup", "gone"}
           /\ vcpuState[v] = "STOPPED"
           /\ pc = "free" => v < k

BaseInv == TypeOK /\ AgentInv /\ CountInv /\ PhaseInv

\* What vm_stop() and the rollback have stopped.
StoppedInv ==
    /\ \A a \in Agents : at[a] \in InVmStop =>
           \A v \in VCPU : v < idx[a] /\ ~(a = 0 /\ pc = "free")
                              => vcpuState[v] = "STOPPED"
    /\ pc = "rollback" =>
           \A v \in VCPU : v >= k \/ at[0] = "off" => vcpuState[v] = "STOPPED"
    /\ pc \notin {"start", "rollback"} /\ vmState = "STOPPED" =>
           \A v \in VCPU : vcpuState[v] = "STOPPED"

\* Main-thread signals: a STOPPED vCPU's thread is over or still awaited.
AwaitedInv ==
    /\ \A a \in Agents : on[a] = Main
    /\ \A v \in VCPU : vcpuState[v] = "STOPPED"
                          => thr[v] \in {"none", "joined"} \/ BeingJoined(v)

\* The handlers that are past vm_stop()'s test of vm->state are gone when
\* vm_destroy() frees.
NoLateStop ==
    pc \in {"free", "cleanup", "gone"} =>
        \A h \in Handlers : at[h] \notin InVmStop

\* Signals anywhere, every join proper: STOPPED means joined or never started,
\* and a thread that runs a handler is alive.
JoinedInv ==
    /\ \A h \in Handlers : Active(h) /\ on[h] # Main => thr[on[h]] \in Live
    /\ ~badJoin => \A v \in VCPU : vcpuState[v] = "STOPPED"
                                      => thr[v] \in {"none", "joined"}

\* ARM64: a vCPU being stopped has should_stop set.
FlaggedInv ==
    \A a \in Agents : at[a] \in InVcpuStop => shouldStop[idx[a]]
-----------------------------------------------------------------------------
(* Facts about the constants and about vcpu_handle_exit().                  *)

\* The facts about the index sets that the proofs below use instead of the
\* definitions.
LEMMA Indices ==
    /\ 0 \in Agents /\ Main \in Threads /\ 0 \in 0..N
    /\ Handlers \subseteq Agents /\ 0 \notin Handlers
    /\ VCPU \subseteq 0..N /\ SigThreads \subseteq Threads
    /\ Agents = Handlers \cup {0} /\ Main \notin VCPU /\ Threads = VCPU \cup {Main}
    /\ \A i \in 0..N : i < N <=> i \in VCPU
    /\ \A i \in VCPU : i + 1 \in 0..N
    /\ \A n \in 0..MaxSignals :
           n < MaxSignals => n + 1 \in Handlers /\ n + 1 \in 0..MaxSignals
BY ConstantsAssumption DEF Agents, Handlers, Threads, Main, VCPU

\* Every outcome of an exit is a pair of Booleans.
LEMMA OutcomesType == Outcomes \subseteq [stop : BOOLEAN, error : BOOLEAN]
BY DEF Outcomes

\* What the handling of an exit of vCPU v does to the thread and its counters.
LEMMA HandleExitFacts ==
    ASSUME TypeOK, CountInv, NEW v \in VCPU, thr[v] = "guest",
           NEW o \in [stop : BOOLEAN, error : BOOLEAN], HandleExit(v, o)
    PROVE  /\ exitCount' \in [VCPU -> 0..(ExitLimit + 2)]
           /\ shouldStop' \in [VCPU -> BOOLEAN]
           /\ thr' \in [VCPU -> ThrPc]
           /\ thr'[v] \in {"done", "loop", "print"}
           /\ thr'[v] # "done" => exitCount'[v] <= ExitLimit
           /\ shouldStop[v] \/ o.stop => shouldStop'[v]
           /\ \A w \in VCPU \ {v} : /\ thr'[w] = thr[w]
                                   /\ exitCount'[w] = exitCount[w]
                                   /\ shouldStop'[w] = shouldStop[w]
<1> DEFINE n == exitCount[v] + (IF o.error THEN 1 ELSE 2)
<1>1. exitCount[v] \in 0..ExitLimit /\ ExitLimit \in Nat
  BY ConstantsAssumption DEF TypeOK, CountInv, Live
<1>2. n \in 0..(ExitLimit + 2)
  BY <1>1
<1>3. /\ exitCount' = [exitCount EXCEPT ![v] = n]
      /\ shouldStop' = [shouldStop EXCEPT ![v] = @ \/ o.stop]
      /\ \E to \in {"done", "loop", "print"} :
             /\ thr' = [thr EXCEPT ![v] = to]
             /\ to # "done" => n <= ExitLimit
  <2>1. CASE o.error \/ n > ExitLimit
    BY <2>1 DEF HandleExit
  <2>2. CASE ~(o.error \/ n > ExitLimit)
    BY <2>2, <1>1, <1>2 DEF HandleExit
  <2>3. QED
    BY <2>1, <2>2
<1> HIDE DEF n
<1>4. /\ exitCount' \in [VCPU -> 0..(ExitLimit + 2)]
      /\ exitCount'[v] = n
      /\ \A w \in VCPU \ {v} : exitCount'[w] = exitCount[w]
  BY <1>2, <1>3 DEF TypeOK
<1>5. /\ shouldStop' \in [VCPU -> BOOLEAN]
      /\ shouldStop[v] \/ o.stop => shouldStop'[v]
      /\ \A w \in VCPU \ {v} : shouldStop'[w] = shouldStop[w]
  BY <1>3 DEF TypeOK
<1>6. QED
  BY <1>3, <1>4, <1>5 DEF TypeOK, ThrPc, Live

-----------------------------------------------------------------------------
(* The base invariant.                                                      *)

\* Every step preserves the types.
LEMMA TypeStep == BaseInv /\ [Next]_vars => TypeOK'
<1> SUFFICES ASSUME TypeOK, AgentInv, CountInv, [Next]_vars PROVE TypeOK'
  BY DEF BaseInv
<1> USE Indices
<1> USE DEF TypeOK, MainPc, Live, ThrPc, AgentPc, InVcpuStop,
            vars, mainVars, vcpuVars, agentVars
<1>1. CASE VcpuStart
  BY <1>1 DEF VcpuStart
<1>2. CASE VcpuStartFails
  BY <1>2 DEF VcpuStartFails
<1>3. CASE StartFailed
  BY <1>3 DEF StartFailed
<1>4. CASE VmStarted
  BY <1>4 DEF VmStarted
<1>5. CASE WaitPoll
  BY <1>5 DEF WaitPoll
<1>6. CASE WaitDone
  BY <1>6 DEF WaitDone
<1>7. CASE Report
  BY <1>7 DEF Report
<1>8. CASE VmDestroy
  BY <1>8 DEF VmDestroy
<1>9. CASE VcpuDestroy
  <2>1. k \in VCPU /\ k + 1 \in 0..N
    BY <1>9 DEF VcpuDestroy
  <2>2. CASE vcpuState[k] = "RUNNING"
    BY <1>9, <2>1, <2>2 DEF VcpuDestroy
  <2>3. CASE vcpuState[k] # "RUNNING"
    BY <1>9, <2>1, <2>3 DEF VcpuDestroy
  <2>4. QED
    BY <2>2, <2>3
<1>10. CASE FreeVm
  BY <1>10 DEF FreeVm
<1>11. CASE ExitMain
  BY <1>11 DEF ExitMain
<1>12. ASSUME NEW v \in VCPU, ThreadBoot(v) PROVE TypeOK'
  BY <1>12 DEF ThreadBoot
<1>13. ASSUME NEW v \in VCPU, LoopTest(v) PROVE TypeOK'
  BY <1>13 DEF LoopTest
<1>14. ASSUME NEW v \in VCPU, RunFails(v) PROVE TypeOK'
  BY <1>14 DEF RunFails
<1>15. ASSUME NEW v \in VCPU, GuestExit(v) PROVE TypeOK'
  <2>1. PICK o \in [stop : BOOLEAN, error : BOOLEAN] : HandleExit(v, o)
    BY <1>15, OutcomesType DEF GuestExit
  <2>2. thr[v] = "guest"
    BY <1>15 DEF GuestExit
  <2>3. QED
    BY <1>15, <2>1, <2>2, HandleExitFacts DEF GuestExit
<1>16. ASSUME NEW v \in VCPU, CanceledExit(v) PROVE TypeOK'
  <2> DEFINE o == [stop |-> TRUE, error |-> FALSE]
  <2>1. thr[v] = "guest" /\ HandleExit(v, o)
    BY <1>16 DEF CanceledExit
  <2>2. o \in [stop : BOOLEAN, error : BOOLEAN]
    OBVIOUS
  <2> HIDE DEF o
  <2>3. QED
    BY <1>16, <2>1, <2>2, HandleExitFacts DEF CanceledExit
<1>17. ASSUME NEW v \in VCPU, PrintDone(v) PROVE TypeOK'
  BY <1>17 DEF PrintDone
<1>18. ASSUME NEW v \in VCPU, ActOnCancel(v) PROVE TypeOK'
  BY <1>18 DEF ActOnCancel
<1>19. ASSUME NEW t \in SigThreads, Signal(t) PROVE TypeOK'
  BY <1>19 DEF Signal
<1>20. ASSUME NEW h \in Handlers, VmStop(h) PROVE TypeOK'
  BY <1>20 DEF VmStop, VmFreed
<1>21. ASSUME NEW a \in Agents, StopReturn(a) PROVE TypeOK'
  BY <1>21 DEF StopReturn, Limit, IsVmStop
<1>22. ASSUME NEW a \in Agents, VcpuStopSkip(a) PROVE TypeOK'
  <2>1. idx[a] < N
    BY <1>22, ConstantsAssumption DEF VcpuStopSkip, Limit, AgentInv
  <2>2. idx[a] + 1 \in 0..N
    BY <2>1
  <2>3. QED
    BY <1>22, <2>2 DEF VcpuStopSkip
<1>23. ASSUME NEW a \in Agents, VcpuStopRequest(a) PROVE TypeOK'
  BY <1>23 DEF VcpuStopRequest, Limit
<1>24. ASSUME NEW a \in Agents, VcpuStopKick(a) PROVE TypeOK'
  BY <1>24 DEF VcpuStopKick, AgentInv
<1>25. ASSUME NEW a \in Agents, JoinWaits(a) PROVE TypeOK'
  BY <1>25 DEF JoinWaits, AgentInv
<1>26. ASSUME NEW a \in Agents, JoinTwice(a) PROVE TypeOK'
  BY <1>26 DEF JoinTwice, JoinReturns, AgentInv
<1>27. ASSUME NEW a \in Agents, JoinSelf(a) PROVE TypeOK'
  <2>1. idx[a] \in VCPU /\ idx[a] + 1 \in 0..N
    BY <1>27 DEF JoinSelf, AgentInv
  <2>2. CASE SelfJoinReturns
    BY <1>27, <2>1, <2>2 DEF JoinSelf, JoinReturns
  <2>3. CASE ~SelfJoinReturns
    BY <1>27, <2>1, <2>3 DEF JoinSelf
  <2>4. QED
    BY <2>2, <2>3
<1>28. ASSUME NEW a \in Agents, JoinDone(a) PROVE TypeOK'
  BY <1>28 DEF JoinDone, JoinReturns, AgentInv
<1>29. CASE UNCHANGED vars
  BY <1>29
<1>30. QED
  BY <1>1, <1>2, <1>3, <1>4, <1>5, <1>6, <1>7, <1>8, <1>9, <1>10, <1>11, <1>12, <1>13, <1>14, 
     <1>15, <1>16, <1>17, <1>18, <1>19, <1>20, <1>21, <1>22, <1>23, <1>24, <1>25, <1>26, <1>27, <1>28, <1>29
     DEF Next, MainStep, VcpuStep, StopStep, Terminated

\* Every step keeps the agents where they can be.
LEMMA AgentStep == BaseInv /\ [Next]_vars => AgentInv'
<1> SUFFICES ASSUME TypeOK, AgentInv, PhaseInv, [Next]_vars PROVE AgentInv'
  BY DEF BaseInv
<1> USE Indices, ConstantsAssumption
<1> USE DEF TypeOK, AgentInv, InVcpuStop, vars, mainVars, vcpuVars, agentVars
<1>1. CASE VcpuStart
  BY <1>1 DEF VcpuStart, MainRuns
<1>2. CASE VcpuStartFails
  BY <1>2 DEF VcpuStartFails
<1>3. CASE StartFailed
  BY <1>3 DEF StartFailed, MainRuns
<1>4. CASE VmStarted
  BY <1>4 DEF VmStarted
<1>5. CASE WaitPoll
  BY <1>5 DEF WaitPoll
<1>6. CASE WaitDone
  BY <1>6 DEF WaitDone
<1>7. CASE Report
  BY <1>7 DEF Report
<1>8. CASE VmDestroy
  BY <1>8 DEF VmDestroy, MainRuns
<1>9. CASE VcpuDestroy
  BY <1>9 DEF VcpuDestroy, MainRuns
<1>10. CASE FreeVm
  BY <1>10 DEF FreeVm, MainRuns
<1>11. CASE ExitMain
  BY <1>11 DEF ExitMain, MainRuns
<1>12. ASSUME NEW v \in VCPU, ThreadBoot(v) PROVE AgentInv'
  BY <1>12 DEF ThreadBoot
<1>13. ASSUME NEW v \in VCPU, LoopTest(v) PROVE AgentInv'
  BY <1>13 DEF LoopTest
<1>14. ASSUME NEW v \in VCPU, RunFails(v) PROVE AgentInv'
  BY <1>14 DEF RunFails
<1>15. ASSUME NEW v \in VCPU, GuestExit(v) PROVE AgentInv'
  BY <1>15 DEF GuestExit
<1>16. ASSUME NEW v \in VCPU, CanceledExit(v) PROVE AgentInv'
  BY <1>16 DEF CanceledExit
<1>17. ASSUME NEW v \in VCPU, PrintDone(v) PROVE AgentInv'
  BY <1>17 DEF PrintDone
<1>18. ASSUME NEW v \in VCPU, ActOnCancel(v) PROVE AgentInv'
  BY <1>18 DEF ActOnCancel
<1>19. ASSUME NEW t \in SigThreads, Signal(t) PROVE AgentInv'
  <2>1. /\ sent + 1 \in Handlers /\ sent + 1 # 0
        /\ at' = [at EXCEPT ![sent + 1] = "test"] /\ on' = [on EXCEPT ![sent + 1] = t]
        /\ sent' = sent + 1 /\ UNCHANGED <<pc, k, idx>>
    BY <1>19 DEF Signal
  <2>2. \A h \in Handlers : h > sent' => at'[h] = "off"
    BY <2>1 DEF Handlers
  <2>3. \A b \in Agents : at'[b] \in InVcpuStop => at'[b] = at[b]
    BY <2>1
  <2>4. at'[0] = at[0] /\ on'[0] = on[0]
    BY <2>1
  <2>5. QED
    BY <2>1, <2>2, <2>3, <2>4
<1>20. ASSUME NEW h \in Handlers, VmStop(h) PROVE AgentInv'
  BY <1>20 DEF VmStop, VmFreed
<1>21. ASSUME NEW a \in Agents, StopReturn(a) PROVE AgentInv'
  BY <1>21 DEF StopReturn, Limit, IsVmStop
<1>22. ASSUME NEW a \in Agents, VcpuStopSkip(a) PROVE AgentInv'
  BY <1>22 DEF VcpuStopSkip, Limit
<1>23. ASSUME NEW a \in Agents, VcpuStopRequest(a) PROVE AgentInv'
  BY <1>23 DEF VcpuStopRequest, Limit
<1>24. ASSUME NEW a \in Agents, VcpuStopKick(a) PROVE AgentInv'
  BY <1>24 DEF VcpuStopKick
<1>25. ASSUME NEW a \in Agents, JoinWaits(a) PROVE AgentInv'
  BY <1>25 DEF JoinWaits
<1>26. ASSUME NEW a \in Agents, JoinTwice(a) PROVE AgentInv'
  BY <1>26 DEF JoinTwice, JoinReturns
<1>27. ASSUME NEW a \in Agents, JoinSelf(a) PROVE AgentInv'
  BY <1>27 DEF JoinSelf, JoinReturns
<1>28. ASSUME NEW a \in Agents, JoinDone(a) PROVE AgentInv'
  BY <1>28 DEF JoinDone, JoinReturns
<1>29. CASE UNCHANGED vars
  BY <1>29
<1>30. QED
  BY <1>1, <1>2, <1>3, <1>4, <1>5, <1>6, <1>7, <1>8, <1>9, <1>10, <1>11, <1>12, <1>13, <1>14, 
     <1>15, <1>16, <1>17, <1>18, <1>19, <1>20, <1>21, <1>22, <1>23, <1>24, <1>25, <1>26, <1>27, <1>28, <1>29
     DEF Next, MainStep, VcpuStep, StopStep, Terminated

\* Every step keeps the threads that go on below the limit on exits.
LEMMA CountStep == BaseInv /\ [Next]_vars => CountInv'
<1> SUFFICES ASSUME TypeOK, AgentInv, CountInv, PhaseInv, [Next]_vars PROVE CountInv'
  BY DEF BaseInv
<1> USE Indices
<1> USE DEF TypeOK, CountInv, Live, ThrPc, vars, mainVars, vcpuVars, agentVars
<1>1. CASE VcpuStart
  BY <1>1 DEF VcpuStart, PhaseInv
<1>2. CASE VcpuStartFails
  BY <1>2 DEF VcpuStartFails
<1>3. CASE StartFailed
  BY <1>3 DEF StartFailed
<1>4. CASE VmStarted
  BY <1>4 DEF VmStarted
<1>5. CASE WaitPoll
  BY <1>5 DEF WaitPoll
<1>6. CASE WaitDone
  BY <1>6 DEF WaitDone
<1>7. CASE Report
  BY <1>7 DEF Report
<1>8. CASE VmDestroy
  BY <1>8 DEF VmDestroy
<1>9. CASE VcpuDestroy
  BY <1>9 DEF VcpuDestroy
<1>10. CASE FreeVm
  BY <1>10 DEF FreeVm
<1>11. CASE ExitMain
  BY <1>11 DEF ExitMain
<1>12. ASSUME NEW v \in VCPU, ThreadBoot(v) PROVE CountInv'
  BY <1>12 DEF ThreadBoot
<1>13. ASSUME NEW v \in VCPU, LoopTest(v) PROVE CountInv'
  BY <1>13 DEF LoopTest
<1>14. ASSUME NEW v \in VCPU, RunFails(v) PROVE CountInv'
  BY <1>14 DEF RunFails
<1>15. ASSUME NEW v \in VCPU, GuestExit(v) PROVE CountInv'
  <2>1. PICK o \in [stop : BOOLEAN, error : BOOLEAN] : HandleExit(v, o)
    BY <1>15, OutcomesType DEF GuestExit
  <2>2. thr[v] = "guest"
    BY <1>15 DEF GuestExit
  <2>3. QED
    BY <1>15, <2>1, <2>2, HandleExitFacts DEF GuestExit
<1>16. ASSUME NEW v \in VCPU, CanceledExit(v) PROVE CountInv'
  <2> DEFINE o == [stop |-> TRUE, error |-> FALSE]
  <2>1. thr[v] = "guest" /\ HandleExit(v, o)
    BY <1>16 DEF CanceledExit
  <2>2. o \in [stop : BOOLEAN, error : BOOLEAN]
    OBVIOUS
  <2> HIDE DEF o
  <2>3. QED
    BY <1>16, <2>1, <2>2, HandleExitFacts DEF CanceledExit
<1>17. ASSUME NEW v \in VCPU, PrintDone(v) PROVE CountInv'
  BY <1>17 DEF PrintDone
<1>18. ASSUME NEW v \in VCPU, ActOnCancel(v) PROVE CountInv'
  BY <1>18 DEF ActOnCancel
<1>19. ASSUME NEW t \in SigThreads, Signal(t) PROVE CountInv'
  BY <1>19 DEF Signal
<1>20. ASSUME NEW h \in Handlers, VmStop(h) PROVE CountInv'
  BY <1>20 DEF VmStop, VmFreed
<1>21. ASSUME NEW a \in Agents, StopReturn(a) PROVE CountInv'
  BY <1>21 DEF StopReturn, Limit, IsVmStop
<1>22. ASSUME NEW a \in Agents, VcpuStopSkip(a) PROVE CountInv'
  BY <1>22 DEF VcpuStopSkip, Limit
<1>23. ASSUME NEW a \in Agents, VcpuStopRequest(a) PROVE CountInv'
  BY <1>23 DEF VcpuStopRequest, Limit
<1>24. ASSUME NEW a \in Agents, VcpuStopKick(a) PROVE CountInv'
  BY <1>24 DEF VcpuStopKick
<1>25. ASSUME NEW a \in Agents, JoinWaits(a) PROVE CountInv'
  BY <1>25 DEF JoinWaits
<1>26. ASSUME NEW a \in Agents, JoinTwice(a) PROVE CountInv'
  BY <1>26 DEF JoinTwice, JoinReturns
<1>27. ASSUME NEW a \in Agents, JoinSelf(a) PROVE CountInv'
  BY <1>27 DEF JoinSelf, JoinReturns
<1>28. ASSUME NEW a \in Agents, JoinDone(a) PROVE CountInv'
  BY <1>28 DEF JoinDone, JoinReturns, AgentInv, InVcpuStop
<1>29. CASE UNCHANGED vars
  BY <1>29
<1>30. QED
  BY <1>1, <1>2, <1>3, <1>4, <1>5, <1>6, <1>7, <1>8, <1>9, <1>10, <1>11, <1>12, <1>13, <1>14, 
     <1>15, <1>16, <1>17, <1>18, <1>19, <1>20, <1>21, <1>22, <1>23, <1>24, <1>25, <1>26, <1>27, <1>28, <1>29
     DEF Next, MainStep, VcpuStep, StopStep, Terminated

\* Every step keeps the order of main()'s phases.
LEMMA PhaseStep == BaseInv /\ [Next]_vars => PhaseInv'
<1> SUFFICES ASSUME TypeOK, AgentInv, CountInv, PhaseInv, [Next]_vars PROVE PhaseInv'
  BY DEF BaseInv
<1> USE Indices
<1> USE DEF TypeOK, PhaseInv, AgentInv, InVmStop, InVcpuStop, ThrPc, Live,
            vars, mainVars, vcpuVars, agentVars
<1>1. CASE VcpuStart
  BY <1>1 DEF VcpuStart, MainRuns
<1>2. CASE VcpuStartFails
  BY <1>2 DEF VcpuStartFails
<1>3. CASE StartFailed
  BY <1>3 DEF StartFailed, MainRuns
<1>4. CASE VmStarted
  BY <1>4 DEF VmStarted, MainRuns
<1>5. CASE WaitPoll
  BY <1>5 DEF WaitPoll
<1>6. CASE WaitDone
  BY <1>6 DEF WaitDone
<1>7. CASE Report
  BY <1>7 DEF Report
<1>8. CASE VmDestroy
  BY <1>8 DEF VmDestroy, MainRuns
<1>9. CASE VcpuDestroy
  BY <1>9 DEF VcpuDestroy, MainRuns
<1>10. CASE FreeVm
  BY <1>10 DEF FreeVm, MainRuns
<1>11. CASE ExitMain
  BY <1>11 DEF ExitMain, MainRuns
<1>12. ASSUME NEW v \in VCPU, ThreadBoot(v) PROVE PhaseInv'
  BY <1>12 DEF ThreadBoot
<1>13. ASSUME NEW v \in VCPU, LoopTest(v) PROVE PhaseInv'
  BY <1>13 DEF LoopTest
<1>14. ASSUME NEW v \in VCPU, RunFails(v) PROVE PhaseInv'
  BY <1>14 DEF RunFails
<1>15. ASSUME NEW v \in VCPU, GuestExit(v) PROVE PhaseInv'
  <2>1. PICK o \in [stop : BOOLEAN, error : BOOLEAN] : HandleExit(v, o)
    BY <1>15, OutcomesType DEF GuestExit
  <2>2. thr[v] = "guest"
    BY <1>15 DEF GuestExit
  <2>3. QED
    BY <1>15, <2>1, <2>2, HandleExitFacts DEF GuestExit
<1>16. ASSUME NEW v \in VCPU, CanceledExit(v) PROVE PhaseInv'
  <2> DEFINE o == [stop |-> TRUE, error |-> FALSE]
  <2>1. thr[v] = "guest" /\ HandleExit(v, o)
    BY <1>16 DEF CanceledExit
  <2>2. o \in [stop : BOOLEAN, error : BOOLEAN]
    OBVIOUS
  <2> HIDE DEF o
  <2>3. QED
    BY <1>16, <2>1, <2>2, HandleExitFacts DEF CanceledExit
<1>17. ASSUME NEW v \in VCPU, PrintDone(v) PROVE PhaseInv'
  BY <1>17 DEF PrintDone
<1>18. ASSUME NEW v \in VCPU, ActOnCancel(v) PROVE PhaseInv'
  BY <1>18 DEF ActOnCancel
<1>19. ASSUME NEW t \in SigThreads, Signal(t) PROVE PhaseInv'
  BY <1>19 DEF Signal
<1>20. ASSUME NEW h \in Handlers, VmStop(h) PROVE PhaseInv'
  BY <1>20 DEF VmStop, VmFreed
<1>21. ASSUME NEW a \in Agents, StopReturn(a) PROVE PhaseInv'
  BY <1>21 DEF StopReturn, Limit, IsVmStop
<1>22. ASSUME NEW a \in Agents, VcpuStopSkip(a) PROVE PhaseInv'
  BY <1>22 DEF VcpuStopSkip, Limit
<1>23. ASSUME NEW a \in Agents, VcpuStopRequest(a) PROVE PhaseInv'
  BY <1>23 DEF VcpuStopRequest, Limit
<1>24. ASSUME NEW a \in Agents, VcpuStopKick(a) PROVE PhaseInv'
  BY <1>24 DEF VcpuStopKick
<1>25. ASSUME NEW a \in Agents, JoinWaits(a) PROVE PhaseInv'
  BY <1>25 DEF JoinWaits
<1>26. ASSUME NEW a \in Agents, JoinTwice(a) PROVE PhaseInv'
  BY <1>26 DEF JoinTwice, JoinReturns
<1>27. ASSUME NEW a \in Agents, JoinSelf(a) PROVE PhaseInv'
  BY <1>27 DEF JoinSelf, JoinReturns
<1>28. ASSUME NEW a \in Agents, JoinDone(a) PROVE PhaseInv'
  BY <1>28 DEF JoinDone, JoinReturns
<1>29. CASE UNCHANGED vars
  BY <1>29
<1>30. QED
  BY <1>1, <1>2, <1>3, <1>4, <1>5, <1>6, <1>7, <1>8, <1>9, <1>10, <1>11, <1>12, <1>13, <1>14, 
     <1>15, <1>16, <1>17, <1>18, <1>19, <1>20, <1>21, <1>22, <1>23, <1>24, <1>25, <1>26, <1>27, <1>28, <1>29
     DEF Next, MainStep, VcpuStep, StopStep, Terminated

\* The base invariant holds of every behaviour.
THEOREM BaseInvariant == Spec => []BaseInv
<1>1. Init => BaseInv
  <2> SUFFICES ASSUME Init PROVE BaseInv
    OBVIOUS
  <2> USE ConstantsAssumption, Indices DEF Init
  <2>1. TypeOK
    <3>1. 0 \in 0..(ExitLimit + 2) /\ 0 \in 0..MaxSignals
      OBVIOUS
    <3>2. QED
      BY <3>1 DEF TypeOK, MainPc, ThrPc, Live, AgentPc
  <2>2. AgentInv
    BY DEF AgentInv, InVcpuStop
  <2>3. CountInv
    BY DEF CountInv
  <2>4. PhaseInv
    BY DEF PhaseInv, InVmStop, InVcpuStop
  <2>5. QED
    BY <2>1, <2>2, <2>3, <2>4 DEF BaseInv
<1>2. BaseInv /\ [Next]_vars => BaseInv'
  BY TypeStep, AgentStep, CountStep, PhaseStep DEF BaseInv
<1>3. QED
  BY <1>1, <1>2, PTL DEF Spec

\* The fields of struct vm and struct vcpu keep their types, the loops their
\* index ranges, and exit_count never passes the limit by more than the two
\* increments of one exit.
THEOREM TypeCorrect == Spec => []TypeOK
BY BaseInvariant, PTL DEF BaseInv

-----------------------------------------------------------------------------
(* vm_stop() and the rollback leave no vCPU RUNNING.                        *)

\* Every step keeps what vm_stop() and the rollback have stopped.
LEMMA StoppedStep == BaseInv /\ StoppedInv /\ [Next]_vars => StoppedInv'
<1> SUFFICES ASSUME TypeOK, AgentInv, PhaseInv, StoppedInv, [Next]_vars
             PROVE  StoppedInv'
  BY DEF BaseInv
<1> USE Indices
<1> USE DEF TypeOK, StoppedInv, PhaseInv, AgentInv, InVmStop, InVcpuStop,
            vars, mainVars, vcpuVars, agentVars
<1>1. CASE VcpuStart
  BY <1>1 DEF VcpuStart, MainRuns
<1>2. CASE VcpuStartFails
  BY <1>2 DEF VcpuStartFails, MainRuns
<1>3. CASE StartFailed
  BY <1>3 DEF StartFailed, MainRuns
<1>4. CASE VmStarted
  BY <1>4 DEF VmStarted, MainRuns
<1>5. CASE WaitPoll
  BY <1>5 DEF WaitPoll, MainRuns
<1>6. CASE WaitDone
  BY <1>6 DEF WaitDone, MainRuns
<1>7. CASE Report
  BY <1>7 DEF Report, MainRuns
<1>8. CASE VmDestroy
  BY <1>8 DEF VmDestroy, MainRuns
<1>9. CASE VcpuDestroy
  BY <1>9 DEF VcpuDestroy, MainRuns
<1>10. CASE FreeVm
  BY <1>10 DEF FreeVm, MainRuns
<1>11. CASE ExitMain
  BY <1>11 DEF ExitMain, MainRuns
<1>12. ASSUME NEW v \in VCPU, ThreadBoot(v) PROVE StoppedInv'
  BY <1>12 DEF ThreadBoot
<1>13. ASSUME NEW v \in VCPU, LoopTest(v) PROVE StoppedInv'
  BY <1>13 DEF LoopTest
<1>14. ASSUME NEW v \in VCPU, RunFails(v) PROVE StoppedInv'
  BY <1>14 DEF RunFails
<1>15. ASSUME NEW v \in VCPU, GuestExit(v) PROVE StoppedInv'
  BY <1>15 DEF GuestExit
<1>16. ASSUME NEW v \in VCPU, CanceledExit(v) PROVE StoppedInv'
  BY <1>16 DEF CanceledExit
<1>17. ASSUME NEW v \in VCPU, PrintDone(v) PROVE StoppedInv'
  BY <1>17 DEF PrintDone
<1>18. ASSUME NEW v \in VCPU, ActOnCancel(v) PROVE StoppedInv'
  BY <1>18 DEF ActOnCancel
<1>19. ASSUME NEW t \in SigThreads, Signal(t) PROVE StoppedInv'
  BY <1>19 DEF Signal
<1>20. ASSUME NEW h \in Handlers, VmStop(h) PROVE StoppedInv'
  BY <1>20 DEF VmStop, VmFreed
<1>21. ASSUME NEW a \in Agents, StopReturn(a) PROVE StoppedInv'
  <2>1. \A v \in VCPU : v < idx[a] /\ ~(a = 0 /\ pc = "free") => vcpuState[v] = "STOPPED"
    BY <1>21 DEF StopReturn
  <2>2. CASE IsVmStop(a)
    <3>1. Limit(a) = N /\ ~(a = 0 /\ pc = "free")
      BY <2>2 DEF IsVmStop, Limit
    <3>2. \A v \in VCPU : vcpuState[v] = "STOPPED"
      BY <1>21, <2>1, <3>1, ConstantsAssumption DEF StopReturn, VCPU
    <3>3. QED
      BY <1>21, <3>2 DEF StopReturn
  <2>3. CASE ~IsVmStop(a) /\ pc = "rollback"
    <3> a = 0
      BY <2>3 DEF IsVmStop
    <3>1. \A v \in VCPU : vcpuState[v] = "STOPPED"
      BY <1>21, <2>1, <2>3, ConstantsAssumption DEF StopReturn, Limit, VCPU
    <3>2. QED
      BY <1>21, <2>3, <3>1 DEF StopReturn
  <2>4. CASE ~IsVmStop(a) /\ pc # "rollback"
    BY <1>21, <2>4 DEF StopReturn
  <2>5. QED
    BY <2>2, <2>3, <2>4
<1>22. ASSUME NEW a \in Agents, VcpuStopSkip(a) PROVE StoppedInv'
  BY <1>22 DEF VcpuStopSkip, Limit
<1>23. ASSUME NEW a \in Agents, VcpuStopRequest(a) PROVE StoppedInv'
  BY <1>23 DEF VcpuStopRequest, Limit
<1>24. ASSUME NEW a \in Agents, VcpuStopKick(a) PROVE StoppedInv'
  BY <1>24 DEF VcpuStopKick
<1>25. ASSUME NEW a \in Agents, JoinWaits(a) PROVE StoppedInv'
  BY <1>25 DEF JoinWaits
<1>26. ASSUME NEW a \in Agents, JoinTwice(a) PROVE StoppedInv'
  BY <1>26 DEF JoinTwice, JoinReturns
<1>27. ASSUME NEW a \in Agents, JoinSelf(a) PROVE StoppedInv'
  BY <1>27 DEF JoinSelf, JoinReturns
<1>28. ASSUME NEW a \in Agents, JoinDone(a) PROVE StoppedInv'
  BY <1>28 DEF JoinDone, JoinReturns
<1>29. CASE UNCHANGED vars
  BY <1>29
<1>30. QED
  BY <1>1, <1>2, <1>3, <1>4, <1>5, <1>6, <1>7, <1>8, <1>9, <1>10, <1>11, <1>12, <1>13, <1>14, 
     <1>15, <1>16, <1>17, <1>18, <1>19, <1>20, <1>21, <1>22, <1>23, <1>24, <1>25, <1>26, <1>27, <1>28, <1>29
     DEF Next, MainStep, VcpuStep, StopStep, Terminated

\* Whatever signals arrive and wherever, when vm_destroy() frees the vCPUs none
\* is RUNNING: vm_stop(), a handler's or its own, or the rollback of a failed
\* vm_start(), has been through all of them.
THEOREM StoppedBeforeFreeThm == Spec => []StoppedBeforeFree
<1>1. Init => StoppedInv
  BY DEF Init, StoppedInv, InVmStop, InVcpuStop
<1>2. BaseInv /\ StoppedInv /\ [Next]_vars => StoppedInv'
  BY StoppedStep
<1>3. BaseInv /\ StoppedInv => StoppedBeforeFree
  BY DEF BaseInv, PhaseInv, TypeOK, StoppedInv, StoppedBeforeFree
<1>4. QED
  BY <1>1, <1>2, <1>3, BaseInvariant, PTL DEF Spec

-----------------------------------------------------------------------------
(* Signals on main()'s thread: nothing is freed too early.                  *)

\* If signals reach main()'s thread only, every step keeps the agents on it,
\* and a STOPPED vCPU's thread over or awaited.
LEMMA AwaitedStep ==
    ASSUME SigThreads \subseteq {Main}
    PROVE  BaseInv /\ AwaitedInv /\ [Next]_vars => AwaitedInv'
<1> SUFFICES ASSUME TypeOK, AgentInv, CountInv, PhaseInv, AwaitedInv, [Next]_vars
             PROVE  AwaitedInv'
  BY DEF BaseInv
<1> USE Indices
<1> USE DEF TypeOK, AwaitedInv, BeingJoined, AgentInv, InVcpuStop, ThrPc, Live,
            vars, mainVars, vcpuVars, agentVars
<1>1. CASE VcpuStart
  BY <1>1 DEF VcpuStart, PhaseInv
<1>2. CASE VcpuStartFails
  BY <1>2 DEF VcpuStartFails, MainRuns
<1>3. CASE StartFailed
  BY <1>3 DEF StartFailed
<1>4. CASE VmStarted
  BY <1>4 DEF VmStarted
<1>5. CASE WaitPoll
  BY <1>5 DEF WaitPoll
<1>6. CASE WaitDone
  BY <1>6 DEF WaitDone
<1>7. CASE Report
  BY <1>7 DEF Report
<1>8. CASE VmDestroy
  BY <1>8 DEF VmDestroy, MainRuns
<1>9. CASE VcpuDestroy
  BY <1>9 DEF VcpuDestroy, MainRuns
<1>10. CASE FreeVm
  BY <1>10 DEF FreeVm
<1>11. CASE ExitMain
  BY <1>11 DEF ExitMain
<1>12. ASSUME NEW v \in VCPU, ThreadBoot(v) PROVE AwaitedInv'
  BY <1>12 DEF ThreadBoot
<1>13. ASSUME NEW v \in VCPU, LoopTest(v) PROVE AwaitedInv'
  BY <1>13 DEF LoopTest
<1>14. ASSUME NEW v \in VCPU, RunFails(v) PROVE AwaitedInv'
  BY <1>14 DEF RunFails
<1>15. ASSUME NEW v \in VCPU, GuestExit(v) PROVE AwaitedInv'
  <2>1. PICK o \in [stop : BOOLEAN, error : BOOLEAN] : HandleExit(v, o)
    BY <1>15, OutcomesType DEF GuestExit
  <2>2. thr[v] = "guest"
    BY <1>15 DEF GuestExit
  <2>3. QED
    BY <1>15, <2>1, <2>2, HandleExitFacts DEF GuestExit
<1>16. ASSUME NEW v \in VCPU, CanceledExit(v) PROVE AwaitedInv'
  <2> DEFINE o == [stop |-> TRUE, error |-> FALSE]
  <2>1. thr[v] = "guest" /\ HandleExit(v, o)
    BY <1>16 DEF CanceledExit
  <2>2. o \in [stop : BOOLEAN, error : BOOLEAN]
    OBVIOUS
  <2> HIDE DEF o
  <2>3. QED
    BY <1>16, <2>1, <2>2, HandleExitFacts DEF CanceledExit
<1>17. ASSUME NEW v \in VCPU, PrintDone(v) PROVE AwaitedInv'
  BY <1>17 DEF PrintDone
<1>18. ASSUME NEW v \in VCPU, ActOnCancel(v) PROVE AwaitedInv'
  BY <1>18 DEF ActOnCancel
<1>19. ASSUME NEW t \in SigThreads, Signal(t) PROVE AwaitedInv'
  BY <1>19 DEF Signal, Handlers
<1>20. ASSUME NEW h \in Handlers, VmStop(h) PROVE AwaitedInv'
  BY <1>20 DEF VmStop, VmFreed
<1>21. ASSUME NEW a \in Agents, StopReturn(a) PROVE AwaitedInv'
  BY <1>21 DEF StopReturn, Limit, IsVmStop
<1>22. ASSUME NEW a \in Agents, VcpuStopSkip(a) PROVE AwaitedInv'
  BY <1>22 DEF VcpuStopSkip, Limit
<1>23. ASSUME NEW a \in Agents, VcpuStopRequest(a) PROVE AwaitedInv'
  BY <1>23 DEF VcpuStopRequest, Limit
<1>24. ASSUME NEW a \in Agents, VcpuStopKick(a) PROVE AwaitedInv'
  BY <1>24 DEF VcpuStopKick
<1>25. ASSUME NEW a \in Agents, JoinWaits(a) PROVE AwaitedInv'
  BY <1>25 DEF JoinWaits
<1>26. ASSUME NEW a \in Agents, JoinTwice(a) PROVE AwaitedInv'
  BY <1>26 DEF JoinTwice, JoinReturns
<1>27. ASSUME NEW a \in Agents, JoinSelf(a) PROVE AwaitedInv'
  BY <1>27 DEF JoinSelf, JoinReturns
<1>28. ASSUME NEW a \in Agents, JoinDone(a) PROVE AwaitedInv'
  BY <1>28 DEF JoinDone, JoinReturns
<1>29. CASE UNCHANGED vars
  BY <1>29
<1>30. QED
  BY <1>1, <1>2, <1>3, <1>4, <1>5, <1>6, <1>7, <1>8, <1>9, <1>10, <1>11, <1>12, <1>13, <1>14, 
     <1>15, <1>16, <1>17, <1>18, <1>19, <1>20, <1>21, <1>22, <1>23, <1>24, <1>25, <1>26, <1>27, <1>28, <1>29
     DEF Next, MainStep, VcpuStep, StopStep, Terminated

\* If signals reach main()'s thread only, no step frees a vCPU whose thread
\* lives, nor leaves a handler inside vm_stop() when vm_destroy() frees.
LEMMA FreedStep ==
    ASSUME SigThreads \subseteq {Main}
    PROVE  BaseInv /\ AwaitedInv /\ NoLateStop /\ FreedIsDead /\ [Next]_vars
              => NoLateStop' /\ FreedIsDead'
<1> SUFFICES ASSUME TypeOK, AgentInv, CountInv, PhaseInv, AwaitedInv, NoLateStop,
                    FreedIsDead, [Next]_vars
             PROVE  NoLateStop' /\ FreedIsDead'
  BY DEF BaseInv
<1> USE Indices
<1> USE DEF TypeOK, AwaitedInv, BeingJoined, AgentInv, PhaseInv, NoLateStop, FreedIsDead,
            InVmStop, InVcpuStop, ThrPc, Live, vars, mainVars, vcpuVars, agentVars
<1>1. CASE VcpuStart
  BY <1>1 DEF VcpuStart, MainRuns, Undisturbed, Active
<1>2. CASE VcpuStartFails
  BY <1>2 DEF VcpuStartFails, MainRuns, Undisturbed, Active
<1>3. CASE StartFailed
  BY <1>3 DEF StartFailed, MainRuns, Undisturbed, Active
<1>4. CASE VmStarted
  BY <1>4 DEF VmStarted, MainRuns, Undisturbed, Active
<1>5. CASE WaitPoll
  BY <1>5 DEF WaitPoll, MainRuns, Undisturbed, Active
<1>6. CASE WaitDone
  BY <1>6 DEF WaitDone, MainRuns, Undisturbed, Active
<1>7. CASE Report
  BY <1>7 DEF Report, MainRuns, Undisturbed, Active
<1>8. CASE VmDestroy
  BY <1>8 DEF VmDestroy, MainRuns, Undisturbed, Active
<1>9. CASE VcpuDestroy
  BY <1>9 DEF VcpuDestroy, MainRuns, Undisturbed, Active
<1>10. CASE FreeVm
  BY <1>10 DEF FreeVm, MainRuns, Undisturbed, Active
<1>11. CASE ExitMain
  BY <1>11 DEF ExitMain, MainRuns, Undisturbed, Active
<1>12. ASSUME NEW v \in VCPU, ThreadBoot(v) PROVE NoLateStop' /\ FreedIsDead'
  BY <1>12 DEF ThreadBoot
<1>13. ASSUME NEW v \in VCPU, LoopTest(v) PROVE NoLateStop' /\ FreedIsDead'
  BY <1>13 DEF LoopTest
<1>14. ASSUME NEW v \in VCPU, RunFails(v) PROVE NoLateStop' /\ FreedIsDead'
  BY <1>14 DEF RunFails
<1>15. ASSUME NEW v \in VCPU, GuestExit(v) PROVE NoLateStop' /\ FreedIsDead'
  <2>1. PICK o \in [stop : BOOLEAN, error : BOOLEAN] : HandleExit(v, o)
    BY <1>15, OutcomesType DEF GuestExit
  <2>2. thr[v] = "guest"
    BY <1>15 DEF GuestExit
  <2>3. QED
    BY <1>15, <2>1, <2>2, HandleExitFacts DEF GuestExit
<1>16. ASSUME NEW v \in VCPU, CanceledExit(v) PROVE NoLateStop' /\ FreedIsDead'
  <2> DEFINE o == [stop |-> TRUE, error |-> FALSE]
  <2>1. thr[v] = "guest" /\ HandleExit(v, o)
    BY <1>16 DEF CanceledExit
  <2>2. o \in [stop : BOOLEAN, error : BOOLEAN]
    OBVIOUS
  <2> HIDE DEF o
  <2>3. QED
    BY <1>16, <2>1, <2>2, HandleExitFacts DEF CanceledExit
<1>17. ASSUME NEW v \in VCPU, PrintDone(v) PROVE NoLateStop' /\ FreedIsDead'
  BY <1>17 DEF PrintDone
<1>18. ASSUME NEW v \in VCPU, ActOnCancel(v) PROVE NoLateStop' /\ FreedIsDead'
  BY <1>18 DEF ActOnCancel
<1>19. ASSUME NEW t \in SigThreads, Signal(t) PROVE NoLateStop' /\ FreedIsDead'
  BY <1>19 DEF Signal
<1>20. ASSUME NEW h \in Handlers, VmStop(h) PROVE NoLateStop' /\ FreedIsDead'
  BY <1>20 DEF VmStop, VmFreed
<1>21. ASSUME NEW a \in Agents, StopReturn(a) PROVE NoLateStop' /\ FreedIsDead'
  BY <1>21 DEF StopReturn, Limit, IsVmStop
<1>22. ASSUME NEW a \in Agents, VcpuStopSkip(a) PROVE NoLateStop' /\ FreedIsDead'
  BY <1>22 DEF VcpuStopSkip, Limit
<1>23. ASSUME NEW a \in Agents, VcpuStopRequest(a) PROVE NoLateStop' /\ FreedIsDead'
  BY <1>23 DEF VcpuStopRequest, Limit
<1>24. ASSUME NEW a \in Agents, VcpuStopKick(a) PROVE NoLateStop' /\ FreedIsDead'
  BY <1>24 DEF VcpuStopKick
<1>25. ASSUME NEW a \in Agents, JoinWaits(a) PROVE NoLateStop' /\ FreedIsDead'
  BY <1>25 DEF JoinWaits
<1>26. ASSUME NEW a \in Agents, JoinTwice(a) PROVE NoLateStop' /\ FreedIsDead'
  BY <1>26 DEF JoinTwice, JoinReturns
<1>27. ASSUME NEW a \in Agents, JoinSelf(a) PROVE NoLateStop' /\ FreedIsDead'
  BY <1>27 DEF JoinSelf, JoinReturns
<1>28. ASSUME NEW a \in Agents, JoinDone(a) PROVE NoLateStop' /\ FreedIsDead'
  BY <1>28 DEF JoinDone, JoinReturns
<1>29. CASE UNCHANGED vars
  BY <1>29
<1>30. QED
  BY <1>1, <1>2, <1>3, <1>4, <1>5, <1>6, <1>7, <1>8, <1>9, <1>10, <1>11, <1>12, <1>13, <1>14, 
     <1>15, <1>16, <1>17, <1>18, <1>19, <1>20, <1>21, <1>22, <1>23, <1>24, <1>25, <1>26, <1>27, <1>28, <1>29
     DEF Next, MainStep, VcpuStep, StopStep, Terminated

\* The initial state satisfies the invariants of this section.
LEMMA MainInit == Init => AwaitedInv /\ NoLateStop /\ FreedIsDead
BY Indices DEF Init, AwaitedInv, NoLateStop, FreedIsDead, InVmStop, InVcpuStop

\* A handler kept out of vm_stop() during vm_destroy() touches no freed vCPU.
LEMMA TouchFromInv == BaseInv /\ NoLateStop => StopTouchesNoFreed
<1> SUFFICES ASSUME BaseInv, NoLateStop, NEW a \in Agents, at[a] \in InVmStop,
                    idx[a] < Limit(a), freed[idx[a]]
             PROVE  FALSE
  BY DEF StopTouchesNoFreed, InVmStop, InVcpuStop
<1> USE Indices DEF BaseInv
<1>1. idx[a] \in VCPU
  BY ConstantsAssumption DEF TypeOK, AgentInv, Limit, InVmStop, InVcpuStop, VCPU
<1>2. pc \in {"free", "cleanup", "gone"} /\ (pc = "free" => idx[a] < k)
  BY <1>1 DEF PhaseInv
<1>3. CASE a \in Handlers
  BY <1>2, <1>3 DEF NoLateStop
<1>4. CASE a = 0
  BY <1>2, <1>4 DEF TypeOK, AgentInv, InVmStop, InVcpuStop
<1>5. QED
  BY <1>3, <1>4

\* If signals are delivered to main()'s thread only, then for any number of
\* vCPUs and signals vcpu_destroy() frees no struct vcpu whose thread still
\* runs, even when handlers nest inside vm_destroy()'s own vm_stop().
THEOREM FreedIsDeadThm ==
    ASSUME SigThreads \subseteq {Main}
    PROVE  Spec => []FreedIsDead
<1>1. Init => AwaitedInv /\ NoLateStop /\ FreedIsDead
  BY MainInit
<1>2. BaseInv /\ AwaitedInv /\ NoLateStop /\ FreedIsDead /\ [Next]_vars
         => AwaitedInv' /\ NoLateStop' /\ FreedIsDead'
  BY AwaitedStep, FreedStep
<1>3. QED
  BY <1>1, <1>2, BaseInvariant, PTL DEF Spec

\* Under the same condition no activation of vm_stop() works on a freed vCPU.
THEOREM StopTouchesNoFreedThm ==
    ASSUME SigThreads \subseteq {Main}
    PROVE  Spec => []StopTouchesNoFreed
<1>1. Init => AwaitedInv /\ NoLateStop /\ FreedIsDead
  BY MainInit
<1>2. BaseInv /\ AwaitedInv /\ NoLateStop /\ FreedIsDead /\ [Next]_vars
         => AwaitedInv' /\ NoLateStop' /\ FreedIsDead'
  BY AwaitedStep, FreedStep
<1>3. BaseInv /\ NoLateStop => StopTouchesNoFreed
  BY TouchFromInv
<1>4. QED
  BY <1>1, <1>2, <1>3, BaseInvariant, PTL DEF Spec

-----------------------------------------------------------------------------
(* Signals on any thread, as long as every pthread_join() joins.            *)

\* Every step keeps the threads that run handlers alive, and STOPPED vCPUs
\* joined unless a join went wrong.
LEMMA JoinedStep == BaseInv /\ JoinedInv /\ [Next]_vars => JoinedInv'
<1> SUFFICES ASSUME TypeOK, AgentInv, CountInv, PhaseInv, JoinedInv, [Next]_vars
             PROVE  JoinedInv'
  BY DEF BaseInv
<1> USE Indices
<1> USE DEF TypeOK, JoinedInv, AgentInv, InVcpuStop, Active, ThrPc, Live,
            vars, mainVars, vcpuVars, agentVars
<1>1. CASE VcpuStart
  BY <1>1 DEF VcpuStart, PhaseInv
<1>2. CASE VcpuStartFails
  BY <1>2 DEF VcpuStartFails
<1>3. CASE StartFailed
  BY <1>3 DEF StartFailed
<1>4. CASE VmStarted
  BY <1>4 DEF VmStarted
<1>5. CASE WaitPoll
  BY <1>5 DEF WaitPoll
<1>6. CASE WaitDone
  BY <1>6 DEF WaitDone
<1>7. CASE Report
  BY <1>7 DEF Report
<1>8. CASE VmDestroy
  BY <1>8 DEF VmDestroy
<1>9. CASE VcpuDestroy
  BY <1>9 DEF VcpuDestroy
<1>10. CASE FreeVm
  BY <1>10 DEF FreeVm
<1>11. CASE ExitMain
  BY <1>11 DEF ExitMain
<1>12. ASSUME NEW v \in VCPU, ThreadBoot(v) PROVE JoinedInv'
  BY <1>12 DEF ThreadBoot, VcpuRuns, Undisturbed
<1>13. ASSUME NEW v \in VCPU, LoopTest(v) PROVE JoinedInv'
  BY <1>13 DEF LoopTest, VcpuRuns, Undisturbed
<1>14. ASSUME NEW v \in VCPU, RunFails(v) PROVE JoinedInv'
  BY <1>14 DEF RunFails, VcpuRuns, Undisturbed
<1>15. ASSUME NEW v \in VCPU, GuestExit(v) PROVE JoinedInv'
  <2>1. PICK o \in [stop : BOOLEAN, error : BOOLEAN] : HandleExit(v, o)
    BY <1>15, OutcomesType DEF GuestExit
  <2>2. thr[v] = "guest"
    BY <1>15 DEF GuestExit
  <2>3. /\ \A w \in VCPU \ {v} : thr'[w] = thr[w]
        /\ UNCHANGED <<vcpuState, at, on, badJoin>>
        /\ \A h \in Handlers : Active(h) => on[h] # v
    BY <1>15, <2>1, <2>2, HandleExitFacts DEF GuestExit, VcpuRuns, Undisturbed
  <2>4. ASSUME NEW h \in Handlers, Active(h)', on'[h] # Main PROVE thr'[on'[h]] \in Live
    <3>1. Active(h) /\ on'[h] = on[h] /\ on[h] # Main
      BY <2>3, <2>4
    <3>2. on[h] \in VCPU /\ on[h] # v
      BY <2>3, <3>1
    <3>3. thr'[on[h]] = thr[on[h]] /\ thr[on[h]] \in Live
      BY <2>3, <3>1, <3>2, Zenon DEF JoinedInv
    <3>4. QED
      BY <3>1, <3>3, Zenon
  <2>5. ~badJoin' => \A w \in VCPU : vcpuState'[w] = "STOPPED" => thr'[w] \in {"none", "joined"}
    BY <2>3, <1>15 DEF GuestExit
  <2>6. QED
    BY <2>4, <2>5
<1>16. ASSUME NEW v \in VCPU, CanceledExit(v) PROVE JoinedInv'
  <2> DEFINE o == [stop |-> TRUE, error |-> FALSE]
  <2>1. thr[v] = "guest" /\ HandleExit(v, o)
    BY <1>16 DEF CanceledExit
  <2>2. o \in [stop : BOOLEAN, error : BOOLEAN]
    OBVIOUS
  <2> HIDE DEF o
  <2>3. /\ \A w \in VCPU \ {v} : thr'[w] = thr[w]
        /\ UNCHANGED <<vcpuState, at, on, badJoin>>
        /\ \A h \in Handlers : Active(h) => on[h] # v
    BY <1>16, <2>1, <2>2, HandleExitFacts DEF CanceledExit, VcpuRuns, Undisturbed
  <2>4. ASSUME NEW h \in Handlers, Active(h)', on'[h] # Main PROVE thr'[on'[h]] \in Live
    <3>1. Active(h) /\ on'[h] = on[h] /\ on[h] # Main
      BY <2>3, <2>4
    <3>2. on[h] \in VCPU /\ on[h] # v
      BY <2>3, <3>1
    <3>3. thr'[on[h]] = thr[on[h]] /\ thr[on[h]] \in Live
      BY <2>3, <3>1, <3>2, Zenon DEF JoinedInv
    <3>4. QED
      BY <3>1, <3>3, Zenon
  <2>5. ~badJoin' => \A w \in VCPU : vcpuState'[w] = "STOPPED" => thr'[w] \in {"none", "joined"}
    BY <2>3, <1>16 DEF CanceledExit
  <2>6. QED
    BY <2>4, <2>5
<1>17. ASSUME NEW v \in VCPU, PrintDone(v) PROVE JoinedInv'
  BY <1>17 DEF PrintDone, VcpuRuns, Undisturbed
<1>18. ASSUME NEW v \in VCPU, ActOnCancel(v) PROVE JoinedInv'
  BY <1>18 DEF ActOnCancel, VcpuRuns, Undisturbed
<1>19. ASSUME NEW t \in SigThreads, Signal(t) PROVE JoinedInv'
  BY <1>19 DEF Signal, Deliverable
<1>20. ASSUME NEW h \in Handlers, VmStop(h) PROVE JoinedInv'
  BY <1>20 DEF VmStop, VmFreed
<1>21. ASSUME NEW a \in Agents, StopReturn(a) PROVE JoinedInv'
  BY <1>21 DEF StopReturn, Limit, IsVmStop
<1>22. ASSUME NEW a \in Agents, VcpuStopSkip(a) PROVE JoinedInv'
  BY <1>22 DEF VcpuStopSkip, Limit
<1>23. ASSUME NEW a \in Agents, VcpuStopRequest(a) PROVE JoinedInv'
  BY <1>23 DEF VcpuStopRequest, Limit
<1>24. ASSUME NEW a \in Agents, VcpuStopKick(a) PROVE JoinedInv'
  BY <1>24 DEF VcpuStopKick
<1>25. ASSUME NEW a \in Agents, JoinWaits(a) PROVE JoinedInv'
  BY <1>25 DEF JoinWaits
<1>26. ASSUME NEW a \in Agents, JoinTwice(a) PROVE JoinedInv'
  BY <1>26 DEF JoinTwice, JoinReturns
<1>27. ASSUME NEW a \in Agents, JoinSelf(a) PROVE JoinedInv'
  BY <1>27 DEF JoinSelf, JoinReturns
<1>28. ASSUME NEW a \in Agents, JoinDone(a) PROVE JoinedInv'
  BY <1>28 DEF JoinDone, JoinReturns
<1>29. CASE UNCHANGED vars
  BY <1>29
<1>30. QED
  BY <1>1, <1>2, <1>3, <1>4, <1>5, <1>6, <1>7, <1>8, <1>9, <1>10, <1>11, <1>12, <1>13, <1>14, 
     <1>15, <1>16, <1>17, <1>18, <1>19, <1>20, <1>21, <1>22, <1>23, <1>24, <1>25, <1>26, <1>27, <1>28, <1>29
     DEF Next, MainStep, VcpuStep, StopStep, Terminated

\* While every join was proper, no step frees a vCPU whose thread lives, nor
\* leaves a handler inside vm_stop() when vm_destroy() frees.
LEMMA FreedIfJoinedStep ==
    BaseInv /\ StoppedInv /\ JoinedInv /\ (~badJoin => NoLateStop /\ FreedIsDead)
       /\ [Next]_vars => (~badJoin' => NoLateStop' /\ FreedIsDead')
<1> SUFFICES ASSUME TypeOK, AgentInv, CountInv, PhaseInv, StoppedInv, JoinedInv,
                    ~badJoin => NoLateStop /\ FreedIsDead, [Next]_vars, ~badJoin'
             PROVE  NoLateStop' /\ FreedIsDead'
  BY DEF BaseInv
<1> USE Indices
<1> USE DEF TypeOK, JoinedInv, StoppedInv, AgentInv, PhaseInv, NoLateStop, FreedIsDead,
            InVmStop, InVcpuStop, ThrPc, Live, Active,
            vars, mainVars, vcpuVars, agentVars
<1>1. CASE VcpuStart
  BY <1>1 DEF VcpuStart, MainRuns, Undisturbed
<1>2. CASE VcpuStartFails
  BY <1>2 DEF VcpuStartFails, MainRuns, Undisturbed
<1>3. CASE StartFailed
  BY <1>3 DEF StartFailed, MainRuns, Undisturbed
<1>4. CASE VmStarted
  BY <1>4 DEF VmStarted, MainRuns, Undisturbed
<1>5. CASE WaitPoll
  BY <1>5 DEF WaitPoll, MainRuns, Undisturbed
<1>6. CASE WaitDone
  BY <1>6 DEF WaitDone, MainRuns, Undisturbed
<1>7. CASE Report
  BY <1>7 DEF Report, MainRuns, Undisturbed
<1>8. CASE VmDestroy
  <2>1. CASE vmState = "RUNNING"
    BY <1>8, <2>1 DEF VmDestroy, MainRuns
  <2>2. CASE vmState # "RUNNING"
    <3>1. \A v \in VCPU : thr[v] \notin Live
      BY <1>8, <2>2 DEF VmDestroy
    <3>2. \A h \in Handlers : at[h] = "off"
      <4> SUFFICES ASSUME NEW h \in Handlers, at[h] # "off" PROVE FALSE
        OBVIOUS
      <4>1. on[h] \in VCPU
        BY <1>8 DEF VmDestroy, MainRuns, Undisturbed
      <4>2. QED
        BY <3>1, <4>1
    <3>3. QED
      BY <1>8, <2>2, <3>1, <3>2 DEF VmDestroy
  <2>3. QED
    BY <2>1, <2>2
<1>9. CASE VcpuDestroy
  BY <1>9 DEF VcpuDestroy, MainRuns, Undisturbed
<1>10. CASE FreeVm
  BY <1>10 DEF FreeVm, MainRuns, Undisturbed
<1>11. CASE ExitMain
  BY <1>11 DEF ExitMain, MainRuns, Undisturbed
<1>12. ASSUME NEW v \in VCPU, ThreadBoot(v) PROVE NoLateStop' /\ FreedIsDead'
  BY <1>12 DEF ThreadBoot
<1>13. ASSUME NEW v \in VCPU, LoopTest(v) PROVE NoLateStop' /\ FreedIsDead'
  BY <1>13 DEF LoopTest
<1>14. ASSUME NEW v \in VCPU, RunFails(v) PROVE NoLateStop' /\ FreedIsDead'
  BY <1>14 DEF RunFails
<1>15. ASSUME NEW v \in VCPU, GuestExit(v) PROVE NoLateStop' /\ FreedIsDead'
  <2>1. PICK o \in [stop : BOOLEAN, error : BOOLEAN] : HandleExit(v, o)
    BY <1>15, OutcomesType DEF GuestExit
  <2>2. thr[v] = "guest"
    BY <1>15 DEF GuestExit
  <2>3. QED
    BY <1>15, <2>1, <2>2, HandleExitFacts DEF GuestExit
<1>16. ASSUME NEW v \in VCPU, CanceledExit(v) PROVE NoLateStop' /\ FreedIsDead'
  <2> DEFINE o == [stop |-> TRUE, error |-> FALSE]
  <2>1. thr[v] = "guest" /\ HandleExit(v, o)
    BY <1>16 DEF CanceledExit
  <2>2. o \in [stop : BOOLEAN, error : BOOLEAN]
    OBVIOUS
  <2> HIDE DEF o
  <2>3. QED
    BY <1>16, <2>1, <2>2, HandleExitFacts DEF CanceledExit
<1>17. ASSUME NEW v \in VCPU, PrintDone(v) PROVE NoLateStop' /\ FreedIsDead'
  BY <1>17 DEF PrintDone
<1>18. ASSUME NEW v \in VCPU, ActOnCancel(v) PROVE NoLateStop' /\ FreedIsDead'
  BY <1>18 DEF ActOnCancel
<1>19. ASSUME NEW t \in SigThreads, Signal(t) PROVE NoLateStop' /\ FreedIsDead'
  BY <1>19 DEF Signal
<1>20. ASSUME NEW h \in Handlers, VmStop(h) PROVE NoLateStop' /\ FreedIsDead'
  BY <1>20 DEF VmStop, VmFreed
<1>21. ASSUME NEW a \in Agents, StopReturn(a) PROVE NoLateStop' /\ FreedIsDead'
  BY <1>21 DEF StopReturn, Limit, IsVmStop
<1>22. ASSUME NEW a \in Agents, VcpuStopSkip(a) PROVE NoLateStop' /\ FreedIsDead'
  BY <1>22 DEF VcpuStopSkip, Limit
<1>23. ASSUME NEW a \in Agents, VcpuStopRequest(a) PROVE NoLateStop' /\ FreedIsDead'
  BY <1>23 DEF VcpuStopRequest, Limit
<1>24. ASSUME NEW a \in Agents, VcpuStopKick(a) PROVE NoLateStop' /\ FreedIsDead'
  BY <1>24 DEF VcpuStopKick
<1>25. ASSUME NEW a \in Agents, JoinWaits(a) PROVE NoLateStop' /\ FreedIsDead'
  BY <1>25 DEF JoinWaits
<1>26. ASSUME NEW a \in Agents, JoinTwice(a) PROVE NoLateStop' /\ FreedIsDead'
  BY <1>26 DEF JoinTwice, JoinReturns
<1>27. ASSUME NEW a \in Agents, JoinSelf(a) PROVE NoLateStop' /\ FreedIsDead'
  BY <1>27 DEF JoinSelf, JoinReturns
<1>28. ASSUME NEW a \in Agents, JoinDone(a) PROVE NoLateStop' /\ FreedIsDead'
  BY <1>28 DEF JoinDone, JoinReturns
<1>29. CASE UNCHANGED vars
  BY <1>29
<1>30. QED
  BY <1>1, <1>2, <1>3, <1>4, <1>5, <1>6, <1>7, <1>8, <1>9, <1>10, <1>11, <1>12, <1>13, <1>14, 
     <1>15, <1>16, <1>17, <1>18, <1>19, <1>20, <1>21, <1>22, <1>23, <1>24, <1>25, <1>26, <1>27, <1>28, <1>29
     DEF Next, MainStep, VcpuStep, StopStep, Terminated

\* Wherever signals are delivered, as long as each pthread_join() joined the
\* thread it named, vcpu_destroy() frees no vCPU whose thread runs, and no
\* activation of vm_stop() works on a freed one.
THEOREM TeardownSafeIfJoinedThm == Spec => []TeardownSafeIfJoined
<1> DEFINE Safe == ~badJoin => NoLateStop /\ FreedIsDead
<1>1. Init => StoppedInv /\ JoinedInv /\ Safe
  BY Indices DEF Init, StoppedInv, JoinedInv, NoLateStop, FreedIsDead, InVmStop,
                 InVcpuStop, Active
<1>2. BaseInv /\ StoppedInv /\ JoinedInv /\ Safe /\ [Next]_vars
         => StoppedInv' /\ JoinedInv' /\ Safe'
  BY StoppedStep, JoinedStep, FreedIfJoinedStep
<1>3. BaseInv /\ Safe => TeardownSafeIfJoined
  BY TouchFromInv DEF TeardownSafeIfJoined
<1>4. QED
  BY <1>1, <1>2, <1>3, BaseInvariant, PTL DEF Spec

-----------------------------------------------------------------------------
(* ARM64: no stop request is lost.                                          *)

\* Every step keeps should_stop set for a vCPU that is being stopped.
LEMMA FlaggedStep == BaseInv /\ FlaggedInv /\ [Next]_vars => FlaggedInv'
<1> SUFFICES ASSUME TypeOK, AgentInv, CountInv, PhaseInv, FlaggedInv, [Next]_vars
             PROVE  FlaggedInv'
  BY DEF BaseInv
<1> USE Indices
<1> USE DEF TypeOK, FlaggedInv, PhaseInv, AgentInv, InVmStop, InVcpuStop,
            vars, mainVars, vcpuVars, agentVars
<1>1. CASE VcpuStart
  BY <1>1 DEF VcpuStart
<1>2. CASE VcpuStartFails
  BY <1>2 DEF VcpuStartFails
<1>3. CASE StartFailed
  BY <1>3 DEF StartFailed
<1>4. CASE VmStarted
  BY <1>4 DEF VmStarted
<1>5. CASE WaitPoll
  BY <1>5 DEF WaitPoll
<1>6. CASE WaitDone
  BY <1>6 DEF WaitDone
<1>7. CASE Report
  BY <1>7 DEF Report
<1>8. CASE VmDestroy
  BY <1>8 DEF VmDestroy
<1>9. CASE VcpuDestroy
  BY <1>9 DEF VcpuDestroy
<1>10. CASE FreeVm
  BY <1>10 DEF FreeVm
<1>11. CASE ExitMain
  BY <1>11 DEF ExitMain
<1>12. ASSUME NEW v \in VCPU, ThreadBoot(v) PROVE FlaggedInv'
  BY <1>12 DEF ThreadBoot
<1>13. ASSUME NEW v \in VCPU, LoopTest(v) PROVE FlaggedInv'
  BY <1>13 DEF LoopTest
<1>14. ASSUME NEW v \in VCPU, RunFails(v) PROVE FlaggedInv'
  BY <1>14 DEF RunFails
<1>15. ASSUME NEW v \in VCPU, GuestExit(v) PROVE FlaggedInv'
  <2>1. PICK o \in [stop : BOOLEAN, error : BOOLEAN] : HandleExit(v, o)
    BY <1>15, OutcomesType DEF GuestExit
  <2>2. thr[v] = "guest"
    BY <1>15 DEF GuestExit
  <2>3. QED
    BY <1>15, <2>1, <2>2, HandleExitFacts DEF GuestExit
<1>16. ASSUME NEW v \in VCPU, CanceledExit(v) PROVE FlaggedInv'
  <2> DEFINE o == [stop |-> TRUE, error |-> FALSE]
  <2>1. thr[v] = "guest" /\ HandleExit(v, o)
    BY <1>16 DEF CanceledExit
  <2>2. o \in [stop : BOOLEAN, error : BOOLEAN]
    OBVIOUS
  <2> HIDE DEF o
  <2>3. QED
    BY <1>16, <2>1, <2>2, HandleExitFacts DEF CanceledExit
<1>17. ASSUME NEW v \in VCPU, PrintDone(v) PROVE FlaggedInv'
  BY <1>17 DEF PrintDone
<1>18. ASSUME NEW v \in VCPU, ActOnCancel(v) PROVE FlaggedInv'
  BY <1>18 DEF ActOnCancel
<1>19. ASSUME NEW t \in SigThreads, Signal(t) PROVE FlaggedInv'
  BY <1>19 DEF Signal
<1>20. ASSUME NEW h \in Handlers, VmStop(h) PROVE FlaggedInv'
  BY <1>20 DEF VmStop, VmFreed
<1>21. ASSUME NEW a \in Agents, StopReturn(a) PROVE FlaggedInv'
  BY <1>21 DEF StopReturn, Limit, IsVmStop
<1>22. ASSUME NEW a \in Agents, VcpuStopSkip(a) PROVE FlaggedInv'
  BY <1>22 DEF VcpuStopSkip, Limit
<1>23. ASSUME NEW a \in Agents, VcpuStopRequest(a) PROVE FlaggedInv'
  <2>1. idx[a] \in VCPU
    BY <1>23, ConstantsAssumption DEF VcpuStopRequest, Limit
  <2>2. QED
    BY <1>23, <2>1 DEF VcpuStopRequest
<1>24. ASSUME NEW a \in Agents, VcpuStopKick(a) PROVE FlaggedInv'
  BY <1>24 DEF VcpuStopKick
<1>25. ASSUME NEW a \in Agents, JoinWaits(a) PROVE FlaggedInv'
  BY <1>25 DEF JoinWaits
<1>26. ASSUME NEW a \in Agents, JoinTwice(a) PROVE FlaggedInv'
  BY <1>26 DEF JoinTwice, JoinReturns
<1>27. ASSUME NEW a \in Agents, JoinSelf(a) PROVE FlaggedInv'
  BY <1>27 DEF JoinSelf, JoinReturns
<1>28. ASSUME NEW a \in Agents, JoinDone(a) PROVE FlaggedInv'
  BY <1>28 DEF JoinDone, JoinReturns
<1>29. CASE UNCHANGED vars
  BY <1>29
<1>30. QED
  BY <1>1, <1>2, <1>3, <1>4, <1>5, <1>6, <1>7, <1>8, <1>9, <1>10, <1>11, <1>12, <1>13, <1>14, 
     <1>15, <1>16, <1>17, <1>18, <1>19, <1>20, <1>21, <1>22, <1>23, <1>24, <1>25, <1>26, <1>27, <1>28, <1>29
     DEF Next, MainStep, VcpuStep, StopStep, Terminated

\* With ordered memory every ARM64 step keeps NoLostStop.
LEMMA NoLostStopStep ==
    ASSUME Arm64, ~WeakMemory
    PROVE  BaseInv /\ FlaggedInv /\ NoLostStop /\ [Next]_vars => NoLostStop'
<1> SUFFICES ASSUME TypeOK, AgentInv, CountInv, PhaseInv, FlaggedInv, NoLostStop,
                    [Next]_vars
             PROVE  NoLostStop'
  BY DEF BaseInv
<1> USE Indices
<1> USE DEF TypeOK, FlaggedInv, NoLostStop, PhaseInv, AgentInv, InVmStop, InVcpuStop,
            ThrPc, Live, vars, mainVars, vcpuVars, agentVars
<1>1. CASE VcpuStart
  BY <1>1 DEF VcpuStart
<1>2. CASE VcpuStartFails
  BY <1>2 DEF VcpuStartFails
<1>3. CASE StartFailed
  BY <1>3 DEF StartFailed
<1>4. CASE VmStarted
  BY <1>4 DEF VmStarted
<1>5. CASE WaitPoll
  BY <1>5 DEF WaitPoll
<1>6. CASE WaitDone
  BY <1>6 DEF WaitDone
<1>7. CASE Report
  BY <1>7 DEF Report
<1>8. CASE VmDestroy
  BY <1>8 DEF VmDestroy
<1>9. CASE VcpuDestroy
  BY <1>9 DEF VcpuDestroy
<1>10. CASE FreeVm
  BY <1>10 DEF FreeVm
<1>11. CASE ExitMain
  BY <1>11 DEF ExitMain
<1>12. ASSUME NEW v \in VCPU, ThreadBoot(v) PROVE NoLostStop'
  BY <1>12 DEF ThreadBoot
<1>13. ASSUME NEW v \in VCPU, LoopTest(v) PROVE NoLostStop'
  BY <1>13 DEF LoopTest, StopInFlight
<1>14. ASSUME NEW v \in VCPU, RunFails(v) PROVE NoLostStop'
  BY <1>14 DEF RunFails
<1>15. ASSUME NEW v \in VCPU, GuestExit(v) PROVE NoLostStop'
  <2>1. PICK o \in [stop : BOOLEAN, error : BOOLEAN] : HandleExit(v, o)
    BY <1>15, OutcomesType DEF GuestExit
  <2>2. thr[v] = "guest"
    BY <1>15 DEF GuestExit
  <2>3. QED
    BY <1>15, <2>1, <2>2, HandleExitFacts DEF GuestExit
<1>16. ASSUME NEW v \in VCPU, CanceledExit(v) PROVE NoLostStop'
  <2> DEFINE o == [stop |-> TRUE, error |-> FALSE]
  <2>1. thr[v] = "guest" /\ HandleExit(v, o)
    BY <1>16 DEF CanceledExit
  <2>2. o \in [stop : BOOLEAN, error : BOOLEAN]
    OBVIOUS
  <2> HIDE DEF o
  <2>3. QED
    BY <1>16, <2>1, <2>2, HandleExitFacts DEF CanceledExit
<1>17. ASSUME NEW v \in VCPU, PrintDone(v) PROVE NoLostStop'
  BY <1>17 DEF PrintDone
<1>18. ASSUME NEW v \in VCPU, ActOnCancel(v) PROVE NoLostStop'
  BY <1>18 DEF ActOnCancel
<1>19. ASSUME NEW t \in SigThreads, Signal(t) PROVE NoLostStop'
  BY <1>19 DEF Signal
<1>20. ASSUME NEW h \in Handlers, VmStop(h) PROVE NoLostStop'
  BY <1>20 DEF VmStop, VmFreed
<1>21. ASSUME NEW a \in Agents, StopReturn(a) PROVE NoLostStop'
  BY <1>21 DEF StopReturn, Limit, IsVmStop
<1>22. ASSUME NEW a \in Agents, VcpuStopSkip(a) PROVE NoLostStop'
  BY <1>22 DEF VcpuStopSkip, Limit
<1>23. ASSUME NEW a \in Agents, VcpuStopRequest(a) PROVE NoLostStop'
  BY <1>23 DEF VcpuStopRequest, Limit
<1>24. ASSUME NEW a \in Agents, VcpuStopKick(a) PROVE NoLostStop'
  BY <1>24 DEF VcpuStopKick
<1>25. ASSUME NEW a \in Agents, JoinWaits(a) PROVE NoLostStop'
  BY <1>25 DEF JoinWaits
<1>26. ASSUME NEW a \in Agents, JoinTwice(a) PROVE NoLostStop'
  BY <1>26 DEF JoinTwice, JoinReturns
<1>27. ASSUME NEW a \in Agents, JoinSelf(a) PROVE NoLostStop'
  BY <1>27 DEF JoinSelf, JoinReturns
<1>28. ASSUME NEW a \in Agents, JoinDone(a) PROVE NoLostStop'
  BY <1>28 DEF JoinDone, JoinReturns
<1>29. CASE UNCHANGED vars
  BY <1>29
<1>30. QED
  BY <1>1, <1>2, <1>3, <1>4, <1>5, <1>6, <1>7, <1>8, <1>9, <1>10, <1>11, <1>12, <1>13, <1>14, 
     <1>15, <1>16, <1>17, <1>18, <1>19, <1>20, <1>21, <1>22, <1>23, <1>24, <1>25, <1>26, <1>27, <1>28, <1>29
     DEF Next, MainStep, VcpuStep, StopStep, Terminated

\* On ARM64, if the stores to should_stop and hv_vcpu are seen in order, a
\* vcpu_stop() that reached pthread_join() finds the thread outside the guest
\* or with an exit request pending, whatever the moment of the stop: before
\* the thread has made its hypervisor vCPU, between its test of should_stop
\* and hv_vcpu_run(), or in an exit.
THEOREM NoLostStopThm ==
    ASSUME Arm64, ~WeakMemory
    PROVE  Spec => []NoLostStop
<1>1. Init => FlaggedInv /\ NoLostStop
  BY DEF Init, FlaggedInv, NoLostStop, InVcpuStop
<1>2. BaseInv /\ FlaggedInv /\ NoLostStop /\ [Next]_vars => FlaggedInv' /\ NoLostStop'
  BY FlaggedStep, NoLostStopStep
<1>3. QED
  BY <1>1, <1>2, BaseInvariant, PTL DEF Spec
=============================================================================
