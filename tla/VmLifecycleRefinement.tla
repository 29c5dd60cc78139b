----------------------- MODULE VmLifecycleRefinement -----------------------
(***************************************************************************)
(* The threads, handlers, exit requests and joins of VmLifecycle implement *)
(* the life of a vCPU that VcpuLife promises, for any number of vCPUs and  *)
(* of signals: initial states map to initial states and every step to a    *)
(* step of VcpuLife or to a stutter.                                       *)
(***************************************************************************)
EXTENDS VmLifecycleProofs

\* The refinement mapping: where every vCPU is in its life.
lives == [v \in VCPU |-> LifeOf(v)]

\* What vcpu_start() and vcpu_stop() rely on: a vCPU that is yet to be started
\* has not been asked to stop, and only one that was started is RUNNING.
ReadyInv ==
    /\ pc = "start" => \A v \in VCPU : v >= k => shouldStop[v] = FALSE
    /\ \A v \in VCPU : vcpuState[v] = "RUNNING" => thr[v] # "none"

\* Every step keeps the vCPUs that are not started ready to be.
LEMMA ReadyStep == BaseInv /\ ReadyInv /\ [Next]_vars => ReadyInv'
<1> SUFFICES ASSUME TypeOK, AgentInv, CountInv, PhaseInv, ReadyInv, [Next]_vars
             PROVE  ReadyInv'
  BY DEF BaseInv
<1> USE Indices
<1> USE DEF TypeOK, ReadyInv, PhaseInv, AgentInv, InVmStop, InVcpuStop, ThrPc, Live,
            vars, mainVars, vcpuVars, agentVars
<1>1. CASE VcpuStart
  BY <1>1 DEF VcpuStart
<1>2. CASE VcpuStartFails
  BY <1>2 DEF VcpuStartFails
<1>3. CASE StartFailed
  BY <1>3 DEF StartFailed
<1>4. CASE VmStarted
  BY <1>4 DEF VmStarted
<1>5. CASE WaitPoll
  BY <1>5 DEF WaitPoll
<1>6. CASE WaitDone
  BY <1>6 DEF WaitDone
<1>7. CASE Report
  BY <1>7 DEF Report
<1>8. CASE VmDestroy
  BY <1>8 DEF VmDestroy
<1>9. CASE VcpuDestroy
  BY <1>9 DEF VcpuDestroy
<1>10. CASE FreeVm
  BY <1>10 DEF FreeVm
<1>11. CASE ExitMain
  BY <1>11 DEF ExitMain
<1>12. ASSUME NEW v \in VCPU, ThreadBoot(v) PROVE ReadyInv'
  BY <1>12 DEF ThreadBoot
<1>13. ASSUME NEW v \in VCPU, LoopTest(v) PROVE ReadyInv'
  BY <1>13 DEF LoopTest
<1>14. ASSUME NEW v \in VCPU, RunFails(v) PROVE ReadyInv'
  BY <1>14 DEF RunFails
<1>15. ASSUME NEW v \in VCPU, GuestExit(v) PROVE ReadyInv'
  <2>1. PICK o \in [stop : BOOLEAN, error : BOOLEAN] : HandleExit(v, o)
    BY <1>15, OutcomesType DEF GuestExit
  <2>2. thr[v] = "guest"
    BY <1>15 DEF GuestExit
  <2>3. QED
    BY <1>15, <2>1, <2>2, HandleExitFacts DEF GuestExit
<1>16. ASSUME NEW v \in VCPU, CanceledExit(v) PROVE ReadyInv'
  <2> DEFINE o == [stop |-> TRUE, error |-> FALSE]
  <2>1. thr[v] = "guest" /\ HandleExit(v, o)
    BY <1>16 DEF CanceledExit
  <2>2. o \in [stop : BOOLEAN, error : BOOLEAN]
    OBVIOUS
  <2> HIDE DEF o
  <2>3. QED
    BY <1>16, <2>1, <2>2, HandleExitFacts DEF CanceledExit
<1>17. ASSUME NEW v \in VCPU, PrintDone(v) PROVE ReadyInv'
  BY <1>17 DEF PrintDone
<1>18. ASSUME NEW v \in VCPU, ActOnCancel(v) PROVE ReadyInv'
  BY <1>18 DEF ActOnCancel
<1>19. ASSUME NEW t \in SigThreads, Signal(t) PROVE ReadyInv'
  BY <1>19 DEF Signal
<1>20. ASSUME NEW h \in Handlers, VmStop(h) PROVE ReadyInv'
  BY <1>20 DEF VmStop, VmFreed
<1>21. ASSUME NEW a \in Agents, StopReturn(a) PROVE ReadyInv'
  BY <1>21 DEF StopReturn
<1>22. ASSUME NEW a \in Agents, VcpuStopSkip(a) PROVE ReadyInv'
  BY <1>22 DEF VcpuStopSkip, Limit
<1>23. ASSUME NEW a \in Agents, VcpuStopRequest(a) PROVE ReadyInv'
  BY <1>23 DEF VcpuStopRequest, Limit
<1>24. ASSUME NEW a \in Agents, VcpuStopKick(a) PROVE ReadyInv'
  BY <1>24 DEF VcpuStopKick
<1>25. ASSUME NEW a \in Agents, JoinWaits(a) PROVE ReadyInv'
  BY <1>25 DEF JoinWaits
<1>26. ASSUME NEW a \in Agents, JoinTwice(a) PROVE ReadyInv'
  BY <1>26 DEF JoinTwice, JoinReturns
<1>27. ASSUME NEW a \in Agents, JoinSelf(a) PROVE ReadyInv'
  BY <1>27 DEF JoinSelf, JoinReturns
<1>28. ASSUME NEW a \in Agents, JoinDone(a) PROVE ReadyInv'
  BY <1>28 DEF JoinDone, JoinReturns
<1>29. CASE UNCHANGED vars
  BY <1>29
<1>30. QED
  BY <1>1, <1>2, <1>3, <1>4, <1>5, <1>6, <1>7, <1>8, <1>9, <1>10, <1>11, <1>12, <1>13, <1>14,
     <1>15, <1>16, <1>17, <1>18, <1>19, <1>20, <1>21, <1>22, <1>23, <1>24, <1>25, <1>26, <1>27, <1>28, <1>29
     DEF Next, MainStep, VcpuStep, StopStep, Terminated

-----------------------------------------------------------------------------
(* Moves of the mapped state.                                               *)

\* A step that leaves the threads, should_stop and freed alone is a stutter.
LEMMA LifeKept ==
    ASSUME UNCHANGED <<thr, freed, shouldStop>>
    PROVE  UNCHANGED Life!vars
BY DEF Life!vars, LifeOf

\* The part of a living vCPU's life its thread is in.
LifeAt(to) == IF to = "none" THEN "new"
              ELSE IF to = "guest" THEN "guest"
              ELSE IF to \in Live THEN "out"
              ELSE "over"

\* A thread that moves changes the life of its own vCPU and of no other.
LEMMA ThreadMoves ==
    ASSUME TypeOK, NEW v \in VCPU, ~freed[v], UNCHANGED freed,
           NEW to, thr' = [thr EXCEPT ![v] = to]
    PROVE  lives[v] = LifeAt(thr[v]) /\ lives' = [lives EXCEPT ![v] = LifeAt(to)]
<1>1. lives[v] = LifeAt(thr[v])
  BY DEF lives, LifeOf, LifeAt
<1>2. \A w \in VCPU : LifeOf(w)' = IF w = v THEN LifeAt(to) ELSE LifeOf(w)
  BY DEF TypeOK, LifeOf, LifeAt
<1>3. QED
  BY <1>1, <1>2 DEF lives

\* A thread outside the guest enters it only when it is not asked to stop, and a
\* thread that leaves it or ends is allowed to.
LEMMA ThreadSteps ==
    ASSUME TypeOK, NEW v \in VCPU, ~freed[v], UNCHANGED <<freed, shouldStop>>,
           thr[v] \in Live, NEW to \in Live \cup {"done"},
           thr' = [thr EXCEPT ![v] = to],
           to = "guest" => thr[v] # "guest" /\ ~shouldStop[v]
    PROVE  [Life!Next]_Life!vars
<1>1. lives[v] = LifeAt(thr[v]) /\ lives' = [lives EXCEPT ![v] = LifeAt(to)]
  BY ThreadMoves
<1>2. lives[v] \in {"out", "guest"} /\ (lives[v] = "guest" <=> thr[v] = "guest")
  BY <1>1 DEF LifeAt, Live
<1>3. CASE to = "guest"
  <2>1. Life!Enter(v)
    BY <1>1, <1>2, <1>3 DEF Life!Enter, Life!Move, LifeAt, lives
  <2>2. QED
    BY <2>1 DEF Life!Next
<1>4. CASE thr[v] = "guest" /\ to # "guest"
  <2>1. LifeAt(to) \in {"out", "over"}
    BY <1>4 DEF LifeAt, Live
  <2>2. shouldStop' = [shouldStop EXCEPT ![v] = @ \/ FALSE]
    BY DEF TypeOK
  <2>3. Life!Leave(v)
    BY <1>1, <1>2, <1>4, <2>1, <2>2 DEF Life!Leave, Life!Move, lives
  <2>4. QED
    BY <2>3 DEF Life!Next
<1>5. CASE thr[v] # "guest" /\ to = "done"
  <2>1. LifeAt(to) = "over" /\ lives[v] = "out"
    BY <1>2, <1>5 DEF LifeAt, Live
  <2>2. Life!End(v)
    BY <1>1, <2>1 DEF Life!End, Life!Move, lives
  <2>3. QED
    BY <2>2 DEF Life!Next
<1>6. CASE thr[v] # "guest" /\ to \in Live \ {"guest"}
  <2>1. LifeAt(to) = "out" /\ lives[v] = "out"
    BY <1>2, <1>6 DEF LifeAt, Live
  <2>2. UNCHANGED lives
    BY <1>1, <2>1 DEF lives
  <2>3. QED
    BY <2>2 DEF Life!vars, lives
<1>7. QED
  BY <1>3, <1>4, <1>5, <1>6

\* The handling of an exit takes the vCPU out of the guest.
LEMMA ExitLeaves ==
    ASSUME TypeOK, NEW v \in VCPU, thr[v] = "guest", ~freed[v], UNCHANGED freed,
           NEW o \in [stop : BOOLEAN, error : BOOLEAN], HandleExit(v, o)
    PROVE  Life!Next
<1>1. shouldStop' = [shouldStop EXCEPT ![v] = @ \/ o.stop] /\ o.stop \in BOOLEAN
  BY DEF HandleExit
<1>2. PICK to \in {"done", "loop", "print"} : thr' = [thr EXCEPT ![v] = to]
  BY DEF HandleExit
<1>3. lives[v] = "guest" /\ lives' = [lives EXCEPT ![v] = LifeAt(to)]
  BY <1>2, ThreadMoves DEF LifeAt
<1>4. LifeAt(to) \in {"out", "over"}
  BY DEF LifeAt, Live
<1>5. Life!Leave(v)
  BY <1>1, <1>3, <1>4 DEF Life!Leave, Life!Move, lives
<1>6. QED
  BY <1>5 DEF Life!Next

\* Every step maps to a step of VcpuLife or to a stutter, if signals reach
\* main()'s thread only and should_stop is not seen late.
LEMMA RefinementStep ==
    ASSUME SigThreads \subseteq {Main}, ~WeakMemory
    PROVE  BaseInv /\ AwaitedInv /\ FreedIsDead /\ ReadyInv /\ [Next]_vars
              => [Life!Next]_Life!vars
<1> SUFFICES ASSUME TypeOK, AgentInv, PhaseInv, AwaitedInv, FreedIsDead, ReadyInv,
                    [Next]_vars
             PROVE  [Life!Next]_Life!vars
  BY DEF BaseInv
<1> USE Indices
<1> USE DEF TypeOK, InVcpuStop, Live, vars, mainVars, vcpuVars, agentVars
<1>1. CASE VcpuStart
  <2>1. k \in VCPU /\ ~freed[k] /\ thr[k] = "none" /\ ~shouldStop[k]
    BY <1>1 DEF VcpuStart, PhaseInv, ReadyInv
  <2>2. UNCHANGED <<freed, shouldStop>> /\ thr' = [thr EXCEPT ![k] = "boot"]
    BY <1>1, <2>1 DEF VcpuStart
  <2>3. lives[k] = "new" /\ lives' = [lives EXCEPT ![k] = "out"]
    BY <2>1, <2>2, ThreadMoves DEF lives, LifeOf
  <2>4. Life!Start(k)
    BY <2>2, <2>3 DEF Life!Start, Life!Move, lives
  <2>5. QED
    BY <2>1, <2>4 DEF Life!Next
<1>2. CASE VcpuStartFails
  <2>1. k \in VCPU /\ ~shouldStop[k]
    BY <1>2 DEF VcpuStartFails, ReadyInv
  <2>2. UNCHANGED <<thr, freed, shouldStop>>
    BY <1>2, <2>1 DEF VcpuStartFails
  <2>3. QED
    BY <2>2, LifeKept
<1>3. CASE StartFailed
  BY <1>3, LifeKept DEF StartFailed
<1>4. CASE VmStarted
  BY <1>4, LifeKept DEF VmStarted
<1>5. CASE WaitPoll
  BY <1>5, LifeKept DEF WaitPoll
<1>6. CASE WaitDone
  BY <1>6, LifeKept DEF WaitDone
<1>7. CASE Report
  BY <1>7, LifeKept DEF Report
<1>8. CASE VmDestroy
  BY <1>8, LifeKept DEF VmDestroy
<1>9. CASE VcpuDestroy
  <2>1. k \in VCPU /\ ~freed[k] /\ UNCHANGED <<thr, shouldStop>>
    BY <1>9 DEF VcpuDestroy, PhaseInv
  <2>2. CASE vcpuState[k] = "RUNNING"
    BY <1>9, <2>1, <2>2, LifeKept DEF VcpuDestroy
  <2>3. CASE vcpuState[k] # "RUNNING"
    <3>1. freed' = [freed EXCEPT ![k] = TRUE]
      BY <1>9, <2>3 DEF VcpuDestroy
    <3>2. ~BeingJoined(k)
      BY <1>9 DEF VcpuDestroy, MainRuns, Undisturbed, Active, AwaitedInv, BeingJoined
    <3>3. thr[k] \in {"none", "joined"}
      BY <2>1, <2>3, <3>2 DEF AwaitedInv
    <3>4. lives[k] \in {"new", "over"} /\ lives' = [lives EXCEPT ![k] = "freed"]
      BY <2>1, <3>1, <3>3 DEF lives, LifeOf
    <3>5. Life!Free(k)
      BY <2>1, <3>4 DEF Life!Free, Life!Move, lives
    <3>6. QED
      BY <2>1, <3>5 DEF Life!Next
  <2>4. QED
    BY <2>2, <2>3
<1>10. CASE FreeVm
  BY <1>10, LifeKept DEF FreeVm
<1>11. CASE ExitMain
  BY <1>11, LifeKept DEF ExitMain
<1>12. ASSUME NEW v \in VCPU, ThreadBoot(v) PROVE [Life!Next]_Life!vars
  <2>1. ~freed[v] /\ thr[v] = "boot" /\ UNCHANGED <<freed, shouldStop>>
    BY <1>12 DEF ThreadBoot, FreedIsDead
  <2>2. PICK to \in {"created", "loop", "done"} : thr' = [thr EXCEPT ![v] = to]
    BY <1>12 DEF ThreadBoot
  <2>3. QED
    BY <2>1, <2>2, ThreadSteps
<1>13. ASSUME NEW v \in VCPU, LoopTest(v) PROVE [Life!Next]_Life!vars
  <2>1. ~freed[v] /\ thr[v] \in {"created", "loop"} /\ UNCHANGED <<freed, shouldStop>>
    BY <1>13 DEF LoopTest, FreedIsDead
  <2>2. PICK to \in {"guest", "done"} : /\ thr' = [thr EXCEPT ![v] = to]
                                        /\ to = "guest" => ~shouldStop[v]
    BY <1>13 DEF LoopTest, StopInFlight
  <2>3. thr[v] # "guest" /\ thr[v] \in Live /\ to \in Live \cup {"done"}
    BY <2>1
  <2>4. QED
    BY <2>1, <2>2, <2>3, ThreadSteps
<1>14. ASSUME NEW v \in VCPU, RunFails(v) PROVE [Life!Next]_Life!vars
  <2>1. ~freed[v] /\ thr[v] = "guest" /\ UNCHANGED <<freed, shouldStop>>
    BY <1>14 DEF RunFails, FreedIsDead
  <2>2. PICK to \in {"done", "loop"} : thr' = [thr EXCEPT ![v] = to]
    BY <1>14 DEF RunFails
  <2>3. QED
    BY <2>1, <2>2, ThreadSteps
<1>15. ASSUME NEW v \in VCPU, GuestExit(v) PROVE [Life!Next]_Life!vars
  <2>1. thr[v] = "guest" /\ ~freed[v] /\ UNCHANGED freed
    BY <1>15 DEF GuestExit, FreedIsDead
  <2>2. PICK o \in [stop : BOOLEAN, error : BOOLEAN] : HandleExit(v, o)
    BY <1>15, OutcomesType DEF GuestExit
  <2>3. QED
    BY <2>1, <2>2, ExitLeaves
<1>16. ASSUME NEW v \in VCPU, CanceledExit(v) PROVE [Life!Next]_Life!vars
  <2> DEFINE o == [stop |-> TRUE, error |-> FALSE]
  <2>1. thr[v] = "guest" /\ ~freed[v] /\ UNCHANGED freed /\ HandleExit(v, o)
    BY <1>16 DEF CanceledExit, FreedIsDead
  <2>2. o \in [stop : BOOLEAN, error : BOOLEAN]
    OBVIOUS
  <2> HIDE DEF o
  <2>3. QED
    BY <2>1, <2>2, ExitLeaves
<1>17. ASSUME NEW v \in VCPU, PrintDone(v) PROVE [Life!Next]_Life!vars
  <2>1. ~freed[v] /\ thr[v] = "print" /\ UNCHANGED <<freed, shouldStop>>
    BY <1>17 DEF PrintDone, FreedIsDead
  <2>2. PICK to \in {"loop"} : thr' = [thr EXCEPT ![v] = to]
    BY <1>17 DEF PrintDone
  <2>3. QED
    BY <2>1, <2>2, ThreadSteps
<1>18. ASSUME NEW v \in VCPU, ActOnCancel(v) PROVE [Life!Next]_Life!vars
  <2>1. ~freed[v] /\ thr[v] \in Live /\ UNCHANGED <<freed, shouldStop>>
    BY <1>18 DEF ActOnCancel, FreedIsDead
  <2>2. PICK to \in {"done"} : thr' = [thr EXCEPT ![v] = to]
    BY <1>18 DEF ActOnCancel
  <2>3. QED
    BY <2>1, <2>2, ThreadSteps
<1>19. ASSUME NEW t \in SigThreads, Signal(t) PROVE [Life!Next]_Life!vars
  BY <1>19, LifeKept DEF Signal
<1>20. ASSUME NEW h \in Handlers, VmStop(h) PROVE [Life!Next]_Life!vars
  BY <1>20, LifeKept DEF VmStop
<1>21. ASSUME NEW a \in Agents, StopReturn(a) PROVE [Life!Next]_Life!vars
  BY <1>21, LifeKept DEF StopReturn
<1>22. ASSUME NEW a \in Agents, VcpuStopSkip(a) PROVE [Life!Next]_Life!vars
  BY <1>22, LifeKept DEF VcpuStopSkip
<1>23. ASSUME NEW a \in Agents, VcpuStopRequest(a) PROVE [Life!Next]_Life!vars
  <2>1. idx[a] \in VCPU
    BY <1>23, ConstantsAssumption DEF VcpuStopRequest, Limit, AgentInv
  <2>2. vcpuState[idx[a]] = "RUNNING" /\ UNCHANGED <<thr, freed>>
        /\ shouldStop' = [shouldStop EXCEPT ![idx[a]] = TRUE]
    BY <1>23 DEF VcpuStopRequest
  <2>3. ~freed[idx[a]] /\ thr[idx[a]] # "none"
    BY <2>1, <2>2 DEF PhaseInv, ReadyInv
  <2>4. lives[idx[a]] \in {"out", "guest", "over"} /\ UNCHANGED lives
    BY <2>1, <2>2, <2>3 DEF lives, LifeOf
  <2>5. Life!AskStop(idx[a])
    BY <2>2, <2>4 DEF Life!AskStop, Life!Running, lives
  <2>6. QED
    BY <2>1, <2>5 DEF Life!Next
<1>24. ASSUME NEW a \in Agents, VcpuStopKick(a) PROVE [Life!Next]_Life!vars
  BY <1>24, LifeKept DEF VcpuStopKick
<1>25. ASSUME NEW a \in Agents, JoinWaits(a) PROVE [Life!Next]_Life!vars
  BY <1>25, LifeKept DEF JoinWaits
<1>26. ASSUME NEW a \in Agents, JoinTwice(a) PROVE [Life!Next]_Life!vars
  BY <1>26, LifeKept DEF JoinTwice
<1>27. ASSUME NEW a \in Agents, JoinSelf(a) PROVE [Life!Next]_Life!vars
  BY <1>27, LifeKept DEF JoinSelf
<1>28. ASSUME NEW a \in Agents, JoinDone(a) PROVE [Life!Next]_Life!vars
  <2>1. idx[a] \in VCPU /\ UNCHANGED <<freed, shouldStop>>
        /\ thr[idx[a]] \in {"done", "joined"} /\ thr' = [thr EXCEPT ![idx[a]] = "joined"]
    BY <1>28 DEF JoinDone, AgentInv
  <2>2. UNCHANGED lives
    BY <2>1 DEF lives, LifeOf
  <2>3. QED
    BY <2>1, <2>2 DEF Life!vars, lives
<1>29. CASE UNCHANGED vars
  BY <1>29, LifeKept
<1>30. QED
  BY <1>1, <1>2, <1>3, <1>4, <1>5, <1>6, <1>7, <1>8, <1>9, <1>10, <1>11, <1>12, <1>13, <1>14,
     <1>15, <1>16, <1>17, <1>18, <1>19, <1>20, <1>21, <1>22, <1>23, <1>24, <1>25, <1>26, <1>27, <1>28, <1>29
     DEF Next, MainStep, VcpuStep, StopStep, Terminated

\* Signals on main()'s thread and ordered memory: the implementation refines
\* VcpuLife.  A vCPU is started at most once, does not enter the guest after it
\* was asked to stop, is not asked once it is freed, and is freed only when its
\* thread is over.
THEOREM RefinesVcpuLife ==
    ASSUME SigThreads \subseteq {Main}, ~WeakMemory
    PROVE  Spec => ImplementsVcpuLife
<1>1. Init => Life!Init
  BY DEF Init, Life!Init, LifeOf
<1>2. Init => AwaitedInv /\ NoLateStop /\ FreedIsDead /\ ReadyInv
  BY MainInit DEF Init, ReadyInv
<1>3. BaseInv /\ AwaitedInv /\ NoLateStop /\ FreedIsDead /\ ReadyInv /\ [Next]_vars
         => AwaitedInv' /\ NoLateStop' /\ FreedIsDead' /\ ReadyInv'
  BY AwaitedStep, FreedStep, ReadyStep
<1>4. BaseInv /\ AwaitedInv /\ FreedIsDead /\ ReadyInv /\ [Next]_vars
         => [Life!Next]_Life!vars
  BY RefinementStep
<1>5. QED
  BY <1>1, <1>2, <1>3, <1>4, BaseInvariant, PTL DEF Spec, ImplementsVcpuLife, Life!Spec
=============================================================================
