------------------------------ MODULE VcpuLife ------------------------------
(***************************************************************************)
(* What vcpu_start(), vcpu_stop() and vcpu_destroy() promise of one vCPU   *)
(* to the rest of the program (include/vcpu.h), without threads, signals,  *)
(* joins or exit requests: a vCPU is started at most once, does not enter  *)
(* the guest again once it was asked to stop, and is freed only when       *)
(* nothing runs on it and nobody will ask it to stop any more.             *)
(***************************************************************************)
CONSTANT VCPU

VARIABLES
    life,   \* life[v]: "new", "out" or "guest" of the guest, "over", "freed"
    stop    \* stop[v]: the vCPU was asked to stop

vars == <<life, stop>>

Running == {"out", "guest"}

TypeOK ==
    /\ life \in [VCPU -> {"new", "out", "guest", "over", "freed"}]
    /\ stop \in [VCPU -> BOOLEAN]

Init ==
    /\ life = [v \in VCPU |-> "new"]
    /\ stop = [v \in VCPU |-> FALSE]

Move(v, from, to) == life[v] \in from /\ life' = [life EXCEPT ![v] = to]

\* vcpu_start(): the one way to run.
Start(v) == Move(v, {"new"}, "out") /\ UNCHANGED stop

\* The guest is entered only while nobody asked for a stop.
Enter(v) == ~stop[v] /\ Move(v, {"out"}, "guest") /\ UNCHANGED stop

\* The guest is left; what it did may be a reason to stop.
Leave(v) ==
    /\ Move(v, {"guest"}, "out") \/ Move(v, {"guest"}, "over")
    /\ \E s \in BOOLEAN : stop' = [stop EXCEPT ![v] = @ \/ s]

\* The thread ends.
End(v) == Move(v, {"out"}, "over") /\ UNCHANGED stop

\* vcpu_stop() asks; a vCPU that is freed is not asked.
AskStop(v) ==
    /\ life[v] \in Running \cup {"over"}
    /\ stop' = [stop EXCEPT ![v] = TRUE]
    /\ UNCHANGED life

\* vcpu_destroy(): never under a running thread.
Free(v) == Move(v, {"new", "over"}, "freed") /\ UNCHANGED stop

Next == \E v \in VCPU : Start(v) \/ Enter(v) \/ Leave(v) \/ End(v) \/ AskStop(v) \/ Free(v)

Spec == Init /\ [][Next]_vars

\* A vCPU that was asked to stop leaves the guest and ends.
StopEnds == \A v \in VCPU : (stop[v] /\ life[v] \in Running) ~> life[v] \notin Running
=============================================================================
