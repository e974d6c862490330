------------------------ MODULE SandboxControlProofs ------------------------
(***************************************************************************)
(* Theorems about SandboxControl for any number of workers, leases and     *)
(* faults: its callers use the store as SandboxLease allows, so what is    *)
(* proved of the leases holds of the control plane, and the fences of the  *)
(* workers rest on it.                                                     *)
(***************************************************************************)
EXTENDS SandboxControl, SandboxLeaseProofs

-----------------------------------------------------------------------------
(* The control plane is a user of the store.                               *)

\* The tables of registered, empty workers satisfy the lease invariant.
LEMMA ControlInitLease == ControlInit => LeaseInv
<1> SUFFICES ASSUME ControlInit PROVE LeaseInv
  OBVIOUS
<1>1. total \in [Nodes -> Nat] /\ avail \in [Nodes -> Nat]
  BY LeaseAssumption DEF ControlInit
<1>2. LeaseTypeOK
  BY <1>1, LeaseAssumption DEF ControlInit, LeaseTypeOK, Ids, Held, Closed
<1>3. OneOwner /\ GenerationsFence /\ AssignmentFollowsLease
  BY LeaseAssumption DEF ControlInit, OneOwner, GenerationsFence, AssignmentFollowsLease,
                         LeasesOf, Ids
<1> QED
  BY <1>2, <1>3 DEF LeaseInv

\* A commit is update_state_with_lease, or finds the row as it wants it.
LEMMA CommitIsLease ==
    ASSUME NEW k, NEW from, NEW to \in CommitTargets, CommitAs(k, from, to)
    PROVE  [Next]_vars
<1>1. box \in Sandboxes /\ k \in LeasesOf(box)
  BY ControlAssumption DEF CommitAs, Commits, Owner
<1> QED
  BY <1>1 DEF CommitAs, Next, LeaseStep

\* Every step of the control plane and of the workers is a statement of the
\* store, or leaves the store alone.
LEMMA ControlIsLease ==
    ASSUME [ControlNext]_allVars
    PROVE  [Next]_vars
<1>1. box \in Sandboxes /\ {"starting", "running", "failed", "destroying"} \subseteq CommitTargets
  BY ControlAssumption DEF CommitTargets
<1>2. ASSUME NEW n \in Nodes, ProvisionAdmit(n) PROVE [Next]_vars
  BY <1>1, <1>2 DEF ProvisionAdmit, Next, SandboxStep
<1>3. ASSUME NEW c, NEW g, PlacementStep(c, g) PROVE [Next]_vars
  BY <1>1, <1>3, CommitIsLease DEF PlacementStep, CommitStarting, CommitRunning
<1>4. CASE ProvisionRollback
  BY <1>1, <1>4, CommitIsLease DEF ProvisionRollback
<1>5. ASSUME NEW c, TeardownStep(c) PROVE [Next]_vars
  <2>1. CASE SchedulerRelease(c)
    BY <1>1, <2>1 DEF SchedulerRelease, ActiveLeases, Next, LeaseStep
  <2>2. CASE Forget(c)
    BY <1>1, <2>2 DEF Forget, DeleteSandbox, Next, SandboxStep
  <2>3. CASE Fetch(c) \/ DestroyFailed(c) \/ FindLease(c)
    BY <2>3 DEF Fetch, DestroyFailed, FindLease, OnlyCall, OnlyJob
  <2> QED
    BY <1>5, <2>1, <2>2, <2>3 DEF TeardownStep
<1>6. CASE DeleteAsk
  BY <1>6 DEF DeleteAsk, OnlyJob
<1>7. CASE RecoveryStep
  <2>1. ASSUME NEW k \in LeasesOf(box), RecoveryExpire(k) PROVE [Next]_vars
    BY <1>1, <2>1 DEF RecoveryExpire, Next, LeaseStep
  <2>2. CASE RecoveryReassign
    <3> DEFINE k == job["recovery"].lease
    <3>1. CASE \E n \in Nodes : Reassign(box, k, n)
      BY <1>1, <3>1 DEF Reassign, Reassignable, Next, LeaseStep
    <3>2. CASE ReassignNowhere(box, k)
      BY <1>1, <3>2 DEF ReassignNowhere, Reassignable, Next, LeaseStep
    <3> QED
      BY <2>2, <3>1, <3>2 DEF RecoveryReassign
  <2>3. CASE RecoveryCreate
    BY <2>3 DEF RecoveryCreate, OnlyCall
  <2>4. CASE RecoveryFail
    BY <1>1, <2>4, CommitIsLease DEF RecoveryFail
  <2>5. CASE RecoveryReturn
    BY <1>1, <2>5 DEF RecoveryReturn, ReleaseLease, Next, LeaseStep
  <2> QED
    BY <1>3, <1>7, <2>1, <2>2, <2>3, <2>4, <2>5 DEF RecoveryStep
<1>8. CASE SweeperStep
  <2>1. ASSUME NEW k \in LeasesOf(box), SweepExpired(k) \/ SweepOrphaned(k) PROVE [Next]_vars
    BY <1>1, <2>1 DEF SweepExpired, SweepOrphaned, Next, LeaseStep
  <2>2. CASE SweepStranded \/ Abandon \/ Abandoned \/ FindLease("sweeper")
    BY <2>2 DEF SweepStranded, Abandon, Abandoned, FindLease, OnlyJob, OnlyCall
  <2>3. CASE Forget("sweeper")
    BY <1>1, <2>3 DEF Forget, DeleteSandbox, Next, SandboxStep
  <2> QED
    BY <1>8, <2>1, <2>2, <2>3 DEF SweeperStep
<1>9. ASSUME NEW r, CallStep(r) \/ FailCall(r) \/ TimeOut(r) PROVE UNCHANGED vars
  BY <1>9 DEF CallStep, Arrive, Enter, Execute, FailCall, TimeOut
<1>10. ASSUME NEW n, WorkerRestart(n) PROVE UNCHANGED vars
  BY <1>10 DEF WorkerRestart
<1>11. CASE WorkerKeeps
  BY <1>1, <1>11 DEF WorkerKeeps, Next, SandboxStep, LeaseStep
<1>12. CASE Lapse
  BY <1>1, <1>12 DEF Lapse, ActiveLeases, Next, LeaseStep
<1>13. CASE ControlRestart \/ UNCHANGED allVars
  BY <1>13 DEF ControlRestart, allVars
<1> QED
  BY <1>2, <1>3, <1>4, <1>5, <1>6, <1>7, <1>8, <1>9, <1>10, <1>11, <1>12, <1>13
     DEF ControlNext, ProvisionStep, DeleteStep

-----------------------------------------------------------------------------
(* The generation floors.                                                  *)

\* Leases are only added and never move, and the generation of one only grows.
Grows ==
    /\ issued[box] <= issued'[box]
    /\ \A j \in LeasesOf(box) : /\ gen[box][j] <= gen'[box][j]
                                 /\ leaseNode'[box][j] = leaseNode[box][j]

\* A statement that leaves the generations alone lets them grow.
LEMMA StatementGrows ==
    ASSUME LeaseInv, [Next]_vars
    PROVE  Grows
<1> USE ControlAssumption, LeaseAssumption DEF Ids
<1>1. /\ box \in Sandboxes
      /\ issued \in [Sandboxes -> 0 .. MaxLeases]
      /\ gen \in [Sandboxes -> [Ids -> 0 .. MaxGeneration]]
      /\ leaseNode \in [Sandboxes -> [Ids -> Nodes \cup {NoNode}]]
  BY DEF LeaseInv, LeaseTypeOK
<1>2. /\ LeasesOf(box) \subseteq Ids
      /\ \A j \in LeasesOf(box) : gen[box][j] \in Nat
  <2>1. LeasesOf(box) \subseteq Ids
    BY <1>1 DEF LeasesOf
  <2>2. \A j \in Ids : gen[box][j] \in 0 .. MaxGeneration
    BY <1>1, ZenonT(60)
  <2> QED
    BY <2>1, <2>2
<1>3. CASE UNCHANGED <<issued, gen, leaseNode>>
  BY <1>1, <1>2, <1>3 DEF Grows
<1>4. ASSUME NEW s \in Sandboxes, NEW n, NEW g, NEW st, NEW free, NEW rows,
             Place(s, n, g, st, free, rows)
      PROVE  Grows
  <2>1. /\ issued' = [issued EXCEPT ![s] = @ + 1] /\ gen' = [gen EXCEPT ![s][issued[s] + 1] = g]
        /\ leaseNode' = [leaseNode EXCEPT ![s][issued[s] + 1] = n]
    BY <1>4 DEF Place
  <2>2. s = box
    BY <1>4
  <2>3. \A j \in LeasesOf(box) : j # issued[box] + 1
    BY <1>1 DEF LeasesOf
  <2>4. \A j \in LeasesOf(box) : gen'[box][j] = gen[box][j] /\ leaseNode'[box][j] = leaseNode[box][j]
    BY <1>1, <1>2, <2>1, <2>2, <2>3
  <2> QED
    BY <1>1, <1>2, <2>1, <2>2, <2>4 DEF Grows
<1>5. ASSUME NEW s \in Sandboxes, NEW k, Extend(s, k), UNCHANGED <<issued, leaseNode>>
      PROVE  Grows
  <2>1. gen' = [gen EXCEPT ![s][k] = @ + 1] /\ s = box
    BY <1>5 DEF Extend
  <2> QED
    BY <1>1, <1>2, <1>5, <2>1 DEF Grows
<1>6. ASSUME NEW s \in Sandboxes, SandboxStep(s) PROVE Grows
  <2>1. ASSUME NEW n \in Nodes, \/ \E st \in {"creating", "restoring"} : Schedule(s, n, st)
                                \/ RescheduleLapsed(s, n) \/ Reschedule(s, n)
        PROVE  Grows
    BY <1>4, <2>1 DEF Schedule, RescheduleLapsed, Reschedule
  <2>2. CASE Claim(s)
    BY <1>5, <2>2 DEF Claim
  <2>3. CASE ReleaseQuarantine(s) \/ \E k \in LeasesOf(s) : DeleteSandbox(s, k)
    BY <1>3, <2>3 DEF ReleaseQuarantine, DeleteSandbox, Release, leaseVars
  <2> QED
    BY <1>6, <2>1, <2>2, <2>3 DEF SandboxStep
<1>7. ASSUME NEW s \in Sandboxes, NEW k \in LeasesOf(s), LeaseStep(s, k) PROVE Grows
  <2>1. CASE Renew(s, k)
    BY <1>5, <2>1 DEF Renew
  <2>2. ASSUME NEW n \in Nodes, Reassign(s, k, n) PROVE Grows
    BY <1>4, <2>2 DEF Reassign
  <2>3. CASE \/ Complete(s, k) \/ ReleaseLease(s, k) \/ Reconcile(s, k) \/ ReassignNowhere(s, k)
             \/ ReleaseOrphaned(s, k) \/ MarkQuarantined(s, k) \/ ExpireLease(s, k)
             \/ \E to \in CommitTargets : UpdateStateWithLease(s, k, to)
    BY <1>3, <2>3 DEF Complete, ReleaseLease, Reconcile, ReassignNowhere, ReleaseOrphaned,
                      MarkQuarantined, ExpireLease, UpdateStateWithLease, Release, leaseVars
  <2> QED
    BY <1>7, <2>1, <2>2, <2>3 DEF LeaseStep
<1>8. ASSUME NEW n \in Nodes, NodeStep(n) PROVE Grows
  BY <1>3, <1>8 DEF NodeStep, Register, Heartbeat, GoSilent, SetDraining, leaseVars
<1>9. CASE UNCHANGED vars
  BY <1>3, <1>9 DEF vars, leaseVars
<1> QED
  BY <1>6, <1>7, <1>8, <1>9 DEF Next

\* A worker learned its floor from a lease of this sandbox.
FloorLearned ==
    /\ floor \in [Nodes -> Nat]
    /\ \A n \in Nodes : floor[n] = 0 \/ \E j \in LeasesOf(box) : floor[n] <= gen[box][j]

\* Floors stay below what the store has issued.
LEMMA FloorStep ==
    ASSUME LeaseInv, FloorLearned, Grows, LeaseInv', [ControlNext]_allVars
    PROVE  FloorLearned'
<1> USE ControlAssumption, LeaseAssumption DEF Ids
<1>1. /\ issued \in [Sandboxes -> 0 .. MaxLeases] /\ issued' \in [Sandboxes -> 0 .. MaxLeases]
      /\ gen \in [Sandboxes -> [Ids -> 0 .. MaxGeneration]]
      /\ gen' \in [Sandboxes -> [Ids -> 0 .. MaxGeneration]]
      /\ box \in Sandboxes
  BY DEF LeaseInv, LeaseTypeOK
<1>2. \A j \in LeasesOf(box) : /\ j \in LeasesOf(box)'
                               /\ gen[box][j] \in Nat /\ gen'[box][j] \in Nat
                               /\ gen[box][j] <= gen'[box][j]
  <2>1. issued[box] \in 0 .. MaxLeases /\ issued'[box] \in 0 .. MaxLeases
        /\ issued[box] <= issued'[box]
    BY <1>1 DEF Grows
  <2>2. ASSUME NEW j \in LeasesOf(box)
        PROVE  j \in Ids /\ j \in LeasesOf(box)' /\ gen[box][j] <= gen'[box][j]
    BY <2>1 DEF LeasesOf, Grows
  <2> QED
    BY <1>1, <2>2
<1>3. CASE UNCHANGED floor
  BY <1>2, <1>3 DEF FloorLearned
<1>4. ASSUME NEW r, Authorized(r), Learn(r) PROVE FloorLearned'
  <2>1. r.lease \in LeasesOf(box) /\ gen[box][r.lease] \in Nat
    BY <1>2, <1>4 DEF Authorized, Owners
  <2>2. floor' = [floor EXCEPT ![r.node] = Greater(@, gen[box][r.lease])]
    BY <1>4 DEF Learn
  <2>3. \A n \in Nodes : floor'[n] = floor[n] \/ floor'[n] = gen[box][r.lease]
    BY <2>2 DEF FloorLearned, Greater
  <2>4. floor' \in [Nodes -> Nat]
    BY <2>1, <2>2, <2>3 DEF FloorLearned
  <2>5. ASSUME NEW n \in Nodes
        PROVE  floor'[n] = 0 \/ \E j \in LeasesOf(box)' : floor'[n] <= gen'[box][j]
    <3>1. CASE floor'[n] = floor[n]
      BY <1>2, <3>1 DEF FloorLearned
    <3>2. CASE floor'[n] = gen[box][r.lease]
      BY <1>2, <2>1, <3>2
    <3> QED
      BY <2>3, <3>1, <3>2
  <2> QED
    BY <2>4, <2>5 DEF FloorLearned
<1>5. ASSUME NEW r, Arrive(r) \/ Enter(r) PROVE FloorLearned'
  BY <1>3, <1>4, <1>5 DEF Arrive, Enter
<1>6. ASSUME NEW r, Execute(r) PROVE FloorLearned'
  <2>1. CASE floor' = [floor EXCEPT ![r.node] = 0]
    <3>1. floor' \in [Nodes -> Nat] /\ \A n \in Nodes : floor'[n] \in {0, floor[n]}
      BY <2>1, Zenon DEF FloorLearned
    <3>2. ASSUME NEW n \in Nodes, floor'[n] # 0
          PROVE  \E j \in LeasesOf(box)' : floor'[n] <= gen'[box][j]
      BY <1>2, <3>1, <3>2 DEF FloorLearned
    <3> QED
      BY <3>1, <3>2 DEF FloorLearned
  <2> QED
    BY <1>3, <1>6, <2>1 DEF Execute, hostVars
<1>7. ASSUME ~\E r \in calls : CallStep(r) PROVE UNCHANGED floor
  BY <1>7, Zenon DEF ControlNext, ProvisionStep, ProvisionAdmit, PlacementStep, CommitStarting,
     CommitRunning, ProvisionRollback, TeardownStep, Fetch, DestroyFailed, SchedulerRelease,
     FindLease, Forget, DeleteStep, DeleteAsk, RecoveryStep, RecoveryExpire, RecoveryReassign,
     RecoveryCreate, RecoveryFail, RecoveryReturn, SweeperStep, SweepExpired, SweepOrphaned,
     SweepStranded, Abandon, Abandoned, FailCall, TimeOut, WorkerRestart, WorkerKeeps, Lapse,
     ControlRestart, OnlyJob, OnlyStore, OnlyCall, hostVars, controlVars, allVars
<1> QED
  BY <1>3, <1>5, <1>6, <1>7 DEF CallStep

-----------------------------------------------------------------------------
(* The lifecycle gate.                                                     *)

IsCall(r) == r = [from |-> r.from, op |-> r.op, node |-> r.node, lease |-> r.lease,
                  on |-> r.on, stage |-> r.stage]

\* Behind a worker's gate there is at most one call, and its lease is not older
\* than the one that built what the worker has.
GateInv ==
    /\ \A r \in calls : IsCall(r)
    /\ built \in [Nodes -> Nat] /\ \A n \in Nodes : built[n] <= issued[box]
    /\ up \in [Nodes -> BOOLEAN]
    /\ \A r \in calls : r.stage = "executing" =>
          /\ r.node \in Nodes /\ r.lease \in LeasesOf(box) /\ built[r.node] <= r.lease
    /\ \A r, q \in calls :
          r.stage = "executing" /\ q.stage = "executing" /\ r.node = q.node => r = q

\* A call that moves on, or that nobody waits for any more, is the same call.
LEMMA CallChanged ==
    ASSUME NEW r, IsCall(r), NEW x
    PROVE  /\ LET q == [r EXCEPT !.stage = x]
              IN  IsCall(q) /\ q.stage = x /\ q.node = r.node /\ q.lease = r.lease
           /\ LET q == [r EXCEPT !.from = x]
              IN  IsCall(q) /\ q.stage = r.stage /\ q.node = r.node /\ q.lease = r.lease
BY DEF IsCall

\* The gate is not touched by calls that are made, wait or are answered.
LEMMA GateKept ==
    ASSUME LeaseInv, GateInv, Grows, LeaseInv', UNCHANGED <<built, up>>,
           \A q \in calls' : q \in calls \/ (IsCall(q) /\ q.stage # "executing")
    PROVE  GateInv'
<1>1. box \in Sandboxes /\ issued[box] \in Nat /\ issued'[box] \in Nat /\ issued[box] <= issued'[box]
  BY ControlAssumption, LeaseAssumption DEF LeaseInv, LeaseTypeOK, Grows
<1>2. /\ built' \in [Nodes -> Nat] /\ \A n \in Nodes : built'[n] <= issued'[box]
      /\ \A j \in LeasesOf(box) : j \in LeasesOf(box)'
  BY <1>1 DEF GateInv, LeasesOf
<1> QED
  BY <1>2 DEF GateInv

\* What a caller that makes a call adds to the calls.
LEMMA DispatchAdds ==
    ASSUME NEW c, NEW new, NEW op, Dispatch(c, new, op)
    PROVE  \A q \in calls' : q \in calls \/ (IsCall(q) /\ q.stage # "executing")
<1>1. ASSUME NEW k, Send(c, new, op, k)
      PROVE  \A q \in calls' : q \in calls \/ (IsCall(q) /\ q.stage # "executing")
  BY <1>1 DEF Send, IsCall
<1> QED
  BY <1>1 DEF Dispatch

\* Every step keeps the gate.
LEMMA GateStep ==
    ASSUME LeaseInv, GateInv, Grows, LeaseInv', [ControlNext]_allVars
    PROVE  GateInv' /\ MachineKept
<1> USE DEF hostVars
<1> DEFINE Untouched == /\ UNCHANGED <<built, up>>
                        /\ \A q \in calls' : q \in calls \/ (IsCall(q) /\ q.stage # "executing")
<1>1. ASSUME Untouched PROVE GateInv' /\ MachineKept
  <2>1. GateInv'
    BY <1>1, GateKept
  <2>2. MachineKept
    BY <1>1 DEF MachineKept
  <2> QED
    BY <2>1, <2>2
<1>2. CASE UNCHANGED <<calls, built, up>>
  BY <1>1, <1>2
<1>3. ASSUME NEW n \in Nodes, ProvisionAdmit(n) PROVE Untouched
  BY <1>3, DispatchAdds DEF ProvisionAdmit
<1>4. ASSUME NEW c, NEW g, PlacementStep(c, g) PROVE Untouched
  <2>1. CASE CommitStarting(c, g)
    BY <2>1, DispatchAdds DEF CommitStarting
  <2>2. CASE CommitRunning(c, g)
    BY <2>2 DEF CommitRunning, OnlyStore
  <2> QED
    BY <1>4, <2>1, <2>2 DEF PlacementStep
<1>5. ASSUME NEW c, TeardownStep(c) PROVE Untouched
  <2>1. CASE Fetch(c)
    BY <2>1, DispatchAdds DEF Fetch, OnlyCall
  <2>2. CASE DestroyFailed(c) \/ SchedulerRelease(c) \/ FindLease(c) \/ Forget(c)
    BY <2>2 DEF DestroyFailed, SchedulerRelease, FindLease, Forget, OnlyJob, OnlyStore
  <2> QED
    BY <1>5, <2>1, <2>2 DEF TeardownStep
<1>6. CASE ProvisionRollback \/ DeleteAsk
  BY <1>2, <1>6 DEF ProvisionRollback, DeleteAsk, OnlyJob, OnlyStore
<1>7. CASE RecoveryStep
  <2>1. ASSUME RecoveryCreate PROVE Untouched
    BY <2>1, DispatchAdds DEF RecoveryCreate, OnlyCall
  <2>2. CASE (\E k \in LeasesOf(box) : RecoveryExpire(k)) \/ RecoveryReassign \/ RecoveryFail
             \/ RecoveryReturn
    BY <1>2, <2>2
       DEF RecoveryExpire, RecoveryReassign, RecoveryFail, RecoveryReturn, OnlyStore
  <2> QED
    BY <1>1, <1>4, <1>7, <2>1, <2>2 DEF RecoveryStep
<1>8. CASE SweeperStep
  <2>1. ASSUME Abandon PROVE Untouched
    BY <2>1 DEF Abandon, Send, IsCall, OnlyCall
  <2>2. CASE (\E k \in LeasesOf(box) : SweepExpired(k) \/ SweepOrphaned(k)) \/ SweepStranded
             \/ Abandoned \/ FindLease("sweeper") \/ Forget("sweeper")
    BY <1>2, <2>2 DEF SweepExpired, SweepOrphaned, SweepStranded, Abandoned, FindLease, Forget,
                      OnlyJob, OnlyStore, controlVars
  <2> QED
    BY <1>1, <1>8, <2>1, <2>2 DEF SweeperStep
<1>9. CASE WorkerKeeps \/ Lapse \/ UNCHANGED allVars
  BY <1>2, <1>9 DEF WorkerKeeps, Lapse, controlVars, allVars
<1>10. ASSUME NEW r \in calls, Arrive(r) \/ FailCall(r) PROVE Untouched
  <2>1. IsCall(r)
    BY DEF GateInv
  <2>2. CASE calls' \subseteq calls
    BY <1>10, <2>2 DEF Arrive, FailCall
  <2>3. CASE Advance(r, "waiting")
    <3> DEFINE q == [r EXCEPT !.stage = "waiting"]
    <3>1. calls' = (calls \ {r}) \cup {q}
      BY <2>3 DEF Advance
    <3>2. IsCall(q) /\ q.stage = "waiting"
      BY <2>1, CallChanged, ZenonT(60)
    <3> HIDE DEF q
    <3> QED
      BY <1>10, <3>1, <3>2 DEF Arrive, FailCall
  <2> QED
    BY <1>10, <2>2, <2>3 DEF Arrive, FailCall, Answer
<1>11. ASSUME NEW n \in Nodes, WorkerRestart(n) PROVE Untouched
  BY <1>11 DEF WorkerRestart
<1> HIDE DEF Untouched
<1>12. /\ box \in Sandboxes /\ issued[box] \in Nat
       /\ \A j \in LeasesOf(box) : j \in Nat /\ j <= issued[box]
  BY ControlAssumption, LeaseAssumption DEF LeaseInv, LeaseTypeOK, LeasesOf
<1>13. ASSUME NEW r \in calls, Enter(r) PROVE GateInv' /\ MachineKept
  <2>1. UNCHANGED <<built, up, issued>> /\ IsCall(r)
    BY <1>13 DEF Enter, GateInv, vars, leaseVars
  <2>2. CASE calls' = calls \ {r}
    BY <1>1, <2>1, <2>2 DEF Untouched
  <2>3. CASE Authorized(r) /\ Advance(r, "executing")
    <3> DEFINE q == [r EXCEPT !.stage = "executing"]
    <3>1. calls' = (calls \ {r}) \cup {q} /\ Gate(r.node) = {}
      BY <1>13, <2>3 DEF Advance, Enter
    <3>2. IsCall(q) /\ q.stage = "executing" /\ q.node = r.node /\ q.lease = r.lease
      BY <2>1, CallChanged, ZenonT(60)
    <3> HIDE DEF q
    <3>3. r.lease = issued[box] /\ r.lease \in LeasesOf(box) /\ r.node \in Nodes
      <4>1. r.lease \in LeasesOf(box) /\ status[box][r.lease] = "active"
            /\ leaseNode[box][r.lease] = r.node
        BY <2>3 DEF Authorized, Owners, Owner
      <4>2. r.lease \in Ids /\ ~(r.lease > issued[box])
        BY <1>12, <4>1, LeaseAssumption DEF LeasesOf, Ids, LeaseInv, LeaseTypeOK
      <4> QED
        BY <1>12, <4>1, <4>2 DEF LeaseInv, LeaseTypeOK, OneOwner
    <3>4. \A p \in calls : p.stage = "executing" => p.node # r.node
      BY <3>1 DEF Gate
    <3>5. LeasesOf(box)' = LeasesOf(box)
      BY <2>1 DEF LeasesOf
    <3>6. /\ \A p \in calls' : IsCall(p)
          /\ built' \in [Nodes -> Nat] /\ \A n \in Nodes : built'[n] <= issued'[box]
          /\ up' \in [Nodes -> BOOLEAN]
      BY <2>1, <3>1, <3>2 DEF GateInv
    <3>7. \A p \in calls' : p.stage = "executing" =>
             /\ p.node \in Nodes /\ p.lease \in LeasesOf(box)' /\ built'[p.node] <= p.lease
      BY <2>1, <3>1, <3>2, <3>3, <3>5 DEF GateInv
    <3>8. \A p, o \in calls' :
             p.stage = "executing" /\ o.stage = "executing" /\ p.node = o.node => p = o
      BY <3>1, <3>2, <3>4 DEF GateInv
    <3>9. GateInv'
      BY <3>6, <3>7, <3>8 DEF GateInv
    <3>10. MachineKept
      BY <2>1 DEF MachineKept
    <3> QED
      BY <3>9, <3>10
  <2> QED
    BY <1>13, <2>2, <2>3 DEF Enter, Answer
<1>14. ASSUME NEW r \in calls, Execute(r) PROVE GateInv' /\ MachineKept
  <2>1. /\ r.stage = "executing" /\ calls' = calls \ {r} /\ issued' = issued
        /\ \/ built' = built
           \/ built' = [built EXCEPT ![r.node] = r.lease]
        /\ up' = up \/ \E b \in BOOLEAN : up' = [up EXCEPT ![r.node] = b]
    BY <1>14 DEF Execute, Answer, vars, leaseVars
  <2>2. r.node \in Nodes /\ r.lease \in LeasesOf(box) /\ built[r.node] <= r.lease
    BY <2>1 DEF GateInv
  <2>3. /\ built' \in [Nodes -> Nat] /\ up' \in [Nodes -> BOOLEAN]
        /\ \A n \in Nodes : n # r.node => built'[n] = built[n]
        /\ \A n \in Nodes : built'[n] <= issued'[box]
    BY <1>12, <2>1, <2>2 DEF GateInv
  <2>4. \A q \in calls' : q.stage = "executing" => q.node # r.node
    BY <2>1 DEF GateInv
  <2>5. LeasesOf(box)' = LeasesOf(box)
    BY <2>1 DEF LeasesOf
  <2>6. GateInv'
    BY <2>1, <2>3, <2>4, <2>5 DEF GateInv
  <2>7. ASSUME NEW n \in Nodes, n # r.node PROVE up'[n] = up[n] /\ built'[n] = built[n]
    BY <2>1, <2>3, <2>7 DEF GateInv
  <2>8. r \in Gate(r.node)
    BY <2>1 DEF Gate
  <2>9. MachineKept
    BY <2>2, <2>7, <2>8 DEF MachineKept
  <2> QED
    BY <2>6, <2>9
<1>15. ASSUME NEW r \in calls, TimeOut(r) PROVE GateInv' /\ MachineKept
  <2> DEFINE q == [r EXCEPT !.from = "nobody"]
  <2>1. calls' = (calls \ {r}) \cup {q} /\ UNCHANGED <<built, up, issued>>
    BY <1>15 DEF TimeOut, vars, leaseVars
  <2>2. IsCall(q) /\ q.stage = r.stage /\ q.node = r.node /\ q.lease = r.lease
    BY CallChanged DEF GateInv
  <2> HIDE DEF q
  <2>3. LeasesOf(box)' = LeasesOf(box)
    BY <2>1 DEF LeasesOf
  <2>4. GateInv'
    BY <2>1, <2>2, <2>3 DEF GateInv
  <2> QED
    BY <2>1, <2>4 DEF MachineKept
<1>16. CASE ControlRestart
  <2>1. /\ calls' = {[r EXCEPT !.from = "nobody"] : r \in calls}
        /\ UNCHANGED <<built, up, issued>>
    BY <1>16 DEF ControlRestart, vars, leaseVars
  <2>2. LeasesOf(box)' = LeasesOf(box)
    BY <2>1 DEF LeasesOf
  <2>3. ASSUME NEW q \in calls'
        PROVE  \E r \in calls : /\ q = [r EXCEPT !.from = "nobody"]
                                /\ IsCall(q) /\ q.stage = r.stage /\ q.node = r.node
                                /\ q.lease = r.lease
    <3>1. PICK r \in calls : q = [r EXCEPT !.from = "nobody"]
      BY <2>1
    <3>2. IsCall(r)
      BY DEF GateInv
    <3>3. IsCall(q) /\ q.stage = r.stage /\ q.node = r.node /\ q.lease = r.lease
      BY <3>1, <3>2, CallChanged
    <3> QED
      BY <3>1, <3>3
  <2>4. GateInv'
    BY <2>1, <2>2, <2>3 DEF GateInv
  <2> QED
    BY <2>1, <2>4 DEF MachineKept
<1> QED
  BY <1>1, <1>3, <1>4, <1>5, <1>6, <1>7, <1>8, <1>9, <1>10, <1>11, <1>13, <1>14, <1>15, <1>16
     DEF ControlNext, ProvisionStep, DeleteStep, CallStep

-----------------------------------------------------------------------------
(* The calls and who waits for them.                                       *)

\* The steps in which a caller has called a worker.
Calling == {"create", "start", "destroy", "abandon"}
OpAt(at) == IF at \in {"create", "start"} THEN at ELSE "destroy"

\* The job of caller c: an answer belongs to a step that asks for one, and a
\* provisioning at work has a lease.
JobOK(c, j, newest) ==
    /\ j \in Jobs
    /\ j.reply # "none" => j.at \in Calling
    /\ j.lease <= newest
    /\ c = "provision" /\ j.at \notin {"idle", "done"} => j.lease >= 1

\* The request r as its caller waits for it: it is what this step asks, under
\* the lease of the job or a later one.
Awaited(j, r) == j.reply = "sent" /\ r.op = OpAt(j.at) /\ j.lease <= r.lease

CallInv ==
    /\ job \in [Callers -> Jobs]
    /\ \A c \in Callers : JobOK(c, job[c], issued[box])
    /\ calls \subseteq Calls
    /\ \A r \in calls : r.lease \in LeasesOf(box) /\ r.node = leaseNode[box][r.lease]
    /\ \A r \in calls : r.from \in Callers => Awaited(job[r.from], r)
    /\ \A r, q \in calls : r.from \in Callers /\ q.from = r.from => r = q
    /\ \A c \in Callers : job[c].reply = "sent" => \E r \in calls : r.from = c

\* The placement of job j has got its machine.
Created(j) == j.at = "start" \/ (j.at = "create" /\ j.reply = "ok")

\* The provisioning of job j is being rolled back.
RollingBack(j) == j.at \in Teardown \cup {"queue"}

\* Job new of caller c goes on with what job old had got to: it is no further than
\* that with its machine or its rollback.
Follows(c, old, new) ==
    /\ Created(new) => Created(old) /\ new.lease = old.lease
    /\ c = "provision" /\ RollingBack(new) => RollingBack(old) /\ new.lease = old.lease

\* What a step makes of the jobs and calls.
CallsKept == CallInv' /\ \A c \in Callers : Follows(c, job[c], job'[c])

\* What the steps of a caller build their next job from.
LEMMA NoJobFields ==
    /\ NoJob \in Jobs /\ NoJob.at = "idle" /\ NoJob.reply = "none"
    /\ NoJob.lease = 0 /\ NoJob.tries = 0
BY ControlAssumption, LeaseAssumption DEF NoJob, Jobs, Steps, Replies

LEMMA JobReplied ==
    ASSUME NEW j \in Jobs, NEW x \in Replies
    PROVE  LET q == [j EXCEPT !.reply = x]
           IN  q \in Jobs /\ q.reply = x /\ q.at = j.at /\ q.lease = j.lease
BY DEF Jobs

LEMMA JobMoved ==
    ASSUME NEW j \in Jobs, NEW a \in Steps
    PROVE  LET q == [j EXCEPT !.at = a, !.reply = "none"]
           IN  q \in Jobs /\ q.reply = "none" /\ q.at = a /\ q.lease = j.lease
BY DEF Jobs, Replies

\* The store as every step leaves it for the jobs.
LEMMA StoreGrows ==
    ASSUME LeaseInv, LeaseInv', Grows
    PROVE  /\ box \in Sandboxes /\ MaxLeases \in Nat
           /\ issued[box] \in 0 .. MaxLeases /\ issued'[box] \in 0 .. MaxLeases
           /\ issued[box] <= issued'[box]
           /\ \A k \in LeasesOf(box) : /\ k \in LeasesOf(box)' /\ k \in Ids
                                       /\ leaseNode'[box][k] = leaseNode[box][k]
           /\ \A k \in LeasesOf(box)' : k \in Ids /\ leaseNode'[box][k] \in Nodes
<1>1. box \in Sandboxes /\ MaxLeases \in Nat
  BY ControlAssumption, LeaseAssumption
<1>2. issued[box] \in 0 .. MaxLeases /\ issued'[box] \in 0 .. MaxLeases /\ issued[box] <= issued'[box]
  BY <1>1 DEF LeaseInv, LeaseTypeOK, Grows
<1>3. ASSUME NEW k \in LeasesOf(box)
      PROVE  k \in LeasesOf(box)' /\ k \in Ids /\ leaseNode'[box][k] = leaseNode[box][k]
  BY <1>1, <1>2 DEF LeasesOf, Ids, Grows
<1>4. ASSUME NEW k \in LeasesOf(box)' PROVE k \in Ids /\ leaseNode'[box][k] \in Nodes
  <2>1. k \in Ids /\ ~(k > issued'[box])
    BY <1>1, <1>2 DEF LeasesOf, Ids
  <2> QED
    BY <1>1, <2>1 DEF LeaseInv, LeaseTypeOK
<1> QED
  BY <1>1, <1>2, <1>3, <1>4

\* A caller that waits for nothing takes another job and waits for nothing.
LEMMA JobMovesTo ==
    ASSUME LeaseInv, LeaseInv', Grows, CallInv,
           NEW c \in Callers, NEW new, JobOK(c, new, issued'[box]),
           job[c].reply # "sent", new.reply # "sent",
           Goes(c, new), UNCHANGED calls
    PROVE  CallInv' /\ \A d \in Callers : job'[d] = IF d = c THEN new ELSE job[d]
<1>1. /\ \A d \in Callers : job'[d] = IF d = c THEN new ELSE job[d]
      /\ job' \in [Callers -> Jobs]
  BY DEF Goes, CallInv, JobOK
<1>2. \A r \in calls : r.from # c
  BY DEF CallInv, Awaited
<1>3. \A d \in Callers : JobOK(d, job'[d], issued'[box])
  <2>1. ASSUME NEW d \in Callers, d # c PROVE JobOK(d, job[d], issued'[box])
    <3>1. job[d].lease \in 0 .. MaxLeases /\ JobOK(d, job[d], issued[box])
      BY DEF CallInv, Jobs
    <3> QED
      BY <3>1, StoreGrows DEF JobOK
  <2> QED
    BY <1>1, <2>1
<1>4. CallInv'
  <2>1. /\ calls' \subseteq Calls
        /\ \A r \in calls' : r.lease \in LeasesOf(box)' /\ r.node = leaseNode'[box][r.lease]
    BY StoreGrows DEF CallInv
  <2>2. /\ \A r \in calls' : r.from \in Callers => Awaited(job'[r.from], r)
        /\ \A r, q \in calls' : r.from \in Callers /\ q.from = r.from => r = q
        /\ \A d \in Callers : job'[d].reply = "sent" => \E r \in calls' : r.from = d
    BY <1>1, <1>2 DEF CallInv
  <2> QED
    BY <1>1, <1>3, <2>1, <2>2 DEF CallInv
<1> QED
  BY <1>1, <1>4

\* And when he follows on from where he was, so do all.
LEMMA JobMoves ==
    ASSUME LeaseInv, LeaseInv', Grows, CallInv,
           NEW c \in Callers, NEW new, JobOK(c, new, issued'[box]),
           job[c].reply # "sent", new.reply # "sent", Follows(c, job[c], new),
           Goes(c, new), UNCHANGED calls
    PROVE  CallsKept
<1>1. CallInv' /\ \A d \in Callers : job'[d] = IF d = c THEN new ELSE job[d]
  BY JobMovesTo
<1> QED
  BY <1>1 DEF CallsKept, Follows

\* A caller that waits for nothing takes another job and makes a call.
LEMMA JobSends ==
    ASSUME LeaseInv, LeaseInv', Grows, CallInv,
           NEW c \in Callers, NEW new \in Jobs, NEW op, NEW k \in LeasesOf(box)',
           job[c].reply # "sent", new.at \in Calling, op = OpAt(new.at), new.lease <= k,
           c = "provision" => new.lease >= 1,
           Follows(c, job[c], [new EXCEPT !.reply = "sent"]),
           Send(c, new, op, k)
    PROVE  CallsKept
<1> DEFINE j == [new EXCEPT !.reply = "sent"]
           q == [from |-> c, op |-> op, node |-> leaseNode'[box][k], lease |-> k,
                 on |-> new.on, stage |-> "sent"]
<1>1. calls' = calls \cup {q} /\ Goes(c, j)
  BY DEF Send
<1>2. j \in Jobs /\ j.reply = "sent" /\ j.at = new.at /\ j.lease = new.lease
  BY JobReplied DEF Replies
<1>3. /\ q \in Calls /\ q.from = c /\ q.op = op /\ q.lease = k /\ q.node = leaseNode'[box][k]
  BY StoreGrows DEF Calls, OpAt, Jobs
<1>0. Follows(c, job[c], j)
  OBVIOUS
<1> HIDE DEF j, q
<1>4. /\ \A d \in Callers : job'[d] = IF d = c THEN j ELSE job[d]
      /\ job' \in [Callers -> Jobs]
  BY <1>1, <1>2 DEF Goes, CallInv
<1>5. \A r \in calls : r.from # c
  BY DEF CallInv, Awaited
<1>6. new.lease \in 0 .. MaxLeases /\ k \in Nat /\ k <= issued'[box]
  BY StoreGrows DEF LeasesOf, Jobs
<1>7. JobOK(c, j, issued'[box])
  BY <1>2, <1>6, StoreGrows DEF JobOK
<1>8. \A d \in Callers : JobOK(d, job'[d], issued'[box])
  <2>1. ASSUME NEW d \in Callers, d # c PROVE JobOK(d, job[d], issued'[box])
    <3>1. job[d].lease \in 0 .. MaxLeases /\ JobOK(d, job[d], issued[box])
      BY DEF CallInv, Jobs
    <3> QED
      BY <3>1, StoreGrows DEF JobOK
  <2> QED
    BY <1>4, <1>7, <2>1
<1>9. CallInv'
  <2>1. /\ calls' \subseteq Calls
        /\ \A r \in calls' : r.lease \in LeasesOf(box)' /\ r.node = leaseNode'[box][r.lease]
    BY <1>1, <1>3, StoreGrows DEF CallInv
  <2>2. Awaited(j, q)
    BY <1>2, <1>3 DEF Awaited
  <2>3. \A r \in calls' : r.from \in Callers => Awaited(job'[r.from], r)
    BY <1>1, <1>3, <1>4, <1>5, <2>2 DEF CallInv
  <2>4. \A r, p \in calls' : r.from \in Callers /\ p.from = r.from => r = p
    BY <1>1, <1>3, <1>5 DEF CallInv
  <2>5. \A d \in Callers : job'[d].reply = "sent" => \E r \in calls' : r.from = d
    BY <1>1, <1>3, <1>4 DEF CallInv
  <2> QED
    BY <1>4, <1>8, <2>1, <2>3, <2>4, <2>5 DEF CallInv
<1>10. \A d \in Callers : Follows(d, job[d], job'[d])
  BY <1>0, <1>4 DEF Follows
<1> QED
  BY <1>9, <1>10 DEF CallsKept

\* WorkerRuntime::call, whether it finds a lease to dispatch under or not.
LEMMA DispatchKeeps ==
    ASSUME LeaseInv, LeaseInv', Grows, CallInv,
           NEW c \in Callers, NEW new \in Jobs, NEW op,
           job[c].reply # "sent", new.at \in Calling, op = OpAt(new.at),
           c = "provision" => new.lease \in LeasesOf(box)',
           c # "provision" => new.lease <= issued[box],
           \A x \in {"sent", "refused"} : Follows(c, job[c], [new EXCEPT !.reply = x]),
           Dispatch(c, new, op)
    PROVE  CallsKept
<1>1. CASE c = "provision" /\ Send(c, new, op, new.lease)
  <2>1. new.lease <= new.lease /\ new.lease >= 1
    BY <1>1, StoreGrows DEF LeasesOf
  <2> QED
    BY <1>1, <2>1, JobSends
<1>2. CASE c # "provision" /\ \E k \in Owners : Send(c, new, op, k)
  <2>1. PICK k \in Owners : Send(c, new, op, k)
    BY <1>2
  <2>2. k \in LeasesOf(box) /\ status[box][k] = "active"
    BY DEF Owners, Owner
  <2>3. k = issued[box] /\ k \in LeasesOf(box)'
    BY <2>2, StoreGrows DEF LeaseInv, OneOwner
  <2> QED
    BY <1>2, <2>1, <2>3, JobSends
<1>3. CASE c # "provision" /\ Goes(c, [new EXCEPT !.reply = "refused"]) /\ UNCHANGED calls
  <2> DEFINE j == [new EXCEPT !.reply = "refused"]
  <2>1. /\ j \in Jobs /\ j.reply = "refused" /\ j.at = new.at /\ j.lease = new.lease
        /\ Goes(c, j) /\ Follows(c, job[c], j)
    BY <1>3, JobReplied DEF Replies
  <2> HIDE DEF j
  <2>2. new.lease \in 0 .. MaxLeases
    BY DEF Jobs
  <2>3. JobOK(c, j, issued'[box])
    BY <1>3, <2>1, <2>2, StoreGrows DEF JobOK
  <2> QED
    BY <1>3, <2>1, <2>3, JobMoves
<1> QED
  BY <1>1, <1>2, <1>3 DEF Dispatch

\* The worker answers: the one who waits has the answer, if there is one.
LEMMA AnswerKeeps ==
    ASSUME LeaseInv, CallInv, UNCHANGED vars,
           NEW r \in calls, NEW x \in Replies \ {"none", "sent"}, Answer(r, x)
    PROVE  /\ CallInv'
           /\ \A c \in Callers : /\ job'[c].at = job[c].at /\ job'[c].lease = job[c].lease
                                 /\ job'[c].reply = IF c = r.from THEN x ELSE job[c].reply
           /\ \A c \in Callers : c = r.from => Awaited(job[c], r) /\ job[c].at \in Calling
<1>1. /\ calls' = calls \ {r} /\ UNCHANGED <<issued, leaseNode>>
      /\ job' = [c \in Callers |-> IF c = r.from THEN [job[c] EXCEPT !.reply = x] ELSE job[c]]
  BY DEF Answer, vars, leaseVars
<1>2. ASSUME NEW c \in Callers
      PROVE  /\ job'[c] \in Jobs /\ job'[c].at = job[c].at /\ job'[c].lease = job[c].lease
             /\ job'[c].reply = IF c = r.from THEN x ELSE job[c].reply
             /\ c # r.from => job'[c] = job[c]
  <2>1. job[c] \in Jobs
    BY DEF CallInv
  <2> QED
    BY <1>1, <2>1, JobReplied
<1>3. \A c \in Callers : c = r.from => Awaited(job[c], r) /\ job[c].at \in Calling
  BY DEF CallInv, Awaited, JobOK
<1>4. \A c \in Callers : JobOK(c, job'[c], issued'[box])
  <2> SUFFICES ASSUME NEW c \in Callers PROVE JobOK(c, job'[c], issued'[box])
    OBVIOUS
  <2>1. JobOK(c, job[c], issued[box])
    BY DEF CallInv
  <2> QED
    BY <1>1, <1>2, <1>3, <2>1 DEF JobOK
<1>5. job' \in [Callers -> Jobs]
  BY <1>1, <1>2
<1>6. /\ calls' \subseteq Calls
      /\ \A q \in calls' : q.lease \in LeasesOf(box)' /\ q.node = leaseNode'[box][q.lease]
  BY <1>1 DEF CallInv, LeasesOf
<1>7. /\ \A q \in calls' : q.from \in Callers => q.from # r.from
      /\ \A q \in calls' : q.from \in Callers => Awaited(job'[q.from], q)
      /\ \A q, p \in calls' : q.from \in Callers /\ p.from = q.from => q = p
  BY <1>1, <1>2 DEF CallInv
<1>8. \A c \in Callers : job'[c].reply = "sent" => \E q \in calls' : q.from = c
  BY <1>1, <1>2 DEF CallInv
<1>9. CallInv'
  BY <1>4, <1>5, <1>6, <1>7, <1>8 DEF CallInv
<1> QED
  BY <1>2, <1>3, <1>9

\* Any answer but that of a create leaves the callers where they were.
LEMMA AnswerFollows ==
    ASSUME LeaseInv, CallInv, UNCHANGED vars,
           NEW r \in calls, NEW x \in Replies \ {"none", "sent"}, Answer(r, x),
           r.op = "create" => x # "ok"
    PROVE  CallsKept
<1>1. CallInv'
  BY AnswerKeeps
<1>2. ASSUME NEW c \in Callers PROVE Follows(c, job[c], job'[c])
  <2>1. /\ job'[c].at = job[c].at /\ job'[c].lease = job[c].lease
        /\ job'[c].reply = IF c = r.from THEN x ELSE job[c].reply
        /\ c = r.from => Awaited(job[c], r) /\ job[c].at \in Calling
    BY AnswerKeeps
  <2> QED
    BY <2>1 DEF Follows, Created, RollingBack, Awaited, OpAt
<1> QED
  BY <1>1, <1>2 DEF CallsKept

\* A call that moves on at the worker is the same call.
LEMMA AdvanceKeeps ==
    ASSUME LeaseInv, CallInv, UNCHANGED <<vars, job>>,
           NEW r \in calls, NEW x \in {"waiting", "executing"}, Advance(r, x)
    PROVE  CallsKept
<1> DEFINE q == [r EXCEPT !.stage = x]
<1>1. r \in Calls
  BY DEF CallInv
<1>2. q \in Calls /\ q.from = r.from /\ q.op = r.op /\ q.lease = r.lease /\ q.node = r.node
  BY <1>1 DEF Calls
<1>3. calls' = (calls \ {r}) \cup {q} /\ UNCHANGED <<issued, leaseNode, job>>
  BY DEF Advance, vars, leaseVars
<1> HIDE DEF q
<1>4. /\ calls' \subseteq Calls
      /\ \A p \in calls' : p.lease \in LeasesOf(box)' /\ p.node = leaseNode'[box][p.lease]
  BY <1>2, <1>3 DEF CallInv, LeasesOf
<1>5. Awaited(job[r.from], r) => Awaited(job[r.from], q)
  BY <1>2 DEF Awaited
<1>6. /\ \A p \in calls' : p.from \in Callers => Awaited(job'[p.from], p)
      /\ \A p, o \in calls' : p.from \in Callers /\ o.from = p.from => p = o
      /\ \A c \in Callers : job'[c].reply = "sent" => \E p \in calls' : p.from = c
  BY <1>2, <1>3, <1>5 DEF CallInv
<1>7. CallInv'
  BY <1>3, <1>4, <1>6 DEF CallInv
<1> QED
  BY <1>3, <1>7 DEF CallsKept, Follows

\* A timeout: the caller has an error and the worker works for nobody.
LEMMA TimeOutKeeps ==
    ASSUME LeaseInv, CallInv, NEW r \in calls, TimeOut(r)
    PROVE  CallsKept
<1> DEFINE q == [r EXCEPT !.from = "nobody"]
           j == [job[r.from] EXCEPT !.reply = "failed"]
<1>1. r \in Calls /\ r.from \in Callers /\ "nobody" \notin Callers
  BY ControlAssumption DEF CallInv, TimeOut, Calls
<1>2. q \in Calls /\ q.from = "nobody" /\ q.op = r.op /\ q.lease = r.lease /\ q.node = r.node
  BY <1>1 DEF Calls
<1>3. j \in Jobs /\ j.reply = "failed" /\ j.at = job[r.from].at /\ j.lease = job[r.from].lease
  <2>1. job[r.from] \in Jobs
    BY <1>1 DEF CallInv
  <2> QED
    BY <2>1, JobReplied DEF Replies
<1>4. /\ calls' = (calls \ {r}) \cup {q} /\ UNCHANGED <<issued, leaseNode>>
      /\ job' = [job EXCEPT ![r.from] = j]
  BY DEF TimeOut, Goes, vars, leaseVars
<1>5. Awaited(job[r.from], r) /\ job[r.from].at \in Calling
  BY <1>1 DEF CallInv, Awaited, JobOK
<1> HIDE DEF q, j
<1>6. /\ \A c \in Callers : job'[c] = IF c = r.from THEN j ELSE job[c]
      /\ job' \in [Callers -> Jobs]
  BY <1>1, <1>3, <1>4 DEF CallInv
<1>7. \A c \in Callers : JobOK(c, job'[c], issued'[box])
  BY <1>1, <1>3, <1>4, <1>5, <1>6 DEF CallInv, JobOK
<1>8. /\ calls' \subseteq Calls
      /\ \A p \in calls' : p.lease \in LeasesOf(box)' /\ p.node = leaseNode'[box][p.lease]
  BY <1>2, <1>4 DEF CallInv, LeasesOf
<1>9. \A p \in calls' : p.from \in Callers => p \in calls /\ p.from # r.from
  BY <1>1, <1>2, <1>4 DEF CallInv
<1>10. /\ \A p \in calls' : p.from \in Callers => Awaited(job'[p.from], p)
       /\ \A p, o \in calls' : p.from \in Callers /\ o.from = p.from => p = o
       /\ \A c \in Callers : job'[c].reply = "sent" => \E p \in calls' : p.from = c
  <2>1. \A c \in Callers : job'[c].reply = "sent" => \E p \in calls' : p.from = c
    BY <1>3, <1>4, <1>6 DEF CallInv
  <2>2. /\ \A p \in calls' : p.from \in Callers => Awaited(job'[p.from], p)
        /\ \A p, o \in calls' : p.from \in Callers /\ o.from = p.from => p = o
    BY <1>6, <1>9 DEF CallInv
  <2> QED
    BY <2>1, <2>2
<1>11. CallInv'
  BY <1>6, <1>7, <1>8, <1>10 DEF CallInv
<1>12. \A c \in Callers : Follows(c, job[c], job'[c])
  BY <1>3, <1>5, <1>6 DEF Follows, Created, RollingBack
<1> QED
  BY <1>11, <1>12 DEF CallsKept

\* A worker that restarts drops its requests; whoever waited has an error.
LEMMA WorkerRestartKeeps ==
    ASSUME LeaseInv, CallInv, NEW n \in Nodes, WorkerRestart(n)
    PROVE  CallsKept
<1> DEFINE lost == {r \in calls : r.node = n}
<1>1. /\ calls' = calls \ lost /\ UNCHANGED <<issued, leaseNode>>
      /\ job' = [c \in Callers |-> IF \E r \in lost : r.from = c
                                   THEN [job[c] EXCEPT !.reply = "failed"] ELSE job[c]]
  BY DEF WorkerRestart, vars, leaseVars
<1>2. lost \subseteq calls
  OBVIOUS
<1> HIDE DEF lost
<1>3. ASSUME NEW c \in Callers
      PROVE  /\ job'[c] \in Jobs /\ job'[c].at = job[c].at /\ job'[c].lease = job[c].lease
             /\ (\E r \in lost : r.from = c) => job'[c].reply = "failed" /\ job[c].at \in Calling
             /\ ~(\E r \in lost : r.from = c) => job'[c] = job[c]
  <2>1. job[c] \in Jobs
    BY DEF CallInv
  <2>2. (\E r \in lost : r.from = c) => job[c].at \in Calling
    BY <1>2 DEF CallInv, Awaited, JobOK
  <2>3. "failed" \in Replies
    BY DEF Replies
  <2> QED
    BY <1>1, <2>1, <2>2, <2>3, JobReplied
<1>4. \A c \in Callers : JobOK(c, job'[c], issued'[box])
  BY <1>1, <1>3 DEF CallInv, JobOK
<1>5. job' \in [Callers -> Jobs]
  BY <1>1, <1>3
<1>6. /\ calls' \subseteq Calls
      /\ \A p \in calls' : p.lease \in LeasesOf(box)' /\ p.node = leaseNode'[box][p.lease]
  BY <1>1 DEF CallInv, LeasesOf
<1>7. \A p \in calls' : p.from \in Callers => job'[p.from] = job[p.from]
  BY <1>1, <1>2, <1>3 DEF CallInv
<1>8. /\ \A p \in calls' : p.from \in Callers => Awaited(job'[p.from], p)
      /\ \A p, o \in calls' : p.from \in Callers /\ o.from = p.from => p = o
  BY <1>1, <1>7 DEF CallInv
<1>9. \A c \in Callers : job'[c].reply = "sent" => \E p \in calls' : p.from = c
  BY <1>1, <1>3 DEF CallInv
<1>10. CallInv'
  BY <1>4, <1>5, <1>6, <1>8, <1>9 DEF CallInv
<1>11. \A c \in Callers : Follows(c, job[c], job'[c])
  <2> SUFFICES ASSUME NEW c \in Callers PROVE Follows(c, job[c], job'[c])
    OBVIOUS
  <2> QED
    BY <1>3 DEF Follows, Created, RollingBack
<1> QED
  BY <1>10, <1>11 DEF CallsKept

\* A control plane that restarts has no callers; the workers work for nobody.
LEMMA ControlRestartKeeps ==
    ASSUME LeaseInv, CallInv, ControlRestart
    PROVE  CallsKept
<1>1. /\ job' = [c \in Callers |-> NoJob]
      /\ calls' = {[r EXCEPT !.from = "nobody"] : r \in calls}
      /\ UNCHANGED <<issued, leaseNode>>
  BY DEF ControlRestart, vars, leaseVars
<1>2. "nobody" \notin Callers /\ issued[box] \in Nat
  BY ControlAssumption, LeaseAssumption DEF LeaseInv, LeaseTypeOK
<1>3. ASSUME NEW q \in calls'
      PROVE  /\ q \in Calls /\ q.from = "nobody"
             /\ q.lease \in LeasesOf(box)' /\ q.node = leaseNode'[box][q.lease]
  <2>1. PICK r \in calls : q = [r EXCEPT !.from = "nobody"]
    BY <1>1
  <2>2. r \in Calls /\ r.lease \in LeasesOf(box) /\ r.node = leaseNode[box][r.lease]
    BY DEF CallInv
  <2>3. q \in Calls /\ q.from = "nobody" /\ q.lease = r.lease /\ q.node = r.node
    BY <2>1, <2>2 DEF Calls
  <2> QED
    BY <1>1, <2>2, <2>3 DEF LeasesOf
<1>4. job' \in [Callers -> Jobs] /\ \A c \in Callers : job'[c] = NoJob
  BY <1>1, NoJobFields
<1>5. \A c \in Callers : JobOK(c, job'[c], issued'[box])
  BY <1>1, <1>2, <1>4, NoJobFields DEF JobOK
<1>6. CallInv'
  BY <1>2, <1>3, <1>4, <1>5, NoJobFields DEF CallInv
<1>7. \A c \in Callers : Follows(c, job[c], job'[c])
  BY <1>4, NoJobFields DEF Follows, Created, RollingBack, Teardown
<1> QED
  BY <1>6, <1>7 DEF CallsKept

-----------------------------------------------------------------------------
(* The steps of the callers.                                               *)

\* A caller goes on to a step that calls nobody yet.
LEMMA GoesToKeeps ==
    ASSUME LeaseInv, LeaseInv', Grows, CallInv,
           NEW c \in Callers, NEW a \in Steps \ {"create", "start"},
           job[c].reply # "sent",
           c = "provision" => /\ job[c].at \notin {"idle", "done"}
                              /\ a \in Teardown \cup {"queue"} => RollingBack(job[c]),
           GoesTo(c, a), UNCHANGED calls
    PROVE  CallsKept
<1> DEFINE new == [job[c] EXCEPT !.at = a, !.reply = "none"]
<1>1. job[c] \in Jobs /\ JobOK(c, job[c], issued[box]) /\ job[c].lease \in 0 .. MaxLeases
  BY DEF CallInv, Jobs
<1>2. new \in Jobs /\ new.reply = "none" /\ new.at = a /\ new.lease = job[c].lease
  BY <1>1, JobMoved
<1>3. Goes(c, new)
  BY DEF GoesTo
<1> HIDE DEF new
<1>4. JobOK(c, new, issued'[box])
  BY <1>1, <1>2, StoreGrows DEF JobOK
<1>5. Follows(c, job[c], new)
  BY <1>2 DEF Follows, Created, RollingBack
<1> QED
  BY <1>2, <1>3, <1>4, <1>5, JobMoves

\* A caller is through.
LEMMA EndsKeeps ==
    ASSUME LeaseInv, LeaseInv', Grows, CallInv,
           NEW c \in Callers, job[c].reply # "sent", Ends(c), UNCHANGED calls
    PROVE  CallsKept
<1> DEFINE new == IF c = "delete" THEN [NoJob EXCEPT !.at = "done"] ELSE NoJob
<1>1. /\ new \in Jobs /\ new.reply = "none" /\ new.at \in {"idle", "done"} /\ new.lease = 0
      /\ Goes(c, new)
  <2>1. [NoJob EXCEPT !.at = "done"] \in Jobs
    BY ControlAssumption, LeaseAssumption DEF NoJob, Jobs, Steps, Replies
  <2> QED
    BY <2>1, NoJobFields DEF Ends, NoJob
<1> HIDE DEF new
<1>2. JobOK(c, new, issued'[box]) /\ Follows(c, job[c], new)
  BY <1>1, StoreGrows DEF JobOK, Follows, Created, RollingBack, Teardown
<1> QED
  BY <1>1, <1>2, JobMoves

\* A teardown tries again, or gives up.
LEMMA AgainKeeps ==
    ASSUME LeaseInv, LeaseInv', Grows, CallInv,
           NEW c \in Callers, job[c].reply # "sent", job[c].at = "destroy",
           Again(c), UNCHANGED calls
    PROVE  CallsKept
<1>1. CASE Ends(c)
  BY <1>1, EndsKeeps
<1>2. CASE job[c].tries + 1 # DestroyAttempts
  <2> DEFINE new == [NoJob EXCEPT !.at = "fetch", !.lease = job[c].lease, !.tries = job[c].tries + 1]
  <2>1. /\ job[c] \in Jobs /\ JobOK(c, job[c], issued[box])
        /\ job[c].lease \in 0 .. MaxLeases /\ job[c].tries \in 0 .. DestroyAttempts - 1
    BY DEF CallInv, Jobs
  <2>2. job[c].tries + 1 \in 0 .. DestroyAttempts - 1
    BY <1>2, <2>1, ControlAssumption
  <2>3. /\ new \in Jobs /\ new.reply = "none" /\ new.at = "fetch" /\ new.lease = job[c].lease
    BY <2>1, <2>2, NoJobFields DEF Jobs, Steps, Teardown
  <2>4. Goes(c, new)
    BY <1>2 DEF Again
  <2> HIDE DEF new
  <2>5. JobOK(c, new, issued'[box])
    BY <2>1, <2>3, StoreGrows DEF JobOK
  <2>6. Follows(c, job[c], new)
    BY <2>3 DEF Follows, Created, RollingBack, Teardown
  <2> QED
    BY <2>3, <2>4, <2>5, <2>6, JobMoves
<1> QED
  BY <1>1, <1>2 DEF Again

\* The steps of a placement.
LEMMA PlacementKeeps ==
    ASSUME LeaseInv, LeaseInv', Grows, CallInv, NEW c \in Callers, NEW g \in {"rollback", "fail"},
           PlacementStep(c, g)
    PROVE  CallsKept
<1>1. /\ job[c] \in Jobs /\ JobOK(c, job[c], issued[box])
      /\ job[c].lease \in 0 .. MaxLeases /\ g \in Steps \ {"create", "start"}
      /\ g \notin Teardown \cup {"queue"}
  BY DEF CallInv, Jobs, Steps, Teardown
<1>2. /\ job[c].reply = "ok" /\ job[c].at \in {"create", "start"}
      /\ job[c].at = "create" => CommitStarting(c, g)
      /\ job[c].at = "start" => CommitRunning(c, g)
  BY DEF PlacementStep, CommitStarting, CommitRunning, Replied
<1>3. CASE GoesTo(c, g) /\ UNCHANGED calls
  BY <1>1, <1>2, <1>3, GoesToKeeps
<1>4. CASE Ends(c) /\ UNCHANGED calls
  BY <1>2, <1>4, EndsKeeps
<1>5. CASE /\ job[c].at = "create" /\ CommitAs(job[c].lease, "creating", "starting")
           /\ Dispatch(c, [job[c] EXCEPT !.at = "start"], "start")
  <2> DEFINE new == [job[c] EXCEPT !.at = "start"]
  <2>1. new \in Jobs /\ new.at = "start" /\ new.lease = job[c].lease
    BY <1>1 DEF Jobs, Steps
  <2>2. job[c].lease \in LeasesOf(box) /\ job[c].lease \in LeasesOf(box)'
    BY <1>5, StoreGrows DEF CommitAs, Commits, Owner
  <2>3. ASSUME NEW x \in {"sent", "refused"} PROVE Follows(c, job[c], [new EXCEPT !.reply = x])
    <3>1. /\ [new EXCEPT !.reply = x].at = "start"
          /\ [new EXCEPT !.reply = x].lease = job[c].lease
      BY <2>1, JobReplied DEF Replies
    <3> QED
      BY <1>2, <1>5, <3>1 DEF Follows, Created, RollingBack, Teardown
  <2>4. "start" = OpAt("start") /\ "start" \in Calling
    BY DEF OpAt, Calling
  <2>5. Dispatch(c, new, "start") /\ job[c].lease <= issued[box]
    BY <1>1, <1>5 DEF JobOK
  <2> HIDE DEF new
  <2> QED
    BY <1>2, <2>1, <2>2, <2>3, <2>4, <2>5, DispatchKeeps
<1> QED
  BY <1>2, <1>3, <1>4, <1>5 DEF CommitStarting, CommitRunning, OnlyStore

\* The steps of a teardown.
LEMMA TeardownKeeps ==
    ASSUME LeaseInv, LeaseInv', Grows, CallInv, NEW c \in Callers, TeardownStep(c)
    PROVE  CallsKept
<1>1. /\ job[c] \in Jobs /\ JobOK(c, job[c], issued[box]) /\ job[c].lease \in 0 .. MaxLeases
      /\ job[c].on \in Nodes \cup {NoNode} /\ nodeOf[box] \in Nodes \cup {NoNode}
  BY ControlAssumption DEF CallInv, Jobs, LeaseInv, LeaseTypeOK
<1>2. CASE Fetch(c)
  <2>1. job[c].at \in {"queue", "fetch"} /\ job[c].reply = "none"
    BY <1>1, <1>2 DEF Fetch, JobOK, Calling
  <2>2. CASE Ends(c) /\ UNCHANGED calls
    BY <2>1, <2>2, EndsKeeps
  <2>3. CASE Dispatch(c, [job[c] EXCEPT !.at = "destroy", !.on = nodeOf[box]], "destroy")
    <3> DEFINE new == [job[c] EXCEPT !.at = "destroy", !.on = nodeOf[box]]
    <3>1. new \in Jobs /\ new.at = "destroy" /\ new.lease = job[c].lease
      BY <1>1 DEF Jobs, Steps, Teardown
    <3>2. c = "provision" => job[c].lease \in LeasesOf(box)'
      BY <1>1, <2>1, StoreGrows DEF JobOK, LeasesOf
    <3>3. ASSUME NEW x \in {"sent", "refused"} PROVE Follows(c, job[c], [new EXCEPT !.reply = x])
      <4>1. /\ [new EXCEPT !.reply = x].at = "destroy"
            /\ [new EXCEPT !.reply = x].lease = job[c].lease
        BY <3>1, JobReplied DEF Replies
      <4> QED
        BY <2>1, <4>1 DEF Follows, Created, RollingBack, Teardown
    <3>4. "destroy" = OpAt("destroy") /\ "destroy" \in Calling
      BY DEF OpAt, Calling
    <3>5. Dispatch(c, new, "destroy") /\ job[c].lease <= issued[box]
      BY <1>1, <2>3 DEF JobOK
    <3> HIDE DEF new
    <3> QED
      BY <2>1, <3>1, <3>2, <3>3, <3>4, <3>5, DispatchKeeps
  <2> QED
    BY <1>2, <2>2, <2>3 DEF Fetch
<1>3. CASE DestroyFailed(c)
  <2>1. job[c].at = "destroy" /\ job[c].reply # "sent" /\ UNCHANGED calls /\ (Again(c) \/ Ends(c))
    BY <1>3 DEF DestroyFailed, Replied, OnlyJob
  <2> QED
    BY <2>1, AgainKeeps, EndsKeeps
<1>4. CASE SchedulerRelease(c)
  <2>1. /\ job[c].at = "destroy" /\ job[c].reply # "sent" /\ UNCHANGED calls
        /\ Again(c) \/ GoesTo(c, "forget")
    BY <1>4 DEF SchedulerRelease, Replied, OnlyStore
  <2>2. "forget" \in Steps \ {"create", "start"} /\ RollingBack(job[c])
    BY <2>1 DEF Steps, Teardown, RollingBack
  <2> QED
    BY <2>1, <2>2, AgainKeeps, GoesToKeeps
<1>5. CASE Forget(c)
  <2>1. job[c].at = "forgetting" /\ job[c].reply = "none" /\ UNCHANGED calls /\ Ends(c)
    BY <1>1, <1>5 DEF Forget, OnlyStore, JobOK, Calling
  <2> QED
    BY <2>1, EndsKeeps
<1>6. CASE FindLease(c)
  <2>1. PICK k \in LeasesOf(box) : Goes(c, [job[c] EXCEPT !.at = "forgetting", !.found = k])
    BY <1>6 DEF FindLease
  <2> DEFINE new == [job[c] EXCEPT !.at = "forgetting", !.found = k]
  <2>2. job[c].at = "forget" /\ job[c].reply = "none" /\ UNCHANGED calls
    BY <1>1, <1>6 DEF FindLease, OnlyJob, JobOK, Calling
  <2>3. k \in 0 .. MaxLeases
    BY StoreGrows DEF Ids
  <2>4. new \in Jobs /\ new.reply = "none" /\ new.at = "forgetting" /\ new.lease = job[c].lease
    BY <1>1, <2>2, <2>3 DEF Jobs, Steps, Teardown
  <2> HIDE DEF new
  <2>5. JobOK(c, new, issued'[box])
    BY <1>1, <2>2, <2>4, StoreGrows DEF JobOK
  <2>6. Follows(c, job[c], new)
    BY <2>2, <2>4 DEF Follows, Created, RollingBack, Teardown
  <2> QED
    BY <2>1, <2>2, <2>4, <2>5, <2>6, JobMoves DEF new
<1> QED
  BY <1>2, <1>3, <1>4, <1>5, <1>6 DEF TeardownStep

\* The admission of a provisioning calls for its create under the new lease.
LEMMA AdmitKeeps ==
    ASSUME LeaseInv, LeaseInv', Grows, CallInv, "provision" \in Callers, NEW n \in Nodes,
           ProvisionAdmit(n)
    PROVE  CallsKept
<1> DEFINE c == "provision"
           new == [NoJob EXCEPT !.at = "create", !.lease = issued'[box], !.on = n]
<1>1. c \in Callers /\ JobOK(c, job[c], issued[box]) /\ job[c].at = "idle"
  BY DEF CallInv, ProvisionAdmit
<1>2. job[c].reply = "none"
  BY <1>1 DEF JobOK, Calling
<1>3. new \in Jobs /\ new.at = "create" /\ new.lease = issued'[box]
  <2>1. issued'[box] \in 0 .. MaxLeases
    BY StoreGrows
  <2> QED
    BY <2>1, NoJobFields DEF Jobs, Steps
<1>4. issued'[box] \in LeasesOf(box)'
  <2>1. issued' = [issued EXCEPT ![box] = issued[box] + 1]
    BY DEF ProvisionAdmit, Schedule, RescheduleLapsed, Reschedule, Place
  <2>2. issued'[box] = issued[box] + 1
    BY <2>1, StoreGrows DEF LeaseInv, LeaseTypeOK
  <2> QED
    BY <2>2, StoreGrows DEF LeasesOf
<1>5. ASSUME NEW x \in {"sent", "refused"} PROVE Follows(c, job[c], [new EXCEPT !.reply = x])
  <2>1. [new EXCEPT !.reply = x].at = "create" /\ [new EXCEPT !.reply = x].reply = x
    BY <1>3, JobReplied DEF Replies
  <2> QED
    BY <2>1 DEF Follows, Created, RollingBack, Teardown
<1>6. "create" = OpAt("create") /\ "create" \in Calling
  BY DEF OpAt, Calling
<1>7. Dispatch(c, new, "create")
  BY DEF ProvisionAdmit
<1> HIDE DEF new
<1> QED
  BY <1>1, <1>2, <1>3, <1>4, <1>5, <1>6, <1>7, DispatchKeeps

\* A step of the store alone.
LEMMA StoreStepKeeps ==
    ASSUME LeaseInv, LeaseInv', Grows, CallInv, UNCHANGED <<job, calls>>
    PROVE  CallsKept
<1>1. \A c \in Callers : JobOK(c, job'[c], issued'[box])
  <2> SUFFICES ASSUME NEW c \in Callers PROVE JobOK(c, job[c], issued'[box])
    OBVIOUS
  <2>1. job[c].lease \in 0 .. MaxLeases /\ JobOK(c, job[c], issued[box])
    BY DEF CallInv, Jobs
  <2> QED
    BY <2>1, StoreGrows DEF JobOK
<1>2. \A r \in calls' : r.lease \in LeasesOf(box)' /\ r.node = leaseNode'[box][r.lease]
  BY StoreGrows DEF CallInv
<1>3. CallInv'
  BY <1>1, <1>2 DEF CallInv
<1> QED
  BY <1>3 DEF CallsKept, Follows

\* The steps of the workers' reconcile call.
LEMMA RecoveryKeeps ==
    ASSUME LeaseInv, LeaseInv', Grows, CallInv, "recovery" \in Callers, RecoveryStep
    PROVE  CallsKept
<1> DEFINE c == "recovery"
<1>1. c \in Callers /\ job[c] \in Jobs /\ JobOK(c, job[c], issued[box])
      /\ job[c].lease \in 0 .. MaxLeases
  BY DEF CallInv, Jobs
<1>2. ASSUME NEW k \in LeasesOf(box), RecoveryExpire(k) PROVE CallsKept
  <2> DEFINE new == [NoJob EXCEPT !.at = "reassign", !.lease = k]
  <2>1. k \in 0 .. MaxLeases /\ k <= issued'[box]
    BY StoreGrows DEF LeasesOf
  <2>2. new \in Jobs /\ new.at = "reassign" /\ new.lease = k /\ new.reply = "none"
    BY <2>1, NoJobFields DEF Jobs, Steps
  <2>3. Goes(c, new) /\ UNCHANGED calls /\ job[c].at = "idle"
    BY <1>2 DEF RecoveryExpire, OnlyStore
  <2> HIDE DEF new
  <2>4. JobOK(c, new, issued'[box]) /\ Follows(c, job[c], new) /\ job[c].reply = "none"
    BY <1>1, <2>1, <2>2, <2>3 DEF JobOK, Follows, Created, Calling
  <2> QED
    BY <1>1, <2>2, <2>3, <2>4, JobMoves
<1>3. CASE RecoveryReassign
  <2>1. job[c].at = "reassign" /\ job[c].reply = "none" /\ UNCHANGED calls
    BY <1>1, <1>3 DEF RecoveryReassign, OnlyStore, JobOK, Calling
  <2>2. CASE Ends(c)
    BY <1>1, <2>1, <2>2, EndsKeeps
  <2>3. ASSUME NEW n \in Nodes, Reassign(box, job[c].lease, n),
               Goes(c, [NoJob EXCEPT !.at = "create", !.lease = issued'[box],
                                     !.gen = gen'[box][issued'[box]], !.on = n])
        PROVE  CallsKept
    <3> DEFINE new == [NoJob EXCEPT !.at = "create", !.lease = issued'[box],
                                    !.gen = gen'[box][issued'[box]], !.on = n]
    <3>1. issued'[box] \in LeasesOf(box)'
      <4>1. issued' = [issued EXCEPT ![box] = issued[box] + 1]
        BY <2>3 DEF Reassign, Place
      <4>2. issued'[box] = issued[box] + 1
        BY <4>1, StoreGrows DEF LeaseInv, LeaseTypeOK
      <4> QED
        BY <4>2, StoreGrows DEF LeasesOf
    <3>2. issued'[box] \in 0 .. MaxLeases /\ gen'[box][issued'[box]] \in 0 .. MaxGeneration
      <4>1. gen' \in [Sandboxes -> [Ids -> 0 .. MaxGeneration]] /\ issued'[box] \in Ids
        BY <3>1, StoreGrows DEF LeaseInv, LeaseTypeOK
      <4> QED
        BY <4>1, StoreGrows
    <3>3. new \in Jobs /\ new.at = "create" /\ new.lease = issued'[box] /\ new.reply = "none"
      BY <3>2, NoJobFields DEF Jobs, Steps
    <3>4. Goes(c, new)
      BY <2>3
    <3> HIDE DEF new
    <3>5. JobOK(c, new, issued'[box]) /\ Follows(c, job[c], new)
      BY <3>2, <3>3 DEF JobOK, Follows, Created
    <3> QED
      BY <1>1, <2>1, <3>3, <3>4, <3>5, JobMoves
  <2> QED
    BY <1>3, <2>2, <2>3 DEF RecoveryReassign
<1>4. CASE RecoveryCreate
  <2>1. /\ job[c].at = "create" /\ job[c].reply = "none"
        /\ Dispatch(c, job[c], "create")
    BY <1>4 DEF RecoveryCreate, Replied
  <2>2. ASSUME NEW x \in {"sent", "refused"}
        PROVE  Follows(c, job[c], [job[c] EXCEPT !.reply = x])
    <3>1. [job[c] EXCEPT !.reply = x].at = "create" /\ [job[c] EXCEPT !.reply = x].reply = x
      BY <1>1, <2>1, JobReplied DEF Replies
    <3> QED
      BY <3>1 DEF Follows, Created
  <2>3. "create" = OpAt("create") /\ "create" \in Calling /\ job[c].lease <= issued[box]
    BY <1>1 DEF OpAt, Calling, JobOK
  <2> QED
    BY <1>1, <2>1, <2>2, <2>3, DispatchKeeps
<1>5. CASE RecoveryFail
  <2>1. /\ job[c].reply # "sent" /\ GoesTo(c, "return") /\ UNCHANGED calls
        /\ "return" \in Steps \ {"create", "start"}
    BY <1>5 DEF RecoveryFail, GivesUp, Replied, Bad, OnlyStore, Steps
  <2> QED
    BY <1>1, <2>1, GoesToKeeps
<1>6. CASE RecoveryReturn
  <2>1. job[c].at = "return" /\ Ends(c) /\ UNCHANGED calls
    BY <1>6 DEF RecoveryReturn, OnlyStore
  <2>2. job[c].reply = "none"
    BY <1>1, <2>1 DEF JobOK, Calling
  <2> QED
    BY <1>1, <2>1, <2>2, EndsKeeps
<1> QED
  BY <1>1, <1>2, <1>3, <1>4, <1>5, <1>6, PlacementKeeps DEF RecoveryStep

\* The steps of the sweeper.
LEMMA SweeperKeeps ==
    ASSUME LeaseInv, LeaseInv', Grows, CallInv, "sweeper" \in Callers, SweeperStep
    PROVE  CallsKept
<1> DEFINE c == "sweeper"
<1>1. c \in Callers /\ job[c] \in Jobs /\ JobOK(c, job[c], issued[box])
      /\ job[c].lease \in 0 .. MaxLeases /\ "forget" \in Steps \ {"create", "start"}
  BY DEF CallInv, Jobs, Steps, Teardown
<1>2. CASE \E k \in LeasesOf(box) : SweepExpired(k) \/ SweepOrphaned(k)
  BY <1>2, StoreStepKeeps DEF SweepExpired, SweepOrphaned, controlVars
<1>3. CASE SweepStranded
  <2> DEFINE new == [NoJob EXCEPT !.at = "abandon", !.on = nodeOf[box]]
  <2>1. nodeOf[box] \in Nodes \cup {NoNode}
    BY ControlAssumption DEF LeaseInv, LeaseTypeOK
  <2>2. new \in Jobs /\ new.at = "abandon" /\ new.lease = 0 /\ new.reply = "none"
    BY <2>1, NoJobFields DEF Jobs, Steps
  <2>3. Goes(c, new) /\ UNCHANGED calls /\ job[c].at = "idle"
    BY <1>3 DEF SweepStranded, OnlyJob
  <2> HIDE DEF new
  <2>4. JobOK(c, new, issued'[box]) /\ Follows(c, job[c], new) /\ job[c].reply = "none"
    BY <1>1, <2>2, <2>3, StoreGrows DEF JobOK, Follows, Created, Calling
  <2> QED
    BY <1>1, <2>2, <2>3, <2>4, JobMoves
<1>4. CASE Abandon
  <2>1. job[c].at = "abandon" /\ job[c].reply = "none"
    BY <1>4 DEF Abandon, Replied
  <2>2. CASE GoesTo(c, "forget") /\ UNCHANGED calls
    BY <1>1, <2>1, <2>2, GoesToKeeps
  <2>3. ASSUME NEW k \in Owners, Send(c, job[c], "destroy", k) PROVE CallsKept
    <3>1. k \in LeasesOf(box) /\ status[box][k] = "active"
      BY DEF Owners, Owner
    <3>2. k = issued[box] /\ k \in LeasesOf(box)'
      BY <3>1, StoreGrows DEF LeaseInv, OneOwner
    <3>3. job[c].lease <= k
      BY <1>1, <3>2 DEF JobOK
    <3>4. [job[c] EXCEPT !.reply = "sent"].at = "abandon"
      BY <1>1, <2>1, JobReplied DEF Replies
    <3>5. Follows(c, job[c], [job[c] EXCEPT !.reply = "sent"])
      BY <3>4 DEF Follows, Created
    <3>6. "destroy" = OpAt("abandon") /\ "abandon" \in Calling
      BY DEF OpAt, Calling
    <3> QED
      BY <1>1, <2>1, <2>3, <3>2, <3>3, <3>5, <3>6, JobSends
  <2> QED
    BY <1>4, <2>2, <2>3 DEF Abandon
<1>5. CASE Abandoned
  <2>1. job[c].reply # "sent" /\ UNCHANGED calls /\ (GoesTo(c, "forget") \/ Ends(c))
    BY <1>5 DEF Abandoned, Replied, Bad, OnlyJob
  <2> QED
    BY <1>1, <2>1, GoesToKeeps, EndsKeeps
<1>6. CASE FindLease("sweeper") \/ Forget("sweeper")
  BY <1>1, <1>6, TeardownKeeps DEF TeardownStep
<1> QED
  BY <1>2, <1>3, <1>4, <1>5, <1>6 DEF SweeperStep

\* A DELETE request.
LEMMA DeleteAskKeeps ==
    ASSUME LeaseInv, LeaseInv', Grows, CallInv, "delete" \in Callers, DeleteAsk
    PROVE  CallsKept
<1> DEFINE c == "delete"
           new == [NoJob EXCEPT !.at = "queue"]
<1>1. c \in Callers /\ JobOK(c, job[c], issued[box])
  BY DEF CallInv
<1>2. new \in Jobs /\ new.at = "queue" /\ new.lease = 0 /\ new.reply = "none"
  BY NoJobFields DEF Jobs, Steps
<1>3. Goes(c, new) /\ UNCHANGED calls /\ job[c].at = "idle"
  BY DEF DeleteAsk, OnlyJob
<1> HIDE DEF new
<1>4. JobOK(c, new, issued'[box]) /\ Follows(c, job[c], new) /\ job[c].reply = "none"
  BY <1>1, <1>2, <1>3, StoreGrows DEF JobOK, Follows, Created, Calling
<1> QED
  BY <1>1, <1>2, <1>3, <1>4, JobMoves

\* A rollback that has won the row: nobody has a machine for it that he had not,
\* and it holds the newest lease of a sandbox that is being destroyed.
RolledBack ==
    /\ CallInv'
    /\ "provision" \in Callers
    /\ state'[box] = "destroying" /\ job["provision"].lease = issued'[box]
    /\ \A c \in Callers : /\ Created(job'[c]) => Created(job[c])
                          /\ job'[c].lease = job[c].lease

\* The compare-and-set that starts the rollback of a provisioning.
LEMMA RollbackKeeps ==
    ASSUME LeaseInv, LeaseInv', Grows, CallInv, "provision" \in Callers, ProvisionRollback
    PROVE  CallsKept \/ RolledBack
<1> DEFINE c == "provision"
<1>1. c \in Callers /\ job[c] \in Jobs /\ JobOK(c, job[c], issued[box])
      /\ job[c].lease \in 0 .. MaxLeases /\ job[c].reply # "sent" /\ UNCHANGED calls
      /\ job[c].at \in {"rollback", "create", "start"}
  BY DEF CallInv, Jobs, ProvisionRollback, GivesUp, Replied, Bad, OnlyStore
<1>2. CASE Ends(c)
  BY <1>1, <1>2, EndsKeeps
<1>3. ASSUME NEW s \in {"creating", "starting"}, CommitAs(job[c].lease, s, "destroying"),
             GoesTo(c, "queue")
      PROVE  RolledBack
  <2> DEFINE k == job[c].lease
             new == [job[c] EXCEPT !.at = "queue", !.reply = "none"]
  <2>1. k \in LeasesOf(box) /\ status[box][k] = "active" /\ k \in Ids
    BY <1>3, StoreGrows DEF CommitAs, Commits, Owner
  <2>2. k = issued[box]
    BY <2>1, StoreGrows DEF LeaseInv, OneOwner
  <2>3. state'[box] = "destroying" /\ issued' = issued
    BY <1>3, StoreGrows DEF CommitAs, UpdateStateWithLease, vars, sandboxVars, leaseVars,
                            LeaseInv, LeaseTypeOK
  <2>4. "queue" \in Steps
    BY DEF Steps
  <2>5. new \in Jobs /\ new.reply = "none" /\ new.at = "queue" /\ new.lease = k
    BY <1>1, <2>4, JobMoved
  <2>6. Goes(c, new)
    BY <1>3 DEF GoesTo
  <2> HIDE DEF new
  <2>7. JobOK(c, new, issued'[box])
    BY <1>1, <2>2, <2>3, <2>5, StoreGrows DEF JobOK
  <2>8. CallInv' /\ \A d \in Callers : job'[d] = IF d = c THEN new ELSE job[d]
    BY <1>1, <2>5, <2>6, <2>7, JobMovesTo
  <2> QED
    BY <1>1, <2>2, <2>3, <2>5, <2>8 DEF RolledBack, Created
<1> QED
  BY <1>2, <1>3 DEF ProvisionRollback

\* A create that is done: whoever waits for it has got the machine.
Builds(r) ==
    /\ CallInv'
    /\ r \in calls /\ r.stage = "executing" /\ r.op = "create" /\ UNCHANGED vars
    /\ built' = [built EXCEPT ![r.node] = r.lease]
    /\ \A c \in Callers :
          /\ job'[c].at = job[c].at /\ job'[c].lease = job[c].lease
          /\ c # r.from => job'[c].reply = job[c].reply
          /\ c = r.from => job[c].lease <= r.lease

\* A call is carried out.
LEMMA ExecuteKeeps ==
    ASSUME LeaseInv, CallInv, NEW r \in calls, Execute(r)
    PROVE  CallsKept \/ Builds(r)
<1>1. "ok" \in Replies \ {"none", "sent"} /\ "failed" \in Replies \ {"none", "sent"} /\ UNCHANGED vars
  BY DEF Replies, Execute
<1>2. CASE r.op = "create"
  <2>1. /\ Answer(r, "ok") /\ r.stage = "executing"
        /\ built' = [built EXCEPT ![r.node] = r.lease]
    BY <1>2 DEF Execute
  <2> QED
    BY <1>1, <1>2, <2>1, AnswerKeeps DEF Builds, Awaited
<1>3. CASE r.op # "create"
  <2>1. Answer(r, "ok") \/ Answer(r, "failed")
    BY <1>3 DEF Execute
  <2> QED
    BY <1>1, <1>3, <2>1, AnswerFollows
<1> QED
  BY <1>2, <1>3

\* A request is let in, or refused.
LEMMA ArriveEnterKeeps ==
    ASSUME LeaseInv, CallInv, NEW r \in calls, Arrive(r) \/ Enter(r)
    PROVE  CallsKept
<1>1. UNCHANGED vars /\ RefusalOf(r) \in Replies \ {"none", "sent"} /\ RefusalOf(r) # "ok"
  BY DEF Arrive, Enter, RefusalOf, Replies
<1>2. CASE Answer(r, RefusalOf(r))
  BY <1>1, <1>2, AnswerFollows
<1>3. CASE (Advance(r, "waiting") \/ Advance(r, "executing")) /\ UNCHANGED job
  BY <1>1, <1>3, AdvanceKeeps
<1> QED
  BY <1>2, <1>3 DEF Arrive, Enter

\* Every step of the control plane and of the workers.
LEMMA CallsStep ==
    ASSUME LeaseInv, LeaseInv', Grows, CallInv, [ControlNext]_allVars
    PROVE  CallsKept \/ RolledBack \/ \E r \in calls : Builds(r)
<1>1. CASE "provision" \in Callers /\ ProvisionStep
  BY <1>1, AdmitKeeps, PlacementKeeps, RollbackKeeps, TeardownKeeps DEF ProvisionStep
<1>2. CASE "delete" \in Callers /\ DeleteStep
  BY <1>2, DeleteAskKeeps, TeardownKeeps DEF DeleteStep
<1>3. CASE ("recovery" \in Callers /\ RecoveryStep) \/ ("sweeper" \in Callers /\ SweeperStep)
  BY <1>3, RecoveryKeeps, SweeperKeeps
<1>4. ASSUME NEW r \in calls, CallStep(r)
      PROVE  CallsKept \/ \E q \in calls : Builds(q)
  BY <1>4, ArriveEnterKeeps, ExecuteKeeps DEF CallStep
<1>5. ASSUME NEW r \in calls, FailCall(r) \/ TimeOut(r) PROVE CallsKept
  <2>1. CASE FailCall(r)
    <3>1. Answer(r, "failed") /\ "failed" \in Replies \ {"none", "sent"} /\ UNCHANGED vars
      BY <2>1 DEF FailCall, Replies
    <3> QED
      BY <3>1, AnswerFollows
  <2> QED
    BY <1>5, <2>1, TimeOutKeeps
<1>6. CASE (\E n \in Nodes : WorkerRestart(n)) \/ ControlRestart
  BY <1>6, WorkerRestartKeeps, ControlRestartKeeps
<1>7. CASE WorkerKeeps \/ Lapse \/ UNCHANGED allVars
  BY <1>7, StoreStepKeeps DEF WorkerKeeps, Lapse, controlVars, allVars
<1> QED
  BY <1>1, <1>2, <1>3, <1>4, <1>5, <1>6, <1>7 DEF ControlNext

-----------------------------------------------------------------------------
(* What the callers do to the row of the sandbox.                          *)

\* A row that is being destroyed is not placed again, and one becomes running only
\* for a placement whose start was answered and whose lease owns it.
RowStep ==
    /\ state[box] \in {"destroying", "destroyed"} =>
          state'[box] \in {"destroying", "destroyed"} /\ issued'[box] = issued[box]
    /\ state'[box] = "running" /\ state[box] # "running" =>
          \E c \in Callers : /\ job[c].at = "start" /\ Owner(box, job[c].lease)
                             /\ UNCHANGED <<issued, leaseNode, built>>

\* The commits before running, and those that give a placement up.
LEMMA CommitRow ==
    ASSUME LeaseInv, NEW k, NEW from \in {"creating", "starting"}, NEW to,
           to # "running", CommitAs(k, from, to)
    PROVE  RowStep
<1>1. CASE UNCHANGED vars
  BY <1>1 DEF vars, sandboxVars, leaseVars, RowStep
<1>2. CASE state[box] = from /\ UpdateStateWithLease(box, k, to)
  <2>1. state'[box] = to
    BY <1>2, ControlAssumption DEF UpdateStateWithLease, LeaseInv, LeaseTypeOK
  <2> QED
    BY <1>2, <2>1 DEF RowStep
<1> QED
  BY <1>1, <1>2 DEF CommitAs

\* A placement.
LEMMA PlaceRow ==
    ASSUME LeaseInv, NEW n, NEW g, NEW st, NEW free, NEW rows, st # "running",
           state[box] \notin {"destroying", "destroyed"}, Place(box, n, g, st, free, rows)
    PROVE  RowStep
<1>1. state' = [state EXCEPT ![box] = st]
  BY DEF Place
<1>2. state'[box] = st
  BY <1>1, ControlAssumption DEF LeaseInv, LeaseTypeOK
<1> QED
  BY <1>2 DEF RowStep

\* The end of a teardown.
LEMMA DeleteRow ==
    ASSUME LeaseInv, NEW k, DeleteSandbox(box, k)
    PROVE  RowStep
<1>1. state' = [state EXCEPT ![box] = "destroyed"] /\ UNCHANGED issued
  BY DEF DeleteSandbox, Release, leaseVars
<1>2. state'[box] = "destroyed"
  BY <1>1, ControlAssumption DEF LeaseInv, LeaseTypeOK
<1> QED
  BY <1>1, <1>2 DEF RowStep

\* Every step.
LEMMA RowKept ==
    ASSUME LeaseInv, [ControlNext]_allVars
    PROVE  RowStep
<1>1. CASE UNCHANGED <<state, issued>>
  BY <1>1 DEF RowStep
<1>2. CASE UNCHANGED vars
  BY <1>1, <1>2 DEF vars, sandboxVars, leaseVars
<1>3. ASSUME NEW n \in Nodes, ProvisionAdmit(n) PROVE RowStep
  BY <1>3, PlaceRow DEF ProvisionAdmit, Schedule, RescheduleLapsed, Reschedule, Reschedulable
<1>4. ASSUME NEW c \in Callers, NEW g, PlacementStep(c, g) PROVE RowStep
  <2>1. CASE CommitStarting(c, g)
    BY <1>2, <2>1, CommitRow DEF CommitStarting
  <2>2. CASE CommitRunning(c, g)
    <3>1. CASE UNCHANGED vars
      BY <1>2, <3>1
    <3>2. CASE /\ state[box] = "starting" /\ Owner(box, job[c].lease)
               /\ UpdateStateWithLease(box, job[c].lease, "running")
      <4>1. UNCHANGED <<issued, leaseNode, built>> /\ job[c].at = "start"
        BY <2>2, <3>2 DEF CommitRunning, Replied, OnlyStore, hostVars, UpdateStateWithLease,
                          leaseVars
      <4> QED
        BY <3>2, <4>1 DEF RowStep
    <3> QED
      BY <2>2, <3>1, <3>2 DEF CommitRunning, CommitAs, Commits
  <2> QED
    BY <1>4, <2>1, <2>2 DEF PlacementStep
<1>5. CASE ProvisionRollback
  BY <1>2, <1>5, CommitRow DEF ProvisionRollback
<1>6. ASSUME NEW c, TeardownStep(c) PROVE RowStep
  <2>1. CASE Fetch(c) \/ DestroyFailed(c) \/ FindLease(c)
    BY <1>2, <2>1 DEF Fetch, DestroyFailed, FindLease, OnlyCall, OnlyJob
  <2>2. CASE SchedulerRelease(c)
    BY <1>1, <1>2, <2>2 DEF SchedulerRelease, ReleaseLease, Release
  <2>3. CASE Forget(c)
    BY <2>3, DeleteRow DEF Forget
  <2> QED
    BY <1>6, <2>1, <2>2, <2>3 DEF TeardownStep
<1>7. CASE RecoveryStep /\ "recovery" \in Callers
  <2>1. CASE \E k \in LeasesOf(box) : RecoveryExpire(k)
    BY <1>1, <2>1 DEF RecoveryExpire, Reconcile, Release
  <2>2. CASE RecoveryReassign
    <3> DEFINE k == job["recovery"].lease
    <3>1. CASE \E n \in Nodes : Reassign(box, k, n)
      BY <3>1, PlaceRow DEF Reassign, Reassignable, Recoverable
    <3>2. CASE ReassignNowhere(box, k)
      BY <1>1, <1>2, <3>2 DEF ReassignNowhere, Release, leaseVars
    <3>3. CASE UNCHANGED vars
      BY <1>2, <3>3
    <3> QED
      BY <2>2, <3>1, <3>2, <3>3 DEF RecoveryReassign
  <2>3. CASE RecoveryCreate
    BY <1>2, <2>3 DEF RecoveryCreate, OnlyCall
  <2>4. CASE RecoveryFail
    BY <1>2, <2>4, CommitRow DEF RecoveryFail
  <2>5. CASE RecoveryReturn
    BY <1>1, <1>2, <2>5 DEF RecoveryReturn, ReleaseLease, Release
  <2> QED
    BY <1>4, <1>7, <2>1, <2>2, <2>3, <2>4, <2>5 DEF RecoveryStep
<1>8. CASE SweeperStep
  <2>1. CASE \E k \in LeasesOf(box) : SweepExpired(k) \/ SweepOrphaned(k)
    BY <1>1, <2>1 DEF SweepExpired, SweepOrphaned, Reconcile, ReleaseOrphaned, Release
  <2>2. CASE SweepStranded \/ Abandon \/ Abandoned \/ FindLease("sweeper")
    BY <1>2, <2>2 DEF SweepStranded, Abandon, Abandoned, FindLease, OnlyJob, OnlyCall
  <2>3. CASE Forget("sweeper")
    BY <2>3, DeleteRow DEF Forget
  <2> QED
    BY <1>8, <2>1, <2>2, <2>3 DEF SweeperStep
<1>9. ASSUME NEW r, CallStep(r) \/ FailCall(r) \/ TimeOut(r) PROVE RowStep
  BY <1>2, <1>9 DEF CallStep, Arrive, Enter, Execute, FailCall, TimeOut
<1>10. CASE DeleteAsk \/ (\E n \in Nodes : WorkerRestart(n)) \/ ControlRestart \/ UNCHANGED allVars
  BY <1>2, <1>10 DEF DeleteAsk, OnlyJob, WorkerRestart, ControlRestart, allVars
<1>11. CASE WorkerKeeps \/ Lapse
  BY <1>1, <1>11 DEF WorkerKeeps, Lapse, Claim, Renew, ExpireLease, sandboxVars
<1> QED
  BY <1>3, <1>4, <1>5, <1>6, <1>7, <1>8, <1>9, <1>10, <1>11
     DEF ControlNext, ProvisionStep, DeleteStep

\* Only a placement makes an owner, and it leaves the row creating or restoring.
LEMMA OwnersShrink ==
    ASSUME LeaseInv, [Next]_vars, state'[box] = "running"
    PROVE  Owners' \subseteq Owners
<1> USE ControlAssumption
<1>0. status \in [Sandboxes -> [Ids -> Held \cup Closed \cup {"none"}]]
      /\ live \in [Sandboxes -> [Ids -> BOOLEAN]] /\ LeasesOf(box) \subseteq Ids
  BY LeaseAssumption DEF LeaseInv, LeaseTypeOK, LeasesOf, Ids
<1>1. CASE /\ UNCHANGED issued
           /\ \A k \in LeasesOf(box) : /\ status'[box][k] = "active" => status[box][k] = "active"
                                       /\ live'[box][k] => live[box][k]
  BY <1>1 DEF Owners, Owner, LeasesOf
<1>2. CASE UNCHANGED <<issued, status, live>>
  BY <1>1, <1>2
<1>3. ASSUME NEW s \in Sandboxes, NEW n, NEW g, NEW st \in {"creating", "restoring"}, NEW free,
             NEW rows, Place(s, n, g, st, free, rows)
      PROVE  FALSE
  BY <1>3 DEF Place, LeaseInv, LeaseTypeOK
<1>4. ASSUME NEW s \in Sandboxes, NEW k, NEW how \in Closed, Release(s, k, how)
      PROVE  Owners' \subseteq Owners
  <2>1. UNCHANGED <<issued, live>> /\ status' = [status EXCEPT ![s][k] = how]
    BY <1>4 DEF Release
  <2>2. \A j \in LeasesOf(box) : status'[box][j] = "active" => status[box][j] = "active"
    BY <1>0, <2>1 DEF Closed
  <2> QED
    BY <1>1, <2>1, <2>2
<1>5. ASSUME NEW s \in Sandboxes, SandboxStep(s) PROVE Owners' \subseteq Owners
  <2>1. CASE \E n \in Nodes : \/ \E st \in {"creating", "restoring"} : Schedule(s, n, st)
                              \/ RescheduleLapsed(s, n) \/ Reschedule(s, n)
    BY <1>3, <2>1 DEF Schedule, RescheduleLapsed, Reschedule
  <2>2. CASE Claim(s) \/ ReleaseQuarantine(s)
    BY <1>2, <2>2 DEF Claim, ReleaseQuarantine, leaseVars
  <2>3. CASE \E k \in LeasesOf(s) : DeleteSandbox(s, k)
    BY <1>2, <1>4, <2>3 DEF DeleteSandbox, leaseVars, Closed
  <2> QED
    BY <1>5, <2>1, <2>2, <2>3 DEF SandboxStep
<1>6. ASSUME NEW s \in Sandboxes, NEW k \in LeasesOf(s), LeaseStep(s, k)
      PROVE  Owners' \subseteq Owners
  <2>1. CASE Renew(s, k) \/ MarkQuarantined(s, k)
             \/ \E to \in CommitTargets : UpdateStateWithLease(s, k, to)
    BY <1>2, <2>1 DEF Renew, MarkQuarantined, UpdateStateWithLease, leaseVars
  <2>2. CASE Complete(s, k)
    <3>1. UNCHANGED <<issued, live>> /\ status' = [status EXCEPT ![s][k] = "completed"]
      BY <2>2 DEF Complete
    <3>2. \A j \in LeasesOf(box) : status'[box][j] = "active" => status[box][j] = "active"
      BY <1>0, <3>1
    <3> QED
      BY <1>1, <3>1, <3>2
  <2>3. CASE ExpireLease(s, k)
    <3>1. UNCHANGED <<issued, status>> /\ live' = [live EXCEPT ![s][k] = FALSE]
      BY <2>3 DEF ExpireLease
    <3>2. \A j \in LeasesOf(box) : live'[box][j] => live[box][j]
      BY <1>0, <3>1
    <3> QED
      BY <1>1, <3>1, <3>2
  <2>4. CASE ReleaseLease(s, k) \/ Reconcile(s, k) \/ ReassignNowhere(s, k) \/ ReleaseOrphaned(s, k)
    BY <1>2, <1>4, <2>4 DEF ReleaseLease, Reconcile, ReassignNowhere, ReleaseOrphaned, Closed,
                            vars, leaseVars
  <2>5. CASE \E n \in Nodes : Reassign(s, k, n)
    BY <1>3, <2>5 DEF Reassign
  <2> QED
    BY <1>6, <2>1, <2>2, <2>3, <2>4, <2>5 DEF LeaseStep
<1>7. CASE (\E n \in Nodes : NodeStep(n)) \/ UNCHANGED vars
  BY <1>2, <1>7 DEF NodeStep, Register, Heartbeat, GoSilent, SetDraining, vars, leaseVars
<1> QED
  BY <1>5, <1>6, <1>7 DEF Next

-----------------------------------------------------------------------------
(* The machine of a placement, and the rollback of one.                    *)

\* Unless a placement was overtaken, the machine it got is the one its own lease
\* built; and so is the machine of a running sandbox.
MachineInv ==
    /\ \A c \in Callers : Created(job[c]) /\ job[c].lease = issued[box] /\ issued[box] # 0 =>
          built[leaseNode[box][issued[box]]] = issued[box]
    /\ RunningWasBuilt

\* Only a create that is carried out builds.
LEMMA BuiltByCalls ==
    ASSUME [ControlNext]_allVars
    PROVE  \/ UNCHANGED built
           \/ \E r \in calls : /\ r.stage = "executing"
                               /\ built' = [built EXCEPT ![r.node] = r.lease]
<1>1. ASSUME NEW r \in calls, CallStep(r)
      PROVE  \/ UNCHANGED built
             \/ r.stage = "executing" /\ built' = [built EXCEPT ![r.node] = r.lease]
  BY <1>1, SMTT(40) DEF CallStep, Arrive, Enter, Execute, hostVars
<1>2. ASSUME ~\E r \in calls : CallStep(r) PROVE UNCHANGED built
  BY <1>2, Zenon DEF ControlNext, ProvisionStep, ProvisionAdmit, PlacementStep, CommitStarting,
     CommitRunning, ProvisionRollback, TeardownStep, Fetch, DestroyFailed, SchedulerRelease,
     FindLease, Forget, DeleteStep, DeleteAsk, RecoveryStep, RecoveryExpire, RecoveryReassign,
     RecoveryCreate, RecoveryFail, RecoveryReturn, SweeperStep, SweepExpired, SweepOrphaned,
     SweepStranded, Abandon, Abandoned, FailCall, TimeOut, WorkerRestart, WorkerKeeps, Lapse,
     ControlRestart, OnlyJob, OnlyStore, OnlyCall, hostVars, controlVars, allVars
<1> QED
  BY <1>1, <1>2

\* What was built for the newest lease is not built over by an older one.
LEMMA NewestStays ==
    ASSUME LeaseInv, LeaseInv', Grows, GateInv, [ControlNext]_allVars,
           issued[box] \in LeasesOf(box), built[leaseNode[box][issued[box]]] = issued[box]
    PROVE  /\ leaseNode'[box][issued[box]] = leaseNode[box][issued[box]]
           /\ built'[leaseNode[box][issued[box]]] = issued[box]
<1> DEFINE top == issued[box]
           there == leaseNode[box][top]
<1>1. leaseNode'[box][top] = there /\ there \in Nodes /\ top \in Nat
  BY StoreGrows
<1>2. ASSUME NEW r \in calls, r.stage = "executing", built' = [built EXCEPT ![r.node] = r.lease]
      PROVE  built'[there] = top
  <2>1. r.node \in Nodes /\ r.lease \in LeasesOf(box) /\ built[r.node] <= r.lease
    BY <1>2 DEF GateInv
  <2>2. r.lease \in Nat /\ r.lease <= top
    BY <2>1, StoreGrows DEF LeasesOf
  <2>3. built \in [Nodes -> Nat]
    BY DEF GateInv
  <2>4. r.node = there => r.lease = top
    BY <1>1, <2>1, <2>2
  <2> QED
    BY <1>1, <1>2, <2>1, <2>3, <2>4
<1>3. built'[there] = top
  BY <1>2, BuiltByCalls
<1> QED
  BY <1>1, <1>3

\* Every step keeps the machines of the placements and of a running sandbox.
LEMMA MachineStep ==
    ASSUME LeaseInv, LeaseInv', Grows, GateInv, CallInv, MachineInv, [ControlNext]_allVars
    PROVE  MachineInv'
<1> DEFINE top == issued[box]
           there == leaseNode[box][top]
<1>0. /\ \A c \in Callers : JobOK(c, job[c], top) /\ job[c].lease \in 0 .. MaxLeases
      /\ \A k \in Owners : k = top /\ k \in LeasesOf(box)
      /\ top \in 0 .. MaxLeases /\ issued'[box] \in 0 .. MaxLeases /\ top <= issued'[box]
      /\ top # 0 => top \in LeasesOf(box)
  <2>1. \A k \in Owners : k \in LeasesOf(box) /\ status[box][k] = "active"
    BY DEF Owners, Owner
  <2>2. \A k \in Owners : k = top /\ k \in LeasesOf(box)
    BY <2>1, StoreGrows DEF LeaseInv, OneOwner
  <2>3. \A c \in Callers : JobOK(c, job[c], top) /\ job[c].lease \in 0 .. MaxLeases
    BY DEF CallInv, Jobs
  <2> QED
    BY <2>2, <2>3, StoreGrows DEF LeasesOf
<1>1. ASSUME top # 0, built[there] = top
      PROVE  built'[there] = top /\ leaseNode'[box][top] = there
  BY <1>0, <1>1, NewestStays
<1>2. ASSUME NEW c \in Callers, Created(job[c]), job[c].lease = issued'[box], issued'[box] # 0
      PROVE  built'[leaseNode'[box][issued'[box]]] = issued'[box]
  <2>1. job[c].lease = top /\ issued'[box] = top
    BY <1>0, <1>2 DEF JobOK
  <2>2. built[there] = top
    BY <1>2, <2>1 DEF MachineInv
  <2> QED
    BY <1>1, <1>2, <2>1, <2>2
<1>3. ASSUME NEW c \in Callers, Created(job'[c]), job'[c].lease = issued'[box], issued'[box] # 0
      PROVE  built'[leaseNode'[box][issued'[box]]] = issued'[box]
  <2>1. CASE CallsKept \/ RolledBack
    <3>1. Created(job[c]) /\ job'[c].lease = job[c].lease
      BY <1>3, <2>1 DEF CallsKept, RolledBack, Follows
    <3> QED
      BY <1>2, <1>3, <3>1
  <2>2. ASSUME NEW r \in calls, Builds(r)
        PROVE  built'[leaseNode'[box][issued'[box]]] = issued'[box]
    <3>1. /\ UNCHANGED <<issued, leaseNode>> /\ built' = [built EXCEPT ![r.node] = r.lease]
          /\ job'[c].at = job[c].at /\ job'[c].lease = job[c].lease
          /\ c # r.from => job'[c].reply = job[c].reply
          /\ c = r.from => job[c].lease <= r.lease
      BY <2>2 DEF Builds, vars, leaseVars
    <3>2. CASE Created(job[c])
      BY <1>2, <1>3, <3>1, <3>2
    <3>3. CASE ~Created(job[c])
      <4>1. c = r.from
        BY <1>3, <3>1, <3>3 DEF Created
      <4>2. r.lease \in LeasesOf(box) /\ r.node = leaseNode[box][r.lease] /\ r.node \in Nodes
        BY StoreGrows DEF CallInv, Calls
      <4>3. r.lease = issued[box]
        BY <1>0, <1>3, <3>1, <4>1, <4>2, StoreGrows DEF LeasesOf
      <4> QED
        BY <3>1, <4>2, <4>3 DEF GateInv
    <3> QED
      BY <3>2, <3>3
  <2> QED
    BY <2>1, <2>2, CallsStep
<1>4. ASSUME NEW k \in Owners', state'[box] = "running"
      PROVE  built'[leaseNode'[box][k]] = k
  <2>1. k \in Owners
    BY <1>4, OwnersShrink, ControlIsLease
  <2>2. k = top /\ top # 0 /\ k \in LeasesOf(box)
    BY <1>0, <2>1, StoreGrows DEF LeasesOf
  <2>3. CASE state[box] = "running"
    BY <1>1, <2>1, <2>2, <2>3 DEF MachineInv, RunningWasBuilt
  <2>4. CASE state[box] # "running"
    <3>1. PICK c \in Callers : /\ job[c].at = "start" /\ Owner(box, job[c].lease)
                               /\ UNCHANGED <<issued, leaseNode, built>>
      BY <1>4, <2>4, RowKept DEF RowStep
    <3>2. job[c].lease \in Owners
      BY <3>1 DEF Owners, Owner
    <3>3. Created(job[c]) /\ job[c].lease = top
      BY <1>0, <3>1, <3>2 DEF Created
    <3> QED
      BY <2>2, <3>1, <3>3 DEF MachineInv
  <2> QED
    BY <2>3, <2>4
<1> QED
  BY <1>3, <1>4 DEF MachineInv, RunningWasBuilt

\* No step hands the lease of a rollback on, or revives its row.
LEMMA RollbackStep ==
    ASSUME LeaseInv, LeaseInv', Grows, CallInv, RollbackUnreplaced, [ControlNext]_allVars
    PROVE  RollbackUnreplaced'
<1> SUFFICES ASSUME "provision" \in Callers, RollingBack(job'["provision"])
             PROVE  /\ job'["provision"].lease = issued'[box]
                    /\ state'[box] \in {"destroying", "destroyed"}
  BY DEF RollbackUnreplaced, RollingBack
<1>1. CASE RolledBack
  BY <1>1 DEF RolledBack
<1>2. CASE CallsKept \/ \E r \in calls : Builds(r)
  <2>1. /\ RollingBack(job["provision"])
        /\ job'["provision"].lease = job["provision"].lease
    BY <1>2 DEF CallsKept, Follows, Builds, RollingBack
  <2>2. /\ job["provision"].lease = issued[box]
        /\ state[box] \in {"destroying", "destroyed"}
    BY <2>1 DEF RollbackUnreplaced, RollingBack
  <2> QED
    BY <2>1, <2>2, RowKept DEF RowStep
<1> QED
  BY <1>1, <1>2, CallsStep

-----------------------------------------------------------------------------
(* The theorems.                                                           *)

\* Inductive: the leases carry the floors, the gate, the calls with who waits for
\* them, the machines that were built and the rollback.
ControlInv ==
    /\ LeaseInv /\ FloorLearned /\ GateInv /\ CallInv
    /\ MachineInv /\ RollbackUnreplaced
    /\ faults \in 0 .. MaxFaults

\* No worker knows or has anything at first, and nobody is at work.
LEMMA ControlInvInit == ControlInit => ControlInv
<1> SUFFICES ASSUME ControlInit PROVE ControlInv
  OBVIOUS
<1>1. FloorLearned
  BY DEF ControlInit, FloorLearned
<1>2. GateInv
  BY ControlAssumption DEF ControlInit, GateInv
<1>3. calls = {} /\ job = [c \in Callers |-> NoJob] /\ issued[box] = 0 /\ state[box] = "absent"
  BY ControlAssumption DEF ControlInit
<1>4. CallInv
  BY <1>3, NoJobFields DEF CallInv, JobOK
<1>5. MachineInv /\ RollbackUnreplaced
  BY <1>3, NoJobFields DEF MachineInv, RunningWasBuilt, RollbackUnreplaced, Created, Teardown
<1>6. faults \in 0 .. MaxFaults
  BY ControlAssumption DEF ControlInit
<1> QED
  BY <1>1, <1>2, <1>4, <1>5, <1>6, ControlInitLease DEF ControlInv

\* A step has at most one fault.
LEMMA FaultStep ==
    ASSUME faults \in 0 .. MaxFaults, [ControlNext]_allVars
    PROVE  faults' \in 0 .. MaxFaults
<1>1. Fault \/ UNCHANGED faults
  BY Zenon DEF ControlNext, ProvisionStep, ProvisionAdmit, PlacementStep, CommitStarting,
     CommitRunning, ProvisionRollback, TeardownStep, Fetch, DestroyFailed, SchedulerRelease,
     FindLease, Forget, DeleteStep, DeleteAsk, RecoveryStep, RecoveryExpire, RecoveryReassign,
     RecoveryCreate, RecoveryFail, RecoveryReturn, SweeperStep, SweepExpired, SweepOrphaned,
     SweepStranded, Abandon, Abandoned, CallStep, Arrive, Enter, Execute, FailCall, TimeOut,
     WorkerRestart, WorkerKeeps, Lapse, ControlRestart, OnlyJob, OnlyStore, OnlyCall,
     controlVars, allVars
<1> QED
  BY <1>1, ControlAssumption, SMTT(40) DEF Fault

\* Every step keeps the invariant and the newer owner's machine.
LEMMA ControlInvNext ==
    ASSUME ControlInv, [ControlNext]_allVars
    PROVE  ControlInv' /\ MachineKept
<1>1. [Next]_vars
  BY ControlIsLease
<1>2. LeaseInv' /\ Grows
  BY <1>1, StepKeeps, StatementGrows DEF ControlInv, Keeps
<1>3. CallInv'
  BY <1>2, CallsStep DEF ControlInv, CallsKept, RolledBack, Builds
<1>4. FloorLearned' /\ GateInv' /\ MachineKept
  BY <1>2, FloorStep, GateStep DEF ControlInv
<1>5. MachineInv' /\ RollbackUnreplaced' /\ faults' \in 0 .. MaxFaults
  BY <1>2, MachineStep, RollbackStep, FaultStep DEF ControlInv
<1> QED
  BY <1>2, <1>3, <1>4, <1>5 DEF ControlInv

\* The lease invariant, the floors, the gate and the calls hold throughout.
THEOREM ControlInvariant == ControlSpec => []ControlInv
<1>1. ControlInv /\ [ControlNext]_allVars => ControlInv'
  BY ControlInvNext
<1> QED
  BY <1>1, ControlInvInit, PTL DEF ControlSpec

\* What callers, calls and workers hold has its type, and a caller waits for
\* exactly one call or for none.
THEOREM ControlTypesHold == ControlSpec => []ControlTypeOK
<1>1. ASSUME CallInv, NEW c \in Callers
      PROVE  Cardinality({r \in calls : r.from = c}) = IF job[c].reply = "sent" THEN 1 ELSE 0
  <2>1. CASE job[c].reply = "sent"
    <3>1. PICK r \in calls : r.from = c
      BY <1>1, <2>1 DEF CallInv
    <3>2. {q \in calls : q.from = c} = {r}
      BY <1>1, <3>1 DEF CallInv
    <3> QED
      BY <2>1, <3>2, FS_Singleton
  <2>2. CASE job[c].reply # "sent"
    <3>1. {q \in calls : q.from = c} = {}
      BY <1>1, <2>2 DEF CallInv, Awaited
    <3> QED
      BY <2>2, <3>1, FS_EmptySet
  <2> QED
    BY <2>1, <2>2
<1>2. ASSUME ControlInv PROVE ControlTypeOK
  <2>1. LeaseTypeOK /\ job \in [Callers -> Jobs] /\ calls \subseteq Calls /\ CallInv
    BY <1>2 DEF ControlInv, LeaseInv, CallInv
  <2>2. issued[box] \in 0 .. MaxLeases /\ gen \in [Sandboxes -> [Ids -> 0 .. MaxGeneration]]
        /\ box \in Sandboxes /\ MaxLeases \in Nat /\ MaxGeneration \in Nat
    BY <2>1, ControlAssumption, LeaseAssumption DEF LeaseTypeOK
  <2>3. built \in [Nodes -> 0 .. MaxLeases] /\ up \in [Nodes -> BOOLEAN]
    BY <1>2, <2>2 DEF ControlInv, GateInv
  <2>4. ASSUME NEW n \in Nodes PROVE floor[n] \in 0 .. MaxGeneration
    <3>1. \A k \in LeasesOf(box) : gen[box][k] \in 0 .. MaxGeneration
      BY <2>2 DEF LeasesOf, Ids
    <3>2. floor[n] \in Nat /\ (floor[n] = 0 \/ \E k \in LeasesOf(box) : floor[n] <= gen[box][k])
      BY <1>2 DEF ControlInv, FloorLearned
    <3> QED
      BY <2>2, <3>1, <3>2
  <2>5. floor \in [Nodes -> 0 .. MaxGeneration]
    BY <1>2, <2>4 DEF ControlInv, FloorLearned
  <2> QED
    BY <1>1, <1>2, <2>1, <2>3, <2>5 DEF ControlTypeOK, ControlInv
<1> QED
  BY <1>2, ControlInvariant, PTL

\* A sandbox is reported running only on the machine its own lease built.
THEOREM RunningWasBuiltHolds == ControlSpec => []RunningWasBuilt
<1>1. ControlInv => RunningWasBuilt
  BY DEF ControlInv, MachineInv
<1> QED
  BY <1>1, ControlInvariant, PTL

\* The rollback of a provisioning keeps the newest lease of a row that nobody
\* places again.
THEOREM RollbackUnreplacedHolds == ControlSpec => []RollbackUnreplaced
<1>1. ControlInv => RollbackUnreplaced
  BY DEF ControlInv
<1> QED
  BY <1>1, ControlInvariant, PTL

\* Nothing the control plane does changes the size of a worker.
LEMMA TotalKept ==
    ASSUME [ControlNext]_allVars
    PROVE  UNCHANGED total
<1>1. ASSUME NEW k, NEW from, NEW to, CommitAs(k, from, to) PROVE UNCHANGED total
  BY <1>1 DEF CommitAs, UpdateStateWithLease, vars, nodeVars
<1>2. ASSUME NEW k, \/ Reconcile(box, k) \/ ReleaseOrphaned(box, k) \/ ReleaseLease(box, k)
                    \/ ReassignNowhere(box, k)
      PROVE  UNCHANGED total
  BY <1>2 DEF Reconcile, ReleaseOrphaned, ReleaseLease, ReassignNowhere, Release, nodeVars
<1>3. ASSUME NEW c, NEW g, PlacementStep(c, g) PROVE UNCHANGED total
  BY <1>1, <1>3 DEF PlacementStep, CommitStarting, CommitRunning, vars, nodeVars
<1>4. ASSUME NEW c, TeardownStep(c) PROVE UNCHANGED total
  BY <1>2, <1>4 DEF TeardownStep, Fetch, DestroyFailed, SchedulerRelease, FindLease, Forget,
                    DeleteSandbox, Release, OnlyCall, OnlyJob, vars, nodeVars
<1>5. ASSUME NEW n, ProvisionAdmit(n) PROVE UNCHANGED total
  BY <1>5 DEF ProvisionAdmit, Schedule, RescheduleLapsed, Reschedule, Place
<1>6. CASE ProvisionRollback \/ DeleteAsk
  BY <1>1, <1>6, SMTT(40) DEF ProvisionRollback, DeleteAsk, OnlyJob, vars, nodeVars
<1>7. CASE RecoveryStep
  BY <1>1, <1>2, <1>3, <1>7
     DEF RecoveryStep, RecoveryExpire, RecoveryReassign, RecoveryCreate, RecoveryFail,
         RecoveryReturn, Reassign, Place, OnlyCall, vars, nodeVars
<1>8. CASE SweeperStep
  BY <1>2, <1>4, <1>8
     DEF SweeperStep, SweepExpired, SweepOrphaned, SweepStranded, Abandon, Abandoned,
         TeardownStep, OnlyCall, OnlyJob, vars, nodeVars
<1>9. ASSUME NEW r, CallStep(r) \/ FailCall(r) \/ TimeOut(r) PROVE UNCHANGED total
  BY <1>9 DEF CallStep, Arrive, Enter, Execute, FailCall, TimeOut, vars, nodeVars
<1>10. CASE (\E n \in Nodes : WorkerRestart(n)) \/ ControlRestart \/ UNCHANGED allVars
  BY <1>10 DEF WorkerRestart, ControlRestart, allVars, vars, nodeVars
<1>11. CASE WorkerKeeps \/ Lapse
  BY <1>11 DEF WorkerKeeps, Lapse, Claim, Renew, ExpireLease, nodeVars
<1> QED
  BY <1>3, <1>4, <1>5, <1>6, <1>7, <1>8, <1>9, <1>10, <1>11
     DEF ControlNext, ProvisionStep, DeleteStep

\* With workers that keep their size, the books of every worker balance at all
\* times: each unit is on offer or held by one lease, whatever provisionings,
\* recoveries, deletions and sweeps do to each other.
THEOREM ControlBalances ==
    ControlSpec => [](CapacityNotLost /\ \A n \in Nodes : Balanced(n))
<1> DEFINE Even == CapacityNotLost /\ \A n \in Nodes : Balanced(n)
<1>1. ControlInit => Even
  <2> SUFFICES ASSUME ControlInit, NEW n \in Nodes
               PROVE  avail[n] <= total[n] /\ total[n] <= avail[n] + Load(n) /\ Balanced(n)
    BY DEF CapacityNotLost
  <2>1. \A s \in Sandboxes, k \in Ids : status[s][k] = "none"
    BY DEF ControlInit
  <2>2. Load(n) = 0 /\ avail[n] = total[n] /\ total[n] \in Nat
    BY <2>1, NoneHeld, LeaseAssumption DEF ControlInit
  <2> QED
    BY <2>2 DEF Balanced
<1>2. ASSUME ControlInv, Even, [ControlNext]_allVars PROVE Even'
  <2>1. \A n \in Nodes : BooksClose(n)
    BY <1>2, ControlIsLease, StepBalances DEF ControlInv
  <2>2. UNCHANGED total
    BY <1>2, TotalKept
  <2> QED
    BY <1>2, <2>1, <2>2 DEF BooksClose, CapacityNotLost
<1> QED
  BY <1>1, <1>2, ControlInvariant, PTL DEF ControlSpec

\* The control plane and the workers as a whole keep one owner per sandbox, who
\* is its newest lease, with a generation above every earlier one.
THEOREM ControlKeepsLeases == ControlSpec => [](OneOwner /\ GenerationsFence)
<1>1. ControlInv => OneOwner /\ GenerationsFence
  BY DEF ControlInv, LeaseInv
<1> QED
  BY <1>1, ControlInvariant, PTL

\* The floor a worker keeps never refuses the current owner.
THEOREM OwnersServed == ControlSpec => []OwnerNeverFenced
<1>1. ASSUME ControlInv, NEW k \in Owners PROVE floor[leaseNode[box][k]] <= gen[box][k]
  <2>1. box \in Sandboxes /\ issued[box] \in 0 .. MaxLeases /\ k \in LeasesOf(box)
    BY <1>1, ControlAssumption DEF ControlInv, LeaseInv, LeaseTypeOK, Owners
  <2>2. k \in Ids /\ ~(k > issued[box]) /\ issued[box] # 0
    BY <2>1, LeaseAssumption DEF LeasesOf, Ids
  <2>3. k = issued[box] /\ leaseNode[box][k] \in Nodes
    BY <1>1, <2>1, <2>2 DEF ControlInv, LeaseInv, LeaseTypeOK, OneOwner, Owners, Owner
  <2>4. \A j \in LeasesOf(box) : gen[box][j] \in Nat /\ gen[box][j] <= gen[box][k]
    BY <1>1, <2>1, <2>2, <2>3, NewestIsHighest DEF ControlInv
  <2> QED
    BY <1>1, <2>1, <2>3, <2>4 DEF ControlInv, FloorLearned
<1>2. ControlInv => OwnerNeverFenced
  BY <1>1 DEF OwnerNeverFenced
<1> QED
  BY <1>2, ControlInvariant, PTL

\* No call under a replaced lease touches what the new owner built.
THEOREM NewerMachinesSafe == ControlSpec => NewerMachineSafe
<1>1. ControlInv /\ [ControlNext]_allVars => [MachineKept]_allVars
  BY ControlInvNext
<1> QED
  BY <1>1, ControlInvariant, PTL DEF ControlSpec, NewerMachineSafe
=============================================================================
