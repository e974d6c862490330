---------------------------- MODULE SandboxLease ----------------------------
(***************************************************************************)
(* Sandboxes, the leases that own them and the capacity they hold on the   *)
(* workers: the scheduler and lease statements of                          *)
(* crates/aiec-storage/src/postgres.rs and the quarantine statements of    *)
(* postgres/guard.                                                         *)
(*                                                                         *)
(* A transaction locks the lease, then the sandbox, and is one step, at    *)
(* the lock that decides it; what delete_sandbox found before it had the   *)
(* sandbox is its parameter.                                               *)
(* Its callers are arbitrary here (several control planes, their sweepers, *)
(* workers with stale replies, operators); SandboxControl restricts them   *)
(* to the ones the program has.                                            *)
(*                                                                         *)
(* The leases of a sandbox are numbered in the order of created_at, so the *)
(* newest one is issued[s].  expires_at > now() is live, which only falls  *)
(* except where a statement extends the lease.  vCPUs, memory and disk are *)
(* debited and credited by the same formulas and are one number here.      *)
(* Sandboxes run on workers (production, not the hosted runtime), so every *)
(* state commit goes through the lease fence.                              *)
(***************************************************************************)
EXTENDS Integers, FiniteSets, FiniteSetsExt, SandboxStates

CONSTANTS
    Sandboxes,
    RunOwned,            \* the sandboxes a row of run_sandboxes links to a run
    Demand,              \* what a placement of each sandbox debits
    Nodes, NoNode,
    Capacities,          \* the totals a registration may state
    Quota,               \* tenant_quotas.max_active_sandboxes
    MaxLeases, LeaseBound, MaxGeneration  \* bounds on what is explored

ASSUME LeaseAssumption ==
    /\ IsFiniteSet(Sandboxes) /\ IsFiniteSet(Nodes)
    /\ RunOwned \subseteq Sandboxes
    /\ Demand \in [Sandboxes -> Nat \ {0}]
    /\ NoNode \notin Nodes
    /\ Capacities \subseteq Nat \ {0}
    /\ Quota \in Nat
    /\ MaxLeases \in Nat
    /\ LeaseBound \in [Sandboxes -> 0 .. MaxLeases]
    /\ MaxGeneration \in Nat \ {0}

VARIABLES
    state, nodeOf,              \* sandboxes.state and node_id
    issued,                     \* how many leases the sandbox has had
    leaseNode, gen, status, live,  \* sandbox_leases, by sandbox and number
    assignedLease, assignment,  \* sandbox_assignments.lease_id and status
    total, avail,               \* nodes.total_* and available_*
    healthy,                    \* nodes.healthy, with a heartbeat within its TTL
    accepting                   \* nodes.accepting_sandboxes

sandboxVars == <<state, nodeOf>>
leaseVars == <<issued, leaseNode, gen, status, live>>
assignmentVars == <<assignedLease, assignment>>
nodeVars == <<total, avail, healthy, accepting>>
vars == <<sandboxVars, leaseVars, assignmentVars, nodeVars>>

Ids == 1 .. MaxLeases
Held == {"active", "completed"}   \* a lease in these still holds its debit
Closed == {"released", "expired"}

\* A row of sandbox_leases is there once it is issued, on a worker, and a
\* sandbox row appears with its first lease.
LeaseTypeOK ==
    /\ state \in [Sandboxes -> SandboxState \cup {"absent"}]
    /\ nodeOf \in [Sandboxes -> Nodes \cup {NoNode}]
    /\ issued \in [Sandboxes -> 0 .. MaxLeases]
    /\ leaseNode \in [Sandboxes -> [Ids -> Nodes \cup {NoNode}]]
    /\ gen \in [Sandboxes -> [Ids -> 0 .. MaxGeneration]]
    /\ status \in [Sandboxes -> [Ids -> Held \cup Closed \cup {"none"}]]
    /\ live \in [Sandboxes -> [Ids -> BOOLEAN]]
    /\ assignedLease \in [Sandboxes -> 0 .. MaxLeases]
    /\ assignment \in [Sandboxes -> {"none", "reserved", "assigned", "completed"} \cup Closed]
    /\ total \in [Nodes -> Nat]
    /\ avail \in [Nodes -> Nat]
    /\ healthy \in [Nodes -> BOOLEAN]
    /\ accepting \in [Nodes -> BOOLEAN]
    /\ \A s \in Sandboxes :
          /\ state[s] = "absent" <=> issued[s] = 0
          /\ \A k \in Ids : /\ status[s][k] = "none" <=> k > issued[s]
                            /\ leaseNode[s][k] = NoNode <=> k > issued[s]

Init ==
    /\ state = [s \in Sandboxes |-> "absent"]
    /\ nodeOf = [s \in Sandboxes |-> NoNode]
    /\ issued = [s \in Sandboxes |-> 0]
    /\ leaseNode = [s \in Sandboxes |-> [k \in Ids |-> NoNode]]
    /\ gen = [s \in Sandboxes |-> [k \in Ids |-> 0]]
    /\ status = [s \in Sandboxes |-> [k \in Ids |-> "none"]]
    /\ live = [s \in Sandboxes |-> [k \in Ids |-> FALSE]]
    /\ assignedLease = [s \in Sandboxes |-> 0]
    /\ assignment = [s \in Sandboxes |-> "none"]
    /\ total = [n \in Nodes |-> 0]
    /\ avail = [n \in Nodes |-> 0]
    /\ healthy = [n \in Nodes |-> FALSE]
    /\ accepting = [n \in Nodes |-> TRUE]

Lesser(a, b) == IF a < b THEN a ELSE b
Greater(a, b) == IF a < b THEN b ELSE a

LeasesOf(s) == 1 .. issued[s]

\* The lease is active and has not expired: what active_lease, dispatch_target
\* and every fenced statement ask for.
Owner(s, k) == k \in LeasesOf(s) /\ status[s][k] = "active" /\ live[s][k]

\* The lease is still active but the clock has passed it.
Lapsed(s, k) == k \in LeasesOf(s) /\ status[s][k] = "active" /\ ~live[s][k]

-----------------------------------------------------------------------------
(* What the statements share: giving capacity back and taking it.          *)

\* Mutant: the lease is closed and its debit stays.
UncreditedClose(s, k) == avail

\* release_capacity: the credit, capped by what the worker has.
Credited(s, k) ==
    [avail EXCEPT ![leaseNode[s][k]] = Lesser(total[leaseNode[s][k]], @ + Demand[s])]

\* release_capacity: the node is cleared only while it is still this lease's.
Vacated(s, k) == IF nodeOf[s] = leaseNode[s][k] THEN NoNode ELSE nodeOf[s]

\* Mutant: the assignment is closed with any lease of the sandbox.
ReleaseAnyAssignment(s, k, how) ==
    /\ status' = [status EXCEPT ![s][k] = how]
    /\ avail' = Credited(s, k)
    /\ nodeOf' = [nodeOf EXCEPT ![s] = Vacated(s, k)]
    /\ assignment' = [assignment EXCEPT ![s] = how]
    /\ UNCHANGED <<issued, leaseNode, gen, live, assignedLease, total, healthy, accepting>>

\* release_capacity, as a whole transaction that leaves state to its caller.
Release(s, k, how) ==
    /\ status' = [status EXCEPT ![s][k] = how]
    /\ avail' = Credited(s, k)
    /\ nodeOf' = [nodeOf EXCEPT ![s] = Vacated(s, k)]
    /\ assignment' = [assignment EXCEPT ![s] = IF assignedLease[s] = k THEN how ELSE @]
    /\ UNCHANGED <<issued, leaseNode, gen, live, assignedLease, total, healthy, accepting>>

\* select_schedulable_node; free is the capacity left after what the same
\* transaction released.
Schedulable(s, n, free) == healthy[n] /\ accepting[n] /\ free[n] >= Demand[s]

\* debit_capacity, the new lease, the sandbox row and its assignment: how
\* schedule_on_node and reassign_expired_lease both end.
Place(s, n, g, st, free, rows) ==
    LET k == issued[s] + 1 IN
    /\ Schedulable(s, n, free)
    /\ issued[s] < LeaseBound[s] /\ g <= MaxGeneration
    /\ avail' = [free EXCEPT ![n] = @ - Demand[s]]
    /\ state' = [state EXCEPT ![s] = st]
    /\ nodeOf' = [nodeOf EXCEPT ![s] = n]
    /\ issued' = [issued EXCEPT ![s] = k]
    /\ leaseNode' = [leaseNode EXCEPT ![s][k] = n]
    /\ gen' = [gen EXCEPT ![s][k] = g]
    /\ status' = [rows EXCEPT ![s][k] = "active"]
    /\ live' = [live EXCEPT ![s][k] = TRUE]
    /\ assignedLease' = [assignedLease EXCEPT ![s] = k]
    /\ assignment' = [assignment EXCEPT ![s] = "reserved"]
    /\ UNCHANGED <<total, healthy, accepting>>

-----------------------------------------------------------------------------
(* schedule_on_node.                                                       *)

InUse == {s \in Sandboxes : state[s] \notin {"absent", "destroyed", "failed"}}

\* admit_sandbox_quota, by the number of sandboxes.
QuotaAdmits == Cardinality(InUse) < Quota

\* A new request: insert_sandbox (a restore inserts the row as restoring).
Schedule(s, n, st) ==
    /\ state[s] = "absent"
    /\ QuotaAdmits
    /\ Place(s, n, 1, st, avail, status)

Reschedulable(s) == state[s] \notin {"absent", "destroying", "destroyed", "quarantined"}

\* A retry under the same request whose lease lapsed unswept: it is settled
\* here, in the transaction that takes the replacement.
RescheduleLapsed(s, n) ==
    LET k == issued[s] IN
    /\ Reschedulable(s)
    /\ Lapsed(s, k)
    /\ Vacated(s, k) = NoNode
    /\ Place(s, n, gen[s][k] + 1, "creating", Credited(s, k), [status EXCEPT ![s][k] = "expired"])

\* Mutant: the retry starts the generations over.
RescheduleFromOne(s, n) ==
    /\ Reschedulable(s)
    /\ status[s][issued[s]] # "active"
    /\ nodeOf[s] = NoNode
    /\ Place(s, n, 1, "creating", avail, status)

\* A retry after the lease was released or expired; the row must be unplaced.
Reschedule(s, n) ==
    /\ Reschedulable(s)
    /\ status[s][issued[s]] # "active"
    /\ nodeOf[s] = NoNode
    /\ Place(s, n, gen[s][issued[s]] + 1, "creating", avail, status)

-----------------------------------------------------------------------------
(* The worker's statements.                                                *)

Extend(s, k) ==
    /\ gen[s][k] < MaxGeneration
    /\ gen' = [gen EXCEPT ![s][k] = @ + 1]

\* claim_worker_assignments: both reads of accepting_sandboxes are under the
\* share lock of this transaction.
Claim(s) ==
    LET k == assignedLease[s] IN
    /\ assignment[s] = "reserved"
    /\ Owner(s, k)
    /\ accepting[leaseNode[s][k]]
    /\ state[s] # "quarantined"
    /\ Extend(s, k)
    /\ assignment' = [assignment EXCEPT ![s] = "assigned"]
    /\ UNCHANGED <<sandboxVars, issued, leaseNode, status, live, assignedLease, nodeVars>>

\* Mutant: a lapsed lease is renewed back to life.
RenewLapsed(s, k) ==
    /\ k \in LeasesOf(s)
    /\ status[s][k] \in {"active", "expired"}
    /\ Extend(s, k)
    /\ live' = [live EXCEPT ![s][k] = TRUE]
    /\ status' = [status EXCEPT ![s][k] = "active"]
    /\ UNCHANGED <<sandboxVars, issued, leaseNode, assignmentVars, nodeVars>>

\* renew_worker_lease, by a caller that knows the current generation.
Renew(s, k) ==
    /\ Owner(s, k)
    /\ Extend(s, k)
    /\ UNCHANGED <<sandboxVars, issued, leaseNode, status, live, assignmentVars, nodeVars>>

\* complete_worker_lease: the debit stays until the lease is released.
Complete(s, k) ==
    /\ Owner(s, k)
    /\ status' = [status EXCEPT ![s][k] = "completed"]
    /\ assignment' = [assignment EXCEPT ![s] = IF assignedLease[s] = k THEN "completed" ELSE @]
    /\ UNCHANGED <<sandboxVars, issued, leaseNode, gen, live, assignedLease, nodeVars>>

\* release_worker_lease, lapsed or not.
ReleaseLease(s, k) ==
    /\ k \in LeasesOf(s)
    /\ status[s][k] \in Held
    /\ Release(s, k, "released")
    /\ UNCHANGED state

-----------------------------------------------------------------------------
(* Recovery.                                                               *)

\* reconcile_expired_leases, for one of the leases of its page.
Reconcile(s, k) ==
    /\ Lapsed(s, k)
    /\ state[s] \notin {"destroying", "quarantined"}
    /\ Release(s, k, "expired")
    /\ UNCHANGED state

\* Mutant: the check for another active lease is dropped.
ReassignableThoughOwned(s, k) ==
    /\ k \in LeasesOf(s)
    /\ ~live[s][k]
    /\ status[s][k] \in {"active", "expired"}
    /\ s \notin RunOwned
    /\ Recoverable(state[s])

\* The checks of reassign_expired_lease.
Reassignable(s, k) ==
    /\ k \in LeasesOf(s)
    /\ ~live[s][k]
    /\ status[s][k] \in {"active", "expired"}
    /\ \A j \in LeasesOf(s) \ {k} : status[s][j] # "active"
    /\ s \notin RunOwned
    /\ Recoverable(state[s])

\* COALESCE(MAX(generation), 0) + 1 over the leases of the sandbox.
NextGeneration(s) == Max({gen[s][j] : j \in LeasesOf(s)}) + 1

\* Mutant: the row keeps its state when the sandbox is placed anew.
ReassignKeepsState(s, k, n) ==
    /\ Reassignable(s, k)
    /\ status[s][k] = "expired"
    /\ Place(s, n, NextGeneration(s), state[s], avail, status)

\* reassign_expired_lease with a worker to place on: from a lease it expires
\* itself, or from one the reconciler expired before.
Reassign(s, k, n) ==
    /\ Reassignable(s, k)
    /\ \/ /\ status[s][k] = "active"
          /\ Place(s, n, NextGeneration(s), "creating", Credited(s, k),
                   [status EXCEPT ![s][k] = "expired"])
       \/ /\ status[s][k] = "expired"
          /\ Place(s, n, NextGeneration(s), "creating", avail, status)

\* reassign_expired_lease without one (none fits, or the host's headroom and
\* the rows other transactions hold refuse it): the expiry commits all the same.
ReassignNowhere(s, k) ==
    /\ Reassignable(s, k)
    /\ \/ status[s][k] = "active" /\ Release(s, k, "expired") /\ UNCHANGED state
       \/ /\ status[s][k] = "expired"
          /\ nodeOf' = [nodeOf EXCEPT ![s] = Vacated(s, k)]
          /\ UNCHANGED <<state, leaseVars, assignmentVars, nodeVars>>

\* Mutant: only destroyed sandboxes are looked at.
ReleaseOrphanedDestroyed(s, k) ==
    /\ k \in LeasesOf(s)
    /\ status[s][k] = "active"
    /\ state[s] = "destroyed"
    /\ Release(s, k, "released")
    /\ UNCHANGED state

\* release_orphaned_leases, for one of the leases of its page.
ReleaseOrphaned(s, k) ==
    /\ k \in LeasesOf(s)
    /\ status[s][k] = "active"
    /\ state[s] \in {"destroyed", "failed"}
    /\ Release(s, k, "released")
    /\ UNCHANGED state

-----------------------------------------------------------------------------
(* The sandbox row.                                                        *)

\* The states that the handlers of the API commit.
CommitTargets == {"starting", "running", "paused", "stopping", "stopped", "snapshotting",
                  "failed", "destroying"}

\* update_state_with_lease under the lease that owns the sandbox; expected is
\* the state the row is in.
UpdateStateWithLease(s, k, to) ==
    /\ Owner(s, k)
    /\ CanTransitionTo(state[s], to)
    /\ state' = [state EXCEPT ![s] = to]
    /\ UNCHANGED <<nodeOf, leaseVars, assignmentVars, nodeVars>>

\* mark_guard_quarantined under the current lease and generation.
MarkQuarantined(s, k) ==
    /\ Owner(s, k)
    /\ CanTransitionTo(state[s], "quarantined")
    /\ state' = [state EXCEPT ![s] = "quarantined"]
    /\ UNCHANGED <<nodeOf, leaseVars, assignmentVars, nodeVars>>

\* release_guard_quarantine: no lease is asked for.
ReleaseQuarantine(s) ==
    /\ state[s] = "quarantined"
    /\ state' = [state EXCEPT ![s] = "paused"]
    /\ UNCHANGED <<nodeOf, leaseVars, assignmentVars, nodeVars>>

HeldBy(s) == {k \in LeasesOf(s) : status[s][k] \in Held}

\* delete_sandbox: whatever state the sandbox is in, a quarantine excepted, the
\* row is destroyed, and lease k released with it.  k is what its first statement
\* found, the newest lease to hold capacity; a closed one stands for none found.
\* Nothing is locked when there is none, so another transaction may place the
\* sandbox anew before the second statement locks its row.
DeleteSandbox(s, k) ==
    /\ k \in LeasesOf(s)
    /\ state[s] # "quarantined"
    /\ state' = [state EXCEPT ![s] = "destroyed"]
    /\ \/ k \in HeldBy(s) /\ Release(s, k, "released")
       \/ k \notin HeldBy(s) /\ UNCHANGED <<nodeOf, leaseVars, assignmentVars, nodeVars>>

-----------------------------------------------------------------------------
(* The workers' rows and the clock.                                        *)

\* Mutant: a registration restates the whole capacity as free.
RegisterAllFree(n, t) ==
    /\ total' = [total EXCEPT ![n] = t]
    /\ avail' = [avail EXCEPT ![n] = t]
    /\ healthy' = [healthy EXCEPT ![n] = TRUE]
    /\ UNCHANGED <<sandboxVars, leaseVars, assignmentVars, accepting>>

\* register_worker: what the leases hold is carried over, the drain is kept.
Register(n, t) ==
    /\ total' = [total EXCEPT ![n] = t]
    /\ avail' = [avail EXCEPT ![n] = Greater(0, Lesser(t, t - (total[n] - avail[n])))]
    /\ healthy' = [healthy EXCEPT ![n] = TRUE]
    /\ UNCHANGED <<sandboxVars, leaseVars, assignmentVars, accepting>>

Serves(n) == \E s \in Sandboxes, k \in Ids : Owner(s, k) /\ leaseNode[s][k] = n

\* heartbeat_worker: a worker that says it serves sandboxes must hold a lease.
Heartbeat(n, count) ==
    /\ total[n] > 0
    /\ count > 0 => Serves(n)
    /\ healthy' = [healthy EXCEPT ![n] = TRUE]
    /\ UNCHANGED <<sandboxVars, leaseVars, assignmentVars, total, avail, accepting>>

\* The heartbeats stop, or report that the worker is unhealthy.
GoSilent(n) ==
    /\ healthy[n]
    /\ healthy' = [healthy EXCEPT ![n] = FALSE]
    /\ UNCHANGED <<sandboxVars, leaseVars, assignmentVars, total, avail, accepting>>

\* set_worker_draining.
SetDraining(n, draining) ==
    /\ accepting' = [accepting EXCEPT ![n] = ~draining]
    /\ UNCHANGED <<sandboxVars, leaseVars, assignmentVars, total, avail, healthy>>

\* The clock passes expires_at.
ExpireLease(s, k) ==
    /\ k \in LeasesOf(s)
    /\ live[s][k]
    /\ live' = [live EXCEPT ![s][k] = FALSE]
    /\ UNCHANGED <<sandboxVars, issued, leaseNode, gen, status, assignmentVars, nodeVars>>

-----------------------------------------------------------------------------
SandboxStep(s) ==
    \/ \E n \in Nodes : \/ \E st \in {"creating", "restoring"} : Schedule(s, n, st)
                        \/ RescheduleLapsed(s, n)
                        \/ Reschedule(s, n)
    \/ Claim(s) \/ ReleaseQuarantine(s)
    \/ \E k \in LeasesOf(s) : DeleteSandbox(s, k)

LeaseStep(s, k) ==
    \/ Renew(s, k) \/ Complete(s, k) \/ ReleaseLease(s, k)
    \/ Reconcile(s, k) \/ ReassignNowhere(s, k) \/ ReleaseOrphaned(s, k)
    \/ \E n \in Nodes : Reassign(s, k, n)
    \/ \E to \in CommitTargets : UpdateStateWithLease(s, k, to)
    \/ MarkQuarantined(s, k)
    \/ ExpireLease(s, k)

NodeStep(n) ==
    \/ \E t \in Capacities : Register(n, t)
    \/ \E count \in {0, 1} : Heartbeat(n, count)
    \/ GoSilent(n)
    \/ \E draining \in BOOLEAN : SetDraining(n, draining)

Next ==
    \/ \E s \in Sandboxes : SandboxStep(s) \/ \E k \in LeasesOf(s) : LeaseStep(s, k)
    \/ \E n \in Nodes : NodeStep(n)

Spec == Init /\ [][Next]_vars

-----------------------------------------------------------------------------
\* A sandbox has one owner: whatever schedulers, recovery passes and retries
\* do at once, only its newest lease can be active, so a worker that was
\* replaced is refused by every fenced statement.
OneOwner ==
    \A s \in Sandboxes, k \in Ids : status[s][k] = "active" => k = issued[s]

\* Generations order owners: a lease always carries a higher generation than
\* every lease of the sandbox before it, however often those were renewed.
\* The workers' generation floors (GenerationLedger) rest on this.
GenerationsFence ==
    \A s \in Sandboxes : \A j, k \in LeasesOf(s) : j < k => gen[s][j] < gen[s][k]

\* The worker finds its sandbox: the assignment row names the lease that is active,
\* to claim or already claimed, although recovery, retries and late releases of
\* earlier leases write the same row.
AssignmentFollowsLease ==
    \A s \in Sandboxes, k \in Ids :
        status[s][k] = "active" =>
            /\ assignedLease[s] = k
            /\ assignment[s] \in {"reserved", "assigned"}

HeldOn(n) ==
    {l \in Sandboxes \X Ids : /\ status[l[1]][l[2]] \in Held
                              /\ leaseNode[l[1]][l[2]] = n}
UnitsOf(l) == {l} \X (1 .. Demand[l[1]])
\* What the leases on the worker hold, counted unit by unit.
Load(n) == Cardinality(UNION {UnitsOf(l) : l \in HeldOn(n)})

\* Capacity does not leak: a worker never offers more than it has, and every unit
\* of it that no lease holds is on offer, through every release, retry, recovery
\* and change of its size.
CapacityNotLost ==
    \A n \in Nodes : avail[n] <= total[n] /\ total[n] <= avail[n] + Load(n)

Balanced(n) == avail[n] + Load(n) = total[n]

\* Capacity is not handed out twice: books that balance go on balancing whatever
\* schedulers, recovery passes, retries and late releases do; only a worker that
\* comes back smaller than what its leases hold leaves them unbalanced.
BalanceKept ==
    \A n \in Nodes :
        Balanced(n) => Balanced(n)' \/ (total'[n] # total[n] /\ total'[n] < Load(n))
StaysBalanced == [][BalanceKept]_vars

\* A lease that was released or expired is over: no late renewal, claim or
\* completion revives it or moves its generation.
ClosedKept ==
    \A s \in Sandboxes, k \in Ids :
        status[s][k] \in Closed => status'[s][k] = status[s][k] /\ gen'[s][k] = gen[s][k]
ClosedForGood == [][ClosedKept]_vars

\* Teardown and quarantine are latches: what is being destroyed can only end
\* destroyed or failed, what is destroyed stays so, and a quarantine is left
\* only by its release, to paused; and no recovery or retry that was under way gives
\* such a sandbox a new lease.
LatchesKept ==
    \A s \in Sandboxes :
        /\ state[s] \in {"destroying", "destroyed", "quarantined"} => issued'[s] = issued[s]
        /\ state[s] = "destroying" => state'[s] \in {"destroying", "destroyed", "failed"}
        /\ state[s] = "destroyed" => state'[s] = "destroyed"
        /\ state[s] = "quarantined" => state'[s] \in {"quarantined", "paused"}
Latched == [][LatchesKept]_vars
=============================================================================
