------------------------------ MODULE RunQueue ------------------------------
(***************************************************************************)
(* The durable run queue, crates/aiec-storage/src/run_queue.rs: admission, *)
(* fair dispatch, and the leases that say which executor owns a run.       *)
(*                                                                         *)
(* The queue is the shared truth of several control-plane processes, so    *)
(* its callers are taken to be arbitrary: any owner may attempt any        *)
(* operation at any time, and the writers of the runs row that carry no    *)
(* queue fence (a stale executor, the cancel endpoint, the retention       *)
(* sweeper) may write whenever their own guards let them.  RunExecution    *)
(* restricts these callers to the ones the program has.                    *)
(*                                                                         *)
(* now() is kept as countdowns: lease_until > now() is leaseLeft > 0, and  *)
(* a NULL timestamp is 0.  Transactions are serialised by gate and by the  *)
(* row locks, and each reads now() at its commit.                          *)
(***************************************************************************)
EXTENDS RunStore, FiniteSets

CONSTANTS
    Tenants, TenantOf,   \* the tenant of each submission
    KeyOf, NoKey,        \* its idempotency key, NoKey when it carries none
    Owners, NoOwner,     \* owner ids; dispatch draws a new one every time
    GlobalPending, TenantPending, MaxActive,  \* RunQueueLimits
    LeaseTTL, QueueTimeout, ExecutionSeconds  \* the same, in ticks

\* RunQueueLimits::validate, the parts that do not depend on the unit of time.
ASSUME LimitsAssumption ==
    /\ IsFiniteSet(Runs)
    /\ TenantOf \in [Runs -> Tenants]
    /\ NoOwner \notin Owners
    /\ GlobalPending \in Nat \ {0}
    /\ TenantPending \in 1 .. GlobalPending
    /\ MaxActive \in 1 .. GlobalPending
    /\ LeaseTTL \in Nat \ {0}
    /\ QueueTimeout \in Nat \ {0}
    /\ ExecutionSeconds \in Nat \ {0}

VARIABLES
    status,         \* run_queue.status, "absent" before the row is inserted
    owner,          \* run_queue.owner
    leaseLeft,      \* run_queue.lease_until
    queueLeft,      \* run_queue.queue_deadline
    execLeft,       \* run_queue.execution_deadline
    reason,         \* run_queue.failure_reason
    enqueuedAt,     \* run_queue.enqueued_at, as a rank
    lastDispatched, \* run_queue_tenants.last_dispatched_at, as a rank, 0 for NULL
    admissions, dispatches  \* the last rank of either order

leaseVars == <<status, owner, leaseLeft, queueLeft, execLeft, reason>>
orderVars == <<enqueuedAt, lastDispatched, admissions, dispatches>>
queueVars == <<leaseVars, orderVars>>
vars == <<runVars, queueVars>>

Statuses == {"absent", "queued", "executing", "reclaiming", "finished"}
Held == {"executing", "reclaiming"}

\* Why a run was taken away from its executor, NoReason when it was not.
Reasons == {"deadline", "stopped", "lease", "error"}
NoReason == "none"

TypeOK ==
    /\ RunTypeOK
    /\ status \in [Runs -> Statuses]
    /\ owner \in [Runs -> Owners \cup {NoOwner}]
    /\ leaseLeft \in [Runs -> 0 .. LeaseTTL]
    /\ queueLeft \in [Runs -> 0 .. QueueTimeout]
    /\ execLeft \in [Runs -> 0 .. ExecutionSeconds]
    /\ reason \in [Runs -> Reasons \cup {NoReason}]
    /\ enqueuedAt \in [Runs -> Nat]
    /\ lastDispatched \in [Tenants -> Nat]
    /\ admissions \in Nat
    /\ dispatches \in Nat

Init ==
    /\ RunInit
    /\ status = [r \in Runs |-> "absent"]
    /\ owner = [r \in Runs |-> NoOwner]
    /\ leaseLeft = [r \in Runs |-> 0]
    /\ queueLeft = [r \in Runs |-> 0]
    /\ execLeft = [r \in Runs |-> 0]
    /\ reason = [r \in Runs |-> NoReason]
    /\ enqueuedAt = [r \in Runs |-> 0]
    /\ lastDispatched = [t \in Tenants |-> 0]
    /\ admissions = 0
    /\ dispatches = 0

Pending == {r \in Runs : status[r] \notin {"absent", "finished"}}
PendingOf(t) == {r \in Pending : TenantOf[r] = t}
Active == {r \in Runs : status[r] \in Held}
ActiveOf(t) == {r \in Active : TenantOf[r] = t}
SlotFree == Cardinality(Active) < MaxActive

\* An owner id nothing refers to yet: every dispatch draws a fresh uuid.
Fresh(o) == \A r \in Runs : owner[r] # o

\* Mutant: the statement forgets lease_until > now().
OwnsExpired(r, o) == owner[r] = o /\ status[r] \in Held
\* The grant o holds on r is live: what every fenced statement asks for.
OwnsLive(r, o) ==
    /\ owner[r] = o
    /\ leaseLeft[r] > 0
    /\ status[r] = "reclaiming" \/ (status[r] = "executing" /\ execLeft[r] > 0)

\* Mutant: LEAST(...) is dropped and the lease is taken as it is.
LesserDropped(a, b) == a
Lesser(a, b) == IF a < b THEN a ELSE b

\* Mutant: the key is looked up among queued rows, so a dispatched run is missed.
DuplicateWaiting(r) ==
    /\ KeyOf[r] # NoKey
    /\ \E q \in Runs : /\ status[q] = "queued"
                       /\ TenantOf[q] = TenantOf[r]
                       /\ KeyOf[q] = KeyOf[r]

\* An earlier submission of the same tenant under the same idempotency key.
Duplicate(r) ==
    /\ KeyOf[r] # NoKey
    /\ \E q \in Runs : /\ runState[q] # "absent"
                       /\ TenantOf[q] = TenantOf[r]
                       /\ KeyOf[q] = KeyOf[r]

\* Mutant: rows handed to an executor no longer count against admission.
RoomAmongWaiting(r) ==
    LET waiting == {q \in Runs : status[q] = "queued"} IN
    /\ Cardinality(waiting) < GlobalPending
    /\ Cardinality({q \in waiting : TenantOf[q] = TenantOf[r]}) < TenantPending

RoomFor(r) ==
    /\ Cardinality(Pending) < GlobalPending
    /\ Cardinality(PendingOf(TenantOf[r])) < TenantPending

\* enqueue_run: a retry joins the run its key produced and writes nothing;
\* otherwise the run and its queue row are inserted together, within limits.
EnqueueRun(r) ==
    /\ ~Duplicate(r)
    /\ RoomFor(r)
    /\ InsertRun(r)
    /\ status' = [status EXCEPT ![r] = "queued"]
    /\ queueLeft' = [queueLeft EXCEPT ![r] = QueueTimeout]
    /\ enqueuedAt' = [enqueuedAt EXCEPT ![r] = admissions + 1]
    /\ admissions' = admissions + 1
    /\ UNCHANGED <<owner, leaseLeft, execLeft, reason, lastDispatched, dispatches>>

\* The rows claim_run_queue may choose from, and its ORDER BY.
Eligible == {r \in Runs : /\ status[r] = "queued"
                          /\ queueLeft[r] > 0
                          /\ runState[r] = "queued"}

\* Mutant: dispatch by age, without the count of slots a tenant holds.
DispatchedByAge(q, r) == enqueuedAt[q] < enqueuedAt[r]

DispatchedBefore(q, r) ==
    LET held(x) == Cardinality(ActiveOf(TenantOf[x]))
        last(x) == lastDispatched[TenantOf[x]]
    IN  \/ held(q) < held(r)
        \/ held(q) = held(r) /\ last(q) < last(r)
        \/ held(q) = held(r) /\ last(q) = last(r) /\ enqueuedAt[q] < enqueuedAt[r]

Claimable == {r \in Eligible : /\ SlotFree
                               /\ \A q \in Eligible : ~DispatchedBefore(q, r)}

\* claim_run_queue: the grant ends with the lease or with the execution
\* deadline, whichever comes first, and the deadline is fixed here.
ClaimRun(r, o) ==
    /\ r \in Claimable
    /\ status' = [status EXCEPT ![r] = "executing"]
    /\ owner' = [owner EXCEPT ![r] = o]
    /\ leaseLeft' = [leaseLeft EXCEPT ![r] = Lesser(LeaseTTL, ExecutionSeconds)]
    /\ execLeft' = [execLeft EXCEPT ![r] = ExecutionSeconds]
    /\ lastDispatched' = [lastDispatched EXCEPT ![TenantOf[r]] = dispatches + 1]
    /\ dispatches' = dispatches + 1
    /\ UNCHANGED <<runVars, queueLeft, reason, enqueuedAt, admissions>>

\* The rows recover_run_queue selects, and its ORDER BY.
LostLease(r) == status[r] \in Held /\ leaseLeft[r] = 0
Undispatchable(r) == status[r] = "queued" /\ (queueLeft[r] = 0 \/ runState[r] # "queued")
Lost == {r \in Runs : LostLease(r) \/ Undispatchable(r)}

RecoveredBefore(q, r) ==
    \/ LostLease(q) /\ Undispatchable(r)
    \/ LostLease(q) = LostLease(r) /\ enqueuedAt[q] < enqueuedAt[r]

Recoverable == {r \in Lost : /\ \A q \in Lost : ~RecoveredBefore(q, r)
                             /\ status[r] = "queued" => SlotFree}

\* Mutant: every recovery writes its own reason over the previous one.
RecoveryReasonOverwritten(r) == IF LostLease(r) THEN "lease" ELSE "stopped"

RecoveryReason(r) ==
    CASE reason[r] # NoReason                            -> reason[r]
      [] reason[r] = NoReason /\ LostLease(r)            -> "lease"
      [] reason[r] = NoReason /\ Undispatchable(r)
                              /\ runState[r] = "queued"  -> "deadline"
      [] OTHER                                           -> "stopped"

\* Mutant: recovery forgets to retire the run.
RecoverWithoutRetire(r, o) ==
    /\ r \in Recoverable
    /\ status' = [status EXCEPT ![r] = "reclaiming"]
    /\ owner' = [owner EXCEPT ![r] = o]
    /\ leaseLeft' = [leaseLeft EXCEPT ![r] = LeaseTTL]
    /\ reason' = [reason EXCEPT ![r] = RecoveryReason(r)]
    /\ UNCHANGED <<runVars, queueLeft, execLeft, orderVars>>

\* Mutant: recovery replays the request instead of tearing it down.
RecoverByReplay(r, o) ==
    /\ r \in Recoverable
    /\ status' = [status EXCEPT ![r] = "executing"]
    /\ owner' = [owner EXCEPT ![r] = o]
    /\ leaseLeft' = [leaseLeft EXCEPT ![r] = LeaseTTL]
    /\ execLeft' = [execLeft EXCEPT ![r] = ExecutionSeconds]
    /\ UNCHANGED <<runVars, queueLeft, reason, orderVars>>

\* recover_run_queue: a teardown-only grant for a run whose executor is gone or
\* that can never be dispatched; the run is retired in the same transaction.
RecoverRun(r, o) ==
    /\ r \in Recoverable
    /\ status' = [status EXCEPT ![r] = "reclaiming"]
    /\ owner' = [owner EXCEPT ![r] = o]
    /\ leaseLeft' = [leaseLeft EXCEPT ![r] = LeaseTTL]
    /\ reason' = [reason EXCEPT ![r] = RecoveryReason(r)]
    /\ RetireRun(r)
    /\ UNCHANGED <<queueLeft, execLeft, orderVars>>

\* heartbeat_run_queue: renews a live grant, never past the execution deadline.
HeartbeatRun(r, o) ==
    /\ OwnsLive(r, o)
    /\ leaseLeft' = [leaseLeft EXCEPT
                       ![r] = IF status[r] = "executing"
                              THEN Lesser(LeaseTTL, execLeft[r])
                              ELSE LeaseTTL]
    /\ UNCHANGED <<runVars, status, owner, queueLeft, execLeft, reason, orderVars>>

\* fail_run_queue: the executor turns its own grant into a teardown grant.
FailRun(r, o) ==
    /\ OwnsLive(r, o)
    /\ status[r] = "executing"
    /\ status' = [status EXCEPT ![r] = "reclaiming"]
    /\ reason' = [reason EXCEPT ![r] = "error"]
    /\ RetireRun(r)
    /\ UNCHANGED <<owner, leaseLeft, queueLeft, execLeft, orderVars>>

\* finish_run_queue: only a settled run with no failed teardown leaves the queue.
FinishRun(r, o) ==
    /\ OwnsLive(r, o)
    /\ IsTerminal(runState[r])
    /\ cleanupFailed[r] = NoMachine
    /\ status' = [status EXCEPT ![r] = "finished"]
    /\ owner' = [owner EXCEPT ![r] = NoOwner]
    /\ leaseLeft' = [leaseLeft EXCEPT ![r] = 0]
    /\ UNCHANGED <<runVars, queueLeft, execLeft, reason, orderVars>>

\* Writes of the runs row that do not go through the queue's fence.
UnfencedWrite(r) ==
    /\ \/ \E from, to \in RunStates : UpdateRunState(r, from, to)
       \/ \E state \in RunStates, report \in Attempts \cup {NoMachine} :
             RecordRunResults(r, state, report)
       \/ \E report \in Attempts \cup {NoMachine} : RecordRunFailure(r, report)
       \/ \E m \in Attempts : \/ ReportRetentionFailure(r, m)
                              \/ ClearRetentionReport(r, m)
                              \/ RecordRunAttempt(r, m)
                              \/ CompleteRunAttempt(r, m)
    /\ UNCHANGED queueVars

CountDown(left) == [r \in Runs |-> IF left[r] > 0 THEN left[r] - 1 ELSE 0]

\* The database clock advances.
Tick ==
    /\ \E r \in Runs : leaseLeft[r] > 0 \/ queueLeft[r] > 0 \/ execLeft[r] > 0
    /\ leaseLeft' = CountDown(leaseLeft)
    /\ queueLeft' = CountDown(queueLeft)
    /\ execLeft' = CountDown(execLeft)
    /\ UNCHANGED <<runVars, status, owner, reason, orderVars>>

Next ==
    \/ \E r \in Runs : EnqueueRun(r) \/ UnfencedWrite(r)
    \/ \E r \in Runs, o \in Owners :
          \/ Fresh(o) /\ (ClaimRun(r, o) \/ RecoverRun(r, o))
          \/ HeartbeatRun(r, o) \/ FailRun(r, o) \/ FinishRun(r, o)
    \/ Tick

Spec == Init /\ [][Next]_vars

-----------------------------------------------------------------------------
\* The grants under way fit into the slots.
ActiveBound == Cardinality(Active) <= MaxActive

\* The unfinished rows fit into the two ceilings of admission.
PendingBound ==
    /\ Cardinality(Pending) <= GlobalPending
    /\ \A t \in Tenants : Cardinality(PendingOf(t)) <= TenantPending

\* No more grants than slots, whichever of claim_run_queue and recover_run_queue hands
\* them out: executing and reclaiming rows together stay within max_active, so compute
\* that is not reclaimed yet occupies its slot.  And admission never overshoots:
\* unfinished rows, those being executed or torn down among them, stay within
\* global_pending and within every tenant's tenant_pending.
WithinLimits == ActiveBound /\ PendingBound

\* An executor's lease never outlives the execution deadline fixed at its
\* claim, however often heartbeat_run_queue renews it.
LeaseWithinDeadline ==
    \A r \in Runs : status[r] = "executing" => leaseLeft[r] <= execLeft[r]

\* A teardown grant and a finished row belong to a run with a verdict, and no
\* unfenced writer (a stale executor's advance, record_run_results or
\* record_run_failure) can take the verdict back.
TeardownHasVerdict ==
    \A r \in Runs : status[r] \in {"reclaiming", "finished"} => IsTerminal(runState[r])

\* The row agrees with the CHECK constraints of migration 0013: exactly the
\* held rows have an owner, and only they have a lease.  A row exists exactly
\* when its run does, because enqueue_run inserts both.
RowShape ==
    \A r \in Runs :
        /\ status[r] \in Held <=> owner[r] # NoOwner
        /\ status[r] \notin Held => leaseLeft[r] = 0
        /\ status[r] = "absent" <=> runState[r] = "absent"
        /\ status[r] \in {"absent", "queued", "executing"} => reason[r] = NoReason

\* A submission retried under its idempotency key never becomes a second run.
OneRunPerKey ==
    \A q, r \in Runs :
        (/\ q # r /\ TenantOf[q] = TenantOf[r] /\ KeyOf[q] = KeyOf[r] /\ KeyOf[r] # NoKey
         /\ runState[q] # "absent")
        => runState[r] = "absent"

\* A verdict is final: once a run succeeded, failed or was cancelled no write,
\* fenced or not, changes that, however stale the state its writer last read.
VerdictKept == \A r \in Runs : IsTerminal(runState[r]) => runState'[r] = runState[r]
VerdictFinal == [][VerdictKept]_vars

\* A request is executed under at most one grant: execution begins from the
\* queue only and stays with the owner it was handed to, so that recover_run_queue
\* never passes an executing row on to be executed again; a row that reached
\* teardown is never handed out to execute again; a finished row stays finished.
NotExecutedAgain ==
    \A r \in Runs :
        /\ status'[r] = "executing" =>
              status[r] = "queued" \/ (status[r] = "executing" /\ owner'[r] = owner[r])
        /\ status[r] = "executing"  => status'[r] # "queued"
        /\ status[r] = "reclaiming" => status'[r] \in {"reclaiming", "finished"}
        /\ status[r] = "finished"   => status'[r] = "finished"
ExecutedOnce == [][NotExecutedAgain]_vars

\* Ownership is fenced: a grant passes to another owner only after its lease
\* ran out, and an owner whose lease ran out can neither revive the lease nor
\* settle or fail the row under its old name.
LeaseRespected ==
    \A r \in Runs : owner[r] # NoOwner =>
        /\ owner'[r] \notin {owner[r], NoOwner} => leaseLeft[r] = 0
        /\ (leaseLeft[r] = 0 /\ owner'[r] \in {owner[r], NoOwner}) =>
              /\ leaseLeft'[r] = 0
              /\ status'[r] = status[r]
OwnershipFenced == [][LeaseRespected]_vars

\* The first reason recorded for losing a run survives every later recovery of
\* the same row (recover_run_queue keeps "previous").
ReasonKept == \A r \in Runs : reason[r] # NoReason => reason'[r] = reason[r]
FirstReasonKept == [][ReasonKept]_vars

\* A tenant that already holds a slot is not given another while a tenant that
\* holds none has a run waiting to be dispatched.
IdleGoesFirst ==
    \A r \in Runs : (status[r] = "queued" /\ status'[r] = "executing") =>
        \A q \in Eligible : ActiveOf(TenantOf[q]) = {} => ActiveOf(TenantOf[r]) = {}
IdleTenantFirst == [][IdleGoesFirst]_vars

=============================================================================
