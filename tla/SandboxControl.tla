--------------------------- MODULE SandboxControl ---------------------------
(***************************************************************************)
(* The control plane and the workers at work on one sandbox, over the      *)
(* statements of SandboxLease: provisioning, recovery, deletion and the    *)
(* lease sweeper (crates/aiec-api/src/lib.rs, runs.rs), the calls they     *)
(* make to workers and the fence every call passes there (worker.rs), and  *)
(* the loop in which a worker claims and renews (crates/aiec-cli).         *)
(*                                                                         *)
(* There is one control plane process.  Each of its callers takes one step *)
(* for each statement or call it awaits; what it read earlier stays in its *)
(* job.  A call to a worker can be lost, can time out while the worker     *)
(* goes on with it, and is authorized on arrival and once more behind the  *)
(* sandbox's lifecycle gate.                                               *)
(***************************************************************************)
EXTENDS SandboxLease

CONSTANTS
    box,              \* the sandbox
    Callers,          \* who is at work: "provision", "recovery", "delete", "sweeper"
    DestroyAttempts,  \* ATTEMPTS of destroy_with_retry
    MaxFaults         \* lost and failing calls, lost replies, crashes

ASSUME ControlAssumption ==
    /\ Sandboxes = {box}
    /\ Callers \subseteq {"provision", "recovery", "delete", "sweeper"}
    /\ DestroyAttempts \in Nat \ {0}
    /\ MaxFaults \in Nat

VARIABLES
    job,        \* where each caller is and what it holds
    calls,      \* the requests at the workers
    built,      \* the lease under which the last machine on a worker was built
    up,         \* whether that machine is still there
    floor,      \* GenerationLedger: the durable generation floor of a worker
    faults

hostVars == <<built, up, floor>>
controlVars == <<job, calls, hostVars, faults>>
allVars == <<vars, controlVars>>

Teardown == {"fetch", "destroy", "forget", "forgetting"}
Steps == {"idle", "done", "create", "start", "rollback", "queue", "reassign", "fail", "return", "abandon"}
             \cup Teardown
Replies == {"none", "sent", "ok", "stale", "refused", "failed"}

NoJob == [at |-> "idle", lease |-> 0, gen |-> 0, on |-> NoNode, tries |-> 0, found |-> 0,
          reply |-> "none"]

Jobs == [at : Steps, lease : 0 .. MaxLeases, gen : 0 .. MaxGeneration,
         on : Nodes \cup {NoNode}, tries : 0 .. DestroyAttempts - 1,
         found : 0 .. MaxLeases, reply : Replies]
Calls == [from : Callers \cup {"nobody"}, op : {"create", "start", "destroy"},
          node : Nodes, lease : Ids, on : Nodes \cup {NoNode},
          stage : {"sent", "waiting", "executing"}]

\* What every caller and worker holds has its type, and a caller waits for at
\* most one call.
ControlTypeOK ==
    /\ LeaseTypeOK
    /\ job \in [Callers -> Jobs]
    /\ calls \subseteq Calls
    /\ built \in [Nodes -> 0 .. MaxLeases]
    /\ up \in [Nodes -> BOOLEAN]
    /\ floor \in [Nodes -> 0 .. MaxGeneration]
    /\ faults \in 0 .. MaxFaults
    /\ \A c \in Callers : Cardinality({r \in calls : r.from = c}) = IF job[c].reply = "sent" THEN 1 ELSE 0

\* The workers have registered, and are all the same.
ControlInit ==
    /\ state = [s \in Sandboxes |-> "absent"]
    /\ nodeOf = [s \in Sandboxes |-> NoNode]
    /\ issued = [s \in Sandboxes |-> 0]
    /\ leaseNode = [s \in Sandboxes |-> [k \in Ids |-> NoNode]]
    /\ gen = [s \in Sandboxes |-> [k \in Ids |-> 0]]
    /\ status = [s \in Sandboxes |-> [k \in Ids |-> "none"]]
    /\ live = [s \in Sandboxes |-> [k \in Ids |-> FALSE]]
    /\ assignedLease = [s \in Sandboxes |-> 0]
    /\ assignment = [s \in Sandboxes |-> "none"]
    /\ \E t \in Capacities : total = [n \in Nodes |-> t] /\ avail = total
    /\ healthy = [n \in Nodes |-> TRUE]
    /\ accepting = [n \in Nodes |-> TRUE]
    /\ job = [c \in Callers |-> NoJob]
    /\ calls = {}
    /\ built = [n \in Nodes |-> 0]
    /\ up = [n \in Nodes |-> FALSE]
    /\ floor = [n \in Nodes |-> 0]
    /\ faults = 0

\* dispatch_target and sandbox_ownership: the lease that owns the sandbox.
Owners == {k \in LeasesOf(box) : Owner(box, k)}

\* A caller goes on with a new job.
Goes(c, new) == job' = [job EXCEPT ![c] = new]
GoesTo(c, at) == Goes(c, [job[c] EXCEPT !.at = at, !.reply = "none"])
\* One DELETE request is enough: its handler does not start over.
Ends(c) == Goes(c, IF c = "delete" THEN [NoJob EXCEPT !.at = "done"] ELSE NoJob)
OnlyJob == UNCHANGED <<vars, calls, hostVars, faults>>
OnlyStore == UNCHANGED <<calls, hostVars, faults>>
OnlyCall == UNCHANGED <<vars, hostVars, faults>>

Fault == faults < MaxFaults /\ faults' = faults + 1

-----------------------------------------------------------------------------
(* Calls to workers.                                                       *)

\* Caller c, with its new job, calls the worker of lease k.
Send(c, new, op, k) ==
    /\ calls' = calls \cup {[from |-> c, op |-> op, node |-> leaseNode'[box][k], lease |-> k,
                             on |-> new.on, stage |-> "sent"]}
    /\ Goes(c, [new EXCEPT !.reply = "sent"])

\* WorkerRuntime::call through dispatch_for.  Under provision_scope the lease is
\* the one the admission acquired; every other caller looks the owner up, and
\* gets NotFound when there is none.
Dispatch(c, new, op) ==
    \/ c = "provision" /\ Send(c, new, op, new.lease)
    \/ c # "provision" /\ \E k \in Owners : Send(c, new, op, k)
    \/ c # "provision" /\ Owners = {} /\ Goes(c, [new EXCEPT !.reply = "refused"]) /\ UNCHANGED calls

\* The worker answers, or nobody waits any more.
Answer(r, reply) ==
    /\ calls' = calls \ {r}
    /\ job' = [c \in Callers |-> IF c = r.from THEN [job[c] EXCEPT !.reply = reply] ELSE job[c]]

\* authorize, with operation_belongs_to_worker and the answer of the ownership
\* endpoint.  The generation of a lease only grows, so it is never below the
\* one the call was dispatched with.
Authorized(r) ==
    /\ r.on = r.node
    /\ r.lease \in Owners
    /\ leaseNode[box][r.lease] = r.node
    /\ gen[box][r.lease] >= floor[r.node]

\* The refusals of authorize: only a superseded lease or a regressed
\* generation on this worker says so in the words destroy_with_retry retries.
RefusalOf(r) ==
    IF r.on = r.node /\ \E k \in Owners : leaseNode[box][k] = r.node THEN "stale" ELSE "refused"

\* learn_generation: the floor never moves back.
Learn(r) == floor' = [floor EXCEPT ![r.node] = Greater(@, gen[box][r.lease])]

Advance(r, stage) == calls' = (calls \ {r}) \cup {[r EXCEPT !.stage = stage]}

\* operation up to the lifecycle gate.
Arrive(r) ==
    /\ r.stage = "sent"
    /\ \/ Authorized(r) /\ Advance(r, "waiting") /\ Learn(r) /\ UNCHANGED job
       \/ ~Authorized(r) /\ Answer(r, RefusalOf(r)) /\ UNCHANGED floor
    /\ UNCHANGED <<vars, built, up, faults>>

Gate(n) == {r \in calls : r.node = n /\ r.stage = "executing"}

\* Mutant: what was authorized on arrival runs when its turn comes.
EnterUnchecked(r) ==
    /\ r.stage = "waiting"
    /\ Gate(r.node) = {}
    /\ Advance(r, "executing")
    /\ UNCHANGED <<vars, job, hostVars, faults>>

\* The gate is taken, and ownership established once more.
Enter(r) ==
    /\ r.stage = "waiting"
    /\ Gate(r.node) = {}
    /\ \/ Authorized(r) /\ Advance(r, "executing") /\ Learn(r) /\ UNCHANGED job
       \/ ~Authorized(r) /\ Answer(r, RefusalOf(r)) /\ UNCHANGED floor
    /\ UNCHANGED <<vars, built, up, faults>>

\* WorkerService::execute and what operation does with a success.  A create
\* first reclaims whatever the host still has of the sandbox; a destroy that
\* finds nothing succeeds.
Execute(r) ==
    /\ r.stage = "executing"
    /\ \/ /\ r.op = "create"
          /\ built' = [built EXCEPT ![r.node] = r.lease]
          /\ up' = [up EXCEPT ![r.node] = TRUE]
          /\ Answer(r, "ok")
          /\ UNCHANGED floor
       \/ /\ r.op = "start"
          /\ Answer(r, IF up[r.node] THEN "ok" ELSE "failed")
          /\ UNCHANGED hostVars
       \/ /\ r.op = "destroy"
          /\ up' = [up EXCEPT ![r.node] = FALSE]
          /\ floor' = [floor EXCEPT ![r.node] = 0]
          /\ Answer(r, "ok")
          /\ UNCHANGED built
    /\ UNCHANGED <<vars, faults>>

\* The runtime, the slots or the ownership endpoint fail; nothing was done.
FailCall(r) ==
    /\ Fault
    /\ Answer(r, "failed")
    /\ UNCHANGED <<vars, hostVars>>

\* The client's timeout: the caller has its error, the worker goes on.
TimeOut(r) ==
    /\ r.from # "nobody"
    /\ Fault
    /\ calls' = (calls \ {r}) \cup {[r EXCEPT !.from = "nobody"]}
    /\ Goes(r.from, [job[r.from] EXCEPT !.reply = "failed"])
    /\ UNCHANGED <<vars, hostVars>>

-----------------------------------------------------------------------------
(* update_state_with_lease, as the callers that know their own lease use   *)
(* it; a row that is already there is no error.                            *)

Commits(k, expected, to) ==
    /\ Owner(box, k)
    /\ state[box] \in {expected, to}

\* commit_provision_state and commit_state_as.
CommitAs(k, expected, to) ==
    /\ Commits(k, expected, to)
    /\ \/ state[box] = expected /\ UpdateStateWithLease(box, k, to)
       \/ state[box] = to /\ UNCHANGED vars

Replied(c, at, replies) == job[c].at = at /\ job[c].reply \in replies
Bad == {"stale", "refused", "failed"}

\* create, Starting, start with what prepares the workspace, Running: what
\* provision_admitted_sandbox and place_recovered_sandbox share.
CommitStarting(c, giveUp) ==
    /\ Replied(c, "create", {"ok"})
    /\ UNCHANGED <<hostVars, faults>>
    /\ \/ /\ CommitAs(job[c].lease, "creating", "starting")
          /\ Dispatch(c, [job[c] EXCEPT !.at = "start"], "start")
       \/ /\ ~Commits(job[c].lease, "creating", "starting")
          /\ GoesTo(c, giveUp)
          /\ UNCHANGED <<vars, calls>>

CommitRunning(c, giveUp) ==
    /\ Replied(c, "start", {"ok"})
    /\ \/ CommitAs(job[c].lease, "starting", "running") /\ Ends(c)
       \/ /\ ~Commits(job[c].lease, "starting", "running")
          /\ UNCHANGED vars
          /\ GoesTo(c, giveUp)
    /\ OnlyStore

\* The placement is given up, after a call that failed or a commit refused.
GivesUp(c, at) == Replied(c, at, {"none"}) \/ Replied(c, "create", Bad) \/ Replied(c, "start", Bad)

-----------------------------------------------------------------------------
(* Provisioning.                                                           *)

\* schedule_for_provision: a new request, or a retry of it that acquires a
\* lease.  A retry that finds a live lease changes nothing.
ProvisionAdmit(n) ==
    /\ job["provision"].at = "idle"
    /\ Schedule(box, n, "creating") \/ RescheduleLapsed(box, n) \/ Reschedule(box, n)
    /\ Dispatch("provision", [NoJob EXCEPT !.at = "create", !.lease = issued'[box], !.on = n], "create")
    /\ UNCHANGED <<hostVars, faults>>

\* The state the rollback expects is the last one this call committed.
RollbackFrom(s) == Commits(job["provision"].lease, s, "destroying")

\* Mutant: the rollback does not need the lease.
RollbackUnfenced ==
    /\ GivesUp("provision", "rollback")
    /\ UNCHANGED vars
    /\ GoesTo("provision", "queue")
    /\ OnlyStore

\* The atomic state/lease CAS that starts the teardown; losing it means that
\* somebody else owns the sandbox, and nothing is stopped.
ProvisionRollback ==
    /\ GivesUp("provision", "rollback")
    /\ \/ /\ \E s \in {"creating", "starting"} : CommitAs(job["provision"].lease, s, "destroying")
          /\ GoesTo("provision", "queue")
       \/ /\ \A s \in {"creating", "starting"} : ~RollbackFrom(s)
          /\ UNCHANGED vars
          /\ Ends("provision")
    /\ OnlyStore

-----------------------------------------------------------------------------
(* destroy_with_retry and tear_down_sandbox, for the DELETE route and for  *)
(* the rollback of a provisioning.                                         *)

\* destroy_guard: one teardown of the sandbox at a time.
GuardFree(c) == \A d \in Callers \ {c, "sweeper"} : job[d].at \notin Teardown

DeleteAsk ==
    /\ job["delete"].at = "idle"
    /\ state[box] \notin {"absent", "destroyed"}
    /\ Goes("delete", [NoJob EXCEPT !.at = "queue"])
    /\ OnlyJob

\* An attempt reads the row; a destroyed one is what the caller wanted.
Fetch(c) ==
    /\ \/ job[c].at = "queue" /\ GuardFree(c)
       \/ job[c].at = "fetch"
    /\ OnlyCall
    /\ \/ state[box] = "destroyed" /\ Ends(c) /\ UNCHANGED calls
       \/ /\ state[box] # "destroyed"
          /\ Dispatch(c, [job[c] EXCEPT !.at = "destroy", !.on = nodeOf[box]], "destroy")

\* The attempt failed in a way is_transient_destroy_error retries, or not.
Again(c) ==
    IF job[c].tries + 1 = DestroyAttempts
    THEN Ends(c)
    ELSE Goes(c, [NoJob EXCEPT !.at = "fetch", !.lease = job[c].lease, !.tries = job[c].tries + 1])
DestroyFailed(c) ==
    /\ \/ Replied(c, "destroy", {"stale", "failed"}) /\ Again(c)
       \/ Replied(c, "destroy", {"refused"}) /\ Ends(c)
    /\ OnlyJob

ActiveLeases == {k \in LeasesOf(box) : status[box][k] = "active"}

\* Scheduler::release: the newest active lease, whoever's it is, is released.
\* There is none when it expired or somebody else released it; a renewal or an
\* expiry between its read and its release is a resync conflict.
SchedulerRelease(c) ==
    /\ Replied(c, "destroy", {"ok"})
    /\ \/ ActiveLeases = {} /\ UNCHANGED vars /\ GoesTo(c, "forget")
       \/ \E k \in ActiveLeases : \/ ReleaseLease(box, k) /\ GoesTo(c, "forget")
                                  \/ UNCHANGED vars /\ Again(c)
    /\ OnlyStore

\* delete_sandbox, the end of a teardown and of abandon_sandbox.  Its first
\* statement finds the newest lease to hold capacity, and locks it if there is one.
FindLease(c) ==
    /\ job[c].at = "forget"
    /\ \E k \in LeasesOf(box) :
          /\ \/ k \in HeldBy(box) /\ \A j \in HeldBy(box) : j <= k
             \/ HeldBy(box) = {} /\ k = issued[box]
          /\ Goes(c, [job[c] EXCEPT !.at = "forgetting", !.found = k])
    /\ OnlyJob

\* Then it locks the row.
Forget(c) ==
    /\ job[c].at = "forgetting"
    /\ DeleteSandbox(box, job[c].found)
    /\ Ends(c)
    /\ OnlyStore

-----------------------------------------------------------------------------
(* The workers' reconcile call: recover_expired_leases.                    *)

RecoveryExpire(k) ==
    /\ job["recovery"].at = "idle"
    /\ Reconcile(box, k)
    /\ Goes("recovery", [NoJob EXCEPT !.at = "reassign", !.lease = k])
    /\ OnlyStore

\* A fresh read of the row and reassign_expired_lease.
RecoveryReassign ==
    LET k == job["recovery"].lease IN
    /\ job["recovery"].at = "reassign"
    /\ \/ \E n \in Nodes :
             /\ Reassign(box, k, n)
             /\ Goes("recovery", [NoJob EXCEPT !.at = "create", !.lease = issued'[box],
                                               !.gen = gen'[box][issued'[box]], !.on = n])
       \/ ReassignNowhere(box, k) /\ Ends("recovery")
       \/ ~Reassignable(box, k) /\ UNCHANGED vars /\ Ends("recovery")
    /\ OnlyStore

\* place_recovered_sandbox asks who owns the sandbox for each of its calls.
RecoveryCreate ==
    /\ Replied("recovery", "create", {"none"})
    /\ OnlyCall
    /\ Dispatch("recovery", job["recovery"], "create")

\* abandon_recovery: the row is marked failed if this pass still owns it.
RecoveryFail ==
    LET k == job["recovery"].lease IN
    /\ GivesUp("recovery", "fail")
    /\ \/ \E s \in {"creating", "starting"} : CommitAs(k, s, "failed")
       \/ /\ \A s \in {"creating", "starting"} : ~Commits(k, s, "failed")
          /\ UNCHANGED vars
    /\ GoesTo("recovery", "return")
    /\ OnlyStore

\* Then the lease it was given is released, fenced on the generation it had; a
\* lease the worker claimed or renewed since is left to the sweeper.
RecoveryReturn ==
    LET k == job["recovery"].lease IN
    /\ job["recovery"].at = "return"
    /\ \/ status[box][k] \in Held /\ gen[box][k] = job["recovery"].gen /\ ReleaseLease(box, k)
       \/ /\ status[box][k] \notin Held \/ gen[box][k] # job["recovery"].gen
          /\ UNCHANGED vars
    /\ Ends("recovery")
    /\ OnlyStore

-----------------------------------------------------------------------------
(* sweep_once.  Its passes are steps of their own: a lease can lapse, and  *)
(* a row change, between any two of them.                                  *)

SweepExpired(k) == Reconcile(box, k) /\ UNCHANGED controlVars
SweepOrphaned(k) == ReleaseOrphaned(box, k) /\ UNCHANGED controlVars

\* Mutant: a teardown that was begun is left alone.
StrandedUndestroyed ==
    /\ state[box] \notin {"absent", "destroyed", "failed", "quarantined", "destroying"}
    /\ Owners = {}

\* list_stranded_sandboxes, for a sandbox no unfinished run is linked to; the
\* ten minutes of grace are over some time after the last change of the row.
Stranded ==
    /\ state[box] \notin {"absent", "destroyed", "failed", "quarantined"}
    /\ Owners = {}

SweepStranded ==
    /\ job["sweeper"].at = "idle"
    /\ Stranded
    /\ Goes("sweeper", [NoJob EXCEPT !.at = "abandon", !.on = nodeOf[box]])
    /\ OnlyJob

\* abandon_sandbox: with no lease to dispatch to there is nothing to stop.
Abandon ==
    /\ Replied("sweeper", "abandon", {"none"})
    /\ OnlyCall
    /\ \/ \E k \in Owners : Send("sweeper", job["sweeper"], "destroy", k)
       \/ Owners = {} /\ GoesTo("sweeper", "forget") /\ UNCHANGED calls

Abandoned ==
    /\ \/ Replied("sweeper", "abandon", {"ok"}) /\ GoesTo("sweeper", "forget")
       \/ Replied("sweeper", "abandon", Bad) /\ Ends("sweeper")
    /\ OnlyJob

-----------------------------------------------------------------------------
(* The worker's loop.                                                      *)

\* claim_assignments and renew_leases.  A worker that lost the reply to either,
\* or that restarted, stops renewing that lease: it lapses.
WorkerKeeps ==
    /\ Claim(box) \/ \E k \in LeasesOf(box) : Renew(box, k)
    /\ UNCHANGED controlVars

\* A worker restarts: machines and the ledger survive, requests do not.
WorkerRestart(n) ==
    LET lost == {r \in calls : r.node = n} IN
    /\ lost # {}
    /\ Fault
    /\ calls' = calls \ lost
    /\ job' = [c \in Callers |-> IF \E r \in lost : r.from = c
                                 THEN [job[c] EXCEPT !.reply = "failed"] ELSE job[c]]
    /\ UNCHANGED <<vars, hostVars>>

\* The control plane restarts: its callers are gone, their requests are not.
ControlRestart ==
    /\ Fault
    /\ job' = [c \in Callers |-> NoJob]
    /\ calls' = {[r EXCEPT !.from = "nobody"] : r \in calls}
    /\ UNCHANGED <<vars, hostVars>>

-----------------------------------------------------------------------------
CallStep(r) == Arrive(r) \/ Enter(r) \/ Execute(r)
TeardownStep(c) == Fetch(c) \/ DestroyFailed(c) \/ SchedulerRelease(c)
                   \/ FindLease(c) \/ Forget(c)
PlacementStep(c, giveUp) == CommitStarting(c, giveUp) \/ CommitRunning(c, giveUp)

ProvisionStep ==
    \/ \E n \in Nodes : ProvisionAdmit(n)
    \/ PlacementStep("provision", "rollback") \/ ProvisionRollback
    \/ TeardownStep("provision")
DeleteStep == DeleteAsk \/ TeardownStep("delete")
RecoveryStep ==
    \/ \E k \in LeasesOf(box) : RecoveryExpire(k)
    \/ RecoveryReassign \/ RecoveryCreate
    \/ PlacementStep("recovery", "fail") \/ RecoveryFail \/ RecoveryReturn
SweeperStep ==
    \/ \E k \in LeasesOf(box) : SweepExpired(k) \/ SweepOrphaned(k)
    \/ SweepStranded \/ Abandon \/ Abandoned
    \/ FindLease("sweeper") \/ Forget("sweeper")
Lapse == \E k \in ActiveLeases : ExpireLease(box, k) /\ UNCHANGED controlVars

ControlNext ==
    \/ "provision" \in Callers /\ ProvisionStep
    \/ "delete" \in Callers /\ DeleteStep
    \/ "recovery" \in Callers /\ RecoveryStep
    \/ "sweeper" \in Callers /\ SweeperStep
    \/ \E r \in calls : CallStep(r) \/ FailCall(r) \/ TimeOut(r)
    \/ \E n \in Nodes : WorkerRestart(n)
    \/ WorkerKeeps \/ Lapse \/ ControlRestart

\* The sweeper runs on a timer for as long as the control plane does, and a
\* call is carried out or fails within the client's timeout.
ControlFairness ==
    /\ WF_allVars(SweeperStep)
    /\ WF_allVars(\E r \in calls : CallStep(r))

ControlSpec == ControlInit /\ [][ControlNext]_allVars /\ ControlFairness

-----------------------------------------------------------------------------
\* A worker acts on a machine only for the lease that built it or for a later
\* one: a destroy or a create dispatched under a lease that was replaced never
\* touches what the new owner built on the same host, however long it waited.
MachineKept ==
    \A n \in Nodes :
        ((up[n] /\ ~up'[n]) \/ built'[n] # built[n]) =>
            \E r \in Gate(n) : r.lease >= built[n]
NewerMachineSafe == [][MachineKept]_allVars

\* The worker's own floor never locks out the owner: what it learned from
\* earlier leases of the sandbox, restarts included, is never above the
\* generation of the lease that owns it now.
OwnerNeverFenced ==
    \A k \in Owners : floor[leaseNode[box][k]] <= gen[box][k]

\* A sandbox is running only on a machine that was built under the lease that
\* owns it: a placement that was overtaken never reports the new owner's
\* sandbox as running before it is there.
RunningWasBuilt ==
    state[box] = "running" => \A k \in Owners : built[leaseNode[box][k]] = k

\* Once the rollback of a provisioning holds the sandbox as destroying, no
\* recovery and no retry replaces its lease: its destroy can only meet the
\* machine it built.
RollbackUnreplaced ==
    "provision" \in Callers /\ job["provision"].at \in Teardown \cup {"queue"} =>
        /\ job["provision"].lease = issued[box]
        /\ state[box] \in {"destroying", "destroyed"}

\* Capacity comes back: a lease does not stay active on a sandbox that is over,
\* whichever of the releases on the way was refused or lost.
FinishedReleased ==
    (state[box] \in {"failed", "destroyed"} /\ ActiveLeases # {})
        ~> (state[box] \notin {"failed", "destroyed"} \/ ActiveLeases = {})

\* A sandbox nobody holds does not count against the quota for ever: it is
\* placed again or given up.
Unheld == state[box] \in SandboxState \ {"destroyed", "failed", "quarantined"} /\ Owners = {}
StrandedReclaimed == Unheld ~> ~Unheld

\* A destroyed row has no machine left: teardown stops the machine and only
\* then forgets it.
DestroyedHasNoMachine == state[box] = "destroyed" => \A n \in Nodes : ~up[n]

=============================================================================
