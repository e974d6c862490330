-------------------------- MODULE GuardQuarantine --------------------------
(***************************************************************************)
(* The quarantine of one guarded sandbox (crates/aiec-api/src/guard.rs,    *)
(* guard_release.rs, and the Guard rows of aiec-storage): callers that     *)
(* open the incident, the task each of them spawns to cut the network,     *)
(* capture the paused machine, latch the row and report, the operator's    *)
(* release, and the lifecycle routes (pause, resume, start, stop, delete)  *)
(* that run at the same time.  Only the lifecycle routes take the          *)
(* lifecycle lock, so they exclude each other and nothing else.  An        *)
(* approved proposal (guard_proposals.rs) moves the policy of the sandbox  *)
(* meanwhile, in three writes.                                             *)
(*                                                                         *)
(* Every worker call goes to the owner the store names when it is made,    *)
(* whatever fence its caller holds.  The recovery of a lapsed lease is     *)
(* one step here; SandboxControl has its steps.                            *)
(***************************************************************************)
EXTENDS Naturals, FiniteSets, SandboxStates

CONSTANTS
    Callers,        \* who asks for a quarantine: watchdogs, the reaper, a worker
    Routes,         \* the lifecycle routes users call
    MaxLeases,      \* bound: leases the sandbox is ever given
    MaxPolicies,    \* bound: policy proposals that are approved
    MaxFaults       \* bound: worker calls that fail or whose answer is lost, and crashes

ASSUME GuardAssumption ==
    /\ IsFiniteSet(Callers)
    /\ Routes \subseteq {"pause", "resume", "stop", "start", "delete"}
    /\ MaxLeases \in Nat \ {0}
    /\ MaxPolicies \in Nat
    /\ MaxFaults \in Nat

VARIABLES
    row,        \* sandboxes.state
    latch,      \* guard_budgets.payload.quarantined
    released,   \* guard_budgets.guard_released_at is set
    incident,   \* the guard_incidents row
    lease,      \* the newest lease of the sandbox
    owned,      \* that lease is active and unexpired
    policy,     \* the policy on the owner, in the sandbox row and in the budget row
    net,        \* the Guard attachment on the owner
    vm,         \* the machine on the owner
    shot,       \* the forensic capture directory on the owner
    decisions,  \* quarantine events in the owner's journal
    acts,       \* history: the leases under which a task cut, or captured
    task,       \* each caller's request and the task it spawns
    route,      \* the lifecycle route that holds the lifecycle lock
    release,    \* the operator's release
    faults

durable == <<row, latch, released>>
host == <<net, vm, shot, decisions, acts>>
binding == <<lease, owned, policy>>
guardVars == <<row, latch, released, incident, lease, owned, policy, net, vm, shot,
               decisions, acts, task, route, release, faults>>

Leases == 1..MaxLeases
Policies == 0..MaxPolicies
NoIncident == [lease |-> 0, policy |-> 0, cut |-> FALSE, captured |-> FALSE, report |-> FALSE,
               complete |-> FALSE]
Incidents == [lease : Leases \cup {0}, policy : Policies, cut : BOOLEAN, captured : BOOLEAN,
              report : BOOLEAN, complete : BOOLEAN]
TaskSteps == {"idle", "lost", "open", "latch", "advance", "cut", "recordCut", "capture",
              "recordCapture", "mark", "recordMark", "recordRefusal", "observe", "append",
              "report", "done"}
Tasks == [at : TaskSteps, canary : BOOLEAN, fence : Leases \cup {0}, policy : Policies,
          copy : Incidents]
Idle == [at |-> "idle", canary |-> FALSE, fence |-> 0, policy |-> 0, copy |-> NoIncident]
NoRoute == [op |-> "none", at |-> "idle", from |-> "none", policy |-> 0]
RouteStates == {NoRoute} \cup
    [op : Routes, at : {"call", "commit", "settle"}, from : SandboxState \cup {"none"},
     policy : Policies]
NoRelease == [at |-> "idle", policy |-> 0]

\* A running guarded sandbox: its attachment is open, nothing has triggered.
GuardInit ==
    /\ row = "running" /\ latch = FALSE /\ released = FALSE
    /\ incident = NoIncident
    /\ lease = 1 /\ owned = TRUE
    /\ policy = [host |-> 0, row |-> 0, budget |-> 0]
    /\ net = "open" /\ vm = "running" /\ shot = "none"
    /\ decisions = 0 /\ acts = {}
    /\ task = [c \in Callers |-> Idle]
    /\ route = NoRoute /\ release = NoRelease
    /\ faults = 0

\* One of the few worker calls that fail, or whose answer is lost.
Faulty == faults < MaxFaults /\ faults' = faults + 1

----------------------------------------------------------------------------
(* The incident row *)

Opened == incident # NoIncident

\* What merge_incident lets a later write add to the stored row: stages only
\* accumulate, a complete incident is closed, the owning lease never changes.
Merge(old, new) ==
    IF old = NoIncident THEN new
    ELSE IF old.complete THEN old
    ELSE [old EXCEPT !.cut = @ \/ new.cut, !.captured = @ \/ new.captured,
                     !.report = @ \/ new.report]

\* persist derives the completion from the stored stages.
Whole(i) == i.cut /\ i.captured /\ i.report
Closed(i) == [i EXCEPT !.complete = @ \/ Whole(i)]

\* Mutant: the write is not checked against the lease the incident names.
AnyOwner(i) == owned

\* lock_owned and validate_fence for a write that carries the incident's fence.
OwnerOf(i) == owned /\ lease = i.lease

\* put_guard_incident also compares the incident's identity with the budget's,
\* which moves to another policy when a proposal is approved.
Storable(i) == OwnerOf(i) /\ policy.budget = i.policy

\* persist: c's copy becomes the stored row.  The completion is a second
\* write, which may fail; the caller then gives up with the first one stored.
Persist(c, i, next) ==
    LET stored == Merge(incident, i)
    IN  \/ /\ Storable(i)
           /\ incident' = Closed(stored)
           /\ task' = [task EXCEPT ![c].at = next, ![c].copy = Closed(stored)]
           /\ UNCHANGED faults
        \/ /\ Storable(i) /\ Whole(stored) /\ ~stored.complete
           /\ Faulty
           /\ incident' = stored
           /\ task' = [task EXCEPT ![c] = Idle]
        \/ /\ ~Storable(i)
           /\ task' = [task EXCEPT ![c] = Idle]
           /\ UNCHANGED <<incident, faults>>

----------------------------------------------------------------------------
(* The policy *)

\* bound_guard: the owner answers a call that names the policy it enforces.
Attached(p) == owned /\ net # "none" /\ policy.host = p

\* observe: the journal is read under the policy of the row, which the budget
\* must name too.
Observable == Attached(policy.row) /\ policy.budget = policy.row

\* approve_proposal: the worker installs a policy extended from the recorded one, ...
ApplyPolicy ==
    /\ Attached(policy.row) /\ policy.host < MaxPolicies
    /\ policy' = [policy EXCEPT !.host = @ + 1]
    /\ UNCHANGED <<durable, incident, lease, owned, host, task, route, release, faults>>

\* ... update_guard_policy records it on the sandbox row, ...
RecordPolicy ==
    /\ policy.row < policy.host
    /\ policy' = [policy EXCEPT !.row = policy.host]
    /\ UNCHANGED <<durable, incident, lease, owned, host, task, route, release, faults>>

\* ... and the budget follows the row, as an approval of the past read it.  Each of
\* the last two is only logged when it fails, so it may never come.
RebindBudget ==
    /\ \E p \in 1..policy.row : policy' = [policy EXCEPT !.budget = p]
    /\ UNCHANGED <<durable, incident, lease, owned, host, task, route, release, faults>>

----------------------------------------------------------------------------
(* A caller's request *)

\* list_expired_guard_budgets offers the reaper consuming, unlatched, owned
\* sandboxes; a watchdog or an operator posts whatever the state.  A worker's
\* canary has cut the attachment itself.  All read the current fence, and name
\* the policy of the row, or they are refused.
Ask(c, canary) ==
    /\ task[c].at \in {"idle", "lost"}
    /\ owned
    /\ canary => net = "held" /\ Observable
    /\ task' = [task EXCEPT ![c] =
                   [Idle EXCEPT !.at = IF incident.complete
                                       THEN (IF canary THEN "latch" ELSE "advance")
                                       ELSE "open",
                                !.canary = canary, !.fence = lease]]
    /\ UNCHANGED <<durable, incident, binding, host, route, release, faults>>

\* begin_quarantine after its fence read: the journal is observed for the
\* anchor, and the incident, if there is none, is created under c's fence.
OpenIncident(c) ==
    /\ task[c].at = "open"
    /\ IF Observable
       THEN LET i == IF Opened THEN incident
                     ELSE [NoIncident EXCEPT !.lease = task[c].fence, !.policy = policy.budget]
            IN  Persist(c, i, IF task[c].canary THEN "latch" ELSE "advance")
       ELSE task' = [task EXCEPT ![c] = Idle] /\ UNCHANGED <<incident, faults>>
    /\ UNCHANGED <<durable, binding, host, route, release>>

\* mark_guard_quarantined under a fence: the row and the budget in one write.
CanMark(fence) ==
    /\ owned /\ lease = fence
    /\ row = "quarantined" \/ CanTransitionTo(row, "quarantined")

Mark(fence) ==
    IF CanMark(fence) THEN row' = "quarantined" /\ latch' = TRUE
                      ELSE UNCHANGED <<row, latch>>

\* worker_guard_quarantine latches before it answers, and then spawns the stages.
LatchFirst(c) ==
    /\ task[c].at = "latch"
    /\ Mark(task[c].fence)
    /\ task' = [task EXCEPT ![c] = IF CanMark(@.fence) THEN [@ EXCEPT !.at = "advance"] ELSE Idle]
    /\ UNCHANGED <<released, incident, binding, host, route, release, faults>>

----------------------------------------------------------------------------
(* advance_quarantine *)

\* The spawned task reads the policy, the fence and the incident afresh.
Advance(c) ==
    /\ task[c].at = "advance"
    /\ task' = [task EXCEPT ![c] =
                   IF owned /\ Opened
                   THEN [@ EXCEPT !.at = "cut", !.canary = FALSE, !.fence = lease,
                                  !.policy = policy.row, !.copy = incident]
                   ELSE Idle]
    /\ UNCHANGED <<durable, incident, binding, host, route, release, faults>>

\* Stage 1, skipped when the incident already records a cut.  The call can be
\* refused, fail without effect, or take effect unheard.
Cut(c) ==
    LET Step(done) == task' = [task EXCEPT ![c].at = "recordCut", ![c].copy.cut = @ \/ done]
        Held == net' = "held" /\ acts' = acts \cup {<<"cut", lease>>}
    IN  /\ task[c].at = "cut"
        /\ \/ task[c].copy.cut /\ Step(FALSE) /\ UNCHANGED <<host, faults>>
           \/ /\ ~task[c].copy.cut
              /\ \/ Attached(task[c].policy) /\ Held /\ Step(TRUE) /\ UNCHANGED faults
                 \/ Attached(task[c].policy) /\ Held /\ Step(FALSE) /\ Faulty
                 \/ Attached(task[c].policy) /\ Step(FALSE) /\ Faulty /\ UNCHANGED <<net, acts>>
                 \/ ~Attached(task[c].policy) /\ Step(FALSE) /\ UNCHANGED <<net, acts, faults>>
              /\ UNCHANGED <<vm, shot, decisions>>
        /\ UNCHANGED <<durable, incident, binding, route, release>>

RecordCut(c) ==
    /\ task[c].at = "recordCut"
    /\ Persist(c, task[c].copy, "capture")
    /\ UNCHANGED <<durable, binding, host, route, release>>

\* Pause and capture in one worker call.  It can fail before the pause, after it
\* with the directory removed or left half written, or succeed unheard.  A
\* directory that exists is answered with a refusal (existing = FALSE).
CaptureAs(c, existing) ==
    LET Step(done) ==
            task' = [task EXCEPT ![c].at = "recordCapture", ![c].copy.captured = @ \/ done]
        Taken == shot' = "whole" /\ acts' = acts \cup {<<"capture", lease>>}
    IN  /\ task[c].at = "capture"
        /\ \/ task[c].copy.captured /\ Step(FALSE) /\ UNCHANGED <<host, faults>>
           \/ /\ ~task[c].copy.captured /\ owned /\ vm # "absent"
              /\ vm' = "paused"
              /\ \/ shot = "none" /\ Taken /\ Step(TRUE) /\ UNCHANGED faults
                 \/ shot = "none" /\ Taken /\ Step(FALSE) /\ Faulty
                 \/ /\ shot = "none" /\ shot' \in {"none", "partial"} /\ Step(FALSE) /\ Faulty
                    /\ UNCHANGED acts
                 \/ shot # "none" /\ Step(existing) /\ UNCHANGED <<shot, acts, faults>>
              /\ UNCHANGED <<net, decisions>>
           \/ /\ ~task[c].copy.captured
              /\ \/ ~(owned /\ vm # "absent") /\ UNCHANGED faults
                 \/ owned /\ vm = "running" /\ Faulty
              /\ Step(FALSE) /\ UNCHANGED host
        /\ UNCHANGED <<durable, incident, binding, route, release>>

\* Mutant: a directory that exists is taken for an earlier success.
CaptureFound(c) == CaptureAs(c, TRUE)

\* Stage 2, skipped when the incident already records a capture.
Capture(c) == CaptureAs(c, FALSE)

RecordCapture(c) ==
    /\ task[c].at = "recordCapture"
    /\ Persist(c, task[c].copy, "mark")
    /\ UNCHANGED <<durable, binding, host, route, release>>

\* Mutant: the latch waits for the capture, and a failed one ends the task.
MarkCaptured(c) ==
    /\ task[c].at = "mark"
    /\ IF task[c].copy.captured THEN Mark(task[c].fence) ELSE UNCHANGED <<row, latch>>
    /\ task' = [task EXCEPT ![c].at = IF CanMark(task[c].fence) /\ task[c].copy.captured
                                      THEN "recordMark" ELSE "recordRefusal"]
    /\ UNCHANGED <<released, incident, binding, host, route, release, faults>>

\* Mutant: the durable mark is only attempted.
MarkAttempted(c) ==
    /\ task[c].at = "mark"
    /\ Mark(task[c].fence)
    /\ task' = [task EXCEPT ![c].at = "recordMark"]
    /\ UNCHANGED <<released, incident, binding, host, route, release, faults>>

\* Stage 3: the durable mark, ...
MarkStage(c) ==
    /\ task[c].at = "mark"
    /\ Mark(task[c].fence)
    /\ task' = [task EXCEPT ![c].at = IF CanMark(task[c].fence) THEN "recordMark" ELSE "recordRefusal",
                            ![c].fence = 0]
    /\ UNCHANGED <<released, incident, binding, host, route, release, faults>>

\* ... and its outcome.  A refusal ends the task, the incident unfinished.
RecordMark(c) ==
    /\ \/ task[c].at = "recordMark" /\ Persist(c, task[c].copy, "observe")
       \/ task[c].at = "recordRefusal" /\ Persist(c, task[c].copy, "done")
    /\ UNCHANGED <<durable, binding, host, route, release>>

\* Stage 4: the journal is read for an earlier quarantine event, ...
ObserveDecision(c) ==
    /\ task[c].at = "observe"
    /\ task' = [task EXCEPT ![c] =
                   IF ~Observable THEN Idle
                   ELSE [@ EXCEPT !.at = IF decisions > 0 THEN "report" ELSE "append"]]
    /\ UNCHANGED <<durable, incident, binding, host, route, release, faults>>

\* ... and one is appended when there was none.
AppendDecision(c) ==
    /\ task[c].at = "append"
    /\ \/ /\ Attached(task[c].policy)
          /\ decisions' = decisions + 1
          /\ UNCHANGED faults
       \/ ~Attached(task[c].policy) /\ UNCHANGED <<decisions, faults>>
       \/ Faulty /\ UNCHANGED decisions
    /\ task' = [task EXCEPT ![c].at = "report"]
    /\ UNCHANGED <<durable, incident, binding, net, vm, shot, acts, route, release>>

\* The evidence is read again, the report written, the incident closed when it
\* is whole; the notification that follows changes nothing modelled here.
Report(c) ==
    /\ task[c].at = "report"
    /\ Persist(c, [task[c].copy EXCEPT !.report = TRUE], "done")
    /\ UNCHANGED <<durable, binding, host, route, release>>

Done(c) ==
    /\ task[c].at = "done"
    /\ task' = [task EXCEPT ![c] = Idle]
    /\ UNCHANGED <<durable, incident, binding, host, route, release, faults>>

\* The control plane stops, or its database fails it, before the task ends.
Crash(c) ==
    /\ task[c].at \notin {"idle", "lost", "done"}
    /\ Faulty
    /\ task' = [task EXCEPT ![c] = [Idle EXCEPT !.at = "lost"]]
    /\ UNCHANGED <<durable, incident, binding, host, route, release>>

----------------------------------------------------------------------------
(* release_sandbox *)

ReleaseAsk ==
    /\ release = NoRelease
    /\ row = "quarantined" /\ owned
    /\ release' = [at |-> "reopen", policy |-> policy.row]
    /\ UNCHANGED <<durable, incident, binding, host, task, route, faults>>

\* The worker reopens the network, whatever cut it.
ReleaseReopen ==
    /\ release.at = "reopen"
    /\ IF Attached(release.policy) THEN net' = "open" /\ release' = [at |-> "clear", policy |-> 0]
                                   ELSE release' = NoRelease /\ UNCHANGED net
    /\ UNCHANGED <<durable, incident, binding, vm, shot, decisions, acts, task, route, faults>>

\* Mutant: the row is released and the budget keeps its latch.
ReleaseClearRow ==
    /\ release.at = "clear"
    /\ IF row = "quarantined" THEN row' = "paused" ELSE UNCHANGED row
    /\ release' = NoRelease
    /\ UNCHANGED <<latch, released, incident, binding, host, task, route, faults>>

\* release_guard_quarantine: row and budget in one transaction.  The trigger on
\* guard_budgets makes the release marker write-once, so a second release of the
\* same sandbox is rolled back.
ReleaseClear ==
    /\ release.at = "clear"
    /\ IF row = "quarantined" /\ ~released
       THEN row' = "paused" /\ latch' = FALSE /\ released' = TRUE
       ELSE UNCHANGED durable
    /\ release' = NoRelease
    /\ UNCHANGED <<incident, binding, host, task, route, faults>>

----------------------------------------------------------------------------
(* The lifecycle routes, one at a time under the lifecycle lock *)

From(op) == CASE op \in {"pause", "stop"} -> {"running"}
              [] op = "resume" -> {"paused"}
              [] op = "start"  -> {"stopped", "failed", "creating"}
              [] op = "delete" -> SandboxState \ {"quarantined", "destroyed"}

\* The route reads the row; resume also looks for an incident.
RouteEnter(op) ==
    /\ route = NoRoute
    /\ row \in From(op)
    /\ op = "resume" => ~Opened
    /\ route' = [op |-> op, at |-> "call", from |-> IF op = "start" THEN row ELSE "none",
                 policy |-> IF op = "start" THEN policy.row ELSE 0]
    /\ UNCHANGED <<durable, incident, binding, host, task, release, faults>>

\* The worker call.  Stopping or destroying the machine releases its attachment;
\* a new machine gets a new attachment, cut until its first heartbeat, under the
\* policy of the row the route read.
RouteCall ==
    LET op == route.op
        Works == /\ owned
                 /\ IF op = "start" THEN vm = "absent" ELSE op = "delete" \/ vm # "absent"
    IN  /\ route.at = "call"
        /\ IF Works
           THEN /\ vm' = CASE op = "pause" -> "paused"
                           [] op \in {"resume", "start"} -> "running"
                           [] op \in {"stop", "delete"} -> "absent"
                /\ net' = CASE op \in {"pause", "resume"} -> net
                            [] op = "start" -> "fresh"
                            [] op \in {"stop", "delete"} -> "none"
                /\ policy' = IF op = "start" THEN [policy EXCEPT !.host = route.policy] ELSE policy
                /\ route' = [route EXCEPT !.at = "commit"]
           ELSE route' = NoRoute /\ UNCHANGED <<vm, net, policy>>
        /\ UNCHANGED <<durable, incident, lease, owned, shot, decisions, acts, task, release, faults>>

\* commit_state: a compare-and-swap by the lease's owner.
Commits(from, to) == owned /\ row = from /\ CanTransitionTo(from, to)

Settle(from, to, next) ==
    IF Commits(from, to) THEN row' = to /\ route' = next
                         ELSE UNCHANGED row /\ route' = NoRoute

\* The durable half.  Stop and start pass through a second state; start's
\* first swap names the state it read.
RouteCommit ==
    LET op == route.op
        second == [route EXCEPT !.at = "settle"]
    IN  /\ route.at = "commit" /\ op # "delete"
        /\ CASE op = "pause"  -> Settle("running", "paused", NoRoute)
             [] op = "resume" -> Settle("paused", "running", NoRoute)
             [] op = "stop"   -> Settle("running", "stopping", second)
             [] op = "start"  -> Settle(route.from, "starting", second)
        /\ UNCHANGED <<latch, released, incident, binding, host, task, release, faults>>

RouteSettle ==
    /\ route.at = "settle" /\ route.op # "delete"
    /\ IF route.op = "stop" THEN Settle("stopping", "stopped", NoRoute)
                            ELSE Settle("starting", "running", NoRoute)
    /\ UNCHANGED <<latch, released, incident, binding, host, task, release, faults>>

\* tear_down_sandbox after the destroy: the lease goes first, ...
DeleteRelease ==
    /\ route.op = "delete" /\ route.at = "commit"
    /\ owned' = FALSE
    /\ route' = [route EXCEPT !.at = "settle"]
    /\ UNCHANGED <<durable, incident, lease, policy, host, task, release, faults>>

\* ... and delete_sandbox refuses a quarantined row.
DeleteRow ==
    /\ route.op = "delete" /\ route.at = "settle"
    /\ IF row # "quarantined" THEN row' = "destroyed" ELSE UNCHANGED row
    /\ route' = NoRoute
    /\ UNCHANGED <<latch, released, incident, binding, host, task, release, faults>>

----------------------------------------------------------------------------
(* The worker and the lease *)

\* The first heartbeat opens an attachment; a held cut survives every one.
Heartbeat ==
    /\ owned /\ net = "fresh"
    /\ net' = "open"
    /\ UNCHANGED <<durable, incident, binding, vm, shot, decisions, acts, task, route, release,
                   faults>>

\* A critical canary, or the machine's own lifetime, holds the attachment cut.
HoldCut ==
    /\ owned /\ net \in {"fresh", "open"} /\ vm = "running"
    /\ net' = "held"
    /\ UNCHANGED <<durable, incident, binding, vm, shot, decisions, acts, task, route, release,
                   faults>>

LeaseLapse ==
    /\ owned /\ lease < MaxLeases
    /\ owned' = FALSE
    /\ UNCHANGED <<durable, incident, lease, policy, host, task, route, release, faults>>

\* Recovery by another worker: a new lease, machine, attachment and journal.
Recover ==
    /\ ~owned /\ Recoverable(row) /\ lease < MaxLeases
    /\ lease' = lease + 1 /\ owned' = TRUE
    /\ row' = "running" /\ vm' = "running" /\ net' = "fresh"
    /\ shot' = "none" /\ decisions' = 0
    /\ policy' = [policy EXCEPT !.host = policy.row]
    /\ UNCHANGED <<latch, released, incident, acts, task, route, release, faults>>

----------------------------------------------------------------------------

TaskStep(c) ==
    \/ OpenIncident(c) \/ LatchFirst(c) \/ Advance(c)
    \/ Cut(c) \/ RecordCut(c) \/ Capture(c) \/ RecordCapture(c)
    \/ MarkStage(c) \/ RecordMark(c) \/ ObserveDecision(c) \/ AppendDecision(c) \/ Report(c) \/ Done(c)

ReleaseStep == ReleaseReopen \/ ReleaseClear
RouteStep == RouteCall \/ RouteCommit \/ RouteSettle \/ DeleteRelease \/ DeleteRow

GuardNext ==
    \/ \E c \in Callers : (\E canary \in BOOLEAN : Ask(c, canary)) \/ TaskStep(c) \/ Crash(c)
    \/ ApplyPolicy \/ RecordPolicy \/ RebindBudget
    \/ ReleaseAsk \/ ReleaseStep
    \/ \E op \in Routes : RouteEnter(op)
    \/ RouteStep
    \/ Heartbeat \/ HoldCut \/ LeaseLapse \/ Recover

GuardSpec == GuardInit /\ [][GuardNext]_guardVars

\* A spawned task runs on unless its process stops: every call it waits for has a
\* timeout.  Nothing is assumed of who asks: a watchdog gives up after some posts.
GuardFairness == \A c \in Callers : WF_guardVars(TaskStep(c))

FairGuardSpec == GuardSpec /\ GuardFairness

----------------------------------------------------------------------------

\* Every variable has its type.  Tasks that read the same empty journal append
\* one quarantine event each, and no later task adds another.
GuardTypeOK ==
    /\ row \in SandboxState /\ latch \in BOOLEAN /\ released \in BOOLEAN
    /\ incident \in Incidents
    /\ lease \in Leases /\ owned \in BOOLEAN
    /\ policy \in [host : Policies, row : Policies, budget : Policies]
    /\ net \in {"none", "fresh", "open", "held"}
    /\ vm \in {"absent", "running", "paused"}
    /\ shot \in {"none", "partial", "whole"}
    /\ decisions \in 0..Cardinality(Callers)
    /\ acts \subseteq {"cut", "capture"} \X Leases
    /\ task \in [Callers -> Tasks]
    /\ route \in RouteStates
    /\ release \in [at : {"idle", "reopen", "clear"}, policy : Policies]
    /\ faults \in 0..MaxFaults

\* A complete incident was latched in the store, and stays so until an operator
\* releases it: no concurrent task, lifecycle route or recovery completes an
\* incident of a sandbox that is still served, or takes it back out.
CompletedIsHeld == incident.complete /\ ~released => row = "quarantined" /\ latch

\* The sandbox row and the budget row, which different statements read, agree at
\* every moment on whether the sandbox is quarantined.
LatchesAgree == latch <=> row = "quarantined"

\* What an incident records was done to the machine of the lease it names, though
\* every worker call goes to whoever owns the sandbox when it is made.
StagesFenced ==
    /\ incident.cut => <<"cut", incident.lease>> \in acts
    /\ incident.captured => <<"capture", incident.lease>> \in acts

\* The capture a recorded incident points at is the whole one on its owner's disk:
\* no retry and no second task overwrites or loses it.
CaptureKept == incident.captured /\ lease = incident.lease => shot = "whole"

\* A task on an open incident latches the sandbox though its cut or its capture fails
\* for good, unless its process stops, the sandbox is destroyed or stopped, or the
\* incident can no longer be written: its lease or the policy of the budget moved on.
IncidentLatches ==
    \A c \in Callers : task[c].at = "advance" ~>
        (latch \/ released \/ task[c].at = "lost" \/ row = "destroyed" \/ net = "none"
         \/ ~Storable(incident))

\* The comment of resume_sandbox: no route hands the guest execution back between the
\* capture and the latch, so a recorded paused capture is not of a running machine.
CapturedStaysPaused ==
    incident.captured /\ ~released /\ lease = incident.lease => vm # "running"
============================================================================
