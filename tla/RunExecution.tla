---------------------------- MODULE RunExecution ----------------------------
(***************************************************************************)
(* What happens to a run between admission and the end of its machines:    *)
(* the dispatcher's tasks (crates/aiec-api/src/run_queue.rs), the executor *)
(* and the teardown they drive (crates/aiec-api/src/runs.rs), the cancel   *)
(* endpoint and the retention sweeper (crates/aiec-api/src/lib.rs), all of *)
(* them on the rows of RunQueue.                                           *)
(*                                                                         *)
(* A task is one owner id at work.  It takes one step for each statement   *)
(* or machine operation it awaits, and what it read earlier stays in its   *)
(* record, so that a task whose lease is gone acts on stale values until   *)
(* its next heartbeat drops it.                                            *)
(***************************************************************************)
EXTENDS RunQueue

CONSTANTS
    PolicyOf,    \* the retention policy of each run
    RetainTTL,   \* retained_seconds, in ticks
    Cancels,     \* cancel requests
    Sweepers,    \* control-plane processes that run the maintenance loop
    MaxFaults,   \* crashes, late heartbeats, failing teardowns in a behaviour
    Stamps       \* whether the evidence of an attempt carries completed_at when
                 \* it is sealed: {FALSE} is the program as it stands

ASSUME ExecAssumption ==
    /\ Runs # {}
    /\ PolicyOf \in [Runs -> RetentionPolicies]
    /\ RetainTTL \in Nat \ {0}
    /\ MaxFaults \in Nat
    /\ Stamps \in (SUBSET BOOLEAN) \ {{}}

VARIABLES
    machine,     \* the machine of each attempt: "none", "live", "destroyed"
    retained,    \* runs.retained_sandbox_id
    retainLeft,  \* runs.retained_until
    task,        \* what each owner id is doing
    cancel,      \* how far each cancel request is
    sweeper,     \* the machine each retention sweeper is expiring
    faults       \* faults so far

execVars == <<machine, retained, retainLeft, task, cancel, sweeper, faults>>
allVars == <<vars, execVars>>

MachineStates == {"none", "live", "destroyed"}

\* The steps under the budget of one attempt, the others of execute_created,
\* and those of reclaim_owned.
TimedPcs == {"advance", "place", "mark", "work", "clean", "retain", "results"}
ExecPcs == TimedPcs \cup {"read", "record", "reread", "sweep", "sweepresults",
                          "complete", "settle", "settlefail", "fetch"}
ReclaimPcs == {"rread", "rresults"}
Pcs == ExecPcs \cup ReclaimPcs \cup {"idle", "destroy", "finish", "fail"}

\* How an attempt ended: "ok", "notok" (the task or a validation failed),
\* "setup", a retryable or a final error, or the end of the budget.
Outcomes == {"none", "ok", "notok", "setup", "transient", "final", "expired"}
Errors == {"transient", "final", "expired"}

SomeRun == CHOOSE r \in Runs : TRUE
NoTask == [pc |-> "idle", run |-> SomeRun, attempt |-> 0,
           seen |-> "queued", kept |-> NoMachine, report |-> NoMachine,
           outcome |-> "none", todo |-> {}, after |-> "idle"]
Unused == [pc |-> "unused", run |-> SomeRun, seen |-> "queued", todo |-> {},
           report |-> NoMachine]
Answered == [Unused EXCEPT !.pc = "answered"]
Resting == [pc |-> "idle", run |-> SomeRun, machine |-> NoMachine]

Tasks ==
    [pc : Pcs, run : Runs, attempt : 0 .. MaxAttempts, seen : RunStates,
     kept : Attempts \cup {NoMachine}, report : Attempts \cup {NoMachine},
     outcome : Outcomes, todo : SUBSET Attempts, after : Pcs]
CancelRequests ==
    [pc : {"unused", "cas", "recheck", "destroy", "results", "answered"}, run : Runs,
     seen : RunStates, todo : SUBSET Attempts, report : Attempts \cup {NoMachine}]
Expiries ==
    [pc : {"idle", "destroy", "report", "clear"}, run : Runs,
     machine : Attempts \cup {NoMachine}]

ExecTypeOK ==
    /\ machine \in [Runs -> [Attempts -> MachineStates]]
    /\ retained \in [Runs -> Attempts \cup {NoMachine}]
    /\ retainLeft \in [Runs -> 0 .. RetainTTL]
    /\ task \in [Owners -> Tasks]
    /\ cancel \in [Cancels -> CancelRequests]
    /\ sweeper \in [Sweepers -> Expiries]
    /\ faults \in 0 .. MaxFaults

ExecInit ==
    /\ Init
    /\ machine = [r \in Runs |-> [a \in Attempts |-> "none"]]
    /\ retained = [r \in Runs |-> NoMachine]
    /\ retainLeft = [r \in Runs |-> 0]
    /\ task = [o \in Owners |-> NoTask]
    /\ cancel = [c \in Cancels |-> Unused]
    /\ sweeper = [s \in Sweepers |-> Resting]
    /\ faults = 0

\* list_run_sandboxes: links are never removed, so they name dead machines too.
Linked(r) == {a \in Attempts : machine[r][a] # "none"}

\* Machines are torn down in the order of their attempts.
Least(ms) == CHOOSE m \in ms : \A n \in ms : m <= n

At(o, pc) == task[o].pc = pc
Becomes(o, t) == task' = [task EXCEPT ![o] = t]
Idle(o) == Becomes(o, NoTask)
Fault == faults < MaxFaults /\ faults' = faults + 1

machineVars == <<machine, retained, retainLeft>>
otherActors == <<cancel, sweeper>>

\* A step of a task that leaves machines, other actors and the queue alone.
LocalStep == UNCHANGED <<vars, machineVars, otherActors, faults>>
\* A step of a task that also writes the rows of RunStore.
StoreStep == UNCHANGED <<queueVars, machineVars, otherActors, faults>>
\* A step of a task that also writes the rows of RunQueue.
QueueStep == UNCHANGED <<machineVars, otherActors, faults>>

-----------------------------------------------------------------------------
(* The dispatcher, and what with_lease does around a task's work.          *)

\* dispatch, recovery first: an expired or undispatchable row becomes a
\* teardown task.
DispatchRecovery(o) ==
    /\ At(o, "idle") /\ Fresh(o)
    /\ \E r \in Runs : /\ RecoverRun(r, o)
                       /\ Becomes(o, [NoTask EXCEPT !.pc = "rread", !.run = r])
    /\ QueueStep

\* dispatch, fresh work.  The recovery pass that came back empty is an earlier
\* transaction, so nothing is known of the queue at this one.  A persisted
\* request that no longer parses goes straight to fail_and_reclaim.
DispatchClaim(o) ==
    /\ At(o, "idle") /\ Fresh(o)
    /\ \E r \in Runs, pc \in {"read", "fail"} :
          /\ ClaimRun(r, o)
          /\ Becomes(o, [NoTask EXCEPT !.pc = pc, !.run = r])
    /\ QueueStep

UnderLease(o) == task[o].pc \in ExecPcs \cup ReclaimPcs \cup {"destroy"}
Reclaiming(o) == task[o].pc \in ReclaimPcs \/ task[o].after = "rresults"

\* with_lease: the periodic renewal.
Heartbeat(o) ==
    /\ UnderLease(o)
    /\ HeartbeatRun(task[o].run, o)
    /\ UNCHANGED execVars

\* Mutant: work dropped for a lost lease goes back to the queue.
RequeueOnLoss(o) ==
    /\ UnderLease(o)
    /\ ~OwnsLive(task[o].run, o)
    /\ status' = [status EXCEPT ![task[o].run] = "queued"]
    /\ owner' = [owner EXCEPT ![task[o].run] = NoOwner]
    /\ Idle(o)
    /\ UNCHANGED <<runVars, leaseLeft, queueLeft, execLeft, reason, orderVars>>
    /\ QueueStep

\* with_lease: a renewal that was refused, or the execution deadline, drops the
\* work.  fail_run_queue is then refused as well, so the task just ends.
LoseLease(o) ==
    /\ UnderLease(o)
    /\ ~OwnsLive(task[o].run, o)
    /\ Idle(o)
    /\ LocalStep

\* with_lease: a renewal that only timed out drops the work too; the executor
\* then fails its own grant, a teardown is left to recovery.
HeartbeatTimeout(o) ==
    /\ UnderLease(o)
    /\ Fault
    /\ IF Reclaiming(o)
       THEN Idle(o)
       ELSE Becomes(o, [NoTask EXCEPT !.pc = "fail", !.run = task[o].run])
    /\ UNCHANGED <<vars, machineVars, otherActors>>

\* Shutdown, a panic or the death of the process: the lease is the handoff.
Crash(o) ==
    /\ ~At(o, "idle")
    /\ Fault
    /\ Idle(o)
    /\ UNCHANGED <<vars, machineVars, otherActors>>

\* run_claim and reclaim_owned: finish_run_queue, refused or not, ends the task.
Finish(o) ==
    /\ At(o, "finish")
    /\ Idle(o)
    /\ \/ FinishRun(task[o].run, o)
       \/ UNCHANGED vars /\ (\/ ~OwnsLive(task[o].run, o)
                             \/ ~IsTerminal(runState[task[o].run])
                             \/ cleanupFailed[task[o].run] # NoMachine)
    /\ QueueStep

\* fail_and_reclaim: with the grant still live the same task tears down.
Fail(o) ==
    /\ At(o, "fail")
    /\ \/ /\ FailRun(task[o].run, o)
          /\ Becomes(o, [NoTask EXCEPT !.pc = "rread", !.run = task[o].run])
       \/ /\ ~(OwnsLive(task[o].run, o) /\ status[task[o].run] = "executing")
          /\ Idle(o)
          /\ UNCHANGED vars
    /\ QueueStep

-----------------------------------------------------------------------------
(* execute_created: the attempts of one run.                               *)

\* Top of the attempt loop: a run that is settled already is returned as it
\* is, a spent budget goes to settle_failure, anything else is attempted.  The
\* process starts its budget after the claim, so it may outlive execLeft.
Read(o) ==
    /\ At(o, "read")
    /\ LET t == task[o] r == t.run IN
       \/ /\ IsTerminal(runState[r])
          /\ Becomes(o, [t EXCEPT !.pc = IF cleanupFailed[r] = NoMachine
                                         THEN "finish" ELSE "fail"])
       \/ /\ ~IsTerminal(runState[r])
          /\ execLeft[r] = 0
          /\ Becomes(o, [t EXCEPT !.pc = "settlefail", !.report = cleanupFailed[r]])
       \/ /\ ~IsTerminal(runState[r])
          /\ Becomes(o, [t EXCEPT !.pc = "record", !.attempt = @ + 1, !.seen = runState[r],
                                  !.outcome = "none", !.report = NoMachine])
    /\ LocalStep

Record(o) ==
    /\ At(o, "record")
    /\ RecordRunAttempt(task[o].run, task[o].attempt)
    /\ Becomes(o, [task[o] EXCEPT !.pc = "advance"])
    /\ StoreStep

\* advance: a compare-and-set; on a conflict the state is read again, and only
\* the state the caller wanted is good enough.
Advance(o, next, t) ==
    LET r == task[o].run IN
    \/ /\ UpdateRunState(r, task[o].seen, next)
       /\ Becomes(o, [t EXCEPT !.seen = next])
    \/ /\ ~(runState[r] = task[o].seen /\ CanTransitionTo(task[o].seen, next))
       /\ Becomes(o, IF runState[r] = next
                     THEN [t EXCEPT !.seen = next]
                     ELSE [task[o] EXCEPT !.seen = runState[r], !.outcome = "final",
                              !.pc = IF At(o, "advance") THEN "reread" ELSE "clean"])
       /\ UNCHANGED runVars

\* execute: the run is preparing from here on.
Prepare(o) ==
    /\ At(o, "advance")
    /\ Advance(o, "preparing", [task[o] EXCEPT !.pc = "place"])
    /\ StoreStep

\* Mutant: the scheduling transaction does not look at the run again.
PlaceDecided(o) ==
    /\ At(o, "place")
    /\ LET t == task[o] IN
       /\ machine' = [machine EXCEPT ![t.run][t.attempt] = "live"]
       /\ Becomes(o, [t EXCEPT !.pc = "mark"])
    /\ UNCHANGED <<vars, retained, retainLeft, otherActors, faults>>

\* schedule_on_node: in one transaction the run is found active and a machine
\* is linked to its open attempt, which has none yet.
ScheduleOnNode(r, a) ==
    /\ ~IsTerminal(runState[r])
    /\ a \in openAttempts[r]
    /\ machine[r][a] = "none"
    /\ machine' = [machine EXCEPT ![r][a] = "live"]

\* provision_admitted_sandbox: a machine that could not be brought up is torn
\* down by the task that asked for it, within the attempt.
RollBack(t, outcome) ==
    [t EXCEPT !.outcome = outcome, !.pc = "destroy", !.todo = {t.attempt}, !.after = "reread"]

\* acquire_sandbox: placement fails before a machine is scheduled or after it.
Place(o) ==
    /\ At(o, "place")
    /\ LET t == task[o] IN
       \/ /\ ScheduleOnNode(t.run, t.attempt)
          /\ \/ Becomes(o, [t EXCEPT !.pc = "mark"])
             \/ \E outcome \in {"transient", "final"} : Becomes(o, RollBack(t, outcome))
       \/ /\ UNCHANGED machine
          /\ \E outcome \in {"transient", "final"} :
                Becomes(o, [t EXCEPT !.outcome = outcome, !.pc = "reread"])
    /\ UNCHANGED <<vars, retained, retainLeft, otherActors, faults>>

\* execute: the empty results that go with the placement; a refusal is logged.
Mark(o) ==
    /\ At(o, "mark")
    /\ LET t == task[o] IN
       /\ \/ RecordRunResults(t.run, t.seen, NoMachine)
          \/ /\ runState[t.run] # t.seen /\ ~CanTransitionTo(runState[t.run], t.seen)
             /\ UNCHANGED runVars
       /\ Becomes(o, [t EXCEPT !.pc = "work"])
    /\ StoreStep

NextPhases(s) ==
    CASE s = "preparing"  -> {"running"}
      [] s = "running"    -> {"validating", "collecting"}
      [] s = "validating" -> {"collecting"}
      [] OTHER            -> {}

\* post_placement: setup and task, validations, collection.  An error may end
\* any phase, a failed setup command the first; whoever raised the error decides
\* by its kind whether it is worth another attempt, in collection too.
Work(o) ==
    /\ At(o, "work")
    /\ LET t == task[o] IN
       \/ \E next \in NextPhases(t.seen) : Advance(o, next, t)
       \/ /\ \E outcome \in {"transient", "final"}
                   \cup (IF t.seen = "running" THEN {"setup"} ELSE {})
                   \cup (IF t.seen = "collecting" THEN {"ok", "notok"} ELSE {}) :
                Becomes(o, [t EXCEPT !.outcome = outcome, !.pc = "clean"])
          /\ UNCHANGED runVars
    /\ StoreStep

\* cleanup, its start inside execute: a cancelled run is noticed here, and the
\* outcome decides whether the policy may keep the machine.
AllowRetention(t) ==
    \/ t.outcome \in {"ok", "notok", "setup", "final"}
    \/ t.outcome = "transient" /\ t.attempt = MaxAttempts

Clean(o) ==
    /\ At(o, "clean")
    /\ LET t == task[o]
           seen == IF runState[t.run] = "cancelled" THEN "cancelled" ELSE t.seen
       IN  IF /\ AllowRetention(t)
              /\ seen # "cancelled"
              /\ ShouldRetain(PolicyOf[t.run], t.outcome = "ok")
           THEN Becomes(o, [t EXCEPT !.pc = "retain", !.seen = seen])
           ELSE Becomes(o, [t EXCEPT !.pc = "destroy", !.seen = seen,
                                     !.todo = {t.attempt}, !.after = "results"])
    /\ LocalStep

\* Mutant: retention is set on the in-memory run only.
RetainInMemory(r, m) == retained[r] \in {NoMachine, m} /\ UNCHANGED <<retained, retainLeft>>

\* retain_run_sandbox: never displaces another machine, and does not look at
\* the state of the run.
RetainRunSandbox(r, m) ==
    /\ retained[r] \in {NoMachine, m}
    /\ retained' = [retained EXCEPT ![r] = m]
    /\ retainLeft' = [retainLeft EXCEPT ![r] = RetainTTL]

\* cleanup: the retention is recorded, or the machine is reported and goes the
\* way of the others.
Retain(o) ==
    /\ At(o, "retain")
    /\ LET t == task[o] IN
       \/ /\ RetainRunSandbox(t.run, t.attempt)
          /\ Becomes(o, [t EXCEPT !.pc = "results"])
          /\ UNCHANGED faults
       \/ /\ \/ retained[t.run] \notin {NoMachine, t.attempt} /\ UNCHANGED faults
             \/ Fault
          /\ Becomes(o, [t EXCEPT !.pc = "destroy", !.todo = {t.attempt}, !.after = "results",
                                  !.report = t.attempt])
          /\ UNCHANGED <<retained, retainLeft>>
    /\ UNCHANGED <<vars, machine, otherActors>>

\* destroy_with_retry: the machine is gone, or was gone already; or it stays up
\* after every retry (a worker out of reach, a quarantine).
TornDown(r, m) == machine' = [machine EXCEPT ![r][m] = "destroyed"] /\ UNCHANGED faults
StaysUp(r, m) == machine[r][m] = "live" /\ Fault /\ UNCHANGED machine

\* Mutant: a failed teardown is logged and forgotten.
DestroyOrForget(o) ==
    /\ At(o, "destroy")
    /\ LET t == task[o]
           m == Least(t.todo)
       IN  /\ Becomes(o, [t EXCEPT !.todo = @ \ {m},
                                   !.pc = IF t.todo = {m} THEN t.after ELSE "destroy"])
           /\ TornDown(t.run, m) \/ StaysUp(t.run, m)
    /\ UNCHANGED <<vars, retained, retainLeft, otherActors>>

\* cleanup: the next machine.  One that stays is reported unless an earlier one
\* is.
Destroy(o) ==
    /\ At(o, "destroy")
    /\ LET t == task[o]
           m == Least(t.todo)
           rest == [t EXCEPT !.todo = @ \ {m},
                             !.pc = IF t.todo = {m} THEN t.after ELSE "destroy"]
       IN  \/ TornDown(t.run, m) /\ Becomes(o, rest)
           \/ /\ StaysUp(t.run, m)
              /\ Becomes(o, [rest EXCEPT !.report = IF @ = NoMachine THEN m ELSE @])
    /\ UNCHANGED <<vars, retained, retainLeft, otherActors>>

\* What a task does with a results write: go on with what the row then says, or
\* take the conflict.
WriteResults(o, state, accepted, refused) ==
    LET t == task[o] IN
    \/ RecordRunResults(t.run, state, t.report) /\ Becomes(o, [accepted EXCEPT !.seen = state])
    \/ /\ runState[t.run] # state /\ ~CanTransitionTo(runState[t.run], state)
       /\ Becomes(o, refused)
       /\ UNCHANGED runVars

\* execute, its end: the outcome is classified by what was seen of the run.
Results(o) ==
    /\ At(o, "results")
    /\ LET t == task[o] IN
       WriteResults(o, t.seen,
           [t EXCEPT !.pc = CASE t.seen = "cancelled" -> "sweep"
                              [] t.seen # "cancelled" /\ t.outcome \in Errors -> "reread"
                              [] OTHER -> "complete",
                     !.outcome = IF t.seen = "cancelled" THEN "notok" ELSE @],
           [t EXCEPT !.pc = "reread", !.outcome = "final"])
    /\ StoreStep

\* The budget of the run ends inside an attempt; its future is dropped where it
\* stands.
Expire(o) ==
    /\ task[o].pc \in TimedPcs \/ (At(o, "destroy") /\ task[o].after \in {"results", "reread"})
    /\ execLeft[task[o].run] = 0
    /\ Becomes(o, [task[o] EXCEPT !.pc = "reread", !.outcome = "expired", !.todo = {}])
    /\ LocalStep

\* After a failed attempt the run is read again ...
Reread(o) ==
    /\ At(o, "reread")
    /\ LET t == task[o] IN
       Becomes(o, [t EXCEPT !.pc = "sweep", !.seen = runState[t.run],
                            !.report = cleanupFailed[t.run], !.kept = retained[t.run]])
    /\ LocalStep

\* ... and everything it linked is torn down, outside the budget and without
\* retention: only a machine retained before, by a run that was neither
\* cancelled nor out of time, is left alone.
Sweep(o) ==
    /\ At(o, "sweep")
    /\ LET t == task[o]
           ids == IF t.outcome = "expired" \/ t.seen = "cancelled"
                  THEN Linked(t.run) ELSE Linked(t.run) \ {t.kept}
       IN  Becomes(o, [t EXCEPT
               !.pc = IF ids = {} THEN "sweepresults" ELSE "destroy",
               !.todo = ids, !.after = "sweepresults",
               !.seen = IF ids # {} /\ runState[t.run] = "cancelled" THEN "cancelled" ELSE @])
    /\ LocalStep

SweepResults(o) ==
    /\ At(o, "sweepresults")
    /\ LET t == task[o] IN
       WriteResults(o, t.seen, [t EXCEPT !.pc = "complete"], [t EXCEPT !.pc = "fail"])
    /\ StoreStep

\* Mutants: one attempt too many, and a retry on top of a machine that stayed.
RetryableOnceMore(t) ==
    t.outcome = "transient" /\ t.report = NoMachine /\ t.attempt <= MaxAttempts
RetryableDespiteReport(t) == t.outcome = "transient" /\ t.attempt < MaxAttempts

Retryable(t) ==
    t.outcome = "transient" /\ t.report = NoMachine /\ t.attempt < MaxAttempts

\* complete_run_attempt, and what follows from how the attempt ended.  The store
\* refuses evidence without completed_at, and execute_created never sets it, so
\* only a stamp in Stamps opens the first branch.
Complete(o) ==
    /\ At(o, "complete")
    /\ \E stamped \in Stamps : LET t == task[o] IN
       \/ /\ stamped
          /\ CompleteRunAttempt(t.run, t.attempt)
          /\ Becomes(o, [t EXCEPT
                !.pc = CASE t.seen = "cancelled" -> IF t.report = NoMachine
                                                    THEN "finish" ELSE "fail"
                         [] t.seen # "cancelled" /\ t.outcome = "ok" -> "settle"
                         [] t.seen # "cancelled" /\ Retryable(t) -> "read"
                         [] OTHER -> "settlefail"])
       \/ /\ ~stamped \/ t.attempt \notin openAttempts[t.run]
          /\ Becomes(o, [t EXCEPT !.pc = "fail"])
          /\ UNCHANGED runVars
    /\ StoreStep

\* settle and settle_failure: the verdict and the results in one statement.
Settle(o) ==
    /\ At(o, "settle")
    /\ WriteResults(o, "succeeded", [task[o] EXCEPT !.pc = "fetch"], [task[o] EXCEPT !.pc = "fail"])
    /\ StoreStep

SettleFailure(o) ==
    /\ At(o, "settlefail")
    /\ RecordRunFailure(task[o].run, task[o].report)
    /\ Becomes(o, [task[o] EXCEPT !.pc = "fetch"])
    /\ StoreStep

\* The last get_run, on which run_claim decides.
Fetch(o) ==
    /\ At(o, "fetch")
    /\ LET r == task[o].run IN
       Becomes(o, [task[o] EXCEPT
           !.pc = IF IsTerminal(runState[r]) /\ cleanupFailed[r] = NoMachine
                  THEN "finish" ELSE "fail"])
    /\ LocalStep

-----------------------------------------------------------------------------
(* reclaim_owned: teardown under a reclaiming grant.                       *)

\* Mutant: the report of an earlier teardown is carried into this one.
ReclaimKeepsReport(o) ==
    /\ At(o, "rread")
    /\ LET t == task[o]
           ids == Linked(t.run) \ {retained[t.run]}
       IN  Becomes(o, [t EXCEPT
               !.pc = IF ids = {} THEN "rresults" ELSE "destroy",
               !.seen = runState[t.run], !.todo = ids, !.after = "rresults",
               !.report = cleanupFailed[t.run]])
    /\ LocalStep

\* reclaim_run: every linked machine but the retained one, with a clean report.
ReclaimRead(o) ==
    /\ At(o, "rread")
    /\ LET t == task[o]
           ids == Linked(t.run) \ {retained[t.run]}
       IN  Becomes(o, [t EXCEPT
               !.pc = IF ids = {} THEN "rresults" ELSE "destroy",
               !.seen = runState[t.run], !.todo = ids, !.after = "rresults",
               !.report = NoMachine])
    /\ LocalStep

ReclaimResults(o) ==
    /\ At(o, "rresults")
    /\ LET t == task[o] IN
       WriteResults(o, t.seen,
           IF t.report = NoMachine THEN [t EXCEPT !.pc = "finish"] ELSE NoTask, NoTask)
    /\ StoreStep

-----------------------------------------------------------------------------
(* The cancel endpoint: cancel_run and release_run_sandboxes.              *)

CancelBecomes(c, x) == cancel' = [cancel EXCEPT ![c] = x]
CancelStep == UNCHANGED <<retained, retainLeft, task, sweeper>>

\* release_run_sandboxes lists the machines once; none is linked after the verdict.
Releasing(x) == [x EXCEPT !.todo = Linked(x.run),
                          !.pc = IF Linked(x.run) = {} THEN "results" ELSE "destroy"]

\* A run that succeeded or failed is answered as it is; a cancelled one has its
\* machines released again.
CancelRead(c) ==
    /\ cancel[c].pc = "unused"
    /\ \E r \in Runs :
          /\ runState[r] # "absent"
          /\ LET x == [Unused EXCEPT !.run = r, !.seen = runState[r], !.pc = "cas"] IN
             CancelBecomes(c, CASE runState[r] \in ActiveStates -> x
                                [] runState[r] = "cancelled" -> Releasing(x)
                                [] OTHER -> Answered)
    /\ CancelStep
    /\ UNCHANGED <<vars, machine, faults>>

CancelWrite(c) ==
    /\ cancel[c].pc = "cas"
    /\ LET x == cancel[c] IN
       \/ /\ UpdateRunState(x.run, x.seen, "cancelled")
          /\ CancelBecomes(c, Releasing(x))
       \/ /\ runState[x.run] # x.seen
          /\ CancelBecomes(c, [x EXCEPT !.pc = "recheck"])
          /\ UNCHANGED runVars
    /\ CancelStep
    /\ UNCHANGED <<queueVars, machine, faults>>

\* The state changed in between: another request may have cancelled the run,
\* anything else is for the caller to sort out.
CancelRecheck(c) ==
    /\ cancel[c].pc = "recheck"
    /\ CancelBecomes(c, IF runState[cancel[c].run] = "cancelled"
                        THEN Releasing(cancel[c]) ELSE Answered)
    /\ CancelStep
    /\ UNCHANGED <<vars, machine, faults>>

\* A cancelled run keeps nothing, the retained machine included.
CancelDestroy(c) ==
    /\ cancel[c].pc = "destroy"
    /\ LET x == cancel[c]
           m == Least(x.todo)
           rest == [x EXCEPT !.todo = @ \ {m},
                             !.pc = IF x.todo = {m} THEN "results" ELSE "destroy"]
       IN  \/ TornDown(x.run, m) /\ CancelBecomes(c, rest)
           \/ StaysUp(x.run, m) /\ CancelBecomes(c, [rest EXCEPT !.report = m])
    /\ CancelStep
    /\ UNCHANGED vars

CancelResults(c) ==
    /\ cancel[c].pc = "results"
    /\ RecordRunResults(cancel[c].run, "cancelled", cancel[c].report)
    /\ CancelBecomes(c, Answered)
    /\ CancelStep
    /\ UNCHANGED <<queueVars, machine, faults>>

\* The client goes away and its handler is dropped.
CancelDropped(c) ==
    /\ cancel[c].pc \notin {"unused", "answered"}
    /\ Fault
    /\ CancelBecomes(c, Answered)
    /\ CancelStep
    /\ UNCHANGED <<vars, machine>>

-----------------------------------------------------------------------------
(* The retention sweepers: sweep_once and expire_retention.                *)

SweeperBecomes(s, x) == sweeper' = [sweeper EXCEPT ![s] = x]
SweeperStep == UNCHANGED <<task, cancel>>

\* Mutant: the state of the run is not part of the query.
ExpireUndecided(s) ==
    /\ sweeper[s].pc = "idle"
    /\ \E r \in Runs :
          /\ retained[r] # NoMachine /\ retainLeft[r] = 0
          /\ SweeperBecomes(s, [pc |-> "destroy", run |-> r, machine |-> retained[r]])
    /\ SweeperStep
    /\ UNCHANGED <<vars, machineVars, faults>>

\* retained_runs_due: only the machines of settled runs, after their time.
ExpireRetention(s) ==
    /\ sweeper[s].pc = "idle"
    /\ \E r \in Runs :
          /\ retained[r] # NoMachine /\ retainLeft[r] = 0 /\ IsTerminal(runState[r])
          /\ SweeperBecomes(s, [pc |-> "destroy", run |-> r, machine |-> retained[r]])
    /\ SweeperStep
    /\ UNCHANGED <<vars, machineVars, faults>>

RetentionDestroy(s) ==
    /\ sweeper[s].pc = "destroy"
    /\ LET x == sweeper[s] IN
       \/ TornDown(x.run, x.machine) /\ SweeperBecomes(s, [x EXCEPT !.pc = "clear"])
       \/ StaysUp(x.run, x.machine) /\ SweeperBecomes(s, [x EXCEPT !.pc = "report"])
    /\ SweeperStep
    /\ UNCHANGED <<vars, retained, retainLeft>>

\* Mutant: the report is written whether the machine is still retained or not.
RetentionReportUnfenced(s) ==
    /\ sweeper[s].pc = "report"
    /\ ReportRetentionFailure(sweeper[s].run, sweeper[s].machine)
    /\ SweeperBecomes(s, Resting)
    /\ SweeperStep
    /\ UNCHANGED <<queueVars, machineVars, faults>>

\* record_retention_cleanup_failure, fenced on the retained machine.
RetentionReport(s) ==
    /\ sweeper[s].pc = "report"
    /\ LET x == sweeper[s] IN
       \/ retained[x.run] = x.machine /\ ReportRetentionFailure(x.run, x.machine)
       \/ retained[x.run] # x.machine /\ UNCHANGED runVars
    /\ SweeperBecomes(s, Resting)
    /\ SweeperStep
    /\ UNCHANGED <<queueVars, machineVars, faults>>

\* clear_run_retention, fenced the same way.
RetentionClear(s) ==
    /\ sweeper[s].pc = "clear"
    /\ LET x == sweeper[s] IN
       \/ /\ retained[x.run] = x.machine
          /\ ClearRetentionReport(x.run, x.machine)
          /\ retained' = [retained EXCEPT ![x.run] = NoMachine]
          /\ retainLeft' = [retainLeft EXCEPT ![x.run] = 0]
       \/ retained[x.run] # x.machine /\ UNCHANGED <<runVars, retained, retainLeft>>
    /\ SweeperBecomes(s, Resting)
    /\ SweeperStep
    /\ UNCHANGED <<queueVars, machine, faults>>

-----------------------------------------------------------------------------
(* A submission, a tenant's DELETE of a sandbox, and the passage of time.  *)

Submit(r) ==
    /\ EnqueueRun(r)
    /\ UNCHANGED execVars

\* DELETE /sandboxes/{id}: the same destroy_with_retry, for any machine of the
\* tenant and without a look at the run it works for.  One that fails leaves all
\* as it was.  The sweep's abandon_sandbox has this effect too, on the machines
\* of decided runs only.
DeleteMachine(r, m) ==
    /\ machine[r][m] = "live"
    /\ TornDown(r, m)
    /\ UNCHANGED <<vars, retained, retainLeft, task, otherActors>>

\* A healthy task renews every third of its lease, so a tick that ends the lease
\* of a task at work, short of its execution deadline, is a fault.
HeartbeatLate ==
    \E o \in Owners :
        LET r == task[o].run IN
        /\ ~At(o, "idle") /\ owner[r] = o /\ leaseLeft[r] = 1
        /\ status[r] = "executing" => execLeft[r] > 1

TimePasses ==
    /\ \/ Tick
       \/ /\ \A r \in Runs : leaseLeft[r] = 0 /\ queueLeft[r] = 0 /\ execLeft[r] = 0
          /\ \E r \in Runs : retainLeft[r] > 0
          /\ UNCHANGED vars
    /\ retainLeft' = CountDown(retainLeft)
    /\ IF HeartbeatLate THEN Fault ELSE UNCHANGED faults
    /\ UNCHANGED <<machine, retained, task, otherActors>>

TaskStep(o) ==
    \/ Read(o) \/ Record(o) \/ Prepare(o) \/ Place(o) \/ Mark(o) \/ Work(o) \/ Clean(o)
    \/ Retain(o) \/ Destroy(o) \/ Results(o) \/ Expire(o) \/ Reread(o) \/ Sweep(o)
    \/ SweepResults(o) \/ Complete(o) \/ Settle(o) \/ SettleFailure(o) \/ Fetch(o)
    \/ ReclaimRead(o) \/ ReclaimResults(o) \/ Finish(o) \/ Fail(o) \/ LoseLease(o)

CancelNext(c) ==
    CancelWrite(c) \/ CancelRecheck(c) \/ CancelDestroy(c) \/ CancelResults(c)

SweeperNext(s) ==
    ExpireRetention(s) \/ RetentionDestroy(s) \/ RetentionReport(s) \/ RetentionClear(s)

ExecNext ==
    \/ \E o \in Owners :
          \/ DispatchRecovery(o) \/ DispatchClaim(o) \/ TaskStep(o)
          \/ Heartbeat(o) \/ HeartbeatTimeout(o) \/ Crash(o)
    \/ \E r \in Runs : Submit(r) \/ (\E m \in Attempts : DeleteMachine(r, m))
    \/ \E c \in Cancels : CancelRead(c) \/ CancelNext(c) \/ CancelDropped(c)
    \/ \E s \in Sweepers : SweeperNext(s)
    \/ TimePasses

ExecSpec == ExecInit /\ [][ExecNext]_allVars

\* The scheduling the code provides: tokio runs every spawned task, handler and
\* sweeper until it ends, dispatch polls on an interval, and the clock runs on.
\* Nothing is assumed of heartbeats, crashes, clients or failing teardowns.
Fairness ==
    /\ \A o \in Owners : WF_allVars(TaskStep(o))
    /\ WF_allVars(\E o \in Owners : DispatchRecovery(o))
    /\ WF_allVars(\E o \in Owners : DispatchClaim(o))
    /\ \A c \in Cancels : WF_allVars(CancelNext(c))
    /\ \A s \in Sweepers : WF_allVars(SweeperNext(s))
    /\ WF_allVars(TimePasses)

FairExecSpec == ExecSpec /\ Fairness

-----------------------------------------------------------------------------
\* The dispatcher, the executor, the cancel endpoint and the sweepers use the
\* queue only as RunQueue lets its callers use it, so what is proved of RunQueue
\* for arbitrary callers holds of the whole control plane.
ImplementsQueue == Spec

Promise == INSTANCE RunPromise WITH
    Machines <- Attempts, Verdicts <- TerminalStates,
    stage <- [r \in Runs |-> CASE status[r] = "absent" -> "new"
                               [] status[r] = "finished" -> "closed"
                               [] OTHER -> "open"],
    verdict <- [r \in Runs |-> {runState[r]} \cap TerminalStates],
    used <- [r \in Runs |-> Linked(r)],
    held <- [r \in Runs |-> {a \in Attempts : machine[r][a] = "live"}],
    kept <- [r \in Runs |-> {retained[r]} \ {NoMachine}]

\* Whatever is lost, late or dropped between a claim and finish_run_queue, the
\* run gets one verdict, no machine is placed after it, and the row is finished
\* only when every machine but the retained one is gone: executor, recovery,
\* cancel and sweepers together keep the promise of RunPromise.
ImplementsPromise == Promise!Spec

\* A retry never starts while the machine of an earlier attempt is still up: a
\* teardown that failed between attempts ends the run instead.
OneMachinePerRun ==
    \A r \in Runs : \A a, b \in Attempts :
        machine[r][a] = "live" /\ machine[r][b] = "live" => a = b

\* No sweeper, recovery or cancel takes the machine of an undecided run away:
\* unless the tenant itself deletes the sandbox, it goes only in the teardown of
\* the task that owns the run.  Retention is recorded before the verdict, so a
\* sweeper that did not look at the run would take the machine away under a live
\* executor.
UndecidedMachineSafe ==
    [][\A r \in Runs, a \in Attempts :
         (machine[r][a] = "live" /\ machine'[r][a] # "live" /\ ~IsTerminal(runState[r])) =>
            \/ owner[r] # NoOwner /\ task[owner[r]].run = r /\ At(owner[r], "destroy")
            \/ DeleteMachine(r, a)]_allVars

\* A cancel request that is about to report a clean release left no machine of
\* the run behind: what it listed after its write of the state was everything,
\* although an executor was placing and tearing down machines all the while.
CancelReleases ==
    \A c \in Cancels :
        (cancel[c].pc = "results" /\ cancel[c].report = NoMachine) =>
            \A a \in Attempts : machine[cancel[c].run][a] # "live"

\* Two sweepers that expire the same machine leave no report behind that nobody
\* takes back: once a run that its own executor settled is out of the queue,
\* cleanup_failed names the machine on record as retained, and its time is over,
\* so that the next sweep tears it down or, when a tenant's DELETE did, strikes
\* the report off.
RetentionReportOnRecord ==
    \A r \in Runs :
        (status[r] = "finished" /\ reason[r] = NoReason /\ runState[r] # "cancelled"
         /\ cleanupFailed[r] # NoMachine) =>
            retained[r] = cleanupFailed[r] /\ retainLeft[r] = 0

\* Every admitted run leaves the queue, after finitely many faults: a crash, a
\* lost lease or a teardown that failed for a while only delays it, and a report
\* of an earlier failure does not keep the row in reclaiming for ever.
EveryRunFinishes == \A r \in Runs : status[r] # "absent" ~> status[r] = "finished"

\* In the end a run holds no compute at all, a machine kept for its caller
\* included, and never gets any back.
ComputeReturned ==
    \A r \in Runs : status[r] # "absent" ~> [](\A a \in Attempts : machine[r][a] # "live")

\* complete_run_attempt "completes an in-progress attempt once": the executor
\* that took its attempt to the end under a live grant seals it, so no run whose
\* task and validations succeeded is failed for not having settled cleanly.
SuccessNotDiscarded ==
    [][\A r \in Runs :
         (reason[r] = NoReason /\ reason'[r] = "error") =>
            ~(task[owner[r]].outcome = "ok" /\ task[owner[r]].attempt \in openAttempts[r])]_allVars
=============================================================================
