------------------------- MODULE RunExecutionProofs -------------------------
(***************************************************************************)
(* Theorems about RunExecution, for any number of runs, owner ids, cancel  *)
(* requests, sweepers, attempts and faults: its types, and that everything *)
(* the dispatcher, the executor, the cancel endpoint and the sweepers do   *)
(* to the rows is a step RunQueue allows its callers, so that the theorems *)
(* of RunQueueProofs hold of the whole control plane.                      *)
(***************************************************************************)
EXTENDS RunExecution, RunQueueProofs, WellFoundedInduction

-----------------------------------------------------------------------------
(* The inductive invariant: the rows, the types, and the shape of what each *)
(* actor remembers.                                                         *)

Executes(t) == t.pc \in ExecPcs \/ (t.pc = "destroy" /\ t.after # "rresults")
Reclaims(t) == t.pc \in ReclaimPcs \/ (t.pc = "destroy" /\ t.after = "rresults")

\* An executor with an attempt under way.
InAttempt(t) == Executes(t) /\ t.pc \notin {"read", "settlefail", "fetch"}

\* The run of a task exists, its attempt is one of the permitted ones, and what
\* it is about to destroy or retain is linked to the run.
ShapeOf(t) ==
    /\ t.pc # "idle" => runState[t.run] # "absent"
    /\ t.pc = "read" => t.attempt < MaxAttempts
    /\ InAttempt(t) => t.attempt \in Attempts
    /\ t.pc \in {"mark", "work", "clean", "retain"} => t.attempt \in Linked(t.run)
    /\ t.pc = "destroy" => /\ t.todo # {} /\ t.todo \subseteq Linked(t.run)
                           /\ t.after \in {"results", "reread", "sweepresults", "rresults"}
TaskShape(o) == ShapeOf(task[o])

CancelShape(c) ==
    /\ cancel[c].pc \notin {"unused", "answered"} => runState[cancel[c].run] # "absent"
    /\ cancel[c].pc = "destroy" => /\ cancel[c].todo # {}
                                   /\ cancel[c].todo \subseteq Linked(cancel[c].run)

SweeperShape(s) ==
    sweeper[s].pc # "idle" => /\ runState[sweeper[s].run] # "absent"
                              /\ sweeper[s].machine \in Linked(sweeper[s].run)

RetainedLinked == \A r \in Runs : retained[r] \in Linked(r) \cup {NoMachine}

Shape ==
    /\ \A o \in Owners : TaskShape(o)
    /\ \A c \in Cancels : CancelShape(c)
    /\ \A s \in Sweepers : SweeperShape(s)
    /\ RetainedLinked

BaseInv == RowInv /\ ExecTypeOK /\ Shape

\* No link of run_sandboxes is ever removed.
LinksGrow == \A r \in Runs : Linked(r) \subseteq Linked(r)'

\* What is shown of every step.
StepKept == [Next]_vars /\ BaseInv'

-----------------------------------------------------------------------------
(* Small facts.                                                            *)

\* A nonempty set of machines has a least member, the next one to be torn down.
LEMMA LeastMember ==
    ASSUME NEW ms \in SUBSET Attempts, ms # {}
    PROVE  Least(ms) \in ms
<1> DEFINE R == {ss \in Nat \X Nat : ss[1] < ss[2]}
<1>1. ms \subseteq Nat
  BY MaxAttemptsAssumption DEF Attempts
<1>2. IsWellFoundedOn(R, Nat)
  BY NatLessThanWellFounded, Zenon DEF OpToRel
<1>3. PICK m \in ms : \A n \in ms : <<n, m>> \notin R
  <2> HIDE DEF R
  <2> QED
    BY <1>1, <1>2, WFMin
<1>4. \A n \in ms : m <= n
  <2> TAKE n \in ms
  <2>1. n \in Nat /\ m \in Nat
    BY <1>1
  <2>2. ~(n < m)
    BY <1>3, <2>1
  <2> QED
    BY <2>1, <2>2
<1> QED
  BY <1>4 DEF Least

\* The records a task, a cancel request and a sweeper start from are well typed.
LEMMA RestingTypes ==
    /\ NoTask \in Tasks /\ NoTask.pc = "idle"
    /\ Unused \in CancelRequests /\ Unused.pc = "unused"
    /\ Answered \in CancelRequests /\ Answered.pc = "answered"
    /\ Resting \in Expiries /\ Resting.pc = "idle"
<1>1. SomeRun \in Runs
  BY ExecAssumption DEF SomeRun
<1>2. 0 \in 0 .. MaxAttempts
  BY MaxAttemptsAssumption
<1>3. "queued" \in RunStates
  BY DEF RunStates, ActiveStates
<1> QED
  BY <1>1, <1>2, <1>3
     DEF NoTask, Tasks, Pcs, Outcomes, NoMachine, Unused, Answered, CancelRequests,
         Resting, Expiries

\* Becomes changes the record of one task.
LEMMA BecomesOne ==
    ASSUME ExecTypeOK, NEW o \in Owners, NEW t, Becomes(o, t)
    PROVE  /\ task'[o] = t
           /\ \A p \in Owners : p # o => task'[p] = task[p]
           /\ t \in Tasks => task' \in [Owners -> Tasks]
BY DEF Becomes, ExecTypeOK

\* No step of the queue removes a run.
LEMMA RunsStay ==
    ASSUME RowInv, [Next]_vars, NEW r \in Runs, runState[r] # "absent"
    PROVE  runState'[r] # "absent"
<1>1. CASE \A q \in Runs : ~EnqueueRun(q)
  BY <1>1, OnlyEnqueueInserts
<1>2. ASSUME NEW q \in Runs, EnqueueRun(q) PROVE runState'[r] # "absent"
  BY <1>2 DEF EnqueueRun, InsertRun, RowInv, TypeOK, RunTypeOK
<1> QED
  BY <1>1, <1>2

\* The shape of a record survives a step that leaves the record alone.
LEMMA OtherTaskKept ==
    ASSUME RowInv, [Next]_vars, ExecTypeOK, NEW p \in Owners, TaskShape(p),
           task'[p] = task[p], LinksGrow
    PROVE  TaskShape(p)'
<1>1. task[p].run \in Runs
  BY DEF ExecTypeOK, Tasks
<1>2. runState[task[p].run] # "absent" => runState'[task[p].run] # "absent"
  BY <1>1, RunsStay
<1> QED
  BY <1>1, <1>2 DEF TaskShape, ShapeOf, InAttempt, Executes, At, LinksGrow

LEMMA OtherCancelKept ==
    ASSUME RowInv, [Next]_vars, ExecTypeOK, NEW c \in Cancels, CancelShape(c),
           cancel'[c] = cancel[c], LinksGrow
    PROVE  CancelShape(c)'
<1>1. cancel[c].run \in Runs
  BY DEF ExecTypeOK, CancelRequests
<1>2. runState[cancel[c].run] # "absent" => runState'[cancel[c].run] # "absent"
  BY <1>1, RunsStay
<1> QED
  BY <1>1, <1>2 DEF CancelShape, LinksGrow

LEMMA OtherSweeperKept ==
    ASSUME RowInv, [Next]_vars, ExecTypeOK, NEW s \in Sweepers, SweeperShape(s),
           sweeper'[s] = sweeper[s], LinksGrow
    PROVE  SweeperShape(s)'
<1>1. sweeper[s].run \in Runs
  BY DEF ExecTypeOK, Expiries
<1>2. runState[sweeper[s].run] # "absent" => runState'[sweeper[s].run] # "absent"
  BY <1>1, RunsStay
<1> QED
  BY <1>1, <1>2 DEF SweeperShape, LinksGrow

\* A step of the queue alone keeps the invariant.
LEMMA QuietStep ==
    ASSUME BaseInv, [Next]_vars, UNCHANGED execVars
    PROVE  StepKept
<1> USE DEF BaseInv
<1>1. /\ machine' = machine /\ retained' = retained /\ retainLeft' = retainLeft
      /\ task' = task /\ cancel' = cancel /\ sweeper' = sweeper /\ faults' = faults
  BY DEF execVars
<1>2. ExecTypeOK' /\ LinksGrow /\ RetainedLinked'
  BY <1>1 DEF ExecTypeOK, LinksGrow, Linked, Shape, RetainedLinked
<1>3. RowInv'
  BY RowStep
<1> QED
  BY <1>1, <1>2, <1>3, OtherTaskKept, OtherCancelKept, OtherSweeperKept DEF Shape, StepKept

\* A step of one task keeps the invariant when the queue allows it, the links
\* only grow, and the task's new record has its type and shape.
LEMMA TaskStepKeeps ==
    ASSUME BaseInv, [Next]_vars, NEW o \in Owners, NEW t \in Tasks, Becomes(o, t),
           machine' \in [Runs -> [Attempts -> MachineStates]], LinksGrow,
           retained' \in [Runs -> Attempts \cup {NoMachine}], RetainedLinked',
           retainLeft' \in [Runs -> 0 .. RetainTTL],
           UNCHANGED otherActors, faults' \in 0 .. MaxFaults,
           TaskShape(o)'
    PROVE  StepKept
<1> USE DEF BaseInv
<1>1. RowInv'
  BY RowStep
<1>2. task' \in [Owners -> Tasks] /\ \A p \in Owners : p # o => task'[p] = task[p]
  BY BecomesOne
<1>3. cancel' = cancel /\ sweeper' = sweeper
  BY DEF otherActors
<1>4. ExecTypeOK'
  BY <1>2, <1>3 DEF ExecTypeOK
<1>5. \A p \in Owners : TaskShape(p)'
  BY <1>2, OtherTaskKept DEF Shape
<1>6. \A c \in Cancels : CancelShape(c)'
  BY <1>3, OtherCancelKept DEF Shape
<1>7. \A s \in Sweepers : SweeperShape(s)'
  BY <1>3, OtherSweeperKept DEF Shape
<1> QED
  BY <1>1, <1>4, <1>5, <1>6, <1>7 DEF Shape, StepKept

\* The same for a step that leaves the machines and their retention alone.
LEMMA QuietTaskStep ==
    ASSUME BaseInv, [Next]_vars, NEW o \in Owners, NEW t \in Tasks, Becomes(o, t),
           UNCHANGED <<machineVars, otherActors>>, faults' \in 0 .. MaxFaults,
           TaskShape(o)'
    PROVE  StepKept
<1>1. /\ machine' \in [Runs -> [Attempts -> MachineStates]]
      /\ retained' \in [Runs -> Attempts \cup {NoMachine}]
      /\ retainLeft' \in [Runs -> 0 .. RetainTTL]
      /\ machine' = machine /\ retained' = retained
  BY DEF machineVars, BaseInv, ExecTypeOK
<1>2. LinksGrow /\ RetainedLinked'
  BY <1>1 DEF LinksGrow, Linked, BaseInv, Shape, RetainedLinked
<1> QED
  BY <1>1, <1>2, TaskStepKeeps

\* A task that ends leaves nothing to show.
LEMMA IdleTaskStep ==
    ASSUME BaseInv, [Next]_vars, NEW o \in Owners, Idle(o),
           UNCHANGED <<machineVars, otherActors>>, faults' \in 0 .. MaxFaults
    PROVE  StepKept
<1>1. Becomes(o, NoTask) /\ NoTask \in Tasks
  BY RestingTypes DEF Idle
<1>2. task'[o].pc = "idle"
  BY <1>1, BecomesOne, RestingTypes DEF BaseInv
<1>3. TaskShape(o)'
  BY <1>2 DEF TaskShape, ShapeOf, InAttempt, Executes, At, ExecPcs, TimedPcs
<1> QED
  BY <1>1, <1>3, QuietTaskStep

-----------------------------------------------------------------------------
(* The dispatcher and with_lease.                                          *)

\* A task that starts, or that turns to failing its grant, does so on an
\* existing run.
LEMMA StartedTaskStep ==
    ASSUME BaseInv, [Next]_vars, NEW o \in Owners, NEW r \in Runs,
           NEW pc \in {"read", "rread", "fail"},
           Becomes(o, [NoTask EXCEPT !.pc = pc, !.run = r]),
           UNCHANGED <<machineVars, otherActors>>, faults' \in 0 .. MaxFaults,
           runState[r] # "absent"
    PROVE  StepKept
<1> DEFINE t == [NoTask EXCEPT !.pc = pc, !.run = r]
<1>1. t \in Tasks /\ t.pc = pc /\ t.run = r /\ t.attempt = 0
  BY RestingTypes DEF NoTask, Tasks, Pcs, ExecPcs, ReclaimPcs
<1>2. task'[o] = t
  BY BecomesOne DEF BaseInv
<1>3. runState'[r] # "absent"
  BY RunsStay DEF BaseInv
<1>4. TaskShape(o)'
  BY <1>1, <1>2, <1>3, MaxAttemptsAssumption
     DEF TaskShape, ShapeOf, InAttempt, Executes, At, ExecPcs, TimedPcs
<1> QED
  BY <1>1, <1>4, QuietTaskStep

\* dispatch and what with_lease does around a task are steps of the queue.
LEMMA DispatcherSteps ==
    ASSUME BaseInv, NEW o \in Owners,
           \/ DispatchRecovery(o) \/ DispatchClaim(o) \/ Heartbeat(o) \/ LoseLease(o)
           \/ HeartbeatTimeout(o) \/ Crash(o) \/ Finish(o) \/ Fail(o)
    PROVE  StepKept
<1>0. faults \in 0 .. MaxFaults /\ MaxFaults \in Nat /\ task[o] \in Tasks /\ task[o].run \in Runs
  BY ExecAssumption DEF BaseInv, ExecTypeOK, Tasks
<1>r. ~At(o, "idle") => runState[task[o].run] # "absent"
  BY DEF BaseInv, Shape, TaskShape, ShapeOf, At
<1>f. Fault => faults' \in 0 .. MaxFaults
  BY <1>0, SMTT(40) DEF Fault
<1>1. CASE DispatchRecovery(o)
  <2>1. PICK r \in Runs : /\ RecoverRun(r, o)
                          /\ Becomes(o, [NoTask EXCEPT !.pc = "rread", !.run = r])
    BY <1>1 DEF DispatchRecovery
  <2>2. [Next]_vars
    BY <1>1, <2>1 DEF DispatchRecovery, Next
  <2>3. runState[r] # "absent"
    BY <2>1, SMTT(40) DEF RecoverRun, Recoverable, Lost, LostLease, Undispatchable, Held,
                BaseInv, RowInv, RowShape
  <2> QED
    BY <1>0, <1>1, <2>1, <2>2, <2>3, StartedTaskStep, Zenon DEF DispatchRecovery, QueueStep
<1>2. CASE DispatchClaim(o)
  <2>1. PICK r \in Runs, pc \in {"read", "fail"} :
               /\ ClaimRun(r, o)
               /\ Becomes(o, [NoTask EXCEPT !.pc = pc, !.run = r])
    BY <1>2, ZenonT(60) DEF DispatchClaim
  <2>2. [Next]_vars
    BY <1>2, <2>1 DEF DispatchClaim, Next
  <2>3. runState[r] # "absent"
    BY <2>1 DEF ClaimRun, Claimable, Eligible
  <2> QED
    BY <1>0, <1>2, <2>1, <2>2, <2>3, StartedTaskStep, ZenonT(60) DEF DispatchClaim, QueueStep
<1>3. CASE Heartbeat(o)
  <2>1. [Next]_vars
    BY <1>0, <1>3 DEF Heartbeat, Next
  <2>2. UNCHANGED execVars
    BY <1>3 DEF Heartbeat
  <2> QED
    BY <2>1, <2>2, QuietStep
<1>4. CASE LoseLease(o)
  BY <1>0, <1>4, IdleTaskStep DEF LoseLease, LocalStep
<1>5. CASE HeartbeatTimeout(o)
  <2>1. [Next]_vars /\ UNCHANGED <<machineVars, otherActors>> /\ faults' \in 0 .. MaxFaults
    BY <1>5, <1>f DEF HeartbeatTimeout
  <2>2. ~At(o, "idle")
    BY <1>5 DEF HeartbeatTimeout, UnderLease, At, ExecPcs, TimedPcs, ReclaimPcs
  <2>3. CASE Idle(o)
    BY <2>1, <2>3, IdleTaskStep, SMTT(40)
  <2>4. CASE Becomes(o, [NoTask EXCEPT !.pc = "fail", !.run = task[o].run])
    BY <1>0, <1>r, <2>1, <2>2, <2>4, StartedTaskStep, Zenon
  <2> QED
    BY <1>5, <2>3, <2>4 DEF HeartbeatTimeout
<1>6. CASE Crash(o)
  BY <1>f, <1>6, IdleTaskStep DEF Crash
<1>7. CASE Finish(o)
  <2>1. [Next]_vars
    BY <1>0, <1>7 DEF Finish, Next
  <2> QED
    BY <1>0, <1>7, <2>1, IdleTaskStep DEF Finish, QueueStep
<1>8. CASE Fail(o)
  <2>1. [Next]_vars /\ UNCHANGED <<machineVars, otherActors>> /\ faults' \in 0 .. MaxFaults
    BY <1>0, <1>8 DEF Fail, Next, QueueStep
  <2>2. ~At(o, "idle")
    BY <1>8, SMTT(40) DEF Fail, At
  <2>3. CASE Becomes(o, [NoTask EXCEPT !.pc = "rread", !.run = task[o].run])
    BY <1>0, <1>r, <2>1, <2>2, <2>3, StartedTaskStep, Zenon
  <2>4. CASE Idle(o)
    BY <2>1, <2>4, IdleTaskStep
  <2> QED
    BY <1>8, <2>3, <2>4 DEF Fail
<1> QED
  BY <1>1, <1>2, <1>3, <1>4, <1>5, <1>6, <1>7, <1>8

-----------------------------------------------------------------------------
(* The executor and the teardown: steps that only read.                    *)

\* What is known of a task before its step.
LEMMA TaskFacts ==
    ASSUME BaseInv, NEW o \in Owners
    PROVE  /\ task[o] \in Tasks /\ task[o].run \in Runs
           /\ runState[task[o].run] \in RunStates \cup {"absent"}
           /\ ~At(o, "idle") => runState[task[o].run] \in RunStates
           /\ cleanupFailed[task[o].run] \in Attempts \cup {NoMachine}
           /\ retained[task[o].run] \in Attempts \cup {NoMachine}
           /\ Linked(task[o].run) \in SUBSET Attempts
           /\ TaskShape(o)
           /\ faults \in 0 .. MaxFaults
           /\ ExecTypeOK
<1>1. task[o] \in Tasks /\ TaskShape(o) /\ faults \in 0 .. MaxFaults /\ ExecTypeOK
  BY DEF BaseInv, ExecTypeOK, Shape
<1>2. task[o].run \in Runs
  BY <1>1 DEF Tasks
<1> QED
  BY <1>1, <1>2 DEF BaseInv, RowInv, TypeOK, RunTypeOK, ExecTypeOK, TaskShape, ShapeOf, At, Linked

\* A step that leaves the machines alone: the new record needs only its type and
\* its shape against the rows as they were.
LEMMA RowTaskStep ==
    ASSUME BaseInv, NEW o \in Owners, NEW t \in Tasks, Becomes(o, t), [Next]_vars,
           UNCHANGED <<machineVars, otherActors, faults>>, ShapeOf(t)
    PROVE  StepKept
<1>1. machine' = machine /\ faults' \in 0 .. MaxFaults
  BY TaskFacts DEF machineVars
<1>2. task'[o] = t /\ t.run \in Runs
  BY BecomesOne DEF BaseInv, Tasks
<1>3. runState[t.run] # "absent" => runState'[t.run] # "absent"
  BY <1>2, RunsStay DEF BaseInv
<1>4. TaskShape(o)'
  BY <1>1, <1>2, <1>3 DEF TaskShape, ShapeOf, InAttempt, Executes, Linked
<1> QED
  BY <1>1, <1>4, QuietTaskStep

\* In particular a step that only reads.
LEMMA ReadingTaskStep ==
    ASSUME BaseInv, NEW o \in Owners, NEW t \in Tasks, Becomes(o, t), LocalStep, ShapeOf(t)
    PROVE  StepKept
<1>1. [Next]_vars /\ UNCHANGED <<machineVars, otherActors, faults>>
  BY DEF LocalStep
<1> QED
  BY <1>1, RowTaskStep

\* Reading steps of execute_created and reclaim_run.
LEMMA ReadingSteps ==
    ASSUME BaseInv, NEW o \in Owners,
           \/ Read(o) \/ Clean(o) \/ Expire(o) \/ Reread(o) \/ Sweep(o) \/ Fetch(o)
           \/ ReclaimRead(o)
    PROVE  StepKept
<1> DEFINE t == task[o]
<1>0. /\ t \in Tasks /\ t.run \in Runs /\ TaskShape(o) /\ LocalStep
      /\ ~At(o, "idle") => runState[t.run] \in RunStates
      /\ cleanupFailed[t.run] \in Attempts \cup {NoMachine}
      /\ retained[t.run] \in Attempts \cup {NoMachine}
      /\ Linked(t.run) \in SUBSET Attempts
  BY TaskFacts DEF Read, Clean, Expire, Reread, Sweep, Fetch, ReclaimRead
<1>p. /\ TimedPcs \subseteq ExecPcs /\ ExecPcs \subseteq Pcs /\ ReclaimPcs \subseteq Pcs
      /\ {"destroy", "finish", "fail"} \subseteq Pcs
  BY DEF Pcs, ExecPcs
<1>m. MaxAttempts \in Nat \ {0} /\ Attempts = 1 .. MaxAttempts
  BY MaxAttemptsAssumption DEF Attempts
<1>1. CASE Read(o)
  <2>1. At(o, "read") /\ t.attempt < MaxAttempts /\ runState[t.run] \in RunStates
        /\ runState[t.run] # "absent"
    BY <1>0, <1>1 DEF Read, TaskShape, ShapeOf, At
  <2>2. CASE \E pc \in {"finish", "fail"} : Becomes(o, [t EXCEPT !.pc = pc])
    <3>1. PICK pc \in {"finish", "fail"} : Becomes(o, [t EXCEPT !.pc = pc])
      BY <2>2
    <3>2. [t EXCEPT !.pc = pc] \in Tasks
      BY <1>0 DEF Tasks, Pcs
    <3> QED
      BY <1>0, <2>1, <3>1, <3>2, ReadingTaskStep DEF ShapeOf, InAttempt, Executes, Tasks, ExecPcs, TimedPcs
  <2>3. CASE Becomes(o, [t EXCEPT !.pc = "settlefail", !.report = cleanupFailed[t.run]])
    <3>1. [t EXCEPT !.pc = "settlefail", !.report = cleanupFailed[t.run]] \in Tasks
      BY <1>0 DEF Tasks, Pcs, ExecPcs
    <3> QED
      BY <1>0, <2>1, <2>3, <3>1, ReadingTaskStep DEF ShapeOf, InAttempt, Executes, Tasks
  <2>4. CASE Becomes(o, [t EXCEPT !.pc = "record", !.attempt = @ + 1, !.seen = runState[t.run],
                                  !.outcome = "none", !.report = NoMachine])
    <3> DEFINE u == [t EXCEPT !.pc = "record", !.attempt = @ + 1, !.seen = runState[t.run],
                              !.outcome = "none", !.report = NoMachine]
    <3>1. t.attempt + 1 \in Attempts /\ t.attempt + 1 \in 0 .. MaxAttempts
      BY <1>0, <1>m, <2>1 DEF Tasks
    <3>2. u \in Tasks
      BY <1>0, <2>1, <3>1 DEF Tasks, Pcs, ExecPcs, Outcomes
    <3>3. u.pc = "record" /\ u.run = t.run /\ u.attempt \in Attempts
      BY <1>0, <3>1 DEF Tasks
    <3> HIDE DEF u
    <3> QED
      BY <1>0, <2>1, <2>4, <3>2, <3>3, ReadingTaskStep DEF ShapeOf, InAttempt, Executes, u
  <2> QED
    BY <1>1, <2>2, <2>3, <2>4 DEF Read
<1>2. CASE Clean(o)
  <2>1. /\ runState[t.run] \in RunStates /\ runState[t.run] # "absent"
        /\ t.attempt \in Linked(t.run) /\ t.attempt \in Attempts
    BY <1>0, <1>2 DEF Clean, TaskShape, ShapeOf, InAttempt, Executes, At, ExecPcs, TimedPcs
  <2>2. PICK s \in RunStates :
               \/ Becomes(o, [t EXCEPT !.pc = "retain", !.seen = s])
               \/ Becomes(o, [t EXCEPT !.pc = "destroy", !.seen = s,
                                       !.todo = {t.attempt}, !.after = "results"])
    <3>1. (IF runState[t.run] = "cancelled" THEN "cancelled" ELSE t.seen) \in RunStates
      BY <1>0, <2>1 DEF Tasks
    <3> QED
      BY <1>2, <3>1 DEF Clean
  <2>3. CASE Becomes(o, [t EXCEPT !.pc = "retain", !.seen = s])
    <3>1. [t EXCEPT !.pc = "retain", !.seen = s] \in Tasks
      BY <1>0 DEF Tasks, Pcs, ExecPcs, TimedPcs
    <3> QED
      BY <1>0, <2>1, <2>3, <3>1, ReadingTaskStep DEF ShapeOf, InAttempt, Executes, Tasks
  <2>4. CASE Becomes(o, [t EXCEPT !.pc = "destroy", !.seen = s,
                                  !.todo = {t.attempt}, !.after = "results"])
    <3> DEFINE u == [t EXCEPT !.pc = "destroy", !.seen = s,
                              !.todo = {t.attempt}, !.after = "results"]
    <3>1. u \in Tasks
      BY <1>0, <2>1 DEF Tasks, Pcs, ExecPcs, TimedPcs
    <3>2. /\ u.pc = "destroy" /\ u.run = t.run /\ u.attempt = t.attempt
          /\ u.todo = {t.attempt} /\ u.after = "results"
      BY <1>0 DEF Tasks
    <3> HIDE DEF u
    <3> QED
      BY <1>0, <2>1, <2>4, <3>1, <3>2, ReadingTaskStep DEF ShapeOf, InAttempt, Executes, u
  <2> QED
    BY <2>2, <2>3, <2>4
<1>3. CASE Expire(o)
  <2>1. runState[t.run] # "absent" /\ t.attempt \in Attempts
    BY <1>0, <1>3 DEF Expire, TaskShape, ShapeOf, InAttempt, Executes, At, ExecPcs, TimedPcs
  <2>2. Becomes(o, [t EXCEPT !.pc = "reread", !.outcome = "expired", !.todo = {}])
    BY <1>3 DEF Expire
  <2>3. [t EXCEPT !.pc = "reread", !.outcome = "expired", !.todo = {}] \in Tasks
    BY <1>0, ZenonT(60) DEF Tasks, Pcs, ExecPcs, Outcomes
  <2> QED
    BY <1>0, <2>1, <2>2, <2>3, ReadingTaskStep DEF ShapeOf, InAttempt, Executes, Tasks
<1>4. CASE Reread(o)
  <2>1. runState[t.run] # "absent" /\ t.attempt \in Attempts /\ runState[t.run] \in RunStates
    BY <1>0, <1>4 DEF Reread, TaskShape, ShapeOf, InAttempt, Executes, At, ExecPcs, TimedPcs
  <2> DEFINE u == [t EXCEPT !.pc = "sweep", !.seen = runState[t.run],
                            !.report = cleanupFailed[t.run], !.kept = retained[t.run]]
  <2>2. Becomes(o, u)
    BY <1>4 DEF Reread
  <2>3. u \in Tasks /\ u.pc = "sweep" /\ u.run = t.run /\ u.attempt = t.attempt
    BY <1>0, <2>1 DEF Tasks, Pcs, ExecPcs
  <2> HIDE DEF u
  <2> QED
    BY <1>0, <2>1, <2>2, <2>3, ReadingTaskStep DEF ShapeOf, InAttempt, Executes
<1>5. CASE Sweep(o)
  <2>1. runState[t.run] # "absent" /\ t.attempt \in Attempts
    BY <1>0, <1>5 DEF Sweep, TaskShape, ShapeOf, InAttempt, Executes, At, ExecPcs, TimedPcs
  <2>2. PICK ids \in SUBSET Linked(t.run), s \in RunStates :
               Becomes(o, [t EXCEPT !.pc = IF ids = {} THEN "sweepresults" ELSE "destroy",
                                    !.todo = ids, !.after = "sweepresults", !.seen = s])
    <3> DEFINE ids == IF t.outcome = "expired" \/ t.seen = "cancelled"
                      THEN Linked(t.run) ELSE Linked(t.run) \ {t.kept}
               s == IF ids # {} /\ runState[t.run] = "cancelled" THEN "cancelled" ELSE t.seen
    <3>1. ids \in SUBSET Linked(t.run)
      OBVIOUS
    <3>2. s \in RunStates
      BY <1>0 DEF Tasks, RunStates, TerminalStates
    <3>3. Becomes(o, [t EXCEPT !.pc = IF ids = {} THEN "sweepresults" ELSE "destroy",
                               !.todo = ids, !.after = "sweepresults", !.seen = s])
      BY <1>5 DEF Sweep
    <3> HIDE DEF ids, s
    <3> QED
      BY <3>1, <3>2, <3>3
  <2> DEFINE u == [t EXCEPT !.pc = IF ids = {} THEN "sweepresults" ELSE "destroy",
                            !.todo = ids, !.after = "sweepresults", !.seen = s]
  <2>3. u \in Tasks /\ u.run = t.run /\ u.attempt = t.attempt /\ u.todo = ids
    BY <1>0, <2>2, ZenonT(60) DEF Tasks, Pcs, ExecPcs
  <2>4. u.after = "sweepresults" /\ u.pc = IF ids = {} THEN "sweepresults" ELSE "destroy"
    BY <1>0 DEF Tasks
  <2>5. Becomes(o, u)
    BY <2>2
  <2> HIDE DEF u
  <2> QED
    BY <1>0, <2>1, <2>3, <2>4, <2>5, ReadingTaskStep DEF ShapeOf, InAttempt, Executes
<1>6. CASE Fetch(o)
  <2>1. runState[t.run] # "absent"
    BY <1>0, <1>6 DEF Fetch, TaskShape, ShapeOf, At
  <2>2. PICK pc \in {"finish", "fail"} : Becomes(o, [t EXCEPT !.pc = pc])
    BY <1>6 DEF Fetch
  <2>3. [t EXCEPT !.pc = pc] \in Tasks
    BY <1>0 DEF Tasks, Pcs
  <2> QED
    BY <1>0, <2>1, <2>2, <2>3, ReadingTaskStep DEF ShapeOf, InAttempt, Executes, Tasks, ExecPcs, TimedPcs
<1>7. CASE ReclaimRead(o)
  <2>1. runState[t.run] # "absent" /\ runState[t.run] \in RunStates
    BY <1>0, <1>7 DEF ReclaimRead, TaskShape, ShapeOf, At
  <2> DEFINE ids == Linked(t.run) \ {retained[t.run]}
             u == [t EXCEPT !.pc = IF ids = {} THEN "rresults" ELSE "destroy",
                            !.seen = runState[t.run], !.todo = ids, !.after = "rresults",
                            !.report = NoMachine]
  <2>2. Becomes(o, u)
    BY <1>7 DEF ReclaimRead
  <2>3. u \in Tasks /\ u.run = t.run /\ u.todo = ids
    BY <1>0, <2>1, ZenonT(60) DEF Tasks, Pcs, ReclaimPcs
  <2>4. u.after = "rresults" /\ u.pc = IF ids = {} THEN "rresults" ELSE "destroy"
    BY <1>0 DEF Tasks
  <2>5. u.pc \notin ExecPcs
    BY <2>4 DEF ExecPcs, TimedPcs
  <2> HIDE DEF u
  <2> QED
    BY <1>0, <2>1, <2>2, <2>3, <2>4, <2>5, ReadingTaskStep DEF ShapeOf, InAttempt, Executes
<1> QED
  BY <1>1, <1>2, <1>3, <1>4, <1>5, <1>6, <1>7

-----------------------------------------------------------------------------
(* The executor and the teardown: steps that write the rows of RunStore.   *)

\* The writes a task makes are among the unfenced writes RunQueue expects.
LEMMA TaskWrites ==
    ASSUME UNCHANGED queueVars, NEW r \in Runs
    PROVE  /\ \A from, to \in RunStates : UpdateRunState(r, from, to) => [Next]_vars
           /\ \A state \in RunStates, report \in Attempts \cup {NoMachine} :
                 RecordRunResults(r, state, report) => [Next]_vars
           /\ \A report \in Attempts \cup {NoMachine} :
                 RecordRunFailure(r, report) => [Next]_vars
           /\ \A m \in Attempts :
                 /\ ReportRetentionFailure(r, m) => [Next]_vars
                 /\ ClearRetentionReport(r, m) => [Next]_vars
                 /\ RecordRunAttempt(r, m) => [Next]_vars
                 /\ CompleteRunAttempt(r, m) => [Next]_vars
           /\ UNCHANGED runVars => [Next]_vars
<1>1. UnfencedWrite(r) => Next
  BY DEF Next
<1> QED
  BY <1>1 DEF UnfencedWrite, vars

\* advance: the compare-and-set is an unfenced write, and the task goes on with
\* its record t, or with what it found.
LEMMA AdvanceAllowed ==
    ASSUME BaseInv, NEW o \in Owners, NEW next \in RunStates, NEW t, Advance(o, next, t),
           UNCHANGED queueVars, runState[task[o].run] \in RunStates
    PROVE  /\ [Next]_vars
           /\ \/ Becomes(o, [t EXCEPT !.seen = next])
              \/ Becomes(o, [task[o] EXCEPT !.seen = runState[task[o].run],
                                !.outcome = "final",
                                !.pc = IF At(o, "advance") THEN "reread" ELSE "clean"])
<1>1. task[o].run \in Runs /\ task[o].seen \in RunStates
  BY TaskFacts DEF Tasks
<1> QED
  BY <1>1, TaskWrites DEF Advance

\* WriteResults: record_run_results is an unfenced write, and the task goes on
\* with one of its two records.
LEMMA WriteResultsAllowed ==
    ASSUME BaseInv, NEW o \in Owners, NEW state \in RunStates, NEW accepted, NEW refused,
           WriteResults(o, state, accepted, refused), UNCHANGED queueVars
    PROVE  /\ [Next]_vars
           /\ Becomes(o, [accepted EXCEPT !.seen = state]) \/ Becomes(o, refused)
<1>1. task[o].run \in Runs /\ task[o].report \in Attempts \cup {NoMachine}
  BY TaskFacts DEF Tasks
<1> QED
  BY <1>1, TaskWrites DEF WriteResults

\* The writing steps of execute_created and reclaim_run.
LEMMA WritingSteps ==
    ASSUME BaseInv, NEW o \in Owners,
           \/ Record(o) \/ Prepare(o) \/ Mark(o) \/ Work(o) \/ Results(o) \/ SweepResults(o)
           \/ Complete(o) \/ Settle(o) \/ SettleFailure(o) \/ ReclaimResults(o)
    PROVE  StepKept
<1> DEFINE t == task[o]
<1>0. /\ t \in Tasks /\ t.run \in Runs /\ TaskShape(o) /\ ShapeOf(t)
      /\ t.seen \in RunStates /\ t.report \in Attempts \cup {NoMachine}
      /\ UNCHANGED queueVars /\ UNCHANGED <<machineVars, otherActors, faults>>
  BY TaskFacts, ZenonT(60) DEF Record, Prepare, Mark, Work, Results, SweepResults, Complete, Settle,
                   SettleFailure, ReclaimResults, StoreStep, Tasks, TaskShape
<1>i. t.pc # "idle"
  BY DEF Record, Prepare, Mark, Work, Results, SweepResults, Complete, Settle,
         SettleFailure, ReclaimResults, At
<1>r. runState[t.run] \in RunStates /\ runState[t.run] # "absent"
  BY <1>0, <1>i, TaskFacts DEF ShapeOf, At
<1> USE DEF ShapeOf, InAttempt, Executes
<1>1. CASE Record(o)
  <2>1. t.attempt \in Attempts /\ [Next]_vars
    BY <1>0, <1>1, TaskWrites DEF Record, At, ExecPcs
  <2>2. [t EXCEPT !.pc = "advance"] \in Tasks
    BY <1>0 DEF Tasks, Pcs, ExecPcs, TimedPcs
  <2>3. ShapeOf([t EXCEPT !.pc = "advance"])
    BY <1>0, <1>r, <2>1 DEF Tasks
  <2> QED
    BY <1>0, <1>1, <2>1, <2>2, <2>3, RowTaskStep DEF Record
<1>2. CASE Prepare(o)
  <2>1. t.pc = "advance" /\ t.attempt \in Attempts
    BY <1>0, <1>2 DEF Prepare, At, ExecPcs, TimedPcs
  <2>2. /\ [Next]_vars
        /\ \/ Becomes(o, [[t EXCEPT !.pc = "place"] EXCEPT !.seen = "preparing"])
           \/ Becomes(o, [t EXCEPT !.seen = runState[t.run], !.outcome = "final",
                                   !.pc = "reread"])
    BY <1>0, <1>2, <1>r, <2>1, AdvanceAllowed DEF Prepare, At, RunStates, ActiveStates
  <2>a. "preparing" \in RunStates
    BY DEF RunStates, ActiveStates
  <2>b. [[t EXCEPT !.pc = "place"] EXCEPT !.seen = "preparing"] \in Tasks
    BY <1>0, <2>a DEF Tasks, Pcs, ExecPcs, TimedPcs
  <2>3. [t EXCEPT !.seen = runState[t.run], !.outcome = "final", !.pc = "reread"] \in Tasks
    BY <1>0, <1>r DEF Tasks, Pcs, ExecPcs, Outcomes
  <2>4. /\ ShapeOf([[t EXCEPT !.pc = "place"] EXCEPT !.seen = "preparing"])
        /\ ShapeOf([t EXCEPT !.seen = runState[t.run], !.outcome = "final", !.pc = "reread"])
    BY <1>0, <1>r, <2>1 DEF Tasks
  <2> QED
    BY <1>0, <2>2, <2>b, <2>3, <2>4, RowTaskStep
<1>3. CASE Mark(o)
  <2>1. [Next]_vars /\ Becomes(o, [t EXCEPT !.pc = "work"])
    BY <1>0, <1>3, TaskWrites DEF Mark
  <2>2. [t EXCEPT !.pc = "work"] \in Tasks
    BY <1>0 DEF Tasks, Pcs, ExecPcs, TimedPcs
  <2>3. ShapeOf([t EXCEPT !.pc = "work"])
    BY <1>0, <1>3, <1>r DEF Mark, At, Tasks, ExecPcs, TimedPcs
  <2> QED
    BY <1>0, <2>1, <2>2, <2>3, RowTaskStep
<1>4. CASE Work(o)
  <2>1. t.pc = "work" /\ t.attempt \in Attempts /\ t.attempt \in Linked(t.run)
    BY <1>0, <1>4 DEF Work, At, ExecPcs, TimedPcs
  <2>2. ASSUME NEW next \in NextPhases(t.seen), Advance(o, next, t) PROVE StepKept
    <3>1. next \in RunStates
      BY <2>2 DEF NextPhases, RunStates, ActiveStates
    <3>2. /\ [Next]_vars
          /\ \/ Becomes(o, [t EXCEPT !.seen = next])
             \/ Becomes(o, [t EXCEPT !.seen = runState[t.run], !.outcome = "final",
                                     !.pc = "clean"])
      BY <1>0, <1>r, <2>1, <2>2, <3>1, AdvanceAllowed DEF At
    <3>3. /\ [t EXCEPT !.seen = next] \in Tasks
          /\ [t EXCEPT !.seen = runState[t.run], !.outcome = "final", !.pc = "clean"] \in Tasks
      <4>1. [t EXCEPT !.seen = next] \in Tasks
        BY <1>0, <3>1 DEF Tasks
      <4>2. "clean" \in Pcs /\ "final" \in Outcomes
        BY DEF Pcs, ExecPcs, TimedPcs, Outcomes
      <4>3. [t EXCEPT !.seen = runState[t.run], !.outcome = "final", !.pc = "clean"] \in Tasks
        BY <1>0, <1>r, <4>2 DEF Tasks
      <4> QED
        BY <4>1, <4>3
    <3>4. /\ ShapeOf([t EXCEPT !.seen = next])
          /\ ShapeOf([t EXCEPT !.seen = runState[t.run], !.outcome = "final", !.pc = "clean"])
      BY <1>0, <1>r, <2>1 DEF Tasks
    <3> QED
      BY <1>0, <3>2, <3>3, <3>4, RowTaskStep
  <2>3. ASSUME NEW outcome \in {"transient", "final", "setup", "ok", "notok"},
               Becomes(o, [t EXCEPT !.outcome = outcome, !.pc = "clean"]), UNCHANGED runVars
        PROVE  StepKept
    <3>1. [Next]_vars
      BY <1>0, <2>3, TaskWrites
    <3>2. [t EXCEPT !.outcome = outcome, !.pc = "clean"] \in Tasks
      BY <1>0, ZenonT(60) DEF Tasks, Pcs, ExecPcs, TimedPcs, Outcomes
    <3>3. ShapeOf([t EXCEPT !.outcome = outcome, !.pc = "clean"])
      BY <1>0, <1>r, <2>1 DEF Tasks
    <3> QED
      BY <1>0, <2>3, <3>1, <3>2, <3>3, RowTaskStep
  <2> QED
    BY <1>4, <2>2, <2>3 DEF Work
<1>5. CASE Results(o)
  <2>1. t.pc = "results" /\ t.attempt \in Attempts
    BY <1>0, <1>5 DEF Results, At, ExecPcs, TimedPcs
  <2>2. PICK pc \in {"sweep", "reread", "complete"}, outcome \in Outcomes :
               WriteResults(o, t.seen, [t EXCEPT !.pc = pc, !.outcome = outcome],
                            [t EXCEPT !.pc = "reread", !.outcome = "final"])
    <3> DEFINE pc == CASE t.seen = "cancelled" -> "sweep"
                       [] t.seen # "cancelled" /\ t.outcome \in Errors -> "reread"
                       [] OTHER -> "complete"
               outcome == IF t.seen = "cancelled" THEN "notok" ELSE t.outcome
    <3>1. pc \in {"sweep", "reread", "complete"}
      OBVIOUS
    <3>2. outcome \in Outcomes
      BY <1>0 DEF Tasks, Outcomes
    <3>3. WriteResults(o, t.seen, [t EXCEPT !.pc = pc, !.outcome = outcome],
                       [t EXCEPT !.pc = "reread", !.outcome = "final"])
      BY <1>5 DEF Results
    <3> HIDE DEF pc, outcome
    <3> QED
      BY <3>1, <3>2, <3>3
  <2>3. /\ [Next]_vars
        /\ \/ Becomes(o, [[t EXCEPT !.pc = pc, !.outcome = outcome] EXCEPT !.seen = t.seen])
           \/ Becomes(o, [t EXCEPT !.pc = "reread", !.outcome = "final"])
    BY <1>0, <2>2, WriteResultsAllowed
  <2>a. [[t EXCEPT !.pc = pc, !.outcome = outcome] EXCEPT !.seen = t.seen] \in Tasks
    BY <1>0 DEF Tasks, Pcs, ExecPcs
  <2>4. [t EXCEPT !.pc = "reread", !.outcome = "final"] \in Tasks
    BY <1>0 DEF Tasks, Pcs, ExecPcs, Outcomes
  <2>5. /\ ShapeOf([[t EXCEPT !.pc = pc, !.outcome = outcome] EXCEPT !.seen = t.seen])
        /\ ShapeOf([t EXCEPT !.pc = "reread", !.outcome = "final"])
    BY <1>0, <1>r, <2>1 DEF Tasks
  <2> QED
    BY <1>0, <2>3, <2>a, <2>4, <2>5, RowTaskStep
<1>6. CASE SweepResults(o)
  <2>1. t.pc = "sweepresults" /\ t.attempt \in Attempts
    BY <1>0, <1>6 DEF SweepResults, At, ExecPcs
  <2>2. /\ [Next]_vars
        /\ \/ Becomes(o, [[t EXCEPT !.pc = "complete"] EXCEPT !.seen = t.seen])
           \/ Becomes(o, [t EXCEPT !.pc = "fail"])
    BY <1>0, <1>6, WriteResultsAllowed DEF SweepResults
  <2>3. /\ [[t EXCEPT !.pc = "complete"] EXCEPT !.seen = t.seen] \in Tasks
        /\ [t EXCEPT !.pc = "fail"] \in Tasks
    BY <1>0 DEF Tasks, Pcs, ExecPcs
  <2>4. /\ ShapeOf([[t EXCEPT !.pc = "complete"] EXCEPT !.seen = t.seen])
        /\ ShapeOf([t EXCEPT !.pc = "fail"])
    BY <1>0, <1>r, <2>1 DEF Tasks, ExecPcs, TimedPcs
  <2> QED
    BY <1>0, <2>2, <2>3, <2>4, RowTaskStep
<1>7. CASE Complete(o)
  <2>1. t.pc = "complete" /\ t.attempt \in Attempts
    BY <1>0, <1>7 DEF Complete, At, ExecPcs
  <2>2. PICK pc \in {"finish", "fail", "settle", "read", "settlefail"} :
               /\ [Next]_vars
               /\ Becomes(o, [t EXCEPT !.pc = pc])
               /\ pc = "read" => t.attempt < MaxAttempts
    <3>1. CASE CompleteRunAttempt(t.run, t.attempt)
               /\ Becomes(o, [t EXCEPT
                    !.pc = CASE t.seen = "cancelled" -> IF t.report = NoMachine
                                                        THEN "finish" ELSE "fail"
                             [] t.seen # "cancelled" /\ t.outcome = "ok" -> "settle"
                             [] t.seen # "cancelled" /\ Retryable(t) -> "read"
                             [] OTHER -> "settlefail"])
      <4> DEFINE pc == CASE t.seen = "cancelled" -> IF t.report = NoMachine
                                                    THEN "finish" ELSE "fail"
                         [] t.seen # "cancelled" /\ t.outcome = "ok" -> "settle"
                         [] t.seen # "cancelled" /\ Retryable(t) -> "read"
                         [] OTHER -> "settlefail"
      <4>1. pc \in {"finish", "fail", "settle", "read", "settlefail"}
        OBVIOUS
      <4>2. pc = "read" => t.attempt < MaxAttempts
        BY DEF Retryable
      <4>3. [Next]_vars
        BY <1>0, <2>1, <3>1, TaskWrites
      <4>4. Becomes(o, [t EXCEPT !.pc = pc])
        BY <3>1
      <4> HIDE DEF pc
      <4> QED
        BY <4>1, <4>2, <4>3, <4>4
    <3>2. CASE Becomes(o, [t EXCEPT !.pc = "fail"]) /\ UNCHANGED runVars
      BY <1>0, <3>2, TaskWrites
    <3> QED
      BY <1>7, <3>1, <3>2 DEF Complete
  <2>3. [t EXCEPT !.pc = pc] \in Tasks
    BY <1>0 DEF Tasks, Pcs, ExecPcs
  <2>4. ShapeOf([t EXCEPT !.pc = pc])
    BY <1>0, <1>r, <2>1, <2>2 DEF Tasks, ExecPcs, TimedPcs
  <2> QED
    BY <1>0, <2>2, <2>3, <2>4, RowTaskStep
<1>8. CASE Settle(o)
  <2>1. /\ [Next]_vars
        /\ \/ Becomes(o, [[t EXCEPT !.pc = "fetch"] EXCEPT !.seen = "succeeded"])
           \/ Becomes(o, [t EXCEPT !.pc = "fail"])
    BY <1>0, <1>8, WriteResultsAllowed DEF Settle, RunStates, TerminalStates
  <2>2. /\ [[t EXCEPT !.pc = "fetch"] EXCEPT !.seen = "succeeded"] \in Tasks
        /\ [t EXCEPT !.pc = "fail"] \in Tasks
    BY <1>0, ZenonT(60) DEF Tasks, Pcs, ExecPcs, RunStates, TerminalStates
  <2>3. /\ ShapeOf([[t EXCEPT !.pc = "fetch"] EXCEPT !.seen = "succeeded"])
        /\ ShapeOf([t EXCEPT !.pc = "fail"])
    BY <1>0, <1>r DEF Tasks, ExecPcs, TimedPcs
  <2> QED
    BY <1>0, <2>1, <2>2, <2>3, RowTaskStep
<1>9. CASE SettleFailure(o)
  <2>1. [Next]_vars /\ Becomes(o, [t EXCEPT !.pc = "fetch"])
    BY <1>0, <1>9, TaskWrites DEF SettleFailure
  <2>2. [t EXCEPT !.pc = "fetch"] \in Tasks
    BY <1>0 DEF Tasks, Pcs, ExecPcs
  <2>3. ShapeOf([t EXCEPT !.pc = "fetch"])
    BY <1>0, <1>r DEF Tasks
  <2> QED
    BY <1>0, <2>1, <2>2, <2>3, RowTaskStep
<1>10. CASE ReclaimResults(o)
  <2>1. WriteResults(o, t.seen, IF t.report = NoMachine THEN [t EXCEPT !.pc = "finish"]
                                ELSE NoTask, NoTask)
    BY <1>10 DEF ReclaimResults
  <2>2. /\ [Next]_vars
        /\ \/ Becomes(o, [(IF t.report = NoMachine THEN [t EXCEPT !.pc = "finish"]
                           ELSE NoTask) EXCEPT !.seen = t.seen])
           \/ Becomes(o, NoTask)
    BY <1>0, <2>1, WriteResultsAllowed
  <2>3. \E u \in {[[t EXCEPT !.pc = "finish"] EXCEPT !.seen = t.seen],
                  [NoTask EXCEPT !.seen = t.seen], NoTask} : Becomes(o, u)
    BY <2>2
  <2>4. ASSUME NEW u \in {[[t EXCEPT !.pc = "finish"] EXCEPT !.seen = t.seen],
                          [NoTask EXCEPT !.seen = t.seen], NoTask}
        PROVE  u \in Tasks /\ (u.pc = "idle" \/ (u.pc = "finish" /\ u.run = t.run))
    BY <1>0, RestingTypes, ZenonT(60) DEF Tasks, Pcs
  <2>5. ASSUME NEW u \in {[[t EXCEPT !.pc = "finish"] EXCEPT !.seen = t.seen],
                          [NoTask EXCEPT !.seen = t.seen], NoTask}
        PROVE  ShapeOf(u)
    BY <1>r, <2>4 DEF ExecPcs, TimedPcs
  <2> QED
    BY <1>0, <2>2, <2>3, <2>4, <2>5, RowTaskStep
<1> QED
  BY <1>1, <1>2, <1>3, <1>4, <1>5, <1>6, <1>7, <1>8, <1>9, <1>10

-----------------------------------------------------------------------------
(* Machines: placement, retention and teardown.                            *)

\* A machine that changes its state is still linked, and so are all the others.
LEMMA MachineSet ==
    ASSUME BaseInv, NEW r \in Runs, NEW m \in Attempts, NEW s \in {"live", "destroyed"},
           machine' = [machine EXCEPT ![r][m] = s]
    PROVE  /\ machine' \in [Runs -> [Attempts -> MachineStates]]
           /\ LinksGrow
           /\ m \in Linked(r)'
           /\ \A q \in Runs, a \in Attempts :
                 machine'[q][a] = IF q = r /\ a = m THEN s ELSE machine[q][a]
<1>1. machine \in [Runs -> [Attempts -> MachineStates]]
  BY DEF BaseInv, ExecTypeOK
<1>2. \A q \in Runs, a \in Attempts :
         machine'[q][a] = IF q = r /\ a = m THEN s ELSE machine[q][a]
  BY <1>1
<1>3. machine' \in [Runs -> [Attempts -> MachineStates]]
  BY <1>1 DEF MachineStates
<1> QED
  BY <1>2, <1>3 DEF LinksGrow, Linked

\* A step of a task that changes machines but no row.
LEMMA MachineTaskStep ==
    ASSUME BaseInv, NEW o \in Owners, NEW t \in Tasks, Becomes(o, t), UNCHANGED vars,
           machine' \in [Runs -> [Attempts -> MachineStates]], LinksGrow,
           UNCHANGED <<retained, retainLeft, otherActors>>, faults' \in 0 .. MaxFaults,
           ShapeOf(t) \/ (t.pc = "mark" /\ runState[t.run] # "absent"
                          /\ t.attempt \in Linked(t.run)')
                      \/ (t.pc = "destroy" /\ runState[t.run] # "absent"
                          /\ t.attempt \in Linked(t.run)' /\ t.todo = {t.attempt}
                          /\ t.after = "reread")
    PROVE  StepKept
<1>1. /\ runState' = runState /\ retained' = retained
      /\ retained' \in [Runs -> Attempts \cup {NoMachine}]
      /\ retainLeft' \in [Runs -> 0 .. RetainTTL]
  BY DEF vars, runVars, BaseInv, ExecTypeOK
<1>2. RetainedLinked'
  BY <1>1 DEF RetainedLinked, LinksGrow, BaseInv, Shape
<1>3. task'[o] = t /\ t.run \in Runs
  BY BecomesOne DEF BaseInv, Tasks
<1>4. Linked(t.run) \subseteq Linked(t.run)' /\ Linked(t.run)' \subseteq Attempts
  BY <1>3 DEF LinksGrow, Linked
<1>5. TaskShape(o)'
  BY <1>1, <1>3, <1>4 DEF TaskShape, ShapeOf, InAttempt, Executes, ExecPcs, TimedPcs
<1> QED
  BY <1>1, <1>2, <1>5, TaskStepKeeps

\* acquire_sandbox and the rollback of a machine that did not come up.
LEMMA PlaceStep ==
    ASSUME BaseInv, NEW o \in Owners, Place(o)
    PROVE  StepKept
<1> DEFINE t == task[o]
<1>0. /\ t \in Tasks /\ t.run \in Runs /\ ShapeOf(t) /\ t.pc = "place"
      /\ faults \in 0 .. MaxFaults /\ UNCHANGED vars
      /\ UNCHANGED <<retained, retainLeft, otherActors>> /\ faults' = faults
  BY TaskFacts DEF Place, At, TaskShape
<1>1. t.attempt \in Attempts /\ runState[t.run] # "absent"
  BY <1>0 DEF ShapeOf, InAttempt, Executes, ExecPcs, TimedPcs
<1>2. CASE ScheduleOnNode(t.run, t.attempt)
           /\ (\/ Becomes(o, [t EXCEPT !.pc = "mark"])
               \/ \E outcome \in {"transient", "final"} : Becomes(o, RollBack(t, outcome)))
  <2>0. PICK r \in Runs, a \in Attempts : r = t.run /\ a = t.attempt
    BY <1>0, <1>1
  <2>1. /\ machine' \in [Runs -> [Attempts -> MachineStates]] /\ LinksGrow
        /\ a \in Linked(r)'
    BY <1>2, <2>0, MachineSet DEF ScheduleOnNode
  <2>2. PICK u : /\ Becomes(o, u)
                 /\ \/ u = [t EXCEPT !.pc = "mark"]
                    \/ \E outcome \in {"transient", "final"} : u = RollBack(t, outcome)
    BY <1>2
  <2>3. CASE u = [t EXCEPT !.pc = "mark"]
    <3>1. u \in Tasks /\ u.run = t.run /\ u.attempt = t.attempt /\ u.pc = "mark"
      BY <1>0, <2>3 DEF Tasks, Pcs, ExecPcs, TimedPcs
    <3> QED
      BY <1>0, <1>1, <2>0, <2>1, <2>2, <3>1, MachineTaskStep
  <2>4. ASSUME NEW outcome \in {"transient", "final"}, u = RollBack(t, outcome)
        PROVE  StepKept
    <3>1. u \in Tasks
      BY <1>0, <1>1, <2>4 DEF RollBack, Tasks, Pcs, ExecPcs, Outcomes
    <3>2. /\ u.run = t.run /\ u.attempt = t.attempt /\ u.pc = "destroy"
          /\ u.todo = {u.attempt} /\ u.after = "reread"
      BY <1>0, <2>4 DEF RollBack, Tasks
    <3> QED
      BY <1>0, <1>1, <2>0, <2>1, <2>2, <3>1, <3>2, MachineTaskStep
  <2> QED
    BY <2>2, <2>3, <2>4
<1>3. CASE /\ UNCHANGED machine
           /\ \E outcome \in {"transient", "final"} :
                 Becomes(o, [t EXCEPT !.outcome = outcome, !.pc = "reread"])
  <2>1. PICK outcome \in {"transient", "final"} :
               Becomes(o, [t EXCEPT !.outcome = outcome, !.pc = "reread"])
    BY <1>3
  <2>2. [t EXCEPT !.outcome = outcome, !.pc = "reread"] \in Tasks
    BY <1>0 DEF Tasks, Pcs, ExecPcs, Outcomes
  <2>3. ShapeOf([t EXCEPT !.outcome = outcome, !.pc = "reread"])
    BY <1>0, <1>1 DEF ShapeOf, InAttempt, Executes, Tasks
  <2>4. machine' \in [Runs -> [Attempts -> MachineStates]] /\ LinksGrow
    BY <1>3 DEF BaseInv, ExecTypeOK, LinksGrow, Linked
  <2> QED
    BY <1>0, <2>1, <2>2, <2>3, <2>4, MachineTaskStep
<1> QED
  BY <1>2, <1>3 DEF Place

\* retain_run_sandbox, or the report that it could not be recorded.
LEMMA RetainStep ==
    ASSUME BaseInv, NEW o \in Owners, Retain(o)
    PROVE  StepKept
<1> DEFINE t == task[o]
<1>0. /\ t \in Tasks /\ t.run \in Runs /\ ShapeOf(t) /\ t.pc = "retain"
      /\ faults \in 0 .. MaxFaults /\ UNCHANGED vars /\ UNCHANGED <<machine, otherActors>>
      /\ MaxFaults \in Nat /\ RetainTTL \in Nat
  BY TaskFacts, ExecAssumption DEF Retain, At, TaskShape
<1>1. t.attempt \in Attempts /\ runState[t.run] # "absent" /\ t.attempt \in Linked(t.run)
  BY <1>0 DEF ShapeOf, InAttempt, Executes, ExecPcs, TimedPcs
<1>2. CASE /\ RetainRunSandbox(t.run, t.attempt)
           /\ Becomes(o, [t EXCEPT !.pc = "results"]) /\ UNCHANGED faults
  <2> DEFINE u == [t EXCEPT !.pc = "results"]
  <2>1. /\ retained' \in [Runs -> Attempts \cup {NoMachine}]
        /\ retainLeft' \in [Runs -> 0 .. RetainTTL]
        /\ \A r \in Runs : retained'[r] \in {retained[r], t.attempt}
        /\ \A r \in Runs : r # t.run => retained'[r] = retained[r]
    BY <1>0, <1>1, <1>2 DEF RetainRunSandbox, BaseInv, ExecTypeOK
  <2>2. RetainedLinked' /\ LinksGrow /\ machine' \in [Runs -> [Attempts -> MachineStates]]
    BY <1>0, <1>1, <2>1 DEF RetainedLinked, Linked, LinksGrow, BaseInv, Shape, ExecTypeOK
  <2>3. u \in Tasks /\ u.pc = "results" /\ u.run = t.run /\ u.attempt = t.attempt
    BY <1>0 DEF Tasks, Pcs, ExecPcs, TimedPcs
  <2>4. task'[o] = u
    BY <1>2, BecomesOne DEF BaseInv
  <2>5. TaskShape(o)'
    BY <1>0, <1>1, <2>3, <2>4 DEF TaskShape, ShapeOf, InAttempt, Executes, vars, runVars
  <2> HIDE DEF u
  <2> QED
    BY <1>0, <1>2, <2>1, <2>2, <2>3, <2>5, TaskStepKeeps DEF u
<1>3. CASE /\ UNCHANGED faults \/ Fault
           /\ Becomes(o, [t EXCEPT !.pc = "destroy", !.todo = {t.attempt}, !.after = "results",
                                   !.report = t.attempt])
           /\ UNCHANGED <<retained, retainLeft>>
  <2> DEFINE u == [t EXCEPT !.pc = "destroy", !.todo = {t.attempt}, !.after = "results",
                            !.report = t.attempt]
  <2>1. faults' \in 0 .. MaxFaults
    BY <1>0, <1>3 DEF Fault
  <2>2. u \in Tasks
    BY <1>0, <1>1 DEF Tasks, Pcs, ExecPcs, TimedPcs
  <2>3. /\ u.pc = "destroy" /\ u.run = t.run /\ u.attempt = t.attempt
        /\ u.todo = {t.attempt} /\ u.after = "results"
    BY <1>0 DEF Tasks
  <2>4. ShapeOf(u)
    BY <1>0, <1>1, <2>3 DEF ShapeOf, InAttempt
  <2>5. machine' \in [Runs -> [Attempts -> MachineStates]] /\ LinksGrow
    BY <1>0 DEF BaseInv, ExecTypeOK, LinksGrow, Linked
  <2> HIDE DEF u
  <2> QED
    BY <1>0, <1>3, <2>1, <2>2, <2>4, <2>5, MachineTaskStep DEF u
<1> QED
  BY <1>2, <1>3 DEF Retain

\* What one teardown does to the machines: it is gone, or it stays and costs a
\* fault.
LEMMA TeardownEffect ==
    ASSUME BaseInv, NEW r \in Runs, NEW m \in Attempts, TornDown(r, m) \/ StaysUp(r, m)
    PROVE  /\ machine' \in [Runs -> [Attempts -> MachineStates]] /\ LinksGrow
           /\ faults' \in 0 .. MaxFaults
<1>0. faults \in 0 .. MaxFaults /\ MaxFaults \in Nat
      /\ machine \in [Runs -> [Attempts -> MachineStates]]
  BY ExecAssumption DEF BaseInv, ExecTypeOK
<1>1. CASE TornDown(r, m)
  BY <1>0, <1>1, MachineSet DEF TornDown
<1>2. CASE StaysUp(r, m)
  BY <1>0, <1>2 DEF StaysUp, Fault, LinksGrow, Linked
<1> QED
  BY <1>1, <1>2

\* destroy_with_retry, one machine at a time.
LEMMA DestroyStep ==
    ASSUME BaseInv, NEW o \in Owners, Destroy(o)
    PROVE  StepKept
<1> DEFINE t == task[o]
           m == Least(t.todo)
           rest == [t EXCEPT !.todo = @ \ {m},
                             !.pc = IF t.todo = {m} THEN t.after ELSE "destroy"]
           reported == [rest EXCEPT !.report = IF @ = NoMachine THEN m ELSE @]
<1>0. /\ t \in Tasks /\ t.run \in Runs /\ ShapeOf(t) /\ t.pc = "destroy"
      /\ UNCHANGED vars /\ UNCHANGED <<retained, retainLeft, otherActors>>
      /\ Linked(t.run) \in SUBSET Attempts
  BY TaskFacts DEF Destroy, At, TaskShape
<1>1. /\ t.todo # {} /\ t.todo \in SUBSET Attempts /\ t.todo \subseteq Linked(t.run)
      /\ t.after \in {"results", "reread", "sweepresults", "rresults"}
      /\ runState[t.run] # "absent"
      /\ t.after # "rresults" => t.attempt \in Attempts
  BY <1>0 DEF ShapeOf, InAttempt, Executes
<1>2. m \in t.todo /\ m \in Attempts
  BY <1>1, LeastMember
<1>3. t.todo # {m} => t.todo \ {m} # {}
  BY <1>1
<1>4. (TornDown(t.run, m) /\ Becomes(o, rest)) \/ (StaysUp(t.run, m) /\ Becomes(o, reported))
  BY DEF Destroy
<1>5. TornDown(t.run, m) \/ StaysUp(t.run, m)
  BY <1>4
<1> HIDE DEF m
<1>6. machine' \in [Runs -> [Attempts -> MachineStates]] /\ LinksGrow /\ faults' \in 0 .. MaxFaults
  BY <1>0, <1>2, <1>5, TeardownEffect, SMTT(40)
<1>7. PICK u : /\ Becomes(o, u)
               /\ u = rest \/ u = reported
  BY <1>4, Zenon
<1>8. rest \in Tasks
  BY <1>0, <1>1, ZenonT(60) DEF Tasks, Pcs, ExecPcs, TimedPcs, ReclaimPcs
<1>9. reported \in Tasks
  BY <1>2, <1>8 DEF Tasks
<1>10. /\ u \in Tasks /\ u.run = t.run /\ u.attempt = t.attempt /\ u.after = t.after
       /\ u.todo = t.todo \ {m} /\ u.pc = IF t.todo = {m} THEN t.after ELSE "destroy"
  BY <1>0, <1>7, <1>8, <1>9, ZenonT(60) DEF Tasks
<1>11. ShapeOf(u)
  BY <1>1, <1>3, <1>10 DEF ShapeOf, InAttempt, Executes, ExecPcs, TimedPcs
<1> QED
  BY <1>0, <1>6, <1>7, <1>10, <1>11, MachineTaskStep

-----------------------------------------------------------------------------
(* The cancel endpoint.                                                    *)

\* A step of one cancel request keeps the invariant when the queue allows it,
\* the links only grow, and its new record has its type and shape.
LEMMA CancelStepKeeps ==
    ASSUME BaseInv, [Next]_vars, NEW c \in Cancels, NEW x \in CancelRequests,
           CancelBecomes(c, x), CancelStep,
           machine' \in [Runs -> [Attempts -> MachineStates]], LinksGrow,
           faults' \in 0 .. MaxFaults,
           x.pc \notin {"unused", "answered"} => runState[x.run] # "absent",
           x.pc = "destroy" => x.todo # {} /\ x.todo \subseteq Linked(x.run)
    PROVE  StepKept
<1> USE DEF BaseInv
<1>1. RowInv'
  BY RowStep
<1>2. /\ cancel' \in [Cancels -> CancelRequests] /\ cancel'[c] = x
      /\ \A d \in Cancels : d # c => cancel'[d] = cancel[d]
  BY DEF CancelBecomes, ExecTypeOK
<1>3. task' = task /\ sweeper' = sweeper /\ retained' = retained /\ retainLeft' = retainLeft
  BY DEF CancelStep
<1>4. ExecTypeOK' /\ RetainedLinked'
  BY <1>2, <1>3 DEF ExecTypeOK, RetainedLinked, Shape, LinksGrow
<1>5. x.run \in Runs /\ (runState[x.run] # "absent" => runState'[x.run] # "absent")
  BY RunsStay DEF CancelRequests
<1>6. CancelShape(c)'
  BY <1>2, <1>5 DEF CancelShape, LinksGrow
<1>7. \A d \in Cancels : CancelShape(d)'
  BY <1>2, <1>6, OtherCancelKept DEF Shape
<1>8. (\A o \in Owners : TaskShape(o)') /\ (\A s \in Sweepers : SweeperShape(s)')
  BY <1>3, OtherTaskKept, OtherSweeperKept DEF Shape
<1> QED
  BY <1>1, <1>4, <1>7, <1>8 DEF Shape, StepKept

\* release_run_sandboxes starts with a list of machines that are linked.
LEMMA ReleasingShape ==
    ASSUME BaseInv, NEW x \in CancelRequests
    PROVE  /\ Releasing(x) \in CancelRequests /\ Releasing(x).run = x.run
           /\ Releasing(x).todo = Linked(x.run) /\ Releasing(x).report = x.report
           /\ Releasing(x).pc = IF Linked(x.run) = {} THEN "results" ELSE "destroy"
<1>1. Linked(x.run) \in SUBSET Attempts
  BY DEF Linked
<1> QED
  BY <1>1 DEF Releasing, CancelRequests

\* cancel_run and release_run_sandboxes are unfenced writers the queue expects.
LEMMA CancelSteps ==
    ASSUME BaseInv, NEW c \in Cancels, CancelRead(c) \/ CancelNext(c) \/ CancelDropped(c)
    PROVE  StepKept
<1> DEFINE x == cancel[c]
<1>0. /\ x \in CancelRequests /\ x.run \in Runs /\ x.seen \in RunStates /\ CancelShape(c)
      /\ machine \in [Runs -> [Attempts -> MachineStates]]
      /\ faults \in 0 .. MaxFaults /\ MaxFaults \in Nat
      /\ CancelStep
  BY ExecAssumption
     DEF BaseInv, ExecTypeOK, Shape, CancelRequests, CancelRead, CancelNext, CancelDropped,
         CancelWrite, CancelRecheck, CancelDestroy, CancelResults
<1>m. machine' = machine => machine' \in [Runs -> [Attempts -> MachineStates]] /\ LinksGrow
  BY <1>0 DEF LinksGrow, Linked
<1>r. x.pc \notin {"unused", "answered"} => runState[x.run] # "absent"
  BY <1>0 DEF CancelShape
<1>a. Answered \in CancelRequests /\ Answered.pc = "answered"
  BY RestingTypes
<1>1. CASE CancelRead(c)
  <2>1. PICK r \in Runs : /\ runState[r] # "absent"
           /\ LET y == [Unused EXCEPT !.run = r, !.seen = runState[r], !.pc = "cas"] IN
              CancelBecomes(c, CASE runState[r] \in ActiveStates -> y
                                 [] runState[r] = "cancelled" -> Releasing(y)
                                 [] OTHER -> Answered)
    BY <1>1 DEF CancelRead
  <2> DEFINE y == [Unused EXCEPT !.run = r, !.seen = runState[r], !.pc = "cas"]
  <2>2. runState[r] \in RunStates
    BY <2>1 DEF BaseInv, RowInv, TypeOK, RunTypeOK
  <2>3. y \in CancelRequests /\ y.run = r /\ y.pc = "cas"
    BY <2>2, RestingTypes DEF CancelRequests
  <2>4. UNCHANGED vars /\ machine' = machine /\ faults' = faults
    BY <1>1 DEF CancelRead
  <2>5. PICK u \in {y, Releasing(y), Answered} : CancelBecomes(c, u)
    BY <2>1
  <2>6. /\ u \in CancelRequests
        /\ u.pc \notin {"unused", "answered"} => u.run = r
        /\ u.pc = "destroy" => u.todo # {} /\ u.todo \subseteq Linked(u.run)
    BY <1>a, <2>3, <2>5, ReleasingShape, ZenonT(60)
  <2> QED
    BY <1>0, <1>m, <2>1, <2>4, <2>5, <2>6, CancelStepKeeps
<1>2. CASE CancelWrite(c)
  <2>1. machine' = machine /\ faults' = faults /\ UNCHANGED queueVars /\ x.pc = "cas"
    BY <1>2 DEF CancelWrite
  <2>2. CASE UpdateRunState(x.run, x.seen, "cancelled") /\ CancelBecomes(c, Releasing(x))
    <3>1. [Next]_vars
      BY <1>0, <2>1, <2>2, TaskWrites DEF RunStates, TerminalStates
    <3> QED
      BY <1>0, <1>m, <1>r, <2>1, <2>2, <3>1, ReleasingShape, CancelStepKeeps
  <2>3. CASE CancelBecomes(c, [x EXCEPT !.pc = "recheck"]) /\ UNCHANGED runVars
    <3>1. [Next]_vars
      BY <1>0, <2>1, <2>3, TaskWrites
    <3>2. [x EXCEPT !.pc = "recheck"] \in CancelRequests
      BY <1>0 DEF CancelRequests
    <3> QED
      BY <1>0, <1>m, <1>r, <2>1, <2>3, <3>1, <3>2, CancelStepKeeps DEF CancelRequests
  <2> QED
    BY <1>2, <2>2, <2>3 DEF CancelWrite
<1>3. CASE CancelRecheck(c)
  <2>1. UNCHANGED vars /\ machine' = machine /\ faults' = faults /\ x.pc = "recheck"
    BY <1>3 DEF CancelRecheck
  <2>2. PICK u \in {Releasing(x), Answered} : CancelBecomes(c, u)
    BY <1>3 DEF CancelRecheck
  <2>3. /\ u \in CancelRequests
        /\ u.pc \notin {"unused", "answered"} => u.run = x.run
        /\ u.pc = "destroy" => u.todo # {} /\ u.todo \subseteq Linked(u.run)
    BY <1>0, <1>a, <2>2, ReleasingShape
  <2> QED
    BY <1>0, <1>m, <1>r, <2>1, <2>2, <2>3, CancelStepKeeps
<1>4. CASE CancelDestroy(c)
  <2> DEFINE m == Least(x.todo)
             rest == [x EXCEPT !.todo = @ \ {m},
                               !.pc = IF x.todo = {m} THEN "results" ELSE "destroy"]
  <2>1. UNCHANGED vars /\ x.pc = "destroy"
    BY <1>4 DEF CancelDestroy
  <2>2. x.todo \in SUBSET Attempts /\ x.todo # {} /\ x.todo \subseteq Linked(x.run)
    BY <1>0, <2>1 DEF CancelShape, CancelRequests
  <2>3. m \in x.todo /\ m \in Attempts
    BY <2>2, LeastMember
  <2>4. \/ TornDown(x.run, m) /\ CancelBecomes(c, rest)
        \/ StaysUp(x.run, m) /\ CancelBecomes(c, [rest EXCEPT !.report = m])
    BY <1>4 DEF CancelDestroy
  <2> HIDE DEF m
  <2>5. /\ machine' \in [Runs -> [Attempts -> MachineStates]] /\ LinksGrow
        /\ faults' \in 0 .. MaxFaults
    BY <1>0, <2>3, <2>4, TeardownEffect
  <2>6. PICK u \in {rest, [rest EXCEPT !.report = m]} : CancelBecomes(c, u)
    BY <2>4
  <2>7. rest \in CancelRequests
    BY <1>0, <2>2 DEF CancelRequests
  <2>8. /\ u \in CancelRequests /\ u.run = x.run /\ u.todo = x.todo \ {m}
        /\ u.pc = IF x.todo = {m} THEN "results" ELSE "destroy"
    BY <1>0, <2>3, <2>6, <2>7, ZenonT(60) DEF CancelRequests
  <2> QED
    BY <1>0, <1>r, <2>1, <2>2, <2>5, <2>6, <2>8, CancelStepKeeps
<1>5. CASE CancelResults(c)
  <2>1. /\ CancelBecomes(c, Answered) /\ machine' = machine /\ faults' = faults
        /\ [Next]_vars
    BY <1>0, <1>5, TaskWrites DEF CancelResults, CancelRequests, RunStates, TerminalStates
  <2> QED
    BY <1>0, <1>a, <1>m, <2>1, CancelStepKeeps
<1>6. CASE CancelDropped(c)
  <2>1. /\ CancelBecomes(c, Answered) /\ machine' = machine /\ faults' \in 0 .. MaxFaults
        /\ UNCHANGED vars
    BY <1>0, <1>6 DEF CancelDropped, Fault
  <2> QED
    BY <1>0, <1>a, <1>m, <2>1, CancelStepKeeps
<1> QED
  BY <1>1, <1>2, <1>3, <1>4, <1>5, <1>6 DEF CancelNext

-----------------------------------------------------------------------------
(* The retention sweepers.                                                 *)

\* A step of one sweeper keeps the invariant when the queue allows it, the links
\* only grow, and its new record has its type and shape.
LEMMA SweeperStepKeeps ==
    ASSUME BaseInv, [Next]_vars, NEW s \in Sweepers, NEW x \in Expiries,
           SweeperBecomes(s, x), SweeperStep,
           machine' \in [Runs -> [Attempts -> MachineStates]], LinksGrow,
           retained' \in [Runs -> Attempts \cup {NoMachine}],
           \A r \in Runs : retained'[r] \in {retained[r], NoMachine},
           retainLeft' \in [Runs -> 0 .. RetainTTL],
           faults' \in 0 .. MaxFaults,
           x.pc # "idle" => runState[x.run] # "absent" /\ x.machine \in Linked(x.run)
    PROVE  StepKept
<1> USE DEF BaseInv
<1>1. RowInv'
  BY RowStep
<1>2. /\ sweeper' \in [Sweepers -> Expiries] /\ sweeper'[s] = x
      /\ \A z \in Sweepers : z # s => sweeper'[z] = sweeper[z]
  BY DEF SweeperBecomes, ExecTypeOK
<1>3. task' = task /\ cancel' = cancel
  BY DEF SweeperStep
<1>4. ExecTypeOK' /\ RetainedLinked'
  BY <1>2, <1>3 DEF ExecTypeOK, RetainedLinked, Shape, LinksGrow
<1>5. x.run \in Runs /\ (runState[x.run] # "absent" => runState'[x.run] # "absent")
  BY RunsStay DEF Expiries
<1>6. SweeperShape(s)'
  BY <1>2, <1>5 DEF SweeperShape, LinksGrow
<1>7. \A z \in Sweepers : SweeperShape(z)'
  BY <1>2, <1>6, OtherSweeperKept DEF Shape
<1>8. (\A o \in Owners : TaskShape(o)') /\ (\A c \in Cancels : CancelShape(c)')
  BY <1>3, OtherTaskKept, OtherCancelKept DEF Shape
<1> QED
  BY <1>1, <1>4, <1>7, <1>8 DEF Shape, StepKept

\* sweep_once and expire_retention are unfenced writers the queue expects.
LEMMA SweeperSteps ==
    ASSUME BaseInv, NEW s \in Sweepers, SweeperNext(s)
    PROVE  StepKept
<1> DEFINE x == sweeper[s]
<1>0. /\ x \in Expiries /\ x.run \in Runs /\ SweeperShape(s) /\ SweeperStep
      /\ machine \in [Runs -> [Attempts -> MachineStates]]
      /\ retained \in [Runs -> Attempts \cup {NoMachine}]
      /\ retainLeft \in [Runs -> 0 .. RetainTTL] /\ RetainTTL \in Nat
      /\ faults \in 0 .. MaxFaults /\ RetainedLinked
  BY ExecAssumption
     DEF BaseInv, ExecTypeOK, Shape, Expiries, SweeperNext, ExpireRetention,
         RetentionDestroy, RetentionReport, RetentionClear
<1>m. machine' = machine => machine' \in [Runs -> [Attempts -> MachineStates]] /\ LinksGrow
  BY <1>0 DEF LinksGrow, Linked
<1>r. x.pc # "idle" => /\ runState[x.run] # "absent" /\ x.machine \in Linked(x.run)
                       /\ x.machine \in Attempts
  BY <1>0 DEF SweeperShape, Linked
<1>a. Resting \in Expiries /\ Resting.pc = "idle"
  BY RestingTypes
<1>1. CASE ExpireRetention(s)
  <2>1. PICK r \in Runs :
           /\ retained[r] # NoMachine /\ IsTerminal(runState[r])
           /\ SweeperBecomes(s, [pc |-> "destroy", run |-> r, machine |-> retained[r]])
    BY <1>1 DEF ExpireRetention
  <2>2. UNCHANGED vars /\ machine' = machine /\ retained' = retained
        /\ retainLeft' = retainLeft /\ faults' = faults
    BY <1>1 DEF ExpireRetention, machineVars
  <2>3. [pc |-> "destroy", run |-> r, machine |-> retained[r]] \in Expiries
    BY <1>0 DEF Expiries
  <2>4. runState[r] # "absent" /\ retained[r] \in Linked(r)
    BY <1>0, <2>1, TerminalIsRunState DEF RetainedLinked
  <2> QED
    BY <1>0, <1>m, <2>1, <2>2, <2>3, <2>4, SweeperStepKeeps
<1>2. CASE RetentionDestroy(s)
  <2>1. /\ UNCHANGED vars /\ retained' = retained /\ retainLeft' = retainLeft
        /\ x.pc = "destroy" /\ (TornDown(x.run, x.machine) \/ StaysUp(x.run, x.machine))
    BY <1>2 DEF RetentionDestroy
  <2>2. /\ machine' \in [Runs -> [Attempts -> MachineStates]] /\ LinksGrow
        /\ faults' \in 0 .. MaxFaults
    BY <1>0, <1>r, <2>1, TeardownEffect
  <2>3. PICK pc \in {"clear", "report"} : SweeperBecomes(s, [x EXCEPT !.pc = pc])
    BY <1>2 DEF RetentionDestroy
  <2>4. /\ [x EXCEPT !.pc = pc] \in Expiries /\ [x EXCEPT !.pc = pc].run = x.run
        /\ [x EXCEPT !.pc = pc].machine = x.machine
    BY <1>0 DEF Expiries
  <2> QED
    BY <1>0, <1>r, <2>1, <2>2, <2>3, <2>4, SweeperStepKeeps
<1>3. CASE RetentionReport(s)
  <2>1. /\ machine' = machine /\ retained' = retained /\ retainLeft' = retainLeft
        /\ faults' = faults /\ UNCHANGED queueVars /\ x.pc = "report"
        /\ SweeperBecomes(s, Resting)
    BY <1>3 DEF RetentionReport, machineVars
  <2>2. [Next]_vars
    BY <1>0, <1>3, <1>r, <2>1, TaskWrites DEF RetentionReport
  <2> QED
    BY <1>0, <1>a, <1>m, <2>1, <2>2, SweeperStepKeeps
<1>4. CASE RetentionClear(s)
  <2>1. /\ machine' = machine /\ faults' = faults /\ UNCHANGED queueVars /\ x.pc = "clear"
        /\ SweeperBecomes(s, Resting)
    BY <1>4 DEF RetentionClear
  <2>2. [Next]_vars
    BY <1>0, <1>4, <1>r, <2>1, TaskWrites DEF RetentionClear
  <2>3. /\ retained' \in [Runs -> Attempts \cup {NoMachine}]
        /\ \A r \in Runs : retained'[r] \in {retained[r], NoMachine}
        /\ retainLeft' \in [Runs -> 0 .. RetainTTL]
    BY <1>0, <1>4 DEF RetentionClear
  <2> QED
    BY <1>0, <1>a, <1>m, <2>1, <2>2, <2>3, SweeperStepKeeps
<1> QED
  BY <1>1, <1>2, <1>3, <1>4 DEF SweeperNext

-----------------------------------------------------------------------------
(* Submissions, deletions, the clock, and the theorems.                    *)

\* The clock of the queue and the retention countdown move together.
LEMMA TimeStep ==
    ASSUME BaseInv, TimePasses
    PROVE  StepKept
<1> USE DEF BaseInv
<1>1. [Next]_vars
  BY DEF TimePasses, Next
<1>2. /\ machine' = machine /\ retained' = retained /\ task' = task
      /\ cancel' = cancel /\ sweeper' = sweeper
  BY DEF TimePasses, otherActors
<1>3. retainLeft' \in [Runs -> 0 .. RetainTTL]
  BY CountDownBounds, ExecAssumption DEF TimePasses, ExecTypeOK
<1>4. faults' \in 0 .. MaxFaults
  BY ExecAssumption DEF TimePasses, Fault, ExecTypeOK
<1>5. ExecTypeOK' /\ LinksGrow /\ RetainedLinked'
  BY <1>2, <1>3, <1>4 DEF ExecTypeOK, LinksGrow, Linked, Shape, RetainedLinked
<1>6. RowInv'
  BY <1>1, RowStep
<1> QED
  BY <1>1, <1>2, <1>5, <1>6, OtherTaskKept, OtherCancelKept, OtherSweeperKept
     DEF Shape, StepKept

\* A tenant's DELETE touches a machine and nothing else.
LEMMA DeleteStep ==
    ASSUME BaseInv, NEW r \in Runs, NEW m \in Attempts, DeleteMachine(r, m)
    PROVE  StepKept
<1> USE DEF BaseInv
<1>1. UNCHANGED vars /\ TornDown(r, m)
  BY DEF DeleteMachine
<1>2. /\ retained' = retained /\ retainLeft' = retainLeft /\ task' = task
      /\ cancel' = cancel /\ sweeper' = sweeper
  BY DEF DeleteMachine, otherActors
<1>3. /\ machine' \in [Runs -> [Attempts -> MachineStates]] /\ LinksGrow
      /\ faults' \in 0 .. MaxFaults
  BY <1>1, TeardownEffect
<1>4. ExecTypeOK' /\ RetainedLinked'
  BY <1>2, <1>3 DEF ExecTypeOK, LinksGrow, Shape, RetainedLinked
<1>5. RowInv'
  BY <1>1, RowStep
<1> QED
  BY <1>1, <1>2, <1>3, <1>4, <1>5, OtherTaskKept, OtherCancelKept, OtherSweeperKept
     DEF Shape, StepKept

\* Nothing runs and nothing is linked at first.
LEMMA BaseInit == ExecInit => BaseInv
<1> SUFFICES ASSUME ExecInit PROVE BaseInv
  OBVIOUS
<1>1. RowInv
  BY RowInit DEF ExecInit
<1>2. ExecTypeOK
  BY RestingTypes, ExecAssumption DEF ExecInit, ExecTypeOK, MachineStates, NoMachine
<1>3. Shape
  BY RestingTypes
     DEF ExecInit, Shape, TaskShape, ShapeOf, InAttempt, Executes, ExecPcs, TimedPcs,
         CancelShape, SweeperShape, RetainedLinked
<1> QED
  BY <1>1, <1>2, <1>3 DEF BaseInv

\* Every step of the control plane is one the queue allows, and keeps the
\* invariant.
LEMMA BaseStep ==
    ASSUME BaseInv, [ExecNext]_allVars
    PROVE  StepKept
<1>1. ASSUME NEW o \in Owners, TaskStep(o) PROVE StepKept
  BY <1>1, ReadingSteps, WritingSteps, PlaceStep, RetainStep, DestroyStep, DispatcherSteps
     DEF TaskStep
<1>2. ASSUME NEW o \in Owners,
             \/ DispatchRecovery(o) \/ DispatchClaim(o)
             \/ Heartbeat(o) \/ HeartbeatTimeout(o) \/ Crash(o)
      PROVE  StepKept
  BY <1>2, DispatcherSteps
<1>3. ASSUME NEW r \in Runs, Submit(r) PROVE StepKept
  <2>1. [Next]_vars /\ UNCHANGED execVars
    BY <1>3 DEF Submit, Next
  <2> QED
    BY <2>1, QuietStep
<1>4. CASE UNCHANGED allVars
  <2>1. [Next]_vars /\ UNCHANGED execVars
    BY <1>4 DEF allVars
  <2> QED
    BY <2>1, QuietStep
<1> QED
  BY <1>1, <1>2, <1>3, <1>4, CancelSteps, SweeperSteps, TimeStep, DeleteStep DEF ExecNext

\* The invariant holds in every behaviour of the control plane.
LEMMA BaseInvariant == ExecSpec => []BaseInv
<1>1. BaseInv /\ [ExecNext]_allVars => BaseInv'
  BY BaseStep DEF StepKept
<1> QED
  BY <1>1, BaseInit, PTL DEF ExecSpec

\* Whatever the tasks, requests and sweepers remember keeps its type: no attempt
\* beyond max_attempts is begun, and the retention and fault counters stay in
\* their ranges.
THEOREM ExecTypesHold == ExecSpec => []ExecTypeOK
BY BaseInvariant, PTL DEF BaseInv

\* The dispatcher, the executor, the cancel endpoint and the sweepers use the
\* queue only as it lets its callers use it.
THEOREM QueueImplemented == ExecSpec => ImplementsQueue
<1>1. ExecInit => Init
  BY DEF ExecInit
<1>2. BaseInv /\ [ExecNext]_allVars => [Next]_vars
  BY BaseStep DEF StepKept
<1> QED
  BY <1>1, <1>2, BaseInvariant, PTL DEF ExecSpec, ImplementsQueue, Spec

\* So what RunQueueProofs shows of a queue with arbitrary callers holds of the
\* control plane: a verdict is final and a grant is fenced although executors
\* act on stale reads, limits, deadlines and idempotency keys are respected, idle
\* tenants go first, and no request is executed twice.
THEOREM QueueGuarantees ==
    ExecSpec => /\ []WithinLimits /\ []LeaseWithinDeadline /\ []TeardownHasVerdict
                /\ []OneRunPerKey /\ VerdictFinal /\ ExecutedOnce /\ OwnershipFenced
                /\ FirstReasonKept /\ IdleTenantFirst
<1>1. ExecSpec => Spec
  BY QueueImplemented DEF ImplementsQueue
<1> QED
  BY <1>1, LimitsHold, LeaseWithinDeadlineHolds, TeardownHasVerdictHolds, OneRunPerKeyHolds,
     VerdictFinalHolds, ExecutedOnceHolds, OwnershipFencedHolds, FirstReasonKeptHolds,
     IdleTenantFirstHolds

=============================================================================
