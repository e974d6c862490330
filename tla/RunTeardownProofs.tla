-------------------------- MODULE RunTeardownProofs --------------------------
(***************************************************************************)
(* Theorems about the machines of RunExecution, for any number of runs,    *)
(* owner ids, cancel requests, sweepers, attempts and faults: one machine  *)
(* at a time, a cancel that releases everything, reports that are true,    *)
(* and the promise of RunPromise.                                          *)
(***************************************************************************)
EXTENDS RunExecutionProofs

-----------------------------------------------------------------------------
(* The inductive invariant: what the tasks, requests and sweepers at work  *)
(* on a run know about its verdict, its grant and its machines.            *)

Live(r) == {a \in Attempts : machine[r][a] = "live"}

\* The machines somebody has to tear down.
Loose(r) == Live(r) \ {retained[r]}

\* Before placement; on the machine of the attempt; after a teardown pass.
Early == {"read", "record", "advance", "place"}
OnMachine == {"mark", "work", "clean", "retain"}
Settling == {"results", "sweepresults", "complete", "settle", "settlefail", "rresults"}

\* The verdict and the grant behind a task: an executor without a verdict still
\* owns its row, a teardown follows a verdict, and a final state once seen is
\* the state of the run.
StandsOf(o, t) ==
    /\ Executes(t) =>
          /\ status[t.run] \notin {"absent", "queued"}
          /\ ~IsTerminal(runState[t.run]) => owner[t.run] = o
          /\ (t.pc # "fetch" /\ owner[t.run] = o) => runState[t.run] # "failed"
    /\ Reclaims(t) => IsTerminal(runState[t.run]) /\ reason[t.run] # NoReason
    /\ t.pc = "finish" => IsTerminal(runState[t.run])
    /\ (t.pc # "idle" /\ IsTerminal(t.seen)) => runState[t.run] = t.seen

\* The machines behind an executor: none before placement, its own afterwards,
\* and a retry is only possible while nothing is retained.
ExecutorHolds(t) ==
    /\ t.pc \in Early => Live(t.run) = {}
    /\ InAttempt(t) => /\ Live(t.run) \subseteq {t.attempt}
                       /\ retained[t.run] \in {NoMachine, t.attempt}
    /\ t.pc \in Early \cup OnMachine => retained[t.run] = NoMachine /\ t.kept = NoMachine
    /\ t.pc = "retain" => AllowRetention(t)
    /\ Executes(t) =>
          /\ (t.outcome = "transient" /\ t.attempt < MaxAttempts) =>
                retained[t.run] = NoMachine /\ t.kept = NoMachine
          /\ t.kept # NoMachine => t.kept = retained[t.run] \/ t.kept \notin Live(t.run)

\* The machines behind a teardown: what is loose is still listed, and a pass
\* that ends without a report leaves nothing loose.
TeardownHolds(o, t) ==
    /\ t.pc = "destroy" => t.report # NoMachine \/ Loose(t.run) \subseteq t.todo
    /\ t.pc \in Settling => t.report # NoMachine \/ Loose(t.run) = {}
    /\ (t.pc = "fetch" /\ owner[t.run] = o /\ cleanupFailed[t.run] = NoMachine)
          => Loose(t.run) = {}
    /\ (t.pc = "finish" /\ owner[t.run] = o) => Loose(t.run) = {}

TaskInv(o) ==
    StandsOf(o, task[o]) /\ ExecutorHolds(task[o]) /\ TeardownHolds(o, task[o])

OneExecutor ==
    \A o, p \in Owners :
        Executes(task[o]) /\ Executes(task[p]) /\ task[o].run = task[p].run => o = p

RunHolds(r) ==
    /\ status[r] \in {"absent", "queued"} => Live(r) = {} /\ retained[r] = NoMachine
    /\ retained[r] # NoMachine => Live(r) \subseteq {retained[r]}
    /\ \A a, b \in Live(r) : a = b

CancelHolds(c) ==
    /\ cancel[c].pc \in {"destroy", "results"} => runState[cancel[c].run] = "cancelled"
    /\ cancel[c].pc = "destroy" =>
          cancel[c].report # NoMachine \/ Live(cancel[c].run) \subseteq cancel[c].todo
    /\ cancel[c].pc = "results" =>
          cancel[c].report # NoMachine \/ Live(cancel[c].run) = {}

SweeperHolds(s) ==
    /\ sweeper[s].pc # "idle" => IsTerminal(runState[sweeper[s].run])
    /\ sweeper[s].pc = "clear" => machine[sweeper[s].run][sweeper[s].machine] = "destroyed"

HoldInv ==
    /\ \A o \in Owners : TaskInv(o)
    /\ OneExecutor
    /\ \A r \in Runs : RunHolds(r)
    /\ \A c \in Cancels : CancelHolds(c)
    /\ \A s \in Sweepers : SweeperHolds(s)

\* One step as it looks to a task p at work on run r that does not take it.  No
\* grant is handed to p and an executor's run is not failed under its grant, ...
RowsUndisturbed(p, r) ==
    /\ owner'[r] = p => owner[r] = p
    /\ Executes(task[p]) =>
          /\ (owner'[r] = p /\ runState'[r] = "failed") => runState[r] = "failed"
          /\ cleanupFailed'[r] = NoMachine => cleanupFailed[r] = NoMachine \/ Loose(r)' = {}

\* ... and machines only go away: an executor gets none it did not place, and
\* only a machine that is gone stops being retained.
RunShrinks(r) ==
    /\ Live(r)' \subseteq Live(r)
    /\ \/ retained'[r] = retained[r]
       \/ retained'[r] = NoMachine /\ retained[r] \notin Live(r)'

MachinesUndisturbed(p, r) ==
    /\ Executes(task[p]) => RunShrinks(r)
    /\ IsTerminal(runState[r]) => Loose(r)' \subseteq Loose(r)

\* No machine is brought up for a run with a verdict, and none comes back.
NoneComesBack ==
    \A r \in Runs :
        /\ IsTerminal(runState[r]) => Live(r)' \subseteq Live(r)
        /\ \A a \in Attempts : machine[r][a] = "destroyed" => machine'[r][a] = "destroyed"

-----------------------------------------------------------------------------
(* What a step leaves standing.                                            *)

\* A step of the queue keeps verdicts, reasons and dispatched rows, and a
\* dispatched row changes hands only when its run has a verdict.
LEMMA QueueMoves ==
    ASSUME BaseInv, StepKept, NEW r \in Runs
    PROVE  /\ IsTerminal(runState[r]) => runState'[r] = runState[r]
           /\ reason[r] # NoReason => reason'[r] = reason[r]
           /\ status[r] \notin {"absent", "queued"} =>
                 /\ status'[r] \notin {"absent", "queued"}
                 /\ ~IsTerminal(runState'[r]) => owner'[r] = owner[r]
           /\ status'[r] \in {"absent", "queued"} => status[r] \in {"absent", "queued"}
<1>0. RowInv /\ RowInv' /\ [Next]_vars
  BY DEF BaseInv, StepKept
<1>1. VerdictKept /\ ReasonKept /\ NotExecutedAgain
  BY <1>0, VerdictFinalStep, ReasonKeptStep, ExecutedOnceStep
<1>2. status[r] # "absent" => status'[r] # "absent"
  BY <1>0, RunsStay DEF RowInv, RowShape
<1>3. status[r] \in Statuses /\ owner \in [Runs -> Owners \cup {NoOwner}]
  BY <1>0 DEF RowInv, TypeOK
<1>4. status[r] \notin {"absent", "queued"} => status'[r] \notin {"absent", "queued"}
  BY <1>1, <1>2, <1>3 DEF NotExecutedAgain, Statuses
<1>5. ASSUME status[r] \notin {"absent", "queued"}, ~IsTerminal(runState'[r])
      PROVE  owner'[r] = owner[r]
  <2>1. ASSUME NEW q \in Runs, EnqueueRun(q) \/ UnfencedWrite(q) PROVE owner'[r] = owner[r]
    BY <2>1 DEF EnqueueRun, UnfencedWrite, queueVars, leaseVars
  <2>2. ASSUME NEW q \in Runs, NEW o \in Owners, ClaimRun(q, o) PROVE owner'[r] = owner[r]
    BY <1>3, <1>5, <2>2 DEF ClaimRun, Claimable, Eligible
  <2>3. ASSUME NEW q \in Runs, NEW o \in Owners, RecoverRun(q, o) PROVE owner'[r] = owner[r]
    <3>1. CASE q = r
      <4>1. runState[r] # "absent" /\ RetireRun(r)
        BY <1>0, <1>5, <2>3, <3>1 DEF RecoverRun, RowInv, RowShape
      <4> QED
        BY <1>0, <1>5, <4>1, RetireGivesVerdict DEF RowInv, TypeOK
    <3>2. CASE q # r
      BY <1>3, <2>3, <3>2 DEF RecoverRun
    <3> QED
      BY <3>1, <3>2
  <2>4. ASSUME NEW q \in Runs, NEW o \in Owners, HeartbeatRun(q, o) \/ FailRun(q, o)
        PROVE  owner'[r] = owner[r]
    BY <2>4 DEF HeartbeatRun, FailRun
  <2>5. ASSUME NEW q \in Runs, NEW o \in Owners, FinishRun(q, o) PROVE owner'[r] = owner[r]
    BY <1>3, <1>5, <2>5 DEF FinishRun, runVars
  <2>6. CASE Tick \/ UNCHANGED vars
    BY <2>6 DEF Tick, vars, queueVars, leaseVars
  <2> QED
    BY <1>0, <2>1, <2>2, <2>3, <2>4, <2>5, <2>6 DEF Next
<1>6. status'[r] \in {"absent", "queued"} => status[r] \in {"absent", "queued"}
  BY <1>4
<1> QED
  BY <1>1, <1>4, <1>5, <1>6 DEF VerdictKept, ReasonKept

\* A task keeps its invariant through a step it does not take.
LEMMA UndisturbedKeeps ==
    ASSUME BaseInv, HoldInv, StepKept, NEW p \in Owners, NEW r \in Runs, task[p].run = r,
           task'[p] = task[p], RowsUndisturbed(p, r), MachinesUndisturbed(p, r)
    PROVE  TaskInv(p)'
<1> DEFINE t == task[p]
<1>0. StandsOf(p, t) /\ ExecutorHolds(t) /\ TeardownHolds(p, t) /\ t.run = r /\ t \in Tasks
  BY DEF HoldInv, TaskInv, BaseInv, ExecTypeOK
<1>1. StandsOf(p, task[p])'
  BY <1>0, QueueMoves DEF StandsOf, Executes, Reclaims, RowsUndisturbed
<1>2. ExecutorHolds(task[p])'
  <2>1. t.pc \in Early \cup OnMachine => Executes(t)
    BY DEF Early, OnMachine, Executes, ExecPcs, TimedPcs
  <2>2. InAttempt(t) => Executes(t)
    BY DEF InAttempt
  <2>3. AllowRetention(t) => AllowRetention(task[p])'
    BY DEF AllowRetention
  <2>4. /\ Executes(t) <=> Executes(task[p])'
        /\ InAttempt(t) <=> InAttempt(task[p])'
    BY DEF Executes, InAttempt
  <2> QED
    BY <1>0, <2>1, <2>2, <2>3, <2>4 DEF ExecutorHolds, MachinesUndisturbed, RunShrinks
<1>3. TeardownHolds(p, task[p])'
  <2>1. Executes(t) => Loose(r)' \subseteq Loose(r)
    BY DEF MachinesUndisturbed, RunShrinks, Loose, NoMachine
  <2>2. t.pc \in Settling \cup {"destroy", "fetch"} => Executes(t) \/ Reclaims(t)
    BY DEF Settling, Executes, Reclaims, ExecPcs, TimedPcs, ReclaimPcs
  <2>3. t.pc \in Settling \cup {"destroy", "fetch", "finish"} => Loose(r)' \subseteq Loose(r)
    BY <1>0, <2>1, <2>2 DEF StandsOf, MachinesUndisturbed
  <2>4. t.pc = "fetch" => Executes(t)
    BY DEF Executes, ExecPcs
  <2> QED
    BY <1>0, <2>3, <2>4 DEF TeardownHolds, RowsUndisturbed
<1> QED
  BY <1>1, <1>2, <1>3 DEF TaskInv

\* The invariant holds after a step when every actor either has it again or was
\* left undisturbed.
LEMMA HoldStep ==
    ASSUME BaseInv, HoldInv, StepKept, NoneComesBack,
           \A p \in Owners, r \in Runs : task[p].run = r =>
              \/ TaskInv(p)'
              \/ task'[p] = task[p] /\ RowsUndisturbed(p, r) /\ MachinesUndisturbed(p, r),
           OneExecutor', \A r \in Runs : RunHolds(r)',
           \A c \in Cancels : CancelHolds(c)' \/ cancel'[c] = cancel[c],
           \A s \in Sweepers : SweeperHolds(s)' \/ sweeper'[s] = sweeper[s]
    PROVE  HoldInv'
<1>1. ASSUME NEW p \in Owners PROVE TaskInv(p)'
  <2>1. task[p].run \in Runs
    BY TaskFacts
  <2> QED
    BY <2>1, UndisturbedKeeps
<1>2. ASSUME NEW c \in Cancels, cancel'[c] = cancel[c] PROVE CancelHolds(c)'
  <2>1. cancel[c].run \in Runs /\ CancelHolds(c)
    BY DEF BaseInv, ExecTypeOK, CancelRequests, HoldInv
  <2>2. PICK r \in Runs : r = cancel[c].run
    BY <2>1
  <2>3. runState[r] = "cancelled" => runState'[r] = "cancelled" /\ Live(r)' \subseteq Live(r)
    BY QueueMoves DEF NoneComesBack, IsTerminal, TerminalStates
  <2> QED
    BY <1>2, <2>1, <2>2, <2>3 DEF CancelHolds
<1>3. ASSUME NEW s \in Sweepers, sweeper'[s] = sweeper[s] PROVE SweeperHolds(s)'
  <2>1. /\ sweeper[s].run \in Runs /\ SweeperHolds(s)
        /\ sweeper[s].pc # "idle" => sweeper[s].machine \in Attempts
    BY DEF BaseInv, ExecTypeOK, Expiries, HoldInv, Shape, SweeperShape, Linked
  <2> QED
    BY <1>3, <2>1, QueueMoves DEF SweeperHolds, NoneComesBack
<1> QED
  BY <1>1, <1>2, <1>3 DEF HoldInv

\* A step in which machines only go away ...
MachinesShrink ==
    /\ \A r \in Runs : RunShrinks(r)
    /\ \A r \in Runs, a \in Attempts :
          machine[r][a] = "destroyed" => machine'[r][a] = "destroyed"

\* ... and no task turns executor.
NoNewExecutor ==
    \A p \in Owners :
        Executes(task'[p]) => Executes(task[p]) /\ task'[p].run = task[p].run

LEMMA ExecutorsStay ==
    ASSUME OneExecutor, NoNewExecutor
    PROVE  OneExecutor'
<1> SUFFICES ASSUME NEW p \in Owners, NEW q \in Owners, Executes(task'[p]),
                    Executes(task'[q]), task'[p].run = task'[q].run
             PROVE  p = q
  BY DEF OneExecutor, Executes
<1> QED
  BY DEF OneExecutor, NoNewExecutor

\* Such a step has only the actors to look at.
LEMMA ShrinkStep ==
    ASSUME BaseInv, HoldInv, StepKept, MachinesShrink, NoNewExecutor,
           \A p \in Owners, r \in Runs : task[p].run = r =>
              TaskInv(p)' \/ (task'[p] = task[p] /\ RowsUndisturbed(p, r)),
           \A c \in Cancels : CancelHolds(c)' \/ cancel'[c] = cancel[c],
           \A s \in Sweepers : SweeperHolds(s)' \/ sweeper'[s] = sweeper[s]
    PROVE  HoldInv'
<1>1. NoneComesBack
  BY DEF NoneComesBack, MachinesShrink, RunShrinks
<1>2. \A p \in Owners, r \in Runs : MachinesUndisturbed(p, r)
  BY DEF MachinesShrink, MachinesUndisturbed, RunShrinks, Loose
<1>3. OneExecutor'
  BY ExecutorsStay DEF HoldInv
<1>4. ASSUME NEW r \in Runs PROVE RunHolds(r)'
  <2>1. RunHolds(r) /\ RunShrinks(r)
    BY DEF HoldInv, MachinesShrink
  <2> QED
    BY <2>1, QueueMoves DEF RunHolds, RunShrinks
<1> QED
  BY <1>1, <1>2, <1>3, <1>4, HoldStep

\* Machines and retention that are left alone do not grow.
LEMMA NothingMoved ==
    ASSUME BaseInv, machine' = machine, retained' = retained
    PROVE  /\ MachinesShrink
           /\ \A r \in Runs : Live(r)' = Live(r) /\ Loose(r)' = Loose(r)
<1>1. \A r \in Runs : Live(r)' = Live(r) /\ Loose(r)' = Loose(r)
  BY DEF Live, Loose
<1> QED
  BY <1>1 DEF MachinesShrink, RunShrinks

\* A step of one task that moves no machine has only that task to look at, if
\* the others are undisturbed by what it writes.
LEMMA TaskHoldStep ==
    ASSUME BaseInv, HoldInv, StepKept, MachinesShrink, NEW o \in Owners, NEW u, Becomes(o, u),
           UNCHANGED otherActors, TaskInv(o)',
           Executes(u) => Executes(task[o]) /\ u.run = task[o].run,
           \A p \in Owners, r \in Runs : p # o /\ task[p].run = r => RowsUndisturbed(p, r)
    PROVE  HoldInv'
<1>1. /\ task'[o] = u /\ \A p \in Owners : p # o => task'[p] = task[p]
      /\ cancel' = cancel /\ sweeper' = sweeper
  BY BecomesOne DEF BaseInv, otherActors
<1>2. NoNewExecutor
  BY <1>1 DEF NoNewExecutor
<1> QED
  BY <1>1, <1>2, ShrinkStep

-----------------------------------------------------------------------------
(* The executor and the teardown: steps that only read.                    *)

\* What is known of a task before its step.
LEMMA HoldFacts ==
    ASSUME BaseInv, HoldInv, NEW o \in Owners
    PROVE  /\ task[o] \in Tasks /\ task[o].run \in Runs /\ ShapeOf(task[o])
           /\ StandsOf(o, task[o]) /\ ExecutorHolds(task[o]) /\ TeardownHolds(o, task[o])
           /\ Live(task[o].run) \subseteq Linked(task[o].run)
           /\ Linked(task[o].run) \subseteq Attempts /\ NoMachine \notin Attempts
<1>1. /\ task[o] \in Tasks /\ task[o].run \in Runs /\ ShapeOf(task[o])
      /\ StandsOf(o, task[o]) /\ ExecutorHolds(task[o]) /\ TeardownHolds(o, task[o])
  BY TaskFacts DEF HoldInv, TaskInv, TaskShape
<1>2. Live(task[o].run) \subseteq Linked(task[o].run) /\ Linked(task[o].run) \subseteq Attempts
  BY DEF Live, Linked
<1>3. NoMachine \notin Attempts
  BY MaxAttemptsAssumption DEF NoMachine, Attempts
<1> QED
  BY <1>1, <1>2, <1>3

\* After a step that only reads, the new record is judged by the state as it was.
LEMMA ReadHolds ==
    ASSUME BaseInv, HoldInv, StepKept, NEW o \in Owners, NEW u, Becomes(o, u),
           UNCHANGED <<vars, machineVars, otherActors>>,
           Executes(u) => Executes(task[o]) /\ u.run = task[o].run,
           StandsOf(o, u), ExecutorHolds(u), TeardownHolds(o, u)
    PROVE  HoldInv'
<1>1. /\ runState' = runState /\ cleanupFailed' = cleanupFailed /\ status' = status
      /\ owner' = owner /\ reason' = reason /\ machine' = machine /\ retained' = retained
  BY DEF vars, runVars, queueVars, leaseVars, machineVars
<1>2. MachinesShrink
  BY <1>1, NothingMoved
<1>3. task'[o] = u /\ u \in Tasks
  BY BecomesOne DEF BaseInv, StepKept, ExecTypeOK
<1>4. Live(u.run)' = Live(u.run) /\ Loose(u.run)' = Loose(u.run)
  BY <1>1, <1>3, NothingMoved DEF Tasks
<1>5. TaskInv(o)'
  BY <1>1, <1>3, <1>4 DEF TaskInv, StandsOf, ExecutorHolds, TeardownHolds, Executes, Reclaims,
                          InAttempt, AllowRetention
<1>6. \A p \in Owners, r \in Runs : RowsUndisturbed(p, r)
  BY <1>1 DEF RowsUndisturbed
<1> QED
  BY <1>2, <1>5, <1>6, TaskHoldStep

\* A task that ends, or only waits to fail its grant, has nothing to show.
LEMMA EndedTask ==
    ASSUME NEW o, NEW u, u.pc \in {"idle", "fail"},
           u.pc = "fail" => (IsTerminal(u.seen) => runState[u.run] = u.seen)
    PROVE  /\ StandsOf(o, u) /\ ExecutorHolds(u) /\ TeardownHolds(o, u)
           /\ ~Executes(u)
BY DEF StandsOf, ExecutorHolds, TeardownHolds, Executes, Reclaims, InAttempt, ExecPcs, TimedPcs,
       ReclaimPcs, Early, OnMachine, Settling

\* Reading steps of execute_created and reclaim_run.
LEMMA ReadingHolds ==
    ASSUME BaseInv, HoldInv, StepKept, NEW o \in Owners,
           \/ Read(o) \/ Clean(o) \/ Expire(o) \/ Reread(o) \/ Sweep(o) \/ Fetch(o)
           \/ ReclaimRead(o)
    PROVE  HoldInv'
<1> DEFINE t == task[o]
<1>0. /\ t \in Tasks /\ t.run \in Runs /\ ShapeOf(t)
      /\ StandsOf(o, t) /\ ExecutorHolds(t) /\ TeardownHolds(o, t)
      /\ Live(t.run) \subseteq Linked(t.run) /\ Linked(t.run) \subseteq Attempts
      /\ NoMachine \notin Attempts
  BY HoldFacts
<1>l. UNCHANGED <<vars, machineVars, otherActors>>
  BY DEF Read, Clean, Expire, Reread, Sweep, Fetch, ReclaimRead, LocalStep
<1> USE DEF Executes, Reclaims, InAttempt
<1>1. CASE Read(o)
  <2>1. t.pc = "read" /\ Live(t.run) = {} /\ Loose(t.run) = {} /\ retained[t.run] = NoMachine
        /\ Executes(t)
    BY <1>0, <1>1 DEF Read, At, ExecutorHolds, Early, Loose, ExecPcs
  <2>2. CASE /\ IsTerminal(runState[t.run])
             /\ \E pc \in {"finish", "fail"} : Becomes(o, [t EXCEPT !.pc = pc])
    <3>1. PICK pc \in {"finish", "fail"} : Becomes(o, [t EXCEPT !.pc = pc])
      BY <2>2
    <3> DEFINE u == [t EXCEPT !.pc = pc]
    <3>2. u.pc = pc /\ u.run = t.run /\ u.seen = t.seen
      BY <1>0 DEF Tasks
    <3> HIDE DEF u
    <3>3. StandsOf(o, u)
      BY <1>0, <2>1, <2>2, <3>2 DEF StandsOf, ExecPcs, TimedPcs, ReclaimPcs
    <3>4. ExecutorHolds(u) /\ TeardownHolds(o, u)
      BY <2>1, <3>2 DEF ExecutorHolds, TeardownHolds, Early, OnMachine, Settling, ExecPcs, TimedPcs
    <3> QED
      BY <1>l, <2>1, <3>1, <3>2, <3>3, <3>4, ReadHolds DEF u
  <2>3. CASE Becomes(o, [t EXCEPT !.pc = "settlefail", !.report = cleanupFailed[t.run]])
    <3> DEFINE u == [t EXCEPT !.pc = "settlefail", !.report = cleanupFailed[t.run]]
    <3>1. /\ u.pc = "settlefail" /\ u.run = t.run /\ u.seen = t.seen /\ u.kept = t.kept
          /\ u.outcome = t.outcome /\ u.attempt = t.attempt
      BY <1>0 DEF Tasks
    <3> HIDE DEF u
    <3>2. StandsOf(o, u)
      BY <1>0, <2>1, <3>1 DEF StandsOf, ExecPcs, TimedPcs, ReclaimPcs
    <3>3. ExecutorHolds(u) /\ TeardownHolds(o, u)
      BY <1>0, <2>1, <3>1 DEF ExecutorHolds, TeardownHolds, Early, OnMachine, Settling
    <3> QED
      BY <1>l, <2>1, <2>3, <3>1, <3>2, <3>3, ReadHolds DEF u
  <2>4. CASE Becomes(o, [t EXCEPT !.pc = "record", !.attempt = @ + 1, !.seen = runState[t.run],
                                  !.outcome = "none", !.report = NoMachine])
    <3> DEFINE u == [t EXCEPT !.pc = "record", !.attempt = @ + 1, !.seen = runState[t.run],
                              !.outcome = "none", !.report = NoMachine]
    <3>1. /\ u.pc = "record" /\ u.run = t.run /\ u.seen = runState[t.run] /\ u.kept = t.kept
          /\ u.outcome = "none"
      BY <1>0 DEF Tasks
    <3> HIDE DEF u
    <3>2. StandsOf(o, u)
      BY <1>0, <2>1, <3>1 DEF StandsOf, ExecPcs, TimedPcs, ReclaimPcs
    <3>3. ExecutorHolds(u) /\ TeardownHolds(o, u)
      BY <1>0, <2>1, <3>1 DEF ExecutorHolds, TeardownHolds, Early, OnMachine, Settling
    <3> QED
      BY <1>l, <2>1, <2>4, <3>1, <3>2, <3>3, ReadHolds DEF u
  <2> QED
    BY <1>1, <2>2, <2>3, <2>4 DEF Read
<1>2. CASE Clean(o)
  <2>1. /\ t.pc = "clean" /\ Executes(t) /\ Live(t.run) \subseteq {t.attempt}
        /\ Loose(t.run) \subseteq {t.attempt} /\ retained[t.run] = NoMachine
    BY <1>0, <1>2, SMTT(40) DEF Clean, At, ExecutorHolds, OnMachine, Loose, ExecPcs, TimedPcs
  <2>2. PICK s : /\ IsTerminal(s) => runState[t.run] = s
                 /\ \/ /\ AllowRetention(t)
                       /\ Becomes(o, [t EXCEPT !.pc = "retain", !.seen = s])
                    \/ Becomes(o, [t EXCEPT !.pc = "destroy", !.seen = s,
                                            !.todo = {t.attempt}, !.after = "results"])
    <3> DEFINE s == IF runState[t.run] = "cancelled" THEN "cancelled" ELSE t.seen
    <3>1. IsTerminal(s) => runState[t.run] = s
      BY <1>0, <2>1 DEF StandsOf
    <3>2. \/ AllowRetention(t) /\ Becomes(o, [t EXCEPT !.pc = "retain", !.seen = s])
          \/ Becomes(o, [t EXCEPT !.pc = "destroy", !.seen = s,
                                  !.todo = {t.attempt}, !.after = "results"])
      BY <1>2 DEF Clean
    <3> HIDE DEF s
    <3> QED
      BY <3>1, <3>2
  <2>3. CASE AllowRetention(t) /\ Becomes(o, [t EXCEPT !.pc = "retain", !.seen = s])
    <3> DEFINE u == [t EXCEPT !.pc = "retain", !.seen = s]
    <3>1. /\ u.pc = "retain" /\ u.run = t.run /\ u.seen = s /\ u.kept = t.kept
          /\ u.outcome = t.outcome /\ u.attempt = t.attempt
      BY <1>0 DEF Tasks
    <3> HIDE DEF u
    <3>2. StandsOf(o, u)
      BY <1>0, <2>1, <2>2, <3>1 DEF StandsOf, ExecPcs, TimedPcs, ReclaimPcs
    <3>3. ExecutorHolds(u) /\ TeardownHolds(o, u)
      BY <1>0, <2>1, <2>3, <3>1 DEF ExecutorHolds, TeardownHolds, Early, OnMachine, Settling,
                                         AllowRetention
    <3> QED
      BY <1>l, <2>1, <2>3, <3>1, <3>2, <3>3, ReadHolds DEF u
  <2>4. CASE Becomes(o, [t EXCEPT !.pc = "destroy", !.seen = s,
                                  !.todo = {t.attempt}, !.after = "results"])
    <3> DEFINE u == [t EXCEPT !.pc = "destroy", !.seen = s,
                              !.todo = {t.attempt}, !.after = "results"]
    <3>1. /\ u.pc = "destroy" /\ u.run = t.run /\ u.seen = s /\ u.kept = t.kept
          /\ u.outcome = t.outcome /\ u.attempt = t.attempt /\ u.todo = {t.attempt}
          /\ u.after = "results"
      BY <1>0 DEF Tasks
    <3> HIDE DEF u
    <3>2. StandsOf(o, u)
      BY <1>0, <2>1, <2>2, <3>1 DEF StandsOf, ExecPcs, TimedPcs, ReclaimPcs
    <3>3. ExecutorHolds(u) /\ TeardownHolds(o, u)
      BY <1>0, <2>1, <3>1 DEF ExecutorHolds, TeardownHolds, Early, OnMachine, Settling
    <3> QED
      BY <1>l, <2>1, <2>4, <3>1, <3>2, <3>3, ReadHolds DEF u
  <2> QED
    BY <2>2, <2>3, <2>4
<1>3. CASE Expire(o)
  <2> DEFINE u == [t EXCEPT !.pc = "reread", !.outcome = "expired", !.todo = {}]
  <2>1. Becomes(o, u) /\ InAttempt(t) /\ t.pc # "fetch" /\ t.pc # "idle"
    BY <1>3 DEF Expire, At, ExecPcs, TimedPcs
  <2>2. /\ u.pc = "reread" /\ u.run = t.run /\ u.seen = t.seen /\ u.kept = t.kept
        /\ u.outcome = "expired" /\ u.attempt = t.attempt
    BY <1>0 DEF Tasks
  <2> HIDE DEF u
  <2>3. StandsOf(o, u)
    BY <1>0, <2>1, <2>2 DEF StandsOf, ExecPcs, TimedPcs, ReclaimPcs
  <2>4. ExecutorHolds(u) /\ TeardownHolds(o, u)
    BY <1>0, <2>1, <2>2 DEF ExecutorHolds, TeardownHolds, Early, OnMachine, Settling
  <2> QED
    BY <1>l, <2>1, <2>2, <2>3, <2>4, ReadHolds
<1>4. CASE Reread(o)
  <2> DEFINE u == [t EXCEPT !.pc = "sweep", !.seen = runState[t.run],
                            !.report = cleanupFailed[t.run], !.kept = retained[t.run]]
  <2>1. Becomes(o, u) /\ t.pc = "reread" /\ Executes(t)
    BY <1>4 DEF Reread, At, ExecPcs
  <2>2. /\ u.pc = "sweep" /\ u.run = t.run /\ u.seen = runState[t.run]
        /\ u.kept = retained[t.run] /\ u.outcome = t.outcome /\ u.attempt = t.attempt
    BY <1>0 DEF Tasks
  <2> HIDE DEF u
  <2>3. StandsOf(o, u)
    BY <1>0, <2>1, <2>2 DEF StandsOf, ExecPcs, TimedPcs, ReclaimPcs
  <2>4. ExecutorHolds(u) /\ TeardownHolds(o, u)
    BY <1>0, <2>1, <2>2 DEF ExecutorHolds, TeardownHolds, Early, OnMachine, Settling
  <2> QED
    BY <1>l, <2>1, <2>2, <2>3, <2>4, ReadHolds
<1>5. CASE Sweep(o)
  <2>1. t.pc = "sweep" /\ Executes(t)
    BY <1>5 DEF Sweep, At, ExecPcs
  <2>2. PICK ids \in SUBSET Linked(t.run), s \in {t.seen, "cancelled"} :
               /\ Loose(t.run) \subseteq ids
               /\ IsTerminal(s) => runState[t.run] = s
               /\ Becomes(o, [t EXCEPT !.pc = IF ids = {} THEN "sweepresults" ELSE "destroy",
                                       !.todo = ids, !.after = "sweepresults", !.seen = s])
    <3> DEFINE ids == IF t.outcome = "expired" \/ t.seen = "cancelled"
                      THEN Linked(t.run) ELSE Linked(t.run) \ {t.kept}
               s == IF ids # {} /\ runState[t.run] = "cancelled" THEN "cancelled" ELSE t.seen
    <3>1. ids \in SUBSET Linked(t.run)
      OBVIOUS
    <3>2. Loose(t.run) \subseteq ids
      <4>1. t.kept \notin Loose(t.run)
        BY <1>0, <2>1 DEF ExecutorHolds, Loose
      <4> QED
        BY <1>0, <4>1 DEF Loose
    <3>3. s \in {t.seen, "cancelled"} /\ (IsTerminal(s) => runState[t.run] = s)
      BY <1>0, <2>1 DEF StandsOf
    <3>4. Becomes(o, [t EXCEPT !.pc = IF ids = {} THEN "sweepresults" ELSE "destroy",
                               !.todo = ids, !.after = "sweepresults", !.seen = s])
      BY <1>5 DEF Sweep
    <3> HIDE DEF ids, s
    <3> QED
      BY <3>1, <3>2, <3>3, <3>4, Zenon
  <2> DEFINE u == [t EXCEPT !.pc = IF ids = {} THEN "sweepresults" ELSE "destroy",
                            !.todo = ids, !.after = "sweepresults", !.seen = s]
  <2>3. /\ u.pc = IF ids = {} THEN "sweepresults" ELSE "destroy"
        /\ u.run = t.run /\ u.seen = s /\ u.kept = t.kept /\ u.outcome = t.outcome
        /\ u.attempt = t.attempt /\ u.todo = ids /\ u.after = "sweepresults"
    BY <1>0 DEF Tasks
  <2>4. Becomes(o, u)
    BY <2>2
  <2> HIDE DEF u
  <2>5. StandsOf(o, u)
    BY <1>0, <2>1, <2>2, <2>3 DEF StandsOf, ExecPcs, TimedPcs, ReclaimPcs
  <2>6. ExecutorHolds(u)
    BY <1>0, <2>1, <2>3 DEF ExecutorHolds, Early, OnMachine
  <2>7. TeardownHolds(o, u)
    BY <2>2, <2>3 DEF TeardownHolds, Settling
  <2> QED
    BY <1>l, <2>1, <2>3, <2>4, <2>5, <2>6, <2>7, ReadHolds
<1>6. CASE Fetch(o)
  <2>1. t.pc = "fetch" /\ Executes(t)
    BY <1>6 DEF Fetch, At, ExecPcs
  <2>2. PICK pc \in {"finish", "fail"} :
               /\ Becomes(o, [t EXCEPT !.pc = pc])
               /\ pc = "finish" => IsTerminal(runState[t.run]) /\ cleanupFailed[t.run] = NoMachine
    BY <1>6 DEF Fetch
  <2> DEFINE u == [t EXCEPT !.pc = pc]
  <2>3. u.pc = pc /\ u.run = t.run /\ u.seen = t.seen
    BY <1>0 DEF Tasks
  <2>4. Becomes(o, u)
    BY <2>2
  <2> HIDE DEF u
  <2>5. StandsOf(o, u)
    BY <1>0, <2>1, <2>2, <2>3 DEF StandsOf, ExecPcs, TimedPcs, ReclaimPcs
  <2>6. ExecutorHolds(u) /\ TeardownHolds(o, u)
    BY <1>0, <2>1, <2>2, <2>3 DEF ExecutorHolds, TeardownHolds, Early, OnMachine, Settling,
                                  ExecPcs, TimedPcs
  <2> QED
    BY <1>l, <2>1, <2>3, <2>4, <2>5, <2>6, ReadHolds
<1>7. CASE ReclaimRead(o)
  <2> DEFINE ids == Linked(t.run) \ {retained[t.run]}
             u == [t EXCEPT !.pc = IF ids = {} THEN "rresults" ELSE "destroy",
                            !.seen = runState[t.run], !.todo = ids, !.after = "rresults",
                            !.report = NoMachine]
  <2>1. Becomes(o, u) /\ t.pc = "rread" /\ Reclaims(t)
    BY <1>7 DEF ReclaimRead, At, ReclaimPcs
  <2>2. /\ u.pc = IF ids = {} THEN "rresults" ELSE "destroy"
        /\ u.run = t.run /\ u.seen = runState[t.run] /\ u.todo = ids /\ u.after = "rresults"
    BY <1>0 DEF Tasks
  <2>3. Loose(t.run) \subseteq ids
    BY <1>0 DEF Loose
  <2> HIDE DEF u, ids
  <2>4. ~Executes(u)
    BY <2>2 DEF ExecPcs, TimedPcs
  <2>5. StandsOf(o, u)
    BY <1>0, <2>1, <2>2, <2>4 DEF StandsOf, ReclaimPcs
  <2>6. ExecutorHolds(u)
    BY <2>2, <2>4 DEF ExecutorHolds, Early, OnMachine
  <2>7. TeardownHolds(o, u)
    BY <2>2, <2>3 DEF TeardownHolds, Settling
  <2> QED
    BY <1>l, <2>1, <2>4, <2>5, <2>6, <2>7, ReadHolds
<1> QED
  BY <1>1, <1>2, <1>3, <1>4, <1>5, <1>6, <1>7

-----------------------------------------------------------------------------
(* The executor and the teardown: steps that write the rows of RunStore.   *)

\* What the rows of the other runs keep.
WritesOnly(r) ==
    \A q \in Runs : q # r => runState'[q] = runState[q] /\ cleanupFailed'[q] = cleanupFailed[q]

\* After a write of the run's row the new record is judged by the new row.  A
\* writer disturbs nobody: it is the only executor of its run, or it tears down
\* and has left nothing loose.
LEMMA WriteHolds ==
    ASSUME BaseInv, HoldInv, StepKept, NEW o \in Owners, NEW u, Becomes(o, u),
           UNCHANGED <<queueVars, machineVars, otherActors>>,
           NEW r \in Runs, task[o].run = r, u.pc = "idle" \/ u.run = r,
           WritesOnly(r),
           \/ Executes(task[o])
           \/ /\ runState'[r] = runState[r]
              /\ cleanupFailed'[r] = NoMachine => Loose(r) = {},
           Executes(u) => Executes(task[o]),
           ~Reclaims(u), ExecutorHolds(u),
           (Executes(u) /\ u.pc # "fetch" /\ owner[r] = o) => runState'[r] # "failed",
           (u.pc # "idle" /\ IsTerminal(u.seen)) => runState'[r] = u.seen,
           u.pc = "finish" => IsTerminal(runState'[r]),
           u.pc # "fetch" => TeardownHolds(o, u),
           (u.pc = "fetch" /\ owner[r] = o /\ cleanupFailed'[r] = NoMachine) => Loose(r) = {}
    PROVE  HoldInv'
<1>1. /\ status' = status /\ owner' = owner /\ reason' = reason
      /\ machine' = machine /\ retained' = retained
  BY DEF queueVars, leaseVars, machineVars
<1>2. MachinesShrink /\ Live(r)' = Live(r) /\ Loose(r)' = Loose(r)
  BY <1>1, NothingMoved
<1>3. task'[o] = u /\ u \in Tasks /\ StandsOf(o, task[o])
  BY BecomesOne, HoldFacts DEF BaseInv, StepKept, ExecTypeOK
<1>4. Executes(u) => u.run = r
  BY DEF Executes, ExecPcs, TimedPcs
<1>5. StandsOf(o, task[o])'
  <2>1. Executes(u) => status[r] \notin {"absent", "queued"}
    BY <1>3 DEF StandsOf
  <2>2. Executes(u) /\ ~IsTerminal(runState'[r]) => owner[r] = o
    BY <1>3, QueueMoves DEF StandsOf
  <2>3. (Executes(u) <=> Executes(task[o])') /\ (Reclaims(u) <=> Reclaims(task[o])')
    BY <1>3 DEF Executes, Reclaims
  <2> QED
    BY <1>1, <1>3, <1>4, <2>1, <2>2, <2>3 DEF StandsOf
<1>6. ExecutorHolds(task[o])'
  <2>1. u.pc \in Early \cup OnMachine => u.run = r
    BY DEF Early, OnMachine
  <2>2. /\ (Executes(u) <=> Executes(task[o])') /\ (InAttempt(u) <=> InAttempt(task[o])')
        /\ (AllowRetention(u) <=> AllowRetention(task[o])')
        /\ InAttempt(u) => Executes(u)
    BY <1>3 DEF Executes, InAttempt, AllowRetention
  <2> QED
    BY <1>1, <1>2, <1>3, <1>4, <2>1, <2>2 DEF ExecutorHolds
<1>7. TeardownHolds(o, task[o])'
  <2>1. u.pc # "idle" => u.run = r
    OBVIOUS
  <2> QED
    BY <1>1, <1>2, <1>3, <2>1 DEF TeardownHolds, Settling
<1>8. ASSUME NEW p \in Owners, NEW q \in Runs, p # o, task[p].run = q
      PROVE  RowsUndisturbed(p, q)
  <2>1. CASE q # r
    BY <1>1, <2>1 DEF RowsUndisturbed, WritesOnly
  <2>2. CASE q = r /\ Executes(task[o])
    BY <1>1, <1>8, <2>2 DEF RowsUndisturbed, HoldInv, OneExecutor
  <2>3. CASE /\ q = r /\ runState'[r] = runState[r]
             /\ cleanupFailed'[r] = NoMachine => Loose(r) = {}
    BY <1>1, <1>2, <2>3 DEF RowsUndisturbed
  <2> QED
    BY <2>1, <2>2, <2>3
<1>9. Executes(u) => Executes(task[o]) /\ u.run = task[o].run
  BY <1>4
<1>10. TaskInv(o)'
  BY <1>5, <1>6, <1>7 DEF TaskInv
<1> QED
  BY <1>2, <1>8, <1>9, <1>10, TaskHoldStep

\* What the statements of RunStore do to the row they are aimed at.
LEMMA RowWritten ==
    ASSUME BaseInv, NEW r \in Runs
    PROVE  /\ \A from, to : UpdateRunState(r, from, to) =>
                 /\ WritesOnly(r) /\ runState'[r] = to /\ cleanupFailed'[r] = cleanupFailed[r]
           /\ \A state, report : RecordRunResults(r, state, report) =>
                 WritesOnly(r) /\ runState'[r] = state /\ cleanupFailed'[r] = report
           /\ \A report : RecordRunFailure(r, report) =>
                 /\ WritesOnly(r)
                 /\ runState[r] # "failed" => cleanupFailed'[r] = report
           /\ \A a : RecordRunAttempt(r, a) \/ CompleteRunAttempt(r, a) =>
                 WritesOnly(r) /\ runState' = runState /\ cleanupFailed' = cleanupFailed
           /\ UNCHANGED runVars =>
                 WritesOnly(r) /\ runState' = runState /\ cleanupFailed' = cleanupFailed
<1>1. /\ runState \in [Runs -> RunStates \cup {"absent"}]
      /\ cleanupFailed \in [Runs -> Attempts \cup {NoMachine}]
  BY DEF BaseInv, RowInv, TypeOK, RunTypeOK
<1> QED
  BY <1>1 DEF WritesOnly, UpdateRunState, RecordRunResults, RecordRunFailure, RecordRunAttempt,
              CompleteRunAttempt, runVars

\* The results write of a task at work leaves the run in the state it has seen,
\* which is not a failure while the task holds the grant.
LEMMA ResultsWritten ==
    ASSUME BaseInv, HoldInv, NEW o \in Owners, NEW r \in Runs, task[o].run = r,
           Executes(task[o]), task[o].pc # "fetch", NEW report,
           RecordRunResults(r, task[o].seen, report)
    PROVE  /\ WritesOnly(r) /\ runState'[r] = task[o].seen /\ cleanupFailed'[r] = report
           /\ owner[r] = o => runState'[r] # "failed"
<1>1. StandsOf(o, task[o])
  BY HoldFacts
<1>2. WritesOnly(r) /\ runState'[r] = task[o].seen /\ cleanupFailed'[r] = report
  BY RowWritten
<1>3. task[o].pc # "idle"
  BY DEF Executes, ExecPcs, TimedPcs
<1>4. IsTerminal("failed")
  BY DEF IsTerminal, TerminalStates
<1> QED
  BY <1>1, <1>2, <1>3, <1>4 DEF StandsOf

\* The writing steps of execute_created and reclaim_run.
LEMMA WritingHolds ==
    ASSUME BaseInv, HoldInv, StepKept, NEW o \in Owners,
           \/ Record(o) \/ Prepare(o) \/ Mark(o) \/ Work(o) \/ Results(o) \/ SweepResults(o)
           \/ Complete(o) \/ Settle(o) \/ SettleFailure(o) \/ ReclaimResults(o)
    PROVE  HoldInv'
<1> DEFINE t == task[o]
<1>0. /\ t \in Tasks /\ t.run \in Runs
      /\ StandsOf(o, t) /\ ExecutorHolds(t) /\ TeardownHolds(o, t)
      /\ UNCHANGED <<queueVars, machineVars, otherActors>>
  BY HoldFacts DEF Record, Prepare, Mark, Work, Results, SweepResults, Complete, Settle,
                   SettleFailure, ReclaimResults, StoreStep
<1>r. PICK r \in Runs : t.run = r
  BY <1>0
<1>u. UNCHANGED runVars => WritesOnly(r) /\ runState' = runState /\ cleanupFailed' = cleanupFailed
  BY RowWritten
<1> USE DEF Executes, Reclaims, InAttempt
<1>1. CASE Record(o)
  <2>1. t.pc = "record" /\ Executes(t) /\ Becomes(o, [t EXCEPT !.pc = "advance"])
    BY <1>1 DEF Record, At, ExecPcs
  <2>2. WritesOnly(r) /\ runState' = runState /\ cleanupFailed' = cleanupFailed
    BY <1>r, <1>1, RowWritten DEF Record
  <2> DEFINE u == [t EXCEPT !.pc = "advance"]
  <2>3. /\ u.pc = "advance" /\ u.run = r /\ u.seen = t.seen /\ u.kept = t.kept
        /\ u.outcome = t.outcome /\ u.attempt = t.attempt
    BY <1>0, <1>r DEF Tasks
  <2> HIDE DEF u
  <2>4. ExecutorHolds(u) /\ TeardownHolds(o, u) /\ ~Reclaims(u)
    BY <1>0, <1>r, <2>1, <2>3 DEF ExecutorHolds, TeardownHolds, Early, OnMachine, Settling,
                                  ReclaimPcs
  <2>5. /\ owner[r] = o => runState'[r] # "failed"
        /\ IsTerminal(u.seen) => runState'[r] = u.seen
    BY <1>0, <1>r, <2>1, <2>2, <2>3 DEF StandsOf
  <2> QED
    BY <1>0, <1>r, <2>1, <2>2, <2>3, <2>4, <2>5, WriteHolds DEF u
<1>2. CASE Prepare(o)
  <2>1. t.pc = "advance" /\ Executes(t) /\ Advance(o, "preparing", [t EXCEPT !.pc = "place"])
    BY <1>2 DEF Prepare, At, ExecPcs, TimedPcs
  <2>2. PICK u : /\ Becomes(o, u)
                 /\ \/ /\ u = [[t EXCEPT !.pc = "place"] EXCEPT !.seen = "preparing"]
                       /\ runState'[r] = "preparing" /\ WritesOnly(r)
                    \/ /\ u = [t EXCEPT !.seen = runState[r], !.outcome = "final", !.pc = "reread"]
                       /\ UNCHANGED runVars
    BY <1>r, <2>1, RowWritten, <1>u DEF Advance, At
  <2>3. /\ u.run = r /\ u.kept = t.kept /\ u.attempt = t.attempt
        /\ \/ /\ u.pc = "place" /\ u.outcome = t.outcome
              /\ u.seen = "preparing" /\ runState'[r] = "preparing"
           \/ /\ u.pc = "reread" /\ u.outcome = "final"
              /\ u.seen = runState[r] /\ runState'[r] = runState[r]
        /\ WritesOnly(r)
    BY <1>0, <1>r, <1>u, <2>2 DEF Tasks
  <2>4. ExecutorHolds(u) /\ TeardownHolds(o, u) /\ ~Reclaims(u)
    BY <1>0, <1>r, <2>1, <2>3 DEF ExecutorHolds, TeardownHolds, Early, OnMachine, Settling,
                                  ReclaimPcs
  <2>5. /\ owner[r] = o => runState'[r] # "failed"
        /\ IsTerminal(u.seen) => runState'[r] = u.seen
    BY <1>0, <1>r, <2>1, <2>3 DEF StandsOf, IsTerminal, TerminalStates
  <2>6. u.pc \notin {"fetch", "finish"}
    BY <2>3
  <2> QED
    BY <1>0, <1>r, <2>1, <2>2, <2>3, <2>4, <2>5, <2>6, WriteHolds
<1>3. CASE Mark(o)
  <2>1. t.pc = "mark" /\ Executes(t) /\ Becomes(o, [t EXCEPT !.pc = "work"])
    BY <1>3 DEF Mark, At, ExecPcs, TimedPcs
  <2>2. /\ WritesOnly(r)
        /\ \/ runState'[r] = t.seen /\ (owner[r] = o => runState'[r] # "failed")
           \/ runState'[r] = runState[r]
    BY <1>3, <1>r, <1>u, <2>1, ResultsWritten DEF Mark
  <2> DEFINE u == [t EXCEPT !.pc = "work"]
  <2>3. /\ u.pc = "work" /\ u.run = r /\ u.seen = t.seen /\ u.kept = t.kept
        /\ u.outcome = t.outcome /\ u.attempt = t.attempt
    BY <1>0, <1>r DEF Tasks
  <2> HIDE DEF u
  <2>4. ExecutorHolds(u) /\ TeardownHolds(o, u) /\ ~Reclaims(u)
    BY <1>0, <1>r, <2>1, <2>3 DEF ExecutorHolds, TeardownHolds, Early, OnMachine, Settling,
                                  ReclaimPcs
  <2>5. /\ owner[r] = o => runState'[r] # "failed"
        /\ IsTerminal(u.seen) => runState'[r] = u.seen
    BY <1>0, <1>r, <2>1, <2>2, <2>3, SMTT(40) DEF StandsOf
  <2> QED
    BY <1>0, <1>r, <2>1, <2>2, <2>3, <2>4, <2>5, WriteHolds DEF u
<1>4. CASE Work(o)
  <2>1. t.pc = "work" /\ Executes(t)
    BY <1>4, ZenonT(60) DEF Work, At, ExecPcs, TimedPcs
  <2>2. PICK u : /\ Becomes(o, u)
                 /\ \/ \E next \in {"running", "validating", "collecting"} :
                          /\ u = [t EXCEPT !.seen = next]
                          /\ runState'[r] = next /\ WritesOnly(r)
                    \/ /\ u = [t EXCEPT !.seen = runState[r], !.outcome = "final", !.pc = "clean"]
                       /\ UNCHANGED runVars
                    \/ \E outcome \in Outcomes :
                          /\ u = [t EXCEPT !.outcome = outcome, !.pc = "clean"]
                          /\ UNCHANGED runVars
    <3>1. ASSUME NEW next \in NextPhases(t.seen), Advance(o, next, t)
          PROVE  /\ next \in {"running", "validating", "collecting"}
                 /\ \/ /\ Becomes(o, [t EXCEPT !.seen = next])
                       /\ runState'[r] = next /\ WritesOnly(r)
                    \/ /\ Becomes(o, [t EXCEPT !.seen = runState[r], !.outcome = "final",
                                               !.pc = "clean"])
                       /\ UNCHANGED runVars
      <4>1. next \in {"running", "validating", "collecting"}
        BY <3>1 DEF NextPhases
      <4> QED
        BY <1>r, <1>u, <2>1, <3>1, <4>1, RowWritten DEF Advance, At
    <3>2. {"transient", "final", "setup", "ok", "notok"} \subseteq Outcomes
      BY DEF Outcomes
    <3> QED
      BY <1>4, <3>1, <3>2 DEF Work
  <2>3. /\ u.run = r /\ u.kept = t.kept /\ u.attempt = t.attempt
        /\ \/ /\ u.pc = "work" /\ u.outcome = t.outcome
              /\ u.seen \in {"running", "validating", "collecting"} /\ runState'[r] = u.seen
           \/ u.pc = "clean" /\ runState'[r] = runState[r] /\ u.seen \in {runState[r], t.seen}
        /\ WritesOnly(r)
    BY <1>0, <1>r, <1>u, <2>1, <2>2 DEF Tasks
  <2>4. ExecutorHolds(u) /\ TeardownHolds(o, u) /\ ~Reclaims(u)
    BY <1>0, <1>r, <2>1, <2>3 DEF ExecutorHolds, TeardownHolds, Early, OnMachine, Settling,
                                  ReclaimPcs
  <2>5. /\ owner[r] = o => runState'[r] # "failed"
        /\ IsTerminal(u.seen) => runState'[r] = u.seen
    BY <1>0, <1>r, <2>1, <2>3 DEF StandsOf, IsTerminal, TerminalStates
  <2>6. u.pc \notin {"fetch", "finish"}
    BY <2>3
  <2> QED
    BY <1>0, <1>r, <2>1, <2>2, <2>3, <2>4, <2>5, <2>6, WriteHolds, ZenonT(60)
<1>5. CASE Results(o)
  <2>1. t.pc = "results" /\ Executes(t)
    BY <1>5 DEF Results, At, ExecPcs, TimedPcs
  <2>2. PICK u : /\ Becomes(o, u)
                 /\ \/ \E pc \in {"sweep", "reread", "complete"}, outcome \in {t.outcome, "notok"} :
                          /\ u = [[t EXCEPT !.pc = pc, !.outcome = outcome] EXCEPT !.seen = t.seen]
                          /\ RecordRunResults(r, t.seen, t.report)
                    \/ /\ u = [t EXCEPT !.pc = "reread", !.outcome = "final"]
                       /\ UNCHANGED runVars
    <3> DEFINE pc == CASE t.seen = "cancelled" -> "sweep"
                       [] t.seen # "cancelled" /\ t.outcome \in Errors -> "reread"
                       [] OTHER -> "complete"
               outcome == IF t.seen = "cancelled" THEN "notok" ELSE t.outcome
    <3>1. pc \in {"sweep", "reread", "complete"} /\ outcome \in {t.outcome, "notok"}
      OBVIOUS
    <3>2. \/ /\ RecordRunResults(t.run, t.seen, t.report)
             /\ Becomes(o, [[t EXCEPT !.pc = pc, !.outcome = outcome] EXCEPT !.seen = t.seen])
          \/ Becomes(o, [t EXCEPT !.pc = "reread", !.outcome = "final"]) /\ UNCHANGED runVars
      BY <1>5 DEF Results, WriteResults
    <3> HIDE DEF pc, outcome
    <3> QED
      BY <1>r, <3>1, <3>2
  <2>3. /\ WritesOnly(r)
        /\ \/ runState'[r] = t.seen /\ (owner[r] = o => runState'[r] # "failed")
           \/ runState'[r] = runState[r]
    BY <1>r, <1>u, <2>1, <2>2, ResultsWritten, ZenonT(60)
  <2>4. /\ u.run = r /\ u.kept = t.kept /\ u.attempt = t.attempt /\ u.seen = t.seen
        /\ u.pc \in {"sweep", "reread", "complete"} /\ u.outcome \in {t.outcome, "notok", "final"}
        /\ u.report = t.report
    BY <1>0, <1>r, <2>2 DEF Tasks
  <2>5. ExecutorHolds(u) /\ ~Reclaims(u)
    BY <1>0, <1>r, <2>1, <2>4 DEF ExecutorHolds, Early, OnMachine, ReclaimPcs
  <2>6. TeardownHolds(o, u)
    BY <1>0, <1>r, <2>1, <2>4 DEF TeardownHolds, Settling
  <2>7. /\ owner[r] = o => runState'[r] # "failed"
        /\ IsTerminal(u.seen) => runState'[r] = u.seen
    BY <1>0, <1>r, <2>1, <2>3, <2>4 DEF StandsOf
  <2>8. u.pc \notin {"fetch", "finish"}
    BY <2>4
  <2> QED
    BY <1>0, <1>r, <2>1, <2>2, <2>3, <2>4, <2>5, <2>6, <2>7, <2>8, WriteHolds
<1>6. CASE SweepResults(o)
  <2>1. t.pc = "sweepresults" /\ Executes(t)
    BY <1>6 DEF SweepResults, At, ExecPcs
  <2>2. PICK u : /\ Becomes(o, u)
                 /\ \/ /\ u = [[t EXCEPT !.pc = "complete"] EXCEPT !.seen = t.seen]
                       /\ RecordRunResults(r, t.seen, t.report)
                    \/ u = [t EXCEPT !.pc = "fail"] /\ UNCHANGED runVars
    BY <1>6, <1>r DEF SweepResults, WriteResults
  <2>3. /\ WritesOnly(r)
        /\ \/ runState'[r] = t.seen /\ (owner[r] = o => runState'[r] # "failed")
           \/ runState'[r] = runState[r]
    BY <1>r, <1>u, <2>1, <2>2, ResultsWritten, ZenonT(60)
  <2>4. /\ u.run = r /\ u.kept = t.kept /\ u.attempt = t.attempt /\ u.seen = t.seen
        /\ u.pc \in {"complete", "fail"} /\ u.outcome = t.outcome /\ u.report = t.report
    BY <1>0, <1>r, <2>2 DEF Tasks
  <2>5. ExecutorHolds(u) /\ ~Reclaims(u)
    BY <1>0, <1>r, <2>1, <2>4 DEF ExecutorHolds, Early, OnMachine, ReclaimPcs, ExecPcs, TimedPcs
  <2>6. TeardownHolds(o, u)
    BY <1>0, <1>r, <2>1, <2>4 DEF TeardownHolds, Settling
  <2>7. /\ owner[r] = o => runState'[r] # "failed"
        /\ IsTerminal(u.seen) => runState'[r] = u.seen
    BY <1>0, <1>r, <2>1, <2>3, <2>4 DEF StandsOf
  <2>8. u.pc \notin {"fetch", "finish"}
    BY <2>4
  <2> QED
    BY <1>0, <1>r, <2>1, <2>2, <2>3, <2>4, <2>5, <2>6, <2>7, <2>8, WriteHolds
<1>7. CASE Complete(o)
  <2>1. t.pc = "complete" /\ Executes(t)
    BY <1>7 DEF Complete, At, ExecPcs
  <2>2. PICK pc : /\ Becomes(o, [t EXCEPT !.pc = pc])
                  /\ runState' = runState /\ cleanupFailed' = cleanupFailed /\ WritesOnly(r)
                  /\ \/ pc \in {"fail", "settle", "settlefail"}
                     \/ pc = "finish" /\ t.seen = "cancelled" /\ t.report = NoMachine
                     \/ pc = "read" /\ Retryable(t)
    <3>1. CASE CompleteRunAttempt(t.run, t.attempt)
               /\ Becomes(o, [t EXCEPT
                    !.pc = CASE t.seen = "cancelled" -> IF t.report = NoMachine
                                                        THEN "finish" ELSE "fail"
                             [] t.seen # "cancelled" /\ t.outcome = "ok" -> "settle"
                             [] t.seen # "cancelled" /\ Retryable(t) -> "read"
                             [] OTHER -> "settlefail"])
      <4> DEFINE pc == CASE t.seen = "cancelled" -> IF t.report = NoMachine
                                                    THEN "finish" ELSE "fail"
                         [] t.seen # "cancelled" /\ t.outcome = "ok" -> "settle"
                         [] t.seen # "cancelled" /\ Retryable(t) -> "read"
                         [] OTHER -> "settlefail"
      <4>1. \/ pc \in {"fail", "settle", "settlefail"}
            \/ pc = "finish" /\ t.seen = "cancelled" /\ t.report = NoMachine
            \/ pc = "read" /\ Retryable(t)
        OBVIOUS
      <4>2. Becomes(o, [t EXCEPT !.pc = pc])
        BY <3>1
      <4>3. runState' = runState /\ cleanupFailed' = cleanupFailed /\ WritesOnly(r)
        BY <1>r, <3>1, RowWritten
      <4> HIDE DEF pc
      <4> QED
        BY <4>1, <4>2, <4>3
    <3>2. CASE Becomes(o, [t EXCEPT !.pc = "fail"]) /\ UNCHANGED runVars
      BY <1>u, <3>2
    <3> QED
      BY <1>7, <3>1, <3>2 DEF Complete
  <2> DEFINE u == [t EXCEPT !.pc = pc]
  <2>3. /\ u.pc = pc /\ u.run = r /\ u.seen = t.seen /\ u.kept = t.kept
        /\ u.outcome = t.outcome /\ u.attempt = t.attempt /\ u.report = t.report
    BY <1>0, <1>r DEF Tasks
  <2>4. Becomes(o, u)
    BY <2>2
  <2> HIDE DEF u
  <2>5. t.report = NoMachine => Loose(r) = {}
    BY <1>0, <1>r, <2>1 DEF TeardownHolds, Settling
  <2>6. pc = "read" => Live(r) = {} /\ retained[r] = NoMachine /\ t.kept = NoMachine
    <3>1. Live(r) \subseteq Attempts /\ NoMachine \notin Attempts
      BY <1>r, HoldFacts
    <3> QED
      BY <1>0, <1>r, <2>1, <2>2, <2>5, <3>1 DEF Retryable, ExecutorHolds, Loose
  <2>7. ExecutorHolds(u) /\ ~Reclaims(u)
    BY <1>0, <1>r, <2>1, <2>2, <2>3, <2>6
       DEF ExecutorHolds, Early, OnMachine, ReclaimPcs, ExecPcs, TimedPcs
  <2>8. TeardownHolds(o, u)
    BY <1>0, <1>r, <2>1, <2>2, <2>3, <2>5 DEF TeardownHolds, Settling
  <2>9. /\ owner[r] = o => runState'[r] # "failed"
        /\ IsTerminal(u.seen) => runState'[r] = u.seen
        /\ u.pc = "finish" => IsTerminal(runState'[r])
        /\ u.pc # "fetch"
    BY <1>0, <1>r, <2>1, <2>2, <2>3 DEF StandsOf, IsTerminal, TerminalStates
  <2> QED
    BY <1>0, <1>r, <2>1, <2>2, <2>3, <2>4, <2>7, <2>8, <2>9, WriteHolds
<1>8. CASE Settle(o)
  <2>1. t.pc = "settle" /\ Executes(t)
    BY <1>8 DEF Settle, At, ExecPcs
  <2>2. PICK u : /\ Becomes(o, u)
                 /\ \/ /\ u = [[t EXCEPT !.pc = "fetch"] EXCEPT !.seen = "succeeded"]
                       /\ RecordRunResults(r, "succeeded", t.report)
                    \/ u = [t EXCEPT !.pc = "fail"] /\ UNCHANGED runVars
    BY <1>8, <1>r DEF Settle, WriteResults
  <2>3. /\ u.run = r /\ u.kept = t.kept /\ u.attempt = t.attempt
        /\ u.outcome = t.outcome /\ u.report = t.report
        /\ \/ /\ u.pc = "fetch" /\ u.seen = "succeeded" /\ runState'[r] = "succeeded"
              /\ cleanupFailed'[r] = t.report
           \/ u.pc = "fail" /\ u.seen = t.seen /\ runState'[r] = runState[r]
        /\ WritesOnly(r)
    <3>1. CASE /\ u = [[t EXCEPT !.pc = "fetch"] EXCEPT !.seen = "succeeded"]
               /\ RecordRunResults(r, "succeeded", t.report)
      <4>1. /\ WritesOnly(r) /\ runState'[r] = "succeeded" /\ cleanupFailed'[r] = t.report
        BY <3>1, RowWritten
      <4> QED
        BY <1>0, <1>r, <3>1, <4>1 DEF Tasks
    <3>2. CASE u = [t EXCEPT !.pc = "fail"] /\ UNCHANGED runVars
      BY <1>0, <1>r, <1>u, <3>2 DEF Tasks
    <3> QED
      BY <2>2, <3>1, <3>2
  <2>4. ExecutorHolds(u) /\ ~Reclaims(u)
    BY <1>0, <1>r, <2>1, <2>3 DEF ExecutorHolds, Early, OnMachine, ReclaimPcs, ExecPcs, TimedPcs
  <2>5. /\ u.pc # "fetch" => TeardownHolds(o, u)
        /\ (u.pc = "fetch" /\ cleanupFailed'[r] = NoMachine) => Loose(r) = {}
    BY <1>0, <1>r, <2>1, <2>3 DEF TeardownHolds, Settling
  <2>6. /\ (Executes(u) /\ u.pc # "fetch" /\ owner[r] = o) => runState'[r] # "failed"
        /\ IsTerminal(u.seen) => runState'[r] = u.seen
        /\ u.pc # "finish"
    BY <1>0, <1>r, <2>1, <2>3 DEF StandsOf
  <2> QED
    BY <1>0, <1>r, <2>1, <2>2, <2>3, <2>4, <2>5, <2>6, WriteHolds
<1>9. CASE SettleFailure(o)
  <2>1. /\ t.pc = "settlefail" /\ Executes(t) /\ Becomes(o, [t EXCEPT !.pc = "fetch"])
        /\ RecordRunFailure(r, t.report)
    BY <1>9, <1>r DEF SettleFailure, At, ExecPcs
  <2>2. WritesOnly(r) /\ (runState[r] # "failed" => cleanupFailed'[r] = t.report)
    BY <2>1, RowWritten
  <2> DEFINE u == [t EXCEPT !.pc = "fetch"]
  <2>3. /\ u.pc = "fetch" /\ u.run = r /\ u.seen = t.seen /\ u.kept = t.kept
        /\ u.outcome = t.outcome /\ u.attempt = t.attempt
    BY <1>0, <1>r DEF Tasks
  <2> HIDE DEF u
  <2>4. ExecutorHolds(u) /\ ~Reclaims(u)
    BY <1>0, <1>r, <2>1, <2>3 DEF ExecutorHolds, Early, OnMachine, ReclaimPcs
  <2>5. (owner[r] = o /\ cleanupFailed'[r] = NoMachine) => Loose(r) = {}
    BY <1>0, <1>r, <2>1, <2>2 DEF StandsOf, TeardownHolds, Settling
  <2>6. IsTerminal(u.seen) => runState'[r] = u.seen
    BY <1>0, <1>r, <2>1, <2>3, QueueMoves DEF StandsOf
  <2> QED
    BY <1>0, <1>r, <2>1, <2>2, <2>3, <2>4, <2>5, <2>6, WriteHolds DEF u
<1>10. CASE ReclaimResults(o)
  <2>1. t.pc = "rresults" /\ Reclaims(t)
    BY <1>10 DEF ReclaimResults, At, ReclaimPcs
  <2>2. PICK u : /\ Becomes(o, u)
                 /\ \/ /\ RecordRunResults(r, t.seen, t.report)
                       /\ \/ /\ u = [[t EXCEPT !.pc = "finish"] EXCEPT !.seen = t.seen]
                             /\ t.report = NoMachine
                          \/ u = [NoTask EXCEPT !.seen = t.seen] /\ t.report # NoMachine
                    \/ u = NoTask /\ UNCHANGED runVars
    BY <1>10, <1>r DEF ReclaimResults, WriteResults
  <2>3. \/ u.pc = "idle"
        \/ u.pc = "finish" /\ u.run = r /\ u.seen = t.seen /\ t.report = NoMachine
    BY <1>0, <1>r, <2>2, RestingTypes DEF Tasks
  <2>4. IsTerminal(runState[r]) /\ runState'[r] = runState[r]
    BY <1>0, <1>r, <2>1, QueueMoves DEF StandsOf
  <2>5. /\ WritesOnly(r)
        /\ t.report = NoMachine => Loose(r) = {}
        /\ \/ cleanupFailed'[r] = t.report
           \/ u.pc = "idle" /\ cleanupFailed'[r] = cleanupFailed[r]
    BY <1>0, <1>r, <1>u, <2>1, <2>2, RestingTypes, RowWritten DEF TeardownHolds, Settling
  <2>6. StandsOf(o, u) /\ ExecutorHolds(u) /\ TeardownHolds(o, u) /\ ~Executes(u) /\ ~Reclaims(u)
    BY <1>0, <1>r, <2>1, <2>3, <2>4, <2>5
       DEF StandsOf, ExecutorHolds, TeardownHolds, Early, OnMachine, Settling, ExecPcs, TimedPcs,
           ReclaimPcs
  <2>7. CASE UNCHANGED runVars
    BY <1>0, <2>2, <2>6, <2>7, ReadHolds DEF vars
  <2>8. CASE cleanupFailed'[r] = t.report
    BY <1>0, <1>r, <2>1, <2>2, <2>3, <2>4, <2>5, <2>6, <2>8, WriteHolds DEF StandsOf
  <2> QED
    BY <2>2, <2>7, <2>8, RowWritten
<1> QED
  BY <1>1, <1>2, <1>3, <1>4, <1>5, <1>6, <1>7, <1>8, <1>9, <1>10, SMTT(40)

-----------------------------------------------------------------------------
(* Machines: placement, retention and teardown.                            *)

\* The machines that are up, after one of them changed its state.
LEMMA LiveSet ==
    ASSUME BaseInv, NEW r \in Runs, NEW m \in Attempts, NEW s \in {"live", "destroyed"},
           machine' = [machine EXCEPT ![r][m] = s]
    PROVE  /\ Live(r)' = IF s = "live" THEN Live(r) \cup {m} ELSE Live(r) \ {m}
           /\ \A q \in Runs : q # r => Live(q)' = Live(q)
<1>1. \A q \in Runs, a \in Attempts :
         machine'[q][a] = IF q = r /\ a = m THEN s ELSE machine[q][a]
  BY MachineSet, ZenonT(60)
<1> QED
  BY <1>1 DEF Live

\* A teardown takes the machine away or leaves everything as it was.
LEMMA TeardownShrinks ==
    ASSUME BaseInv, NEW r \in Runs, NEW m \in Attempts, TornDown(r, m) \/ StaysUp(r, m)
    PROVE  /\ \A q \in Runs : Live(q)' \subseteq Live(q)
           /\ TornDown(r, m) => Live(r)' \subseteq Live(r) \ {m}
           /\ TornDown(r, m) => machine'[r][m] = "destroyed"
           /\ retained' = retained => MachinesShrink
<1>1. CASE TornDown(r, m)
  <2>1. /\ Live(r)' = Live(r) \ {m}
        /\ \A q \in Runs : q # r => Live(q)' = Live(q)
    BY <1>1, LiveSet DEF TornDown
  <2>2. /\ \A q \in Runs, a \in Attempts : machine[q][a] = "destroyed" => machine'[q][a] = "destroyed"
        /\ machine'[r][m] = "destroyed"
    BY <1>1, MachineSet, ZenonT(60) DEF TornDown
  <2> QED
    BY <2>1, <2>2 DEF MachinesShrink, RunShrinks
<1>2. CASE StaysUp(r, m) /\ ~TornDown(r, m)
  BY <1>2 DEF StaysUp, Live, MachinesShrink, RunShrinks
<1> QED
  BY <1>1, <1>2

\* acquire_sandbox: the machine is the only one of its run.
LEMMA PlaceHolds ==
    ASSUME BaseInv, HoldInv, StepKept, NEW o \in Owners, Place(o)
    PROVE  HoldInv'
<1> DEFINE t == task[o]
<1>0. /\ t \in Tasks /\ t.run \in Runs /\ ShapeOf(t)
      /\ StandsOf(o, t) /\ ExecutorHolds(t) /\ TeardownHolds(o, t)
      /\ NoMachine \notin Attempts
      /\ UNCHANGED vars /\ UNCHANGED <<retained, retainLeft, otherActors>>
  BY HoldFacts DEF Place
<1> USE DEF Executes, Reclaims, InAttempt
<1>1. t.pc = "place" /\ Executes(t) /\ t.attempt \in Attempts
  BY <1>0 DEF Place, At, ExecPcs, TimedPcs, ShapeOf
<1>2. PICK r \in Runs, a \in Attempts : r = t.run /\ a = t.attempt
  BY <1>0, <1>1
<1>3. Live(r) = {} /\ retained[r] = NoMachine
  BY <1>0, <1>1, <1>2 DEF ExecutorHolds, Early
<1>v. /\ runState' = runState /\ cleanupFailed' = cleanupFailed /\ status' = status
      /\ owner' = owner /\ reason' = reason /\ retained' = retained
  BY <1>0 DEF vars, runVars, queueVars, leaseVars
<1>4. CASE ScheduleOnNode(r, a)
           /\ (\/ Becomes(o, [t EXCEPT !.pc = "mark"])
               \/ \E outcome \in {"transient", "final"} : Becomes(o, RollBack(t, outcome)))
  <2>1. /\ Live(r)' = {a} /\ \A q \in Runs : q # r => Live(q)' = Live(q)
    BY <1>3, <1>4, LiveSet DEF ScheduleOnNode
  <2>2. ~IsTerminal(runState[r]) /\ machine[r][a] = "none"
    BY <1>4 DEF ScheduleOnNode
  <2>3. \A q \in Runs, b \in Attempts : machine[q][b] = "destroyed" => machine'[q][b] = "destroyed"
    BY <1>4, <2>2, MachineSet DEF ScheduleOnNode
  <2>4. NoneComesBack
    BY <2>1, <2>2, <2>3 DEF NoneComesBack
  <2>5. PICK u : /\ Becomes(o, u)
                 /\ \/ u = [t EXCEPT !.pc = "mark"]
                    \/ \E outcome \in {"transient", "final"} : u = RollBack(t, outcome)
    BY <1>4
  <2>6. /\ u.run = r /\ u.attempt = a /\ u.seen = t.seen /\ u.kept = t.kept
        /\ u.pc = "mark" \/ (u.pc = "destroy" /\ u.todo = {a} /\ u.after = "reread")
    BY <1>0, <1>2, <2>5 DEF Tasks, RollBack
  <2>7. /\ task'[o] = u /\ \A p \in Owners : p # o => task'[p] = task[p]
        /\ cancel' = cancel /\ sweeper' = sweeper
    BY <1>0, <2>5, BecomesOne DEF BaseInv, otherActors
  <2>8. StandsOf(o, task[o])'
    BY <1>0, <1>1, <1>2, <1>v, <2>6, <2>7 DEF StandsOf, ExecPcs, TimedPcs, ReclaimPcs
  <2>9. t.kept = NoMachine
    BY <1>0, <1>1 DEF ExecutorHolds, Early
  <2>10. ExecutorHolds(task[o])'
    BY <1>0, <1>1, <1>2, <1>3, <1>v, <2>1, <2>6, <2>7, <2>9
       DEF ExecutorHolds, Early, OnMachine
  <2>11. TeardownHolds(o, task[o])'
    BY <1>3, <1>v, <2>1, <2>6, <2>7 DEF TeardownHolds, Settling, Loose
  <2>12. NoNewExecutor
    BY <1>1, <1>2, <2>6, <2>7 DEF NoNewExecutor
  <2>13. OneExecutor'
    BY <2>12, ExecutorsStay DEF HoldInv
  <2>14. ASSUME NEW p \in Owners, NEW q \in Runs, p # o, task[p].run = q
         PROVE  RowsUndisturbed(p, q) /\ MachinesUndisturbed(p, q)
    <3>1. RowsUndisturbed(p, q)
      BY <1>v DEF RowsUndisturbed
    <3>2. q = r => ~Executes(task[p])
      BY <1>1, <1>2, <2>14 DEF HoldInv, OneExecutor
    <3>3. q # r => Loose(q)' = Loose(q)
      BY <1>v, <2>1 DEF Loose
    <3> QED
      BY <1>v, <2>1, <2>2, <3>1, <3>2, <3>3 DEF MachinesUndisturbed, RunShrinks
  <2>15. ASSUME NEW q \in Runs PROVE RunHolds(q)'
    <3>1. RunHolds(q) /\ status[r] \notin {"absent", "queued"}
      BY <1>0, <1>1, <1>2 DEF HoldInv, StandsOf
    <3> QED
      BY <1>3, <1>v, <2>1, <3>1 DEF RunHolds
  <2> QED
    BY <2>4, <2>7, <2>8, <2>10, <2>11, <2>13, <2>14, <2>15, HoldStep DEF TaskInv
<1>5. CASE /\ UNCHANGED machine
           /\ \E outcome \in {"transient", "final"} :
                 Becomes(o, [t EXCEPT !.outcome = outcome, !.pc = "reread"])
  <2>1. PICK outcome \in {"transient", "final"} :
               Becomes(o, [t EXCEPT !.outcome = outcome, !.pc = "reread"])
    BY <1>5
  <2> DEFINE u == [t EXCEPT !.outcome = outcome, !.pc = "reread"]
  <2>2. /\ u.pc = "reread" /\ u.run = t.run /\ u.seen = t.seen /\ u.kept = t.kept
        /\ u.attempt = t.attempt
    BY <1>0 DEF Tasks
  <2>3. Becomes(o, u)
    BY <2>1
  <2> HIDE DEF u
  <2>4. StandsOf(o, u)
    BY <1>0, <1>1, <2>2 DEF StandsOf, ExecPcs, TimedPcs, ReclaimPcs
  <2>5. ExecutorHolds(u) /\ TeardownHolds(o, u)
    BY <1>0, <1>1, <1>2, <1>3, <2>2 DEF ExecutorHolds, TeardownHolds, Early, OnMachine, Settling
  <2>6. UNCHANGED <<vars, machineVars, otherActors>>
    BY <1>0, <1>5 DEF machineVars
  <2> QED
    BY <1>1, <2>2, <2>3, <2>4, <2>5, <2>6, ReadHolds
<1> QED
  BY <1>2, <1>4, <1>5 DEF Place

\* retain_run_sandbox: the retained machine is the one of the attempt, and no
\* other is up.
LEMMA RetainHolds ==
    ASSUME BaseInv, HoldInv, StepKept, NEW o \in Owners, Retain(o)
    PROVE  HoldInv'
<1> DEFINE t == task[o]
<1>0. /\ t \in Tasks /\ t.run \in Runs /\ ShapeOf(t)
      /\ StandsOf(o, t) /\ ExecutorHolds(t) /\ TeardownHolds(o, t)
      /\ NoMachine \notin Attempts
      /\ UNCHANGED vars /\ UNCHANGED <<machine, otherActors>>
  BY HoldFacts DEF Retain
<1> USE DEF Executes, Reclaims, InAttempt
<1>1. t.pc = "retain" /\ Executes(t) /\ t.attempt \in Attempts
  BY <1>0 DEF Retain, At, ExecPcs, TimedPcs, ShapeOf
<1>2. PICK r \in Runs, a \in Attempts : r = t.run /\ a = t.attempt
  BY <1>0, <1>1
<1>3. /\ Live(r) \subseteq {a} /\ retained[r] = NoMachine /\ t.kept = NoMachine
      /\ AllowRetention(t)
  BY <1>0, <1>1, <1>2 DEF ExecutorHolds, OnMachine
<1>v. /\ runState' = runState /\ cleanupFailed' = cleanupFailed /\ status' = status
      /\ owner' = owner /\ reason' = reason /\ machine' = machine
  BY <1>0 DEF vars, runVars, queueVars, leaseVars
<1>4. CASE RetainRunSandbox(r, a) /\ Becomes(o, [t EXCEPT !.pc = "results"])
  <2>1. retained'[r] = a /\ \A q \in Runs : q # r => retained'[q] = retained[q]
    BY <1>4 DEF RetainRunSandbox, BaseInv, ExecTypeOK
  <2>2. \A q \in Runs : Live(q)' = Live(q)
    BY <1>v DEF Live
  <2>3. Loose(r)' = {} /\ \A q \in Runs : q # r => Loose(q)' = Loose(q)
    BY <1>3, <2>1, <2>2 DEF Loose
  <2>4. NoneComesBack
    BY <1>v, <2>2 DEF NoneComesBack
  <2>5. PICK u : Becomes(o, u) /\ u = [t EXCEPT !.pc = "results"]
    BY <1>4
  <2>6. /\ u.run = r /\ u.attempt = a /\ u.seen = t.seen /\ u.kept = NoMachine
        /\ u.pc = "results" /\ u.outcome = t.outcome
    BY <1>0, <1>2, <1>3, <2>5 DEF Tasks
  <2>7. /\ task'[o] = u /\ \A p \in Owners : p # o => task'[p] = task[p]
        /\ cancel' = cancel /\ sweeper' = sweeper
    BY <1>0, <2>5, BecomesOne DEF BaseInv, otherActors
  <2>8. StandsOf(o, task[o])'
    BY <1>0, <1>1, <1>2, <1>v, <2>6, <2>7 DEF StandsOf, ExecPcs, TimedPcs, ReclaimPcs
  <2>9. ~(u.outcome = "transient" /\ u.attempt < MaxAttempts)
    BY <1>2, <1>3, <2>6, MaxAttemptsAssumption DEF AllowRetention, Attempts
  <2>10. ExecutorHolds(task[o])'
    BY <1>2, <1>3, <2>1, <2>2, <2>6, <2>7, <2>9 DEF ExecutorHolds, Early, OnMachine
  <2>11. TeardownHolds(o, task[o])'
    BY <2>3, <2>6, <2>7 DEF TeardownHolds, Settling
  <2>12. NoNewExecutor
    BY <1>1, <1>2, <2>6, <2>7 DEF NoNewExecutor
  <2>13. OneExecutor'
    BY <2>12, ExecutorsStay DEF HoldInv
  <2>14. ASSUME NEW p \in Owners, NEW q \in Runs, p # o, task[p].run = q
         PROVE  RowsUndisturbed(p, q) /\ MachinesUndisturbed(p, q)
    <3>1. RowsUndisturbed(p, q)
      BY <1>v DEF RowsUndisturbed
    <3>2. q = r => ~Executes(task[p])
      BY <1>1, <1>2, <2>14 DEF HoldInv, OneExecutor
    <3> QED
      BY <2>1, <2>2, <2>3, <3>1, <3>2 DEF MachinesUndisturbed, RunShrinks
  <2>15. ASSUME NEW q \in Runs PROVE RunHolds(q)'
    <3>1. RunHolds(q) /\ status[r] \notin {"absent", "queued"}
      BY <1>0, <1>1, <1>2 DEF HoldInv, StandsOf
    <3> QED
      BY <1>3, <1>v, <2>1, <2>2, <3>1 DEF RunHolds
  <2> QED
    BY <2>4, <2>7, <2>8, <2>10, <2>11, <2>13, <2>14, <2>15, HoldStep DEF TaskInv
<1>5. CASE /\ Becomes(o, [t EXCEPT !.pc = "destroy", !.todo = {t.attempt}, !.after = "results",
                                   !.report = t.attempt])
           /\ UNCHANGED <<retained, retainLeft>>
  <2> DEFINE u == [t EXCEPT !.pc = "destroy", !.todo = {t.attempt}, !.after = "results",
                            !.report = t.attempt]
  <2>1. /\ u.pc = "destroy" /\ u.run = t.run /\ u.seen = t.seen /\ u.kept = t.kept
        /\ u.outcome = t.outcome /\ u.attempt = t.attempt /\ u.todo = {t.attempt}
        /\ u.after = "results" /\ u.report = t.attempt
    BY <1>0 DEF Tasks
  <2>2. Becomes(o, u)
    BY <1>5
  <2> HIDE DEF u
  <2>3. StandsOf(o, u)
    BY <1>0, <1>1, <2>1 DEF StandsOf, ExecPcs, TimedPcs, ReclaimPcs
  <2>4. ExecutorHolds(u) /\ TeardownHolds(o, u)
    BY <1>0, <1>1, <1>2, <1>3, <2>1 DEF ExecutorHolds, TeardownHolds, Early, OnMachine, Settling
  <2>5. UNCHANGED <<vars, machineVars, otherActors>>
    BY <1>0, <1>5 DEF machineVars
  <2> QED
    BY <1>1, <2>1, <2>2, <2>3, <2>4, <2>5, ReadHolds
<1> QED
  BY <1>2, <1>4, <1>5 DEF Retain

\* cleanup: what is torn down leaves the list, what stays is reported.
LEMMA DestroyHolds ==
    ASSUME BaseInv, HoldInv, StepKept, NEW o \in Owners, Destroy(o)
    PROVE  HoldInv'
<1> DEFINE t == task[o]
           m == Least(t.todo)
           rest == [t EXCEPT !.todo = @ \ {m},
                             !.pc = IF t.todo = {m} THEN t.after ELSE "destroy"]
           reported == [rest EXCEPT !.report = IF @ = NoMachine THEN m ELSE @]
<1>0. /\ t \in Tasks /\ t.run \in Runs /\ ShapeOf(t)
      /\ StandsOf(o, t) /\ ExecutorHolds(t) /\ TeardownHolds(o, t)
      /\ NoMachine \notin Attempts /\ Linked(t.run) \subseteq Attempts
      /\ UNCHANGED vars /\ UNCHANGED <<retained, retainLeft, otherActors>>
  BY HoldFacts DEF Destroy
<1> USE DEF Executes, Reclaims, InAttempt
<1>1. /\ t.pc = "destroy" /\ t.todo # {} /\ t.todo \in SUBSET Attempts
      /\ t.after \in {"results", "reread", "sweepresults", "rresults"}
  BY <1>0 DEF Destroy, At, ShapeOf
<1>2. m \in t.todo /\ m \in Attempts
  BY <1>1, LeastMember
<1>3. \/ TornDown(t.run, m) /\ Becomes(o, rest)
      \/ StaysUp(t.run, m) /\ Becomes(o, reported)
  BY DEF Destroy
<1> HIDE DEF m
<1>4. PICK r \in Runs, d \in Attempts : r = t.run /\ d = m
  BY <1>0, <1>2, SMTT(40)
<1>5. PICK u : /\ Becomes(o, u)
               /\ (u = rest /\ TornDown(r, d)) \/ (u = reported /\ StaysUp(r, d))
  BY <1>3, <1>4, Zenon
<1>6. /\ rest.run = r /\ rest.attempt = t.attempt /\ rest.after = t.after /\ rest.seen = t.seen
      /\ rest.kept = t.kept /\ rest.outcome = t.outcome /\ rest.report = t.report
      /\ rest.todo = t.todo \ {d} /\ rest.pc = IF t.todo = {d} THEN t.after ELSE "destroy"
  BY <1>0, <1>4 DEF Tasks
<1>7. /\ reported.run = r /\ reported.attempt = t.attempt /\ reported.after = t.after
      /\ reported.seen = t.seen /\ reported.kept = t.kept /\ reported.outcome = t.outcome
      /\ reported.report # NoMachine /\ reported.todo = t.todo \ {d}
      /\ reported.pc = IF t.todo = {d} THEN t.after ELSE "destroy"
  BY <1>0, <1>2, <1>4 DEF Tasks
<1>8. /\ u.run = r /\ u.attempt = t.attempt /\ u.after = t.after /\ u.seen = t.seen
      /\ u.kept = t.kept /\ u.outcome = t.outcome /\ u.todo = t.todo \ {d}
      /\ u.pc = IF t.todo = {d} THEN t.after ELSE "destroy"
      /\ u.report # NoMachine \/ (u.report = t.report /\ TornDown(r, d))
  <2> HIDE DEF rest, reported
  <2> QED
    BY <1>5, <1>6, <1>7
<1> HIDE DEF rest, reported
<1>v. /\ runState' = runState /\ cleanupFailed' = cleanupFailed /\ status' = status
      /\ owner' = owner /\ reason' = reason /\ retained' = retained
  BY <1>0 DEF vars, runVars, queueVars, leaseVars
<1>9. /\ MachinesShrink /\ Live(r)' \subseteq Live(r)
      /\ TornDown(r, d) => Live(r)' \subseteq Live(r) \ {d}
  BY <1>5, <1>v, TeardownShrinks
<1>10. task'[o] = u
  BY <1>5, BecomesOne DEF BaseInv
<1>11. /\ (Executes(u) <=> Executes(t)) /\ (Reclaims(u) <=> Reclaims(t))
       /\ u.pc \notin {"idle", "fetch", "finish", "retain", "complete"} \cup Early \cup OnMachine
       /\ InAttempt(u) => InAttempt(t)
  BY <1>1, <1>8 DEF ExecPcs, TimedPcs, ReclaimPcs, Early, OnMachine
<1>12. StandsOf(o, task[o])'
  BY <1>0, <1>1, <1>4, <1>8, <1>10, <1>11, <1>v DEF StandsOf
<1>13. ExecutorHolds(task[o])'
  BY <1>0, <1>4, <1>8, <1>9, <1>10, <1>11, <1>v DEF ExecutorHolds
<1>14. TeardownHolds(o, task[o])'
  <2>1. u.report # NoMachine \/ Loose(r)' \subseteq u.todo
    BY <1>0, <1>1, <1>4, <1>8, <1>9, <1>v DEF TeardownHolds, Loose
  <2>2. u.pc # "destroy" => u.todo = {}
    BY <1>1, <1>8
  <2> QED
    BY <1>8, <1>10, <1>11, <2>1, <2>2 DEF TeardownHolds, Settling
<1>15. \A p \in Owners, q \in Runs : RowsUndisturbed(p, q)
  BY <1>v DEF RowsUndisturbed
<1>16. TaskInv(o)'
  BY <1>12, <1>13, <1>14 DEF TaskInv
<1> QED
  BY <1>0, <1>4, <1>5, <1>8, <1>9, <1>11, <1>15, <1>16, TaskHoldStep

-----------------------------------------------------------------------------
(* The dispatcher and with_lease.                                          *)

\* The start of a task: nothing behind it but the row.
LEMMA StartedTask ==
    ASSUME NEW r, NEW pc
    PROVE  LET u == [NoTask EXCEPT !.pc = pc, !.run = r] IN
           /\ u.pc = pc /\ u.run = r /\ u.seen = "queued" /\ u.kept = NoMachine
           /\ u.outcome = "none" /\ ~IsTerminal(u.seen)
BY DEF NoTask, IsTerminal, TerminalStates

\* A grant is handed to the task that asks for it, and the run that loses its
\* executor fails under the new owner.
LEMMA DispatcherHolds ==
    ASSUME BaseInv, HoldInv, StepKept, NEW o \in Owners,
           \/ DispatchRecovery(o) \/ DispatchClaim(o) \/ Heartbeat(o) \/ LoseLease(o)
           \/ HeartbeatTimeout(o) \/ Crash(o) \/ Finish(o) \/ Fail(o)
    PROVE  HoldInv'
<1> DEFINE t == task[o]
<1>0. /\ t \in Tasks /\ t.run \in Runs /\ StandsOf(o, t)
      /\ owner \in [Runs -> Owners \cup {NoOwner}] /\ NoOwner \notin Owners
      /\ reason \in [Runs -> Reasons \cup {NoReason}]
      /\ RowInv /\ RowInv' /\ RunTypeOK
  BY HoldFacts, LimitsAssumption DEF BaseInv, RowInv, TypeOK, StepKept
<1>i. NoTask.pc = "idle"
  BY RestingTypes
<1>e. StandsOf(o, NoTask) /\ ExecutorHolds(NoTask) /\ TeardownHolds(o, NoTask) /\ ~Executes(NoTask)
  BY <1>i, EndedTask
<1>1. CASE DispatchRecovery(o)
  <2>1. PICK r \in Runs : /\ RecoverRun(r, o)
                          /\ Becomes(o, [NoTask EXCEPT !.pc = "rread", !.run = r])
    BY <1>1 DEF DispatchRecovery
  <2>2. PICK u : Becomes(o, u) /\ u = [NoTask EXCEPT !.pc = "rread", !.run = r]
    BY <2>1
  <2>3. u.pc = "rread" /\ u.run = r /\ ~IsTerminal(u.seen)
    BY <2>2, StartedTask
  <2>4. machine' = machine /\ retained' = retained /\ UNCHANGED otherActors
    BY <1>1 DEF DispatchRecovery, QueueStep, machineVars
  <2>5. IsTerminal(runState'[r]) /\ \A q \in Runs : q # r => runState'[q] = runState[q]
    <3>1. runState[r] # "absent"
      BY <1>0, <2>1 DEF RecoverRun, Recoverable, Lost, LostLease, Undispatchable, Held, RowInv,
                        RowShape
    <3> QED
      BY <1>0, <2>1, <3>1, RetireGivesVerdict DEF RecoverRun
  <2>6. /\ reason'[r] # NoReason /\ owner'[r] = o
        /\ \A q \in Runs : q # r => owner'[q] = owner[q]
        /\ cleanupFailed' = cleanupFailed
    <3>1. RecoveryReason(r) # NoReason
      BY DEF RecoveryReason, NoReason
    <3> QED
      BY <1>0, <2>1, <3>1 DEF RecoverRun, RetireRun
  <2>7. task'[o] = u
    BY <2>2, BecomesOne DEF BaseInv
  <2>8. TaskInv(o)'
    BY <2>3, <2>5, <2>6, <2>7
       DEF TaskInv, StandsOf, ExecutorHolds, TeardownHolds, Executes, Reclaims, InAttempt, ExecPcs,
           TimedPcs, Early, OnMachine, Settling
  <2>9. MachinesShrink
    BY <2>4, NothingMoved
  <2>10. ~Executes(u)
    BY <2>3 DEF Executes, ExecPcs, TimedPcs
  <2>11. \A p \in Owners, q \in Runs : p # o /\ task[p].run = q => RowsUndisturbed(p, q)
    BY <2>5, <2>6 DEF RowsUndisturbed
  <2> QED
    BY <2>2, <2>4, <2>8, <2>9, <2>10, <2>11, TaskHoldStep
<1>2. CASE DispatchClaim(o)
  <2>1. PICK r \in Runs, pc \in {"read", "fail"} :
               /\ ClaimRun(r, o)
               /\ Becomes(o, [NoTask EXCEPT !.pc = pc, !.run = r])
    BY <1>2 DEF DispatchClaim
  <2>2. PICK u : Becomes(o, u) /\ u = [NoTask EXCEPT !.pc = pc, !.run = r]
    BY <2>1
  <2>3. /\ u.pc \in {"read", "fail"} /\ u.run = r /\ ~IsTerminal(u.seen) /\ u.kept = NoMachine
        /\ u.outcome = "none"
    BY <2>1, <2>2, StartedTask
  <2>4. /\ machine' = machine /\ retained' = retained /\ cancel' = cancel /\ sweeper' = sweeper
        /\ runState' = runState /\ cleanupFailed' = cleanupFailed
    BY <1>2, <2>1 DEF DispatchClaim, QueueStep, machineVars, otherActors, ClaimRun, runVars
  <2>5. /\ status[r] = "queued" /\ runState[r] = "queued" /\ status'[r] = "executing"
        /\ owner'[r] = o /\ \A q \in Runs : q # r => owner'[q] = owner[q]
    BY <1>0, <2>1 DEF ClaimRun, Claimable, Eligible, RowInv, TypeOK
  <2>6. Live(r)' = {} /\ retained'[r] = NoMachine
    <3>1. RunHolds(r)
      BY DEF HoldInv
    <3> QED
      BY <2>4, <2>5, <3>1 DEF RunHolds, Live
  <2>7. task'[o] = u /\ \A p \in Owners : p # o => task'[p] = task[p]
    BY <2>2, BecomesOne DEF BaseInv
  <2>8. TaskInv(o)'
    BY <2>3, <2>4, <2>5, <2>6, <2>7
       DEF TaskInv, StandsOf, ExecutorHolds, TeardownHolds, Executes, Reclaims, InAttempt, ExecPcs,
           TimedPcs, ReclaimPcs, Early, OnMachine, Settling
  <2>9. MachinesShrink
    BY <2>4, NothingMoved
  <2>10. OneExecutor'
    <3>1. ASSUME NEW p \in Owners, Executes(task[p]) PROVE task[p].run # r
      BY <2>5, <3>1, HoldFacts DEF StandsOf
    <3>2. Executes(u) => u.run = r
      BY <2>3
    <3>3. \A p, q \in Owners :
             Executes(task'[p]) /\ Executes(task'[q]) /\ task'[p].run = task'[q].run => p = q
      BY <2>7, <3>1, <3>2 DEF HoldInv, OneExecutor
    <3> QED
      BY <3>3 DEF OneExecutor, Executes
  <2>11. NoneComesBack /\ \A p \in Owners, q \in Runs : MachinesUndisturbed(p, q)
    BY <2>9 DEF NoneComesBack, MachinesShrink, MachinesUndisturbed, RunShrinks, Loose
  <2>12. ASSUME NEW q \in Runs PROVE RunHolds(q)'
    <3>1. RunHolds(q) /\ Live(q)' = Live(q)
      BY <2>4 DEF HoldInv, Live
    <3> QED
      BY <2>4, <3>1, QueueMoves DEF RunHolds
  <2>13. \A p \in Owners, q \in Runs : p # o /\ task[p].run = q => RowsUndisturbed(p, q)
    BY <2>4, <2>5 DEF RowsUndisturbed
  <2> QED
    BY <2>4, <2>7, <2>8, <2>10, <2>11, <2>12, <2>13, HoldStep, SMTT(40)
<1>3. CASE Heartbeat(o)
  <2>1. UNCHANGED <<runState, cleanupFailed, status, owner, reason, machine, retained, task,
                    cancel, sweeper>>
    BY <1>3 DEF Heartbeat, HeartbeatRun, runVars, execVars
  <2>2. MachinesShrink /\ NoNewExecutor
    BY <2>1, NothingMoved DEF NoNewExecutor
  <2>3. \A p \in Owners, q \in Runs : RowsUndisturbed(p, q)
    BY <2>1 DEF RowsUndisturbed
  <2> QED
    BY <2>1, <2>2, <2>3, ShrinkStep
<1>4. CASE LoseLease(o) \/ Crash(o)
  <2>1. Becomes(o, NoTask) /\ UNCHANGED <<vars, machineVars, otherActors>>
    BY <1>4 DEF LoseLease, Crash, Idle, LocalStep
  <2> QED
    BY <1>e, <2>1, ReadHolds
<1>5. CASE HeartbeatTimeout(o)
  <2>1. PICK u : /\ Becomes(o, u)
                 /\ u \in {NoTask, [NoTask EXCEPT !.pc = "fail", !.run = t.run]}
    BY <1>5 DEF HeartbeatTimeout, Idle
  <2>2. u.pc = "idle" \/ (u.pc = "fail" /\ ~IsTerminal(u.seen))
    <3>1. CASE u = [NoTask EXCEPT !.pc = "fail", !.run = t.run]
      BY <3>1, StartedTask
    <3> QED
      BY <1>i, <2>1, <3>1
  <2>3. StandsOf(o, u) /\ ExecutorHolds(u) /\ TeardownHolds(o, u) /\ ~Executes(u)
    BY <2>2, EndedTask
  <2> QED
    BY <1>5, <2>1, <2>3, ReadHolds DEF HeartbeatTimeout
<1>6. CASE Finish(o)
  <2>1. Becomes(o, NoTask) /\ UNCHANGED <<machineVars, otherActors>>
    BY <1>6 DEF Finish, Idle, QueueStep
  <2>2. CASE UNCHANGED vars
    BY <1>e, <2>1, <2>2, ReadHolds
  <2>3. CASE FinishRun(t.run, o)
    <3>1. /\ task'[o] = NoTask /\ machine' = machine /\ retained' = retained
          /\ runState' = runState /\ cleanupFailed' = cleanupFailed
      BY <2>1, <2>3, BecomesOne DEF BaseInv, machineVars, FinishRun, runVars
    <3>2. TaskInv(o)'
      BY <1>i, <3>1 DEF TaskInv, StandsOf, ExecutorHolds, TeardownHolds, Executes, Reclaims,
                        InAttempt, ExecPcs, TimedPcs, ReclaimPcs, Early, OnMachine, Settling
    <3>3. \A q \in Runs : owner'[q] \in {owner[q], NoOwner}
      BY <1>0, <2>3 DEF FinishRun
    <3>4. \A p \in Owners, q \in Runs : RowsUndisturbed(p, q)
      BY <1>0, <3>1, <3>3 DEF RowsUndisturbed
    <3>5. MachinesShrink
      BY <3>1, NothingMoved
    <3> QED
      BY <1>e, <2>1, <3>2, <3>4, <3>5, TaskHoldStep
  <2> QED
    BY <1>6, <2>2, <2>3 DEF Finish
<1>7. CASE Fail(o)
  <2>1. UNCHANGED <<machineVars, otherActors>> /\ t.pc = "fail"
    BY <1>7 DEF Fail, QueueStep, At
  <2>2. CASE Idle(o) /\ UNCHANGED vars
    BY <1>e, <2>1, <2>2, ReadHolds DEF Idle
  <2>3. CASE /\ FailRun(t.run, o)
             /\ Becomes(o, [NoTask EXCEPT !.pc = "rread", !.run = t.run])
    <3>0. PICK r \in Runs : r = t.run
      BY <1>0
    <3>1. PICK u : Becomes(o, u) /\ u = [NoTask EXCEPT !.pc = "rread", !.run = r]
      BY <2>3, <3>0
    <3>2. u.pc = "rread" /\ u.run = r /\ ~IsTerminal(u.seen)
      BY <3>1, StartedTask
    <3>3. machine' = machine /\ retained' = retained /\ cleanupFailed' = cleanupFailed
          /\ owner' = owner
      BY <2>1, <2>3 DEF FailRun, RetireRun, machineVars
    <3>4. runState[r] # "absent"
      BY <1>0, <2>3, <3>0 DEF FailRun, RowInv, RowShape
    <3>5. /\ IsTerminal(runState'[r]) /\ owner[r] = o
          /\ \A q \in Runs : q # r => runState'[q] = runState[q]
      BY <1>0, <2>3, <3>0, <3>4, RetireGivesVerdict DEF FailRun, OwnsLive
    <3>6. reason'[r] # NoReason
      BY <1>0, <2>3, <3>0 DEF FailRun, NoReason
    <3>7. task'[o] = u
      BY <3>1, BecomesOne DEF BaseInv
    <3>8. TaskInv(o)'
      BY <3>2, <3>5, <3>6, <3>7
         DEF TaskInv, StandsOf, ExecutorHolds, TeardownHolds, Executes, Reclaims, InAttempt,
             ExecPcs, TimedPcs, Early, OnMachine, Settling
    <3>9. \A p \in Owners, q \in Runs : p # o /\ task[p].run = q => RowsUndisturbed(p, q)
      BY <3>3, <3>5 DEF RowsUndisturbed
    <3>10. MachinesShrink /\ ~Executes(u)
      BY <3>2, <3>3, NothingMoved DEF Executes, ExecPcs, TimedPcs
    <3> QED
      BY <2>1, <3>1, <3>8, <3>9, <3>10, TaskHoldStep
  <2> QED
    BY <1>7, <2>2, <2>3 DEF Fail
<1> QED
  BY <1>1, <1>2, <1>3, <1>4, <1>5, <1>6, <1>7

-----------------------------------------------------------------------------
(* The cancel endpoint, the sweepers, submissions and the clock.           *)

\* A step that is no task's: the tasks are left alone, and so is retention
\* unless the machine is gone.
LEMMA OutsideStep ==
    ASSUME BaseInv, HoldInv, StepKept, task' = task, MachinesShrink,
           \A p \in Owners, r \in Runs : task[p].run = r => RowsUndisturbed(p, r),
           \A c \in Cancels : CancelHolds(c)' \/ cancel'[c] = cancel[c],
           \A s \in Sweepers : SweeperHolds(s)' \/ sweeper'[s] = sweeper[s]
    PROVE  HoldInv'
<1>1. NoNewExecutor
  BY DEF NoNewExecutor
<1> QED
  BY <1>1, ShrinkStep

\* A request that starts to release a cancelled run lists every machine.
LEMMA ReleasingHolds ==
    ASSUME BaseInv, NEW c \in Cancels, NEW x \in CancelRequests, NEW r \in Runs, x.run = r,
           cancel'[c] = Releasing(x), Live(r)' \subseteq Linked(r),
           runState'[r] = "cancelled"
    PROVE  CancelHolds(c)'
<1>1. PICK u : u = Releasing(x) /\ cancel'[c] = u
  OBVIOUS
<1>2. /\ u.run = r /\ u.todo = Linked(r)
      /\ u.pc = IF Linked(r) = {} THEN "results" ELSE "destroy"
  BY <1>1, ReleasingShape
<1> QED
  BY <1>1, <1>2 DEF CancelHolds

\* cancel_run and release_run_sandboxes.
LEMMA CancelHoldSteps ==
    ASSUME BaseInv, HoldInv, StepKept, NEW c \in Cancels,
           CancelRead(c) \/ CancelNext(c) \/ CancelDropped(c)
    PROVE  HoldInv'
<1> DEFINE x == cancel[c]
<1>0. /\ x \in CancelRequests /\ x.run \in Runs /\ CancelHolds(c) /\ CancelShape(c)
      /\ task' = task /\ sweeper' = sweeper /\ retained' = retained
      /\ cancel \in [Cancels -> CancelRequests]
  BY DEF BaseInv, ExecTypeOK, HoldInv, Shape, CancelRequests, CancelRead, CancelNext,
         CancelDropped, CancelWrite, CancelRecheck, CancelDestroy, CancelResults, CancelStep
<1>r. PICK r \in Runs : r = x.run
  BY <1>0
<1>a. Answered.pc = "answered"
  BY RestingTypes
<1>b. ASSUME NEW u, CancelBecomes(c, u)
      PROVE  cancel'[c] = u /\ \A d \in Cancels : d # c => cancel'[d] = cancel[d]
  BY <1>0, <1>b DEF CancelBecomes
<1>l. \A q \in Runs : Live(q) \subseteq Linked(q)
  BY DEF Live, Linked
<1>m. machine' = machine => MachinesShrink /\ \A q \in Runs : Live(q)' = Live(q)
  BY <1>0, NothingMoved
<1>q. UNCHANGED vars => \A p \in Owners, q \in Runs : RowsUndisturbed(p, q)
  BY DEF vars, runVars, queueVars, leaseVars, RowsUndisturbed
<1>e. ASSUME CancelBecomes(c, Answered) PROVE \A d \in Cancels : CancelHolds(d)' \/ cancel'[d] = cancel[d]
  <2>1. cancel'[c].pc = "answered"
    BY <1>a, <1>b, <1>e
  <2>2. CancelHolds(c)'
    BY <2>1 DEF CancelHolds
  <2> QED
    BY <1>b, <1>e, <2>2
<1>1. CASE CancelRead(c)
  <2>1. PICK q \in Runs : /\ runState[q] # "absent"
           /\ LET y == [Unused EXCEPT !.run = q, !.seen = runState[q], !.pc = "cas"] IN
              CancelBecomes(c, CASE runState[q] \in ActiveStates -> y
                                 [] runState[q] = "cancelled" -> Releasing(y)
                                 [] OTHER -> Answered)
    BY <1>1 DEF CancelRead
  <2> DEFINE y == [Unused EXCEPT !.run = q, !.seen = runState[q], !.pc = "cas"]
  <2>2. y \in CancelRequests /\ y.run = q /\ y.pc = "cas"
    BY <2>1, RestingTypes DEF CancelRequests, BaseInv, RowInv, TypeOK, RunTypeOK
  <2>3. UNCHANGED vars /\ machine' = machine /\ runState' = runState
    BY <1>1 DEF CancelRead, vars, runVars
  <2>4. \/ CancelBecomes(c, y)
        \/ runState[q] = "cancelled" /\ CancelBecomes(c, Releasing(y))
        \/ CancelBecomes(c, Answered)
    BY <2>1
  <2> HIDE DEF y
  <2>5. \A d \in Cancels : CancelHolds(d)' \/ cancel'[d] = cancel[d]
    <3>1. CASE CancelBecomes(c, y)
      <4>1. cancel'[c].pc = "cas"
        BY <1>b, <2>2, <3>1
      <4>2. CancelHolds(c)'
        BY <4>1 DEF CancelHolds
      <4> QED
        BY <1>b, <3>1, <4>2
    <3>2. CASE runState[q] = "cancelled" /\ CancelBecomes(c, Releasing(y))
      <4>1. CancelHolds(c)'
        BY <1>b, <1>l, <1>m, <2>2, <2>3, <3>2, ReleasingHolds
      <4> QED
        BY <1>b, <3>2, <4>1
    <3> QED
      BY <1>e, <2>4, <3>1, <3>2
  <2> QED
    BY <1>0, <1>m, <1>q, <2>3, <2>5, OutsideStep
<1>2. CASE CancelWrite(c)
  <2>1. machine' = machine /\ UNCHANGED queueVars /\ x.pc = "cas"
    BY <1>2 DEF CancelWrite
  <2>2. CASE UpdateRunState(r, x.seen, "cancelled") /\ CancelBecomes(c, Releasing(x))
    <3>1. WritesOnly(r) /\ runState'[r] = "cancelled" /\ cleanupFailed'[r] = cleanupFailed[r]
      BY <2>2, RowWritten
    <3>2. \A p \in Owners, q \in Runs : RowsUndisturbed(p, q)
      BY <2>1, <3>1 DEF WritesOnly, RowsUndisturbed, queueVars, leaseVars
    <3>3. CancelHolds(c)'
      BY <1>0, <1>b, <1>l, <1>m, <1>r, <2>1, <2>2, <3>1, ReleasingHolds
    <3> QED
      BY <1>0, <1>b, <1>m, <2>1, <2>2, <3>2, <3>3, OutsideStep
  <2>3. CASE CancelBecomes(c, [x EXCEPT !.pc = "recheck"]) /\ UNCHANGED runVars
    <3>1. cancel'[c].pc = "recheck"
      BY <1>0, <1>b, <2>3 DEF CancelRequests
    <3>2. CancelHolds(c)'
      BY <3>1 DEF CancelHolds
    <3>3. UNCHANGED vars
      BY <2>1, <2>3 DEF vars
    <3> QED
      BY <1>0, <1>b, <1>m, <1>q, <2>1, <2>3, <3>2, <3>3, OutsideStep
  <2> QED
    BY <1>2, <1>r, <2>2, <2>3 DEF CancelWrite
<1>3. CASE CancelRecheck(c)
  <2>1. UNCHANGED vars /\ machine' = machine /\ runState' = runState
    BY <1>3 DEF CancelRecheck, vars, runVars
  <2>2. CASE runState[r] = "cancelled" /\ CancelBecomes(c, Releasing(x))
    <3>1. CancelHolds(c)'
      BY <1>0, <1>b, <1>l, <1>m, <1>r, <2>1, <2>2, ReleasingHolds
    <3> QED
      BY <1>0, <1>b, <1>m, <1>q, <2>1, <2>2, <3>1, OutsideStep
  <2>3. CASE CancelBecomes(c, Answered)
    BY <1>0, <1>e, <1>m, <1>q, <2>1, <2>3, OutsideStep
  <2> QED
    BY <1>3, <1>r, <2>2, <2>3 DEF CancelRecheck
<1>4. CASE CancelDestroy(c)
  <2> DEFINE m == Least(x.todo)
             rest == [x EXCEPT !.todo = @ \ {m},
                               !.pc = IF x.todo = {m} THEN "results" ELSE "destroy"]
  <2>1. UNCHANGED vars /\ x.pc = "destroy" /\ runState' = runState
    BY <1>4 DEF CancelDestroy, vars, runVars
  <2>2. x.todo \in SUBSET Attempts /\ x.todo # {}
    BY <1>0, <2>1 DEF CancelShape, CancelRequests
  <2>3. m \in x.todo /\ m \in Attempts /\ m # NoMachine
    BY <2>2, LeastMember, MaxAttemptsAssumption DEF Attempts, NoMachine
  <2>4. \/ TornDown(x.run, m) /\ CancelBecomes(c, rest)
        \/ StaysUp(x.run, m) /\ CancelBecomes(c, [rest EXCEPT !.report = m])
    BY <1>4, SMTT(40) DEF CancelDestroy
  <2> HIDE DEF m
  <2>5. PICK u : /\ CancelBecomes(c, u)
                 /\ \/ u = rest /\ TornDown(r, m)
                    \/ u = [rest EXCEPT !.report = m] /\ StaysUp(r, m)
    BY <1>r, <2>4
  <2>6. rest \in CancelRequests
    BY <1>0, <2>2 DEF CancelRequests
  <2>7. /\ u.run = r /\ u.todo = x.todo \ {m}
        /\ u.pc = IF x.todo = {m} THEN "results" ELSE "destroy"
        /\ u.report # NoMachine \/ (u.report = x.report /\ TornDown(r, m))
    BY <1>0, <1>r, <2>3, <2>5, <2>6 DEF CancelRequests
  <2> HIDE DEF rest
  <2>8. /\ MachinesShrink /\ Live(r)' \subseteq Live(r)
        /\ TornDown(r, m) => Live(r)' \subseteq Live(r) \ {m}
    BY <1>0, <2>3, <2>5, TeardownShrinks
  <2>9. u.report # NoMachine \/ Live(r)' \subseteq u.todo
    BY <1>0, <1>r, <2>1, <2>7, <2>8 DEF CancelHolds
  <2>10. runState'[r] = "cancelled"
    BY <1>0, <1>r, <2>1 DEF CancelHolds
  <2>11. CancelHolds(c)'
    <3>1. u.pc = "results" => u.todo = {}
      BY <2>7
    <3> QED
      BY <1>b, <2>5, <2>7, <2>9, <2>10, <3>1 DEF CancelHolds
  <2> QED
    BY <1>0, <1>b, <1>q, <2>1, <2>5, <2>8, <2>11, OutsideStep
<1>5. CASE CancelResults(c)
  <2>1. /\ machine' = machine /\ UNCHANGED queueVars /\ CancelBecomes(c, Answered)
        /\ RecordRunResults(r, "cancelled", x.report) /\ x.pc = "results"
    BY <1>5, <1>r DEF CancelResults
  <2>2. WritesOnly(r) /\ runState'[r] = "cancelled" /\ cleanupFailed'[r] = x.report
    BY <2>1, RowWritten
  <2>3. x.report = NoMachine => Loose(r)' = {}
    BY <1>0, <1>m, <1>r, <2>1 DEF CancelHolds, Loose
  <2>4. \A p \in Owners, q \in Runs : RowsUndisturbed(p, q)
    BY <2>1, <2>2, <2>3 DEF WritesOnly, RowsUndisturbed, queueVars, leaseVars
  <2> QED
    BY <1>0, <1>e, <1>m, <2>1, <2>4, OutsideStep
<1>6. CASE CancelDropped(c)
  <2>1. CancelBecomes(c, Answered) /\ machine' = machine /\ UNCHANGED vars
    BY <1>6 DEF CancelDropped
  <2> QED
    BY <1>0, <1>e, <1>m, <1>q, <2>1, OutsideStep
<1> QED
  BY <1>1, <1>2, <1>3, <1>4, <1>5, <1>6 DEF CancelNext

\* expire_retention: retention ends only for a machine that is gone, and then
\* no machine of the run is up.
LEMMA SweeperHoldSteps ==
    ASSUME BaseInv, HoldInv, StepKept, NEW s \in Sweepers, SweeperNext(s)
    PROVE  HoldInv'
<1> DEFINE x == sweeper[s]
<1>0. /\ x \in Expiries /\ x.run \in Runs /\ SweeperHolds(s) /\ SweeperShape(s)
      /\ task' = task /\ cancel' = cancel
      /\ sweeper \in [Sweepers -> Expiries]
      /\ retained \in [Runs -> Attempts \cup {NoMachine}]
      /\ cleanupFailed \in [Runs -> Attempts \cup {NoMachine}]
  BY DEF BaseInv, ExecTypeOK, HoldInv, Shape, Expiries, SweeperNext, ExpireRetention,
         RetentionDestroy, RetentionReport, RetentionClear, SweeperStep, RowInv, TypeOK, RunTypeOK
<1>r. PICK r \in Runs, m \in {x.machine} : r = x.run /\ m = x.machine
  BY <1>0
<1>m. x.pc # "idle" => m \in Attempts /\ m # NoMachine /\ IsTerminal(runState[r])
  BY <1>0, <1>r, MaxAttemptsAssumption DEF SweeperShape, SweeperHolds, Linked, Attempts, NoMachine
<1>b. ASSUME NEW u, SweeperBecomes(s, u)
      PROVE  sweeper'[s] = u /\ \A z \in Sweepers : z # s => sweeper'[z] = sweeper[z]
  BY <1>0, <1>b DEF SweeperBecomes
<1>q. UNCHANGED vars => \A p \in Owners, q \in Runs : RowsUndisturbed(p, q)
  BY DEF vars, runVars, queueVars, leaseVars, RowsUndisturbed
<1>e. ASSUME SweeperBecomes(s, Resting)
      PROVE  \A z \in Sweepers : SweeperHolds(z)' \/ sweeper'[z] = sweeper[z]
  <2>1. sweeper'[s].pc = "idle"
    BY <1>b, <1>e, RestingTypes
  <2>2. SweeperHolds(s)'
    BY <2>1 DEF SweeperHolds
  <2> QED
    BY <1>b, <1>e, <2>2
<1>1. CASE ExpireRetention(s)
  <2>1. PICK q \in Runs :
           /\ IsTerminal(runState[q])
           /\ SweeperBecomes(s, [pc |-> "destroy", run |-> q, machine |-> retained[q]])
    BY <1>1 DEF ExpireRetention
  <2>2. UNCHANGED vars /\ machine' = machine /\ retained' = retained /\ runState' = runState
    BY <1>1 DEF ExpireRetention, machineVars, vars, runVars
  <2>3. sweeper'[s].pc = "destroy" /\ sweeper'[s].run = q
    BY <1>b, <2>1
  <2>4. SweeperHolds(s)'
    BY <2>1, <2>2, <2>3 DEF SweeperHolds
  <2> QED
    BY <1>0, <1>b, <1>q, <2>1, <2>2, <2>4, NothingMoved, OutsideStep
<1>2. CASE RetentionDestroy(s)
  <2>1. /\ UNCHANGED vars /\ retained' = retained /\ x.pc = "destroy" /\ runState' = runState
    BY <1>2 DEF RetentionDestroy, vars, runVars
  <2>2. \/ TornDown(r, m) /\ SweeperBecomes(s, [x EXCEPT !.pc = "clear"])
        \/ StaysUp(r, m) /\ SweeperBecomes(s, [x EXCEPT !.pc = "report"])
    BY <1>2, <1>r DEF RetentionDestroy
  <2>3. MachinesShrink /\ (TornDown(r, m) => machine'[r][m] = "destroyed")
    BY <1>m, <2>1, <2>2, TeardownShrinks
  <2>4. /\ sweeper'[s].run = r /\ sweeper'[s].machine = m
        /\ \/ sweeper'[s].pc = "clear" /\ TornDown(r, m)
           \/ sweeper'[s].pc = "report"
    BY <1>0, <1>b, <1>r, <2>2 DEF Expiries
  <2>5. SweeperHolds(s)'
    BY <1>m, <2>1, <2>3, <2>4 DEF SweeperHolds
  <2> QED
    BY <1>0, <1>b, <1>q, <2>1, <2>2, <2>3, <2>5, OutsideStep
<1>3. CASE RetentionReport(s)
  <2>1. /\ machine' = machine /\ retained' = retained /\ UNCHANGED queueVars
        /\ x.pc = "report" /\ SweeperBecomes(s, Resting)
        /\ ReportRetentionFailure(r, m) \/ UNCHANGED runVars
    BY <1>3, <1>r DEF RetentionReport, machineVars
  <2>2. /\ runState' = runState
        /\ \A q \in Runs : cleanupFailed'[q] = NoMachine => cleanupFailed[q] = NoMachine
    BY <1>0, <1>m, <2>1 DEF ReportRetentionFailure, runVars
  <2>3. \A p \in Owners, q \in Runs : RowsUndisturbed(p, q)
    BY <2>1, <2>2 DEF RowsUndisturbed, queueVars, leaseVars
  <2> QED
    BY <1>0, <1>e, <2>1, <2>3, NothingMoved, OutsideStep
<1>4. CASE RetentionClear(s)
  <2>1. /\ machine' = machine /\ UNCHANGED queueVars /\ x.pc = "clear" /\ SweeperBecomes(s, Resting)
    BY <1>4 DEF RetentionClear
  <2>2. CASE retained[r] # m /\ UNCHANGED <<runVars, retained, retainLeft>>
    <3>1. UNCHANGED vars
      BY <2>1, <2>2 DEF vars
    <3> QED
      BY <1>0, <1>e, <1>q, <2>1, <2>2, <3>1, NothingMoved, OutsideStep
  <2>3. CASE /\ retained[r] = m /\ ClearRetentionReport(r, m)
             /\ retained' = [retained EXCEPT ![r] = NoMachine]
    <3>1. m \notin Live(r) /\ Live(r) \subseteq {m}
      BY <1>0, <1>m, <1>r, <2>1, <2>3 DEF SweeperHolds, Live, HoldInv, RunHolds
    <3>2. \A q \in Runs : Live(q)' = Live(q)
      BY <2>1 DEF Live
    <3>3. retained'[r] = NoMachine /\ \A q \in Runs : q # r => retained'[q] = retained[q]
      BY <1>0, <2>3
    <3>4. MachinesShrink
      BY <2>1, <2>3, <3>1, <3>2, <3>3 DEF MachinesShrink, RunShrinks
    <3>5. Loose(r)' = {}
      BY <3>1, <3>2 DEF Loose
    <3>6. runState' = runState /\ \A q \in Runs : q # r => cleanupFailed'[q] = cleanupFailed[q]
      BY <1>0, <2>3 DEF ClearRetentionReport
    <3>7. \A p \in Owners, q \in Runs : RowsUndisturbed(p, q)
      BY <2>1, <3>5, <3>6 DEF RowsUndisturbed, queueVars, leaseVars
    <3> QED
      BY <1>0, <1>e, <2>1, <3>4, <3>7, OutsideStep
  <2> QED
    BY <1>4, <1>r, <2>2, <2>3 DEF RetentionClear
<1> QED
  BY <1>1, <1>2, <1>3, <1>4 DEF SweeperNext

\* A submission, a tick or nothing at all.
LEMMA QuietHolds ==
    ASSUME BaseInv, HoldInv, StepKept,
           (\E r \in Runs : Submit(r)) \/ TimePasses \/ UNCHANGED allVars
    PROVE  HoldInv'
<1>1. /\ UNCHANGED <<machine, retained, task, cancel, sweeper, owner, cleanupFailed>>
      /\ \A r \in Runs : runState'[r] = "failed" => runState[r] = "failed"
  <2>1. CASE UNCHANGED allVars
    BY <2>1 DEF allVars, execVars, vars, runVars, queueVars, leaseVars
  <2>2. CASE TimePasses
    BY <2>2 DEF TimePasses, Tick, otherActors, vars, runVars, queueVars, leaseVars
  <2>3. ASSUME NEW q \in Runs, Submit(q)
        PROVE  /\ UNCHANGED <<machine, retained, task, cancel, sweeper, owner, cleanupFailed>>
               /\ \A r \in Runs : runState'[r] = "failed" => runState[r] = "failed"
    BY <2>3 DEF Submit, EnqueueRun, InsertRun, execVars, BaseInv, RowInv, TypeOK, RunTypeOK
  <2> QED
    BY <2>1, <2>2, <2>3
<1>2. \A p \in Owners, r \in Runs : RowsUndisturbed(p, r)
  BY <1>1 DEF RowsUndisturbed
<1> QED
  BY <1>1, <1>2, NothingMoved, OutsideStep

\* A tenant's DELETE: every promise about machines is one that they are gone.
LEMMA DeleteHolds ==
    ASSUME BaseInv, HoldInv, StepKept, NEW r \in Runs, NEW m \in Attempts, DeleteMachine(r, m)
    PROVE  HoldInv'
<1>1. TornDown(r, m) /\ UNCHANGED <<vars, retained, task, cancel, sweeper>>
  BY DEF DeleteMachine, otherActors
<1>2. MachinesShrink
  BY <1>1, TeardownShrinks
<1>3. \A p \in Owners, q \in Runs : RowsUndisturbed(p, q)
  BY <1>1 DEF vars, runVars, queueVars, leaseVars, RowsUndisturbed
<1> QED
  BY <1>1, <1>2, <1>3, OutsideStep

\* Nothing is up and nobody is at work at first.
LEMMA HoldInit == ExecInit => HoldInv
<1> SUFFICES ASSUME ExecInit PROVE HoldInv
  OBVIOUS
<1>1. \A o \in Owners : task[o] = NoTask /\ NoTask.pc = "idle"
  BY RestingTypes DEF ExecInit
<1>2. \A o \in Owners : TaskInv(o) /\ ~Executes(task[o])
  BY <1>1, EndedTask DEF TaskInv
<1>3. \A r \in Runs : RunHolds(r)
  BY DEF ExecInit, RunHolds, Live
<1>4. (\A c \in Cancels : CancelHolds(c)) /\ (\A s \in Sweepers : SweeperHolds(s))
  BY RestingTypes DEF ExecInit, CancelHolds, SweeperHolds
<1> QED
  BY <1>2, <1>3, <1>4 DEF HoldInv, OneExecutor

\* Every step of the control plane keeps the invariant.
LEMMA HoldNext ==
    ASSUME BaseInv, HoldInv, [ExecNext]_allVars
    PROVE  HoldInv'
<1>0. StepKept
  BY BaseStep
<1>1. ASSUME NEW o \in Owners, TaskStep(o) PROVE HoldInv'
  BY <1>0, <1>1, ReadingHolds, WritingHolds, PlaceHolds, RetainHolds, DestroyHolds,
     DispatcherHolds DEF TaskStep
<1>2. ASSUME NEW o \in Owners,
             \/ DispatchRecovery(o) \/ DispatchClaim(o)
             \/ Heartbeat(o) \/ HeartbeatTimeout(o) \/ Crash(o)
      PROVE  HoldInv'
  BY <1>0, <1>2, DispatcherHolds
<1>3. ASSUME NEW c \in Cancels, CancelRead(c) \/ CancelNext(c) \/ CancelDropped(c)
      PROVE  HoldInv'
  BY <1>0, <1>3, CancelHoldSteps
<1>4. ASSUME NEW s \in Sweepers, SweeperNext(s) PROVE HoldInv'
  BY <1>0, <1>4, SweeperHoldSteps
<1>5. CASE (\E r \in Runs : Submit(r)) \/ TimePasses \/ UNCHANGED allVars
  BY <1>0, <1>5, QuietHolds
<1>6. ASSUME NEW r \in Runs, NEW m \in Attempts, DeleteMachine(r, m) PROVE HoldInv'
  BY <1>0, <1>6, DeleteHolds
<1> QED
  BY <1>1, <1>2, <1>3, <1>4, <1>5, <1>6 DEF ExecNext

\* Both invariants hold in every behaviour of the control plane.
LEMMA HoldInvariant == ExecSpec => [](BaseInv /\ HoldInv)
<1>1. BaseInv /\ HoldInv /\ [ExecNext]_allVars => HoldInv'
  BY HoldNext
<1> QED
  BY <1>1, HoldInit, BaseInvariant, PTL DEF ExecSpec

-----------------------------------------------------------------------------
(* The theorems.                                                           *)

\* Whatever is retried, recovered, cancelled or swept, a run never has two
\* machines up at once: execute_created places one only after a pass that left
\* nothing behind.
THEOREM OneMachinePerRunHolds == ExecSpec => []OneMachinePerRun
<1>1. HoldInv => OneMachinePerRun
  BY DEF HoldInv, RunHolds, Live, OneMachinePerRun
<1> QED
  BY <1>1, HoldInvariant, PTL

\* A cancel request that is about to record a clean release left no machine of
\* the run up, with any number of executors, teardowns and sweepers at work on
\* the same run.
THEOREM CancelReleasesHolds == ExecSpec => []CancelReleases
<1>1. HoldInv => CancelReleases
  BY DEF HoldInv, CancelHolds, Live, CancelReleases
<1> QED
  BY <1>1, HoldInvariant, PTL

-----------------------------------------------------------------------------
(* What a step can do to the machines of a run.                            *)

\* The rows the promise is about are left alone.
RowsStand == runState' = runState /\ status' = status

\* schedule_on_node gives an undecided, dispatched run a machine it never had.
Placed(r, a) ==
    /\ ~IsTerminal(runState[r]) /\ status[r] \notin {"absent", "queued"}
    /\ machine[r][a] = "none"
    /\ machine' = [machine EXCEPT ![r][a] = "live"]
    /\ retained' = retained

\* A teardown; while the run is undecided it is the owner's, or the tenant's.
TakenDown(r, a) ==
    /\ a \in Linked(r)
    /\ ~IsTerminal(runState[r]) =>
          \/ owner[r] # NoOwner /\ task[owner[r]].run = r /\ At(owner[r], "destroy")
          \/ DeleteMachine(r, a)
    /\ machine' = [machine EXCEPT ![r][a] = "destroyed"]
    /\ retained' = retained

\* retain_run_sandbox finds nothing retained yet.
KeptFor(r, a) ==
    /\ retained[r] = NoMachine /\ a \in Linked(r)
    /\ retained' = [retained EXCEPT ![r] = a]
    /\ machine' = machine

\* clear_run_retention strikes off a machine that is gone.
StruckOff(r) ==
    /\ retained[r] \notin Live(r)
    /\ retained' = [retained EXCEPT ![r] = NoMachine]
    /\ machine' = machine

StepEffect ==
    \/ machine' = machine /\ retained' = retained
    \/ RowsStand /\ \E r \in Runs : StruckOff(r)
    \/ RowsStand /\ \E r \in Runs, a \in Attempts : Placed(r, a) \/ TakenDown(r, a) \/ KeptFor(r, a)

\* The three steps of a task that touch machines or retention.
LEMMA TaskEffect ==
    ASSUME BaseInv, HoldInv, NEW o \in Owners, Place(o) \/ Retain(o) \/ Destroy(o)
    PROVE  StepEffect
<1> DEFINE t == task[o]
<1>0. /\ t \in Tasks /\ t.run \in Runs /\ ShapeOf(t)
      /\ StandsOf(o, t) /\ ExecutorHolds(t)
      /\ Linked(t.run) \subseteq Attempts
      /\ RowsStand
  BY HoldFacts DEF Place, Retain, Destroy, RowsStand, vars, runVars, queueVars, leaseVars
<1>1. CASE Place(o)
  <2>1. t.pc = "place" /\ Executes(t) /\ t.attempt \in Attempts /\ retained' = retained
    BY <1>0, <1>1 DEF Place, At, ExecPcs, TimedPcs, ShapeOf, Executes, InAttempt
  <2>2. status[t.run] \notin {"absent", "queued"}
    BY <1>0, <2>1 DEF StandsOf
  <2>3. ScheduleOnNode(t.run, t.attempt) \/ machine' = machine
    BY <1>1 DEF Place
  <2> QED
    BY <1>0, <2>1, <2>2, <2>3 DEF StepEffect, Placed, ScheduleOnNode
<1>2. CASE Retain(o)
  <2>1. t.pc = "retain" /\ t.attempt \in Linked(t.run) /\ retained[t.run] = NoMachine
    BY <1>0, <1>2 DEF Retain, At, ShapeOf, ExecutorHolds, OnMachine
  <2>2. machine' = machine /\ (RetainRunSandbox(t.run, t.attempt) \/ retained' = retained)
    BY <1>2 DEF Retain
  <2> QED
    BY <1>0, <2>1, <2>2 DEF StepEffect, KeptFor, RetainRunSandbox
<1>3. CASE Destroy(o)
  <2> DEFINE m == Least(t.todo)
  <2>1. t.pc = "destroy" /\ t.todo # {} /\ t.todo \subseteq Linked(t.run) /\ retained' = retained
    BY <1>0, <1>3 DEF Destroy, At, ShapeOf
  <2>2. m \in Linked(t.run)
    BY <1>0, <2>1, LeastMember
  <2>3. machine' = machine \/ machine' = [machine EXCEPT ![t.run][m] = "destroyed"]
    BY <1>3 DEF Destroy, TornDown, StaysUp
  <2> HIDE DEF m
  <2>4. ~IsTerminal(runState[t.run]) => owner[t.run] = o
    BY <1>0, <2>1 DEF StandsOf, Executes, Reclaims
  <2>5. o # NoOwner
    BY LimitsAssumption
  <2> QED
    BY <1>0, <2>1, <2>2, <2>3, <2>4, <2>5 DEF StepEffect, TakenDown, At
<1> QED
  BY <1>1, <1>2, <1>3

\* Cancel requests tear down only what is cancelled, sweepers what is settled.
LEMMA OutsideEffect ==
    ASSUME BaseInv, HoldInv,
           \/ \E c \in Cancels : CancelDestroy(c)
           \/ \E s \in Sweepers : RetentionDestroy(s) \/ RetentionClear(s)
    PROVE  StepEffect
<1>1. ASSUME NEW c \in Cancels, CancelDestroy(c) PROVE StepEffect
  <2> DEFINE x == cancel[c]
             m == Least(x.todo)
  <2>1. /\ x.run \in Runs /\ x.pc = "destroy" /\ CancelShape(c) /\ CancelHolds(c)
        /\ Linked(x.run) \subseteq Attempts
    BY <1>1, Zenon DEF BaseInv, ExecTypeOK, CancelRequests, Shape, HoldInv, CancelDestroy, Linked
  <2>2. m \in Linked(x.run) /\ IsTerminal(runState[x.run])
    BY <2>1, LeastMember, SMTT(40) DEF CancelShape, CancelHolds, IsTerminal, TerminalStates
  <2>3. /\ machine' = machine \/ machine' = [machine EXCEPT ![x.run][m] = "destroyed"]
        /\ retained' = retained /\ RowsStand
    BY <1>1, Zenon DEF CancelDestroy, CancelStep, TornDown, StaysUp, RowsStand, vars, runVars,
                queueVars, leaseVars
  <2> HIDE DEF m
  <2> QED
    BY <2>1, <2>2, <2>3, SMTT(40) DEF StepEffect, TakenDown
<1>2. ASSUME NEW s \in Sweepers, RetentionDestroy(s) \/ RetentionClear(s) PROVE StepEffect
  <2> DEFINE x == sweeper[s]
  <2>1. /\ x.run \in Runs /\ x.pc # "idle" /\ x.machine \in Linked(x.run) /\ SweeperHolds(s)
        /\ Linked(x.run) \subseteq Attempts
    BY <1>2 DEF BaseInv, ExecTypeOK, Expiries, Shape, SweeperShape, HoldInv, RetentionDestroy,
                RetentionClear, Linked
  <2>2. CASE RetentionDestroy(s)
    <3>1. /\ machine' = machine \/ machine' = [machine EXCEPT ![x.run][x.machine] = "destroyed"]
          /\ retained' = retained /\ RowsStand
      BY <2>2 DEF RetentionDestroy, TornDown, StaysUp, RowsStand, vars, runVars, queueVars,
                  leaseVars
    <3> QED
      BY <2>1, <3>1 DEF StepEffect, TakenDown, SweeperHolds
  <2>3. CASE RetentionClear(s)
    <3>1. machine' = machine /\ x.pc = "clear"
      BY <2>3 DEF RetentionClear
    <3>2. CASE retained' = retained
      BY <3>1, <3>2 DEF StepEffect
    <3>3. CASE /\ retained[x.run] = x.machine /\ ClearRetentionReport(x.run, x.machine)
               /\ retained' = [retained EXCEPT ![x.run] = NoMachine]
      <4>1. RowsStand
        BY <2>3, <3>3 DEF RetentionClear, ClearRetentionReport, RowsStand, queueVars, leaseVars
      <4>2. retained[x.run] \notin Live(x.run)
        BY <2>1, <3>1, <3>3 DEF SweeperHolds, Live
      <4> QED
        BY <2>1, <3>1, <3>3, <4>1, <4>2 DEF StepEffect, StruckOff
    <3> QED
      BY <2>3, <3>2, <3>3 DEF RetentionClear
  <2> QED
    BY <1>2, <2>2, <2>3
<1> QED
  BY <1>1, <1>2

\* Every step of the control plane has one of these effects.
LEMMA EveryEffect ==
    ASSUME BaseInv, HoldInv, [ExecNext]_allVars
    PROVE  StepEffect
<1>1. ASSUME NEW o \in Owners,
             \/ DispatchRecovery(o) \/ DispatchClaim(o) \/ TaskStep(o)
             \/ Heartbeat(o) \/ HeartbeatTimeout(o) \/ Crash(o)
      PROVE  StepEffect
  <2>1. CASE Place(o) \/ Retain(o) \/ Destroy(o)
    BY <2>1, TaskEffect, SMTT(40)
  <2>2. CASE \/ DispatchRecovery(o) \/ DispatchClaim(o) \/ Heartbeat(o) \/ HeartbeatTimeout(o)
             \/ Crash(o) \/ Finish(o) \/ Fail(o) \/ LoseLease(o)
    BY <2>2 DEF DispatchRecovery, DispatchClaim, Heartbeat, HeartbeatTimeout, Crash, Finish,
                Fail, LoseLease, QueueStep, LocalStep, machineVars, execVars, StepEffect
  <2>3. CASE \/ Read(o) \/ Clean(o) \/ Expire(o) \/ Reread(o) \/ Sweep(o) \/ Fetch(o)
             \/ ReclaimRead(o)
    BY <2>3, SMTT(40) DEF Read, Clean, Expire, Reread, Sweep, Fetch, ReclaimRead, LocalStep, machineVars,
                StepEffect
  <2>4. CASE \/ Record(o) \/ Prepare(o) \/ Mark(o) \/ Work(o) \/ Results(o) \/ SweepResults(o)
             \/ Complete(o) \/ Settle(o) \/ SettleFailure(o) \/ ReclaimResults(o)
    BY <2>4 DEF Record, Prepare, Mark, Work, Results, SweepResults, Complete, Settle,
                SettleFailure, ReclaimResults, StoreStep, machineVars, StepEffect
  <2> QED
    BY <1>1, <2>1, <2>2, <2>3, <2>4 DEF TaskStep
<1>2. ASSUME NEW c \in Cancels, CancelRead(c) \/ CancelNext(c) \/ CancelDropped(c)
      PROVE  StepEffect
  <2>1. CASE CancelDestroy(c)
    BY <2>1, OutsideEffect
  <2>2. CASE ~CancelDestroy(c)
    BY <1>2, <2>2 DEF CancelNext, CancelRead, CancelWrite, CancelRecheck, CancelResults,
                      CancelDropped, CancelStep, StepEffect
  <2> QED
    BY <2>1, <2>2
<1>3. ASSUME NEW s \in Sweepers, SweeperNext(s) PROVE StepEffect
  <2>1. CASE RetentionDestroy(s) \/ RetentionClear(s)
    BY <2>1, OutsideEffect
  <2>2. CASE ExpireRetention(s) \/ RetentionReport(s)
    BY <2>2 DEF ExpireRetention, RetentionReport, machineVars, StepEffect
  <2> QED
    BY <1>3, <2>1, <2>2 DEF SweeperNext
<1>4. CASE (\E r \in Runs : Submit(r)) \/ TimePasses \/ UNCHANGED allVars
  BY <1>4 DEF Submit, TimePasses, allVars, execVars, StepEffect
<1>5. ASSUME NEW r \in Runs, NEW a \in Attempts, DeleteMachine(r, a) PROVE StepEffect
  <2>1. /\ a \in Linked(r) /\ machine' = [machine EXCEPT ![r][a] = "destroyed"]
        /\ retained' = retained
    BY <1>5 DEF DeleteMachine, TornDown, Linked
  <2>2. RowsStand
    BY <1>5 DEF DeleteMachine, RowsStand, vars, runVars, queueVars, leaseVars
  <2> QED
    BY <1>5, <2>1, <2>2 DEF StepEffect, TakenDown
<1> QED
  BY <1>1, <1>2, <1>3, <1>4, <1>5 DEF ExecNext

\* The machine of an undecided run is taken down by nobody but the task that
\* owns the run and the tenant who deletes it: a cancel request acts after its own verdict, a sweeper after
\* somebody's, and a task that lost its run is bound by the verdict it lost it to.
THEOREM UndecidedMachineSafeHolds == ExecSpec => UndecidedMachineSafe
<1>1. ASSUME BaseInv, HoldInv, [ExecNext]_allVars, NEW r \in Runs, NEW a \in Attempts,
             machine[r][a] = "live", machine'[r][a] # "live", ~IsTerminal(runState[r])
      PROVE  \/ owner[r] # NoOwner /\ task[owner[r]].run = r /\ At(owner[r], "destroy")
             \/ DeleteMachine(r, a)
  <2>1. StepEffect
    BY <1>1, EveryEffect
  <2>2. machine' # machine
    BY <1>1
  <2>3. PICK q \in Runs, b \in Attempts : Placed(q, b) \/ TakenDown(q, b)
    BY <2>1, <2>2 DEF StepEffect, StruckOff, KeptFor
  <2>4. ~Placed(q, b)
    <3> SUFFICES ASSUME Placed(q, b) PROVE FALSE
      OBVIOUS
    <3>1. machine'[r][a] = IF r = q /\ a = b THEN "live" ELSE machine[r][a]
      BY <1>1, MachineSet DEF Placed
    <3> QED
      BY <1>1, <3>1
  <2>5. machine'[r][a] = IF r = q /\ a = b THEN "destroyed" ELSE machine[r][a]
    BY <1>1, <2>3, <2>4, MachineSet DEF TakenDown
  <2> QED
    BY <1>1, <2>3, <2>4, <2>5 DEF TakenDown
<1>2. BaseInv /\ HoldInv /\ [ExecNext]_allVars =>
         [\A r \in Runs, a \in Attempts :
            (machine[r][a] = "live" /\ machine'[r][a] # "live" /\ ~IsTerminal(runState[r])) =>
               \/ owner[r] # NoOwner /\ task[owner[r]].run = r /\ At(owner[r], "destroy")
               \/ DeleteMachine(r, a)]_allVars
  BY <1>1
<1> QED
  BY <1>2, HoldInvariant, PTL DEF ExecSpec, UndecidedMachineSafe

-----------------------------------------------------------------------------
(* The promise: what each run is mapped to, and how a step moves it.       *)

StageOf(r) ==
    CASE status[r] = "absent" -> "new" [] status[r] = "finished" -> "closed" [] OTHER -> "open"
VerdictOf(r) == {runState[r]} \cap TerminalStates
KeptOf(r) == {retained[r]} \ {NoMachine}

\* Everything the promise knows of a run is as it was.
SameStage(r) == StageOf(r)' = StageOf(r)
SameVerdict(r) == VerdictOf(r)' = VerdictOf(r)
SameMachines(r) == Linked(r)' = Linked(r) /\ Live(r)' = Live(r)
SameKept(r) == KeptOf(r)' = KeptOf(r)

\* The mapped variables, run by run.
LEMMA Mapped ==
    /\ (\A r \in Runs : SameStage(r)) =>
          [r \in Runs |-> StageOf(r)]' = [r \in Runs |-> StageOf(r)]
    /\ (\A r \in Runs : SameVerdict(r)) =>
          [r \in Runs |-> VerdictOf(r)]' = [r \in Runs |-> VerdictOf(r)]
    /\ (\A r \in Runs : SameMachines(r)) =>
          /\ [r \in Runs |-> Linked(r)]' = [r \in Runs |-> Linked(r)]
          /\ [r \in Runs |-> Live(r)]' = [r \in Runs |-> Live(r)]
    /\ (\A r \in Runs : SameKept(r)) =>
          [r \in Runs |-> KeptOf(r)]' = [r \in Runs |-> KeptOf(r)]
BY DEF SameStage, SameVerdict, SameMachines, SameKept

\* A step that at most gives one run its verdict.
LEMMA DecideOrNothing ==
    ASSUME RowInv, RowInv', VerdictKept, NEW r \in Runs,
           \A q \in Runs : SameStage(q) /\ SameMachines(q) /\ SameKept(q),
           \A q \in Runs : q # r => SameVerdict(q)
    PROVE  [Promise!Next]_(Promise!vars)
<1>1. /\ [q \in Runs |-> StageOf(q)]' = [q \in Runs |-> StageOf(q)]
      /\ [q \in Runs |-> Linked(q)]' = [q \in Runs |-> Linked(q)]
      /\ [q \in Runs |-> Live(q)]' = [q \in Runs |-> Live(q)]
      /\ [q \in Runs |-> KeptOf(q)]' = [q \in Runs |-> KeptOf(q)]
  BY Mapped
<1>2. CASE SameVerdict(r)
  <2>1. [q \in Runs |-> VerdictOf(q)]' = [q \in Runs |-> VerdictOf(q)]
    BY <1>2, Mapped
  <2> QED
    BY <1>1, <2>1 DEF Promise!vars, StageOf, VerdictOf, Live, KeptOf
<1>3. CASE ~SameVerdict(r)
  <2>1. PICK v \in TerminalStates : runState'[r] = v /\ VerdictOf(r) = {} /\ VerdictOf(r)' = {v}
    BY <1>3 DEF SameVerdict, VerdictOf, VerdictKept, IsTerminal
  <2>2. StageOf(r) = "open"
    <3>1. status[r] # "finished"
      BY <2>1 DEF RowInv, TeardownHasVerdict, VerdictOf, IsTerminal
    <3>2. status'[r] # "absent"
      BY <2>1 DEF RowInv, RowShape, TerminalStates
    <3> QED
      BY <3>1, <3>2 DEF SameStage, StageOf
  <2>3. [q \in Runs |-> VerdictOf(q)]' = [[q \in Runs |-> VerdictOf(q)] EXCEPT ![r] = {v}]
    BY <2>1 DEF SameVerdict
  <2>4. Promise!Decide(r, v)
    BY <1>1, <2>1, <2>2, <2>3 DEF Promise!Decide, StageOf, VerdictOf, Live, KeptOf
  <2> QED
    BY <2>1, <2>4 DEF Promise!Next
<1> QED
  BY <1>2, <1>3

\* Machines and retention that are left alone are the same to the promise.
LEMMA SameCompute ==
    ASSUME machine' = machine, retained' = retained
    PROVE  \A q \in Runs : SameMachines(q) /\ SameKept(q)
BY DEF SameMachines, SameKept, Linked, Live, KeptOf

\* A step of the queue that moves no machine admits, decides or closes a run.
LEMMA QueueKeepsPromise ==
    ASSUME RowInv, RowInv', [Next]_vars, machine' = machine, retained' = retained,
           \A r \in Runs : status'[r] = "finished" /\ status[r] # "finished" => Loose(r) = {}
    PROVE  [Promise!Next]_(Promise!vars)
<1>0. /\ \A q \in Runs : SameMachines(q) /\ SameKept(q)
      /\ VerdictKept
      /\ status \in [Runs -> Statuses] /\ runState \in [Runs -> RunStates \cup {"absent"}]
  BY SameCompute, VerdictFinalStep DEF RowInv, TypeOK, RunTypeOK
<1>1. ASSUME NEW r \in Runs, EnqueueRun(r) PROVE [Promise!Next]_(Promise!vars)
  <2>1. /\ runState[r] = "absent" /\ runState' = [runState EXCEPT ![r] = "queued"]
        /\ status' = [status EXCEPT ![r] = "queued"] /\ status[r] = "absent"
    BY <1>1 DEF EnqueueRun, InsertRun, RowInv, RowShape
  <2>2. \A q \in Runs : SameVerdict(q)
    BY <1>0, <2>1 DEF SameVerdict, VerdictOf, TerminalStates
  <2>3. [q \in Runs |-> StageOf(q)]' = [[q \in Runs |-> StageOf(q)] EXCEPT ![r] = "open"]
    BY <1>0, <2>1 DEF StageOf
  <2>4. StageOf(r) = "new"
    BY <2>1 DEF StageOf
  <2>5. Promise!Admit(r)
    BY <1>0, <2>2, <2>3, <2>4, Mapped DEF Promise!Admit, StageOf, VerdictOf, Live, KeptOf
  <2> QED
    BY <2>5 DEF Promise!Next
<1>2. ASSUME NEW r \in Runs, NEW o \in Owners, FinishRun(r, o)
      PROVE  [Promise!Next]_(Promise!vars)
  <2>1. /\ IsTerminal(runState[r]) /\ runState' = runState
        /\ status' = [status EXCEPT ![r] = "finished"] /\ status[r] \in {"executing", "reclaiming"}
    BY <1>2 DEF FinishRun, OwnsLive, runVars
  <2>2. \A q \in Runs : SameVerdict(q)
    BY <2>1 DEF SameVerdict, VerdictOf
  <2>3. [q \in Runs |-> StageOf(q)]' = [[q \in Runs |-> StageOf(q)] EXCEPT ![r] = "closed"]
    BY <1>0, <2>1 DEF StageOf
  <2>4. StageOf(r) = "open" /\ VerdictOf(r) # {}
    BY <2>1 DEF StageOf, VerdictOf, IsTerminal
  <2>5. Live(r) \subseteq KeptOf(r)
    <3>1. Loose(r) = {} /\ NoMachine \notin Live(r)
      BY <1>0, <2>1, MaxAttemptsAssumption DEF Live, Attempts, NoMachine
    <3> QED
      BY <3>1 DEF Loose, KeptOf
  <2>6. Promise!Close(r)
    BY <1>0, <2>2, <2>3, <2>4, <2>5, Mapped
       DEF Promise!Close, StageOf, VerdictOf, Live, KeptOf
  <2> QED
    BY <2>6 DEF Promise!Next
<1>3. ASSUME NEW r \in Runs, UnfencedWrite(r) PROVE [Promise!Next]_(Promise!vars)
  <2>1. \A q \in Runs : SameStage(q)
    BY <1>3 DEF UnfencedWrite, queueVars, leaseVars, SameStage, StageOf
  <2>2. \A q \in Runs : q # r => runState'[q] = runState[q]
    BY <1>0, <1>3 DEF UnfencedWrite, UpdateRunState, RecordRunResults, RecordRunFailure,
                      ReportRetentionFailure, ClearRetentionReport, RecordRunAttempt,
                      CompleteRunAttempt
  <2> QED
    BY <1>0, <2>1, <2>2, DecideOrNothing DEF SameVerdict, VerdictOf
<1>4. ASSUME NEW r \in Runs, NEW o \in Owners,
             ClaimRun(r, o) \/ RecoverRun(r, o) \/ HeartbeatRun(r, o) \/ FailRun(r, o)
      PROVE  [Promise!Next]_(Promise!vars)
  <2>1. \A q \in Runs : q # r => runState'[q] = runState[q]
    BY <1>0, <1>4 DEF ClaimRun, RecoverRun, HeartbeatRun, FailRun, RetireRun, runVars
  <2>2. \A q \in Runs : SameStage(q)
    <3>1. \A q \in Runs : q # r => status'[q] = status[q]
      BY <1>0, <1>4 DEF ClaimRun, RecoverRun, HeartbeatRun, FailRun
    <3>2. status'[r] = status[r] \/ ( /\ status[r] \in {"queued", "executing", "reclaiming"}
                                      /\ status'[r] \in {"executing", "reclaiming"} )
      BY <1>0, <1>4 DEF ClaimRun, Claimable, Eligible, RecoverRun, Recoverable, Lost, LostLease,
                        Undispatchable, Held, HeartbeatRun, FailRun
    <3> QED
      BY <3>1, <3>2 DEF SameStage, StageOf
  <2> QED
    BY <1>0, <2>1, <2>2, DecideOrNothing DEF SameVerdict, VerdictOf
<1>5. CASE Tick \/ UNCHANGED vars
  <2>1. \A q \in Runs : SameStage(q) /\ SameVerdict(q)
    BY <1>5 DEF Tick, vars, runVars, queueVars, leaseVars, SameStage, StageOf, SameVerdict,
                VerdictOf
  <2> QED
    BY <1>0, <2>1, Mapped DEF Promise!vars, StageOf, VerdictOf, Live, KeptOf
<1> QED
  BY <1>1, <1>2, <1>3, <1>4, <1>5 DEF Next

\* Placement, teardown, retention and its end are steps of the promise.
LEMMA EffectKeepsPromise ==
    ASSUME BaseInv, RowsStand, NEW r \in Runs,
           \/ StruckOff(r)
           \/ \E a \in Attempts : Placed(r, a) \/ TakenDown(r, a) \/ KeptFor(r, a)
    PROVE  [Promise!Next]_(Promise!vars)
<1>0. /\ \A q \in Runs : SameStage(q) /\ SameVerdict(q)
      /\ retained \in [Runs -> Attempts \cup {NoMachine}]
      /\ NoMachine \notin Attempts
  BY MaxAttemptsAssumption
     DEF RowsStand, SameStage, StageOf, SameVerdict, VerdictOf, BaseInv, ExecTypeOK, Attempts,
         NoMachine
<1>1. CASE StruckOff(r)
  <2>1. \A q \in Runs : SameMachines(q)
    BY <1>1 DEF StruckOff, SameMachines, Linked, Live
  <2>2. [q \in Runs |-> KeptOf(q)]' = [[q \in Runs |-> KeptOf(q)] EXCEPT ![r] = {}]
    BY <1>0, <1>1 DEF StruckOff, KeptOf
  <2>3. KeptOf(r) \cap Live(r) = {}
    BY <1>1 DEF StruckOff, KeptOf
  <2>4. Promise!Forget(r)
    BY <1>0, <2>1, <2>2, <2>3, Mapped DEF Promise!Forget, StageOf, VerdictOf, Live, KeptOf
  <2> QED
    BY <2>4 DEF Promise!Next
<1>2. ASSUME NEW a \in Attempts, KeptFor(r, a) PROVE [Promise!Next]_(Promise!vars)
  <2>1. \A q \in Runs : SameMachines(q)
    BY <1>2 DEF KeptFor, SameMachines, Linked, Live
  <2>2. [q \in Runs |-> KeptOf(q)]' = [[q \in Runs |-> KeptOf(q)] EXCEPT ![r] = {a}]
    BY <1>0, <1>2, ZenonT(60) DEF KeptFor, KeptOf
  <2>3. KeptOf(r) = {} /\ a \in Linked(r)
    BY <1>2 DEF KeptFor, KeptOf
  <2>4. Promise!Keep(r, a)
    BY <1>0, <2>1, <2>2, <2>3, Mapped DEF Promise!Keep, StageOf, VerdictOf, Live, KeptOf
  <2> QED
    BY <2>4 DEF Promise!Next
<1>3. ASSUME NEW a \in Attempts, Placed(r, a) PROVE [Promise!Next]_(Promise!vars)
  <2>1. \A q \in Runs : SameKept(q)
    BY <1>3 DEF Placed, SameKept, KeptOf
  <2>2. \A q \in Runs, b \in Attempts :
           machine'[q][b] = IF q = r /\ b = a THEN "live" ELSE machine[q][b]
    BY <1>3, MachineSet, ZenonT(60) DEF Placed
  <2>3. [q \in Runs |-> Linked(q)]' = [[q \in Runs |-> Linked(q)] EXCEPT ![r] = @ \cup {a}]
    <3>1. Linked(r)' = Linked(r) \cup {a} /\ \A q \in Runs : q # r => Linked(q)' = Linked(q)
      BY <2>2 DEF Linked
    <3> QED
      BY <3>1
  <2>4. [q \in Runs |-> Live(q)]' = [[q \in Runs |-> Live(q)] EXCEPT ![r] = @ \cup {a}]
    <3>1. Live(r)' = Live(r) \cup {a} /\ \A q \in Runs : q # r => Live(q)' = Live(q)
      BY <2>2 DEF Live
    <3> QED
      BY <3>1
  <2>5. StageOf(r) = "open" /\ VerdictOf(r) = {} /\ a \notin Linked(r)
    <3>1. status[r] # "finished"
      BY <1>3 DEF Placed, BaseInv, RowInv, TeardownHasVerdict
    <3> QED
      BY <1>3, <3>1 DEF Placed, StageOf, VerdictOf, IsTerminal, Linked
  <2>6. Promise!Acquire(r, a)
    BY <1>0, <2>1, <2>3, <2>4, <2>5, Mapped
       DEF Promise!Acquire, StageOf, VerdictOf, Live, KeptOf
  <2> QED
    BY <2>6 DEF Promise!Next
<1>4. ASSUME NEW a \in Attempts, TakenDown(r, a) PROVE [Promise!Next]_(Promise!vars)
  <2>1. \A q \in Runs : SameKept(q)
    BY <1>4 DEF TakenDown, SameKept, KeptOf
  <2>2. \A q \in Runs, b \in Attempts :
           machine'[q][b] = IF q = r /\ b = a THEN "destroyed" ELSE machine[q][b]
    BY <1>4, MachineSet, ZenonT(60) DEF TakenDown
  <2>3. \A q \in Runs : Linked(q)' = Linked(q)
    BY <1>4, <2>2 DEF Linked, TakenDown
  <2>4. Live(r)' = Live(r) \ {a} /\ \A q \in Runs : q # r => Live(q)' = Live(q)
    BY <2>2 DEF Live
  <2>5. [q \in Runs |-> Linked(q)]' = [q \in Runs |-> Linked(q)]
    BY <2>3
  <2>6. CASE a \in Live(r)
    <3>1. [q \in Runs |-> Live(q)]' = [[q \in Runs |-> Live(q)] EXCEPT ![r] = @ \ {a}]
      BY <2>4
    <3>2. Promise!Release(r, a)
      BY <1>0, <2>1, <2>5, <2>6, <3>1, Mapped
         DEF Promise!Release, StageOf, VerdictOf, Live, KeptOf
    <3> QED
      BY <3>2 DEF Promise!Next
  <2>7. CASE a \notin Live(r)
    <3>1. \A q \in Runs : SameMachines(q)
      BY <2>3, <2>4, <2>7 DEF SameMachines
    <3> QED
      BY <1>0, <2>1, <3>1, Mapped DEF Promise!vars, StageOf, VerdictOf, Live, KeptOf
  <2> QED
    BY <2>6, <2>7
<1> QED
  BY <1>1, <1>2, <1>3, <1>4

\* A row is finished only by a task whose last teardown left nothing behind.
LEMMA FinishedClean ==
    ASSUME BaseInv, HoldInv, [ExecNext]_allVars, NEW r \in Runs,
           status'[r] = "finished", status[r] # "finished"
    PROVE  Loose(r) = {}
<1>0. status \in [Runs -> Statuses]
  BY DEF BaseInv, RowInv, TypeOK
<1>1. ASSUME NEW o \in Owners, Finish(o) PROVE Loose(r) = {}
  <2>1. FinishRun(task[o].run, o) /\ task[o].pc = "finish"
    BY <1>1 DEF Finish, At, vars, queueVars, leaseVars
  <2>2. owner[task[o].run] = o /\ task[o].run = r
    BY <1>0, <2>1 DEF FinishRun, OwnsLive
  <2> QED
    BY <2>1, <2>2, HoldFacts DEF TeardownHolds
<1>2. ASSUME NEW o \in Owners,
             \/ DispatchRecovery(o) \/ DispatchClaim(o) \/ Heartbeat(o) \/ HeartbeatTimeout(o)
             \/ Crash(o) \/ Fail(o) \/ LoseLease(o)
      PROVE  FALSE
  BY <1>0, <1>2, Zenon DEF DispatchRecovery, DispatchClaim, Heartbeat, HeartbeatTimeout, Crash, Fail,
                    LoseLease, LocalStep, RecoverRun, ClaimRun, HeartbeatRun, FailRun, vars,
                    queueVars, leaseVars
<1>3. ASSUME NEW o \in Owners,
             \/ Read(o) \/ Clean(o) \/ Expire(o) \/ Reread(o) \/ Sweep(o) \/ Fetch(o)
             \/ ReclaimRead(o) \/ Place(o) \/ Retain(o) \/ Destroy(o)
      PROVE  FALSE
  BY <1>3, SMTT(40) DEF Read, Clean, Expire, Reread, Sweep, Fetch, ReclaimRead, Place, Retain, Destroy,
              LocalStep, vars, queueVars, leaseVars
<1>4. ASSUME NEW o \in Owners,
             \/ Record(o) \/ Prepare(o) \/ Mark(o) \/ Work(o) \/ Results(o) \/ SweepResults(o)
             \/ Complete(o) \/ Settle(o) \/ SettleFailure(o) \/ ReclaimResults(o)
      PROVE  FALSE
  BY <1>4 DEF Record, Prepare, Mark, Work, Results, SweepResults, Complete, Settle,
              SettleFailure, ReclaimResults, StoreStep, queueVars, leaseVars
<1>5. ASSUME NEW c \in Cancels, CancelRead(c) \/ CancelNext(c) \/ CancelDropped(c)
      PROVE  FALSE
  BY <1>5 DEF CancelRead, CancelNext, CancelDropped, CancelWrite, CancelRecheck, CancelDestroy,
              CancelResults, vars, queueVars, leaseVars
<1>6. ASSUME NEW s \in Sweepers, SweeperNext(s) PROVE FALSE
  BY <1>6 DEF SweeperNext, ExpireRetention, RetentionDestroy, RetentionReport, RetentionClear,
              vars, queueVars, leaseVars
<1>7. ASSUME NEW q \in Runs, Submit(q) PROVE FALSE
  BY <1>0, <1>7 DEF Submit, EnqueueRun
<1>8. CASE TimePasses \/ UNCHANGED allVars
  BY <1>8 DEF TimePasses, Tick, allVars, vars, queueVars, leaseVars
<1>9. ASSUME NEW q \in Runs, NEW m \in Attempts, DeleteMachine(q, m) PROVE FALSE
  BY <1>9 DEF DeleteMachine, vars, queueVars, leaseVars
<1> QED
  BY <1>1, <1>2, <1>3, <1>4, <1>5, <1>6, <1>7, <1>8, <1>9 DEF ExecNext, TaskStep

\* Nothing has been promised to anybody at first.
LEMMA PromiseInit == ExecInit => Promise!Init
<1> SUFFICES ASSUME ExecInit PROVE Promise!Init
  OBVIOUS
<1>1. \A r \in Runs : /\ StageOf(r) = "new" /\ VerdictOf(r) = {} /\ Linked(r) = {}
                      /\ Live(r) = {} /\ KeptOf(r) = {}
  BY DEF ExecInit, Init, RunInit, StageOf, VerdictOf, Linked, Live, KeptOf, TerminalStates
<1> QED
  BY <1>1 DEF Promise!Init, StageOf, VerdictOf, Live, KeptOf

\* Dispatcher, executor, recovery, cancel endpoint and sweepers, with crashes,
\* lost leases and failed teardowns, together keep the promise made to every
\* submission: one verdict, no machine after it, none given twice, and a row that
\* closes only when nothing is held but the machine kept for the caller.
THEOREM PromiseKept == ExecSpec => ImplementsPromise
<1>1. BaseInv /\ HoldInv /\ [ExecNext]_allVars => [Promise!Next]_(Promise!vars)
  <2> SUFFICES ASSUME BaseInv, HoldInv, [ExecNext]_allVars PROVE [Promise!Next]_(Promise!vars)
    OBVIOUS
  <2>1. StepEffect /\ StepKept
    BY EveryEffect, BaseStep
  <2>2. CASE machine' = machine /\ retained' = retained
    BY <2>1, <2>2, FinishedClean, QueueKeepsPromise DEF BaseInv, StepKept
  <2>3. CASE RowsStand /\ \E r \in Runs :
               \/ StruckOff(r)
               \/ \E a \in Attempts : Placed(r, a) \/ TakenDown(r, a) \/ KeptFor(r, a)
    BY <2>3, EffectKeepsPromise
  <2> QED
    BY <2>1, <2>2, <2>3 DEF StepEffect
<1> QED
  BY <1>1, PromiseInit, HoldInvariant, PTL DEF ExecSpec, ImplementsPromise, Promise!Spec

Promised == INSTANCE RunPromiseProofs WITH
    Machines <- Attempts, Verdicts <- TerminalStates,
    stage <- [r \in Runs |-> StageOf(r)], verdict <- [r \in Runs |-> VerdictOf(r)],
    used <- [r \in Runs |-> Linked(r)], held <- [r \in Runs |-> Live(r)],
    kept <- [r \in Runs |-> KeptOf(r)]

\* No compute is leaked by the control plane as it stands: a run the queue has
\* let go of has its verdict, and every machine of it that is still up is the one
\* retained_sandbox_id names, where the sweeper finds it.
THEOREM ComputeNotLeaked == ExecSpec => []Promise!NothingLeaked
<1> USE DEF StageOf, VerdictOf, Live, KeptOf
<1>1. Promise!Init => Promised!Init
  BY SMTT(40) DEF Promise!Init, Promised!Init
<1>2. [Promise!Next]_(Promise!vars) => [Promised!Next]_(Promised!vars)
  BY DEF Promise!Next, Promised!Next, Promise!vars, Promised!vars, Promise!Admit, Promised!Admit,
         Promise!Forget, Promised!Forget, Promise!Close, Promised!Close, Promise!Acquire,
         Promised!Acquire, Promise!Release, Promised!Release, Promise!Keep, Promised!Keep,
         Promise!Decide, Promised!Decide
<1>3. Promised!NothingLeaked => Promise!NothingLeaked
  BY DEF Promise!NothingLeaked, Promised!NothingLeaked
<1> QED
  BY <1>1, <1>2, <1>3, PromiseKept, Promised!NothingLeakedHolds, PTL
     DEF ImplementsPromise, Promise!Spec, Promised!Spec

-----------------------------------------------------------------------------
(* Reports of the retention sweepers.                                      *)

\* The run was settled by its own executor, not by recovery or a cancel.
OwnVerdict(r) == reason[r] = NoReason /\ runState[r] \in {"succeeded", "failed"}

\* Where the tasks of such a run can still be: it is never worked on again.
Leaving == {"idle", "fetch", "finish", "fail"}

\* The time of what the run retains is over, so that the next sweep will look at it.
Due(r) == retainLeft[r] = 0

SettledTasks(r) == \A o \in Owners : task[o].run = r => task[o].pc \in Leaving

\* The sweepers of the run are after the retained machine, or too late for it.
SettledSweepers(r) ==
    \A s \in Sweepers : (sweeper[s].run = r /\ sweeper[s].pc # "idle") =>
        /\ retained[r] \in {sweeper[s].machine, NoMachine}
        /\ retained[r] = sweeper[s].machine => Due(r)

SettledReport(r) ==
    (status[r] = "finished" /\ cleanupFailed[r] # NoMachine) =>
        cleanupFailed[r] = retained[r] /\ Due(r)

Settled(r) == SettledTasks(r) /\ SettledSweepers(r) /\ SettledReport(r)
ReportInv == \A r \in Runs : OwnVerdict(r) => Settled(r)

\* Nothing a report about r depends on is touched.
Untouched(r) ==
    /\ runState'[r] = runState[r] /\ cleanupFailed'[r] = cleanupFailed[r]
    /\ status'[r] = status[r] /\ retained'[r] = retained[r] /\ retainLeft'[r] = retainLeft[r]

LEMMA UntouchedSettled ==
    ASSUME NEW r \in Runs, Settled(r), SettledTasks(r)', sweeper' = sweeper,
           retained'[r] = retained[r], Due(r) => Due(r)', cleanupFailed'[r] = cleanupFailed[r],
           status'[r] = "finished" => status[r] = "finished" \/ cleanupFailed[r] = NoMachine
    PROVE  Settled(r)'
  BY DEF Settled, SettledSweepers, SettledReport

\* A task at work keeps its run until it ends.
LEMMA OwnRecord ==
    ASSUME BaseInv, NEW o \in Owners,
           TaskStep(o) \/ Heartbeat(o) \/ HeartbeatTimeout(o) \/ Crash(o)
    PROVE  /\ task'[o].run = task[o].run \/ task'[o].pc = "idle"
           /\ \A p \in Owners : p # o => task'[p] = task[p]
<1> DEFINE t == task[o]
           Goal == /\ task'[o].run = t.run \/ task'[o].pc = "idle"
                   /\ \A p \in Owners : p # o => task'[p] = task[p]
<1>0. t \in Tasks /\ task \in [Owners -> Tasks]
  BY TaskFacts DEF ExecTypeOK
<1>n. NoTask \in Tasks /\ NoTask.pc = "idle"
  BY RestingTypes
<1>1. CASE Read(o)
  BY <1>0, <1>1, ZenonT(60) DEF Read, Becomes, Tasks
<1>2. CASE Clean(o)
  <2>1. \E s : \/ Becomes(o, [t EXCEPT !.pc = "retain", !.seen = s])
              \/ Becomes(o, [t EXCEPT !.pc = "destroy", !.seen = s,
                                      !.todo = {t.attempt}, !.after = "results"])
    BY <1>2 DEF Clean
  <2> QED
    BY <1>0, <2>1, ZenonT(60) DEF Becomes, Tasks
<1>3. CASE Expire(o)
  BY <1>0, <1>3 DEF Expire, Becomes, Tasks
<1>4. CASE Reread(o)
  BY <1>0, <1>4 DEF Reread, Becomes, Tasks
<1>5. CASE Sweep(o)
  BY <1>0, <1>5 DEF Sweep, Becomes, Tasks
<1>6. CASE Fetch(o)
  BY <1>0, <1>6 DEF Fetch, Becomes, Tasks
<1>7. CASE ReclaimRead(o)
  BY <1>0, <1>7 DEF ReclaimRead, Becomes, Tasks
<1>8. CASE Record(o)
  BY <1>0, <1>8 DEF Record, Becomes, Tasks
<1>9. CASE Mark(o)
  BY <1>0, <1>9 DEF Mark, Becomes, Tasks
<1>10. CASE Complete(o)
  BY <1>0, <1>10 DEF Complete, Becomes, Tasks
<1>11. CASE SettleFailure(o)
  BY <1>0, <1>11 DEF SettleFailure, Becomes, Tasks
<1>12. CASE Place(o)
  BY <1>0, <1>12, ZenonT(60) DEF Place, RollBack, Becomes, Tasks
<1>13. CASE Retain(o)
  BY <1>0, <1>13, ZenonT(60) DEF Retain, Becomes, Tasks
<1>14. CASE Destroy(o)
  BY <1>0, <1>14, ZenonT(60) DEF Destroy, Becomes, Tasks
<1>15. CASE Prepare(o)
  BY <1>0, <1>15, ZenonT(60) DEF Prepare, Advance, Becomes, Tasks
<1>16. CASE Work(o)
  BY <1>0, <1>16, ZenonT(60) DEF Work, Advance, Becomes, Tasks
<1>17. CASE Results(o)
  BY <1>0, <1>17 DEF Results, WriteResults, Becomes, Tasks
<1>18. CASE SweepResults(o)
  BY <1>0, <1>18 DEF SweepResults, WriteResults, Becomes, Tasks
<1>19. CASE Settle(o)
  BY <1>0, <1>19 DEF Settle, WriteResults, Becomes, Tasks
<1>20. CASE ReclaimResults(o)
  BY <1>0, <1>n, <1>20 DEF ReclaimResults, WriteResults, Becomes, Tasks
<1>21. CASE Heartbeat(o)
  BY <1>0, <1>n, <1>21 DEF Heartbeat, Idle, execVars, Becomes, Tasks
<1>22. CASE HeartbeatTimeout(o)
  BY <1>0, <1>n, <1>22 DEF HeartbeatTimeout, Idle, execVars, Becomes, Tasks
<1>23. CASE Crash(o)
  BY <1>0, <1>n, <1>23 DEF Crash, Idle, execVars, Becomes, Tasks
<1>24. CASE LoseLease(o)
  BY <1>0, <1>n, <1>24 DEF LoseLease, Idle, execVars, Becomes, Tasks
<1>25. CASE Finish(o)
  BY <1>0, <1>n, <1>25 DEF Finish, Idle, execVars, Becomes, Tasks
<1>26. CASE Fail(o)
  BY <1>0, <1>n, <1>26 DEF Fail, Idle, execVars, Becomes, Tasks
<1> QED
  BY <1>1, <1>2, <1>3, <1>4, <1>5, <1>6, <1>7, <1>8, <1>9, <1>10, <1>11, <1>12, <1>13, <1>14, <1>15, <1>16, <1>17, <1>18, <1>19, <1>20, <1>21, <1>22, <1>23, <1>24, <1>25, <1>26 DEF TaskStep

\* A task at work touches no run but its own.
LEMMA OwnRunOnly ==
    ASSUME BaseInv, HoldInv, NEW o \in Owners,
           TaskStep(o) \/ Heartbeat(o) \/ HeartbeatTimeout(o) \/ Crash(o)
    PROVE  /\ \A q \in Runs : q # task[o].run => Untouched(q)
           /\ task'[o].run = task[o].run \/ task'[o].pc = "idle"
           /\ \A p \in Owners : p # o => task'[p] = task[p]
           /\ sweeper' = sweeper
<1> DEFINE t == task[o]
<1>0. /\ t \in Tasks /\ t.run \in Runs /\ ShapeOf(t)
      /\ retained \in [Runs -> Attempts \cup {NoMachine}]
      /\ retainLeft \in [Runs -> 0 .. RetainTTL]
      /\ runState \in [Runs -> RunStates \cup {"absent"}]
      /\ cleanupFailed \in [Runs -> Attempts \cup {NoMachine}]
      /\ status \in [Runs -> Statuses]
  BY HoldFacts DEF BaseInv, ExecTypeOK, RowInv, TypeOK, RunTypeOK
<1>r. PICK r \in Runs : r = t.run
  BY <1>0
<1>b. /\ task'[o].run = t.run \/ task'[o].pc = "idle"
      /\ \A p \in Owners : p # o => task'[p] = task[p]
  BY OwnRecord
<1>1. CASE \/ Read(o) \/ Clean(o) \/ Expire(o) \/ Reread(o) \/ Sweep(o) \/ Fetch(o)
           \/ ReclaimRead(o)
  <2>1. \A q \in Runs : Untouched(q)
    BY <1>1 DEF Read, Clean, Expire, Reread, Sweep, Fetch, ReclaimRead, LocalStep, machineVars,
                vars, runVars, queueVars, leaseVars, Untouched
  <2>2. sweeper' = sweeper
    BY <1>1 DEF Read, Clean, Expire, Reread, Sweep, Fetch, ReclaimRead, LocalStep, otherActors
  <2> QED
    BY <1>b, <2>1, <2>2
<1>2. CASE \/ Record(o) \/ Prepare(o) \/ Mark(o) \/ Work(o) \/ Results(o) \/ SweepResults(o)
           \/ Complete(o) \/ Settle(o) \/ SettleFailure(o) \/ ReclaimResults(o)
  <2>1. /\ sweeper' = sweeper /\ retained' = retained /\ retainLeft' = retainLeft
        /\ status' = status
    BY <1>2 DEF Record, Prepare, Mark, Work, Results, SweepResults, Complete, Settle,
                SettleFailure, ReclaimResults, StoreStep, otherActors, machineVars, queueVars,
                leaseVars
  <2>2. WritesOnly(r)
    <3>1. CASE Record(o) \/ Mark(o) \/ Complete(o) \/ SettleFailure(o)
      BY <1>r, <3>1, RowWritten, SMTT(40) DEF Record, Mark, Complete, SettleFailure
    <3>2. CASE Prepare(o) \/ Work(o)
      BY <1>r, <3>2, RowWritten, ZenonT(60) DEF Prepare, Work, Advance
    <3>3. CASE Results(o) \/ SweepResults(o) \/ Settle(o) \/ ReclaimResults(o)
      BY <1>r, <3>3, RowWritten DEF Results, SweepResults, Settle, ReclaimResults, WriteResults
    <3> QED
      BY <1>2, <3>1, <3>2, <3>3
  <2> QED
    BY <1>b, <1>r, <2>1, <2>2, SMTT(40) DEF WritesOnly, Untouched
<1>3. CASE Place(o) \/ Retain(o) \/ Destroy(o)
  <2>1. sweeper' = sweeper /\ runState' = runState /\ cleanupFailed' = cleanupFailed
        /\ status' = status
    BY <1>3 DEF Place, Retain, Destroy, otherActors, vars, runVars, queueVars, leaseVars
  <2>2. \A q \in Runs : q # r => retained'[q] = retained[q] /\ retainLeft'[q] = retainLeft[q]
    BY <1>0, <1>3, <1>r DEF Place, Retain, RetainRunSandbox, Destroy
  <2> QED
    BY <1>b, <1>r, <2>1, <2>2 DEF Untouched
<1>4. CASE Heartbeat(o) \/ HeartbeatTimeout(o) \/ Crash(o) \/ LoseLease(o)
  <2>1. sweeper' = sweeper /\ \A q \in Runs : Untouched(q)
    BY <1>4 DEF Heartbeat, HeartbeatRun, HeartbeatTimeout, Crash, LoseLease, LocalStep, execVars,
                machineVars, otherActors, vars, runVars, queueVars, leaseVars, Untouched
  <2> QED
    BY <1>b, <2>1
<1>5. CASE Finish(o) \/ Fail(o)
  <2>1. sweeper' = sweeper /\ retained' = retained /\ retainLeft' = retainLeft
    BY <1>5 DEF Finish, Fail, QueueStep, machineVars, otherActors
  <2>2. \A q \in Runs : q # r => /\ runState'[q] = runState[q]
                                 /\ cleanupFailed'[q] = cleanupFailed[q]
                                 /\ status'[q] = status[q]
    BY <1>0, <1>5, <1>r DEF Finish, Fail, FinishRun, FailRun, RetireRun, vars, runVars, queueVars,
                            leaseVars
  <2> QED
    BY <1>b, <1>r, <2>1, <2>2 DEF Untouched
<1> QED
  BY <1>1, <1>2, <1>3, <1>4, <1>5 DEF TaskStep

\* A verdict that is nobody else's comes from settle or settle_failure.
LEMMA VerdictGiven ==
    ASSUME BaseInv, HoldInv, [ExecNext]_allVars, NEW r \in Runs, ~IsTerminal(runState[r]),
           OwnVerdict(r)'
    PROVE  \E o \in Owners : task[o].run = r /\ (Settle(o) \/ SettleFailure(o))
<1>0. /\ runState \in [Runs -> RunStates \cup {"absent"}]
      /\ runState'[r] \in {"succeeded", "failed"} /\ reason'[r] = NoReason
      /\ reason \in [Runs -> Reasons \cup {NoReason}]
      /\ runState'[r] # runState[r]
  BY DEF BaseInv, RowInv, TypeOK, RunTypeOK, OwnVerdict, IsTerminal, TerminalStates
<1>1. ASSUME NEW o \in Owners, TaskStep(o) \/ Heartbeat(o) \/ HeartbeatTimeout(o) \/ Crash(o)
      PROVE  task[o].run = r /\ (Settle(o) \/ SettleFailure(o))
  <2> DEFINE t == task[o]
  <2>1. t.run = r
    BY <1>0, <1>1, OwnRunOnly DEF Untouched
  <2>2. t \in Tasks /\ (t.pc # "idle" => ~IsTerminal(t.seen))
    BY <2>1, HoldFacts DEF StandsOf
  <2>3. runState' # runState
    BY <1>0
  <2>4. ASSUME \/ Read(o) \/ Clean(o) \/ Expire(o) \/ Reread(o) \/ Sweep(o) \/ Fetch(o)
               \/ ReclaimRead(o) \/ Place(o) \/ Retain(o) \/ Destroy(o) \/ LoseLease(o)
               \/ Heartbeat(o) \/ HeartbeatTimeout(o) \/ Crash(o) \/ Finish(o)
        PROVE  FALSE
    BY <2>3, <2>4 DEF Read, Clean, Expire, Reread, Sweep, Fetch, ReclaimRead, Place, Retain,
                      Destroy, LoseLease, Heartbeat, HeartbeatRun, HeartbeatTimeout, Crash,
                      Finish, FinishRun, LocalStep, vars, runVars
  <2>5. ASSUME Record(o) \/ Complete(o) PROVE FALSE
    BY <2>3, <2>5 DEF Record, RecordRunAttempt, Complete, CompleteRunAttempt, runVars
  <2>6. ASSUME Prepare(o) \/ Work(o) PROVE FALSE
    <3>1. \/ \E next \in {"preparing", "running", "validating", "collecting"} :
                UpdateRunState(r, t.seen, next)
          \/ UNCHANGED runVars
      BY <2>1, <2>6 DEF Prepare, Work, Advance, NextPhases
    <3> QED
      BY <1>0, <3>1, RowWritten DEF runVars
  <2>7. ASSUME Mark(o) \/ Results(o) \/ SweepResults(o) \/ ReclaimResults(o) PROVE FALSE
    <3>1. t.pc # "idle"
      BY <2>7 DEF Mark, Results, SweepResults, ReclaimResults, At
    <3>2. (\E report : RecordRunResults(r, t.seen, report)) \/ UNCHANGED runVars
      BY <2>1, <2>7 DEF Mark, Results, SweepResults, ReclaimResults, WriteResults
    <3>3. runState'[r] = t.seen \/ UNCHANGED runVars
      BY <3>2, RowWritten
    <3> QED
      BY <1>0, <2>2, <3>1, <3>3 DEF IsTerminal, TerminalStates, runVars
  <2>8. ASSUME Fail(o) PROVE FALSE
    <3>1. FailRun(r, o)
      BY <2>1, <2>3, <2>8 DEF Fail, vars, runVars
    <3> QED
      BY <1>0, <3>1 DEF FailRun, NoReason
  <2> QED
    BY <1>1, <2>1, <2>4, <2>5, <2>6, <2>7, <2>8 DEF TaskStep
<1>2. ASSUME NEW o \in Owners, DispatchRecovery(o) \/ DispatchClaim(o) PROVE FALSE
  <2>1. PICK q \in Runs : RecoverRun(q, o)
    BY <1>0, <1>2, Zenon DEF DispatchRecovery, DispatchClaim, ClaimRun, runVars
  <2>2. q = r
    BY <1>0, <2>1 DEF RecoverRun, RetireRun
  <2>3. reason'[r] = RecoveryReason(r)
    BY <1>0, <2>1, <2>2 DEF RecoverRun
  <2> QED
    BY <1>0, <2>3, SMTT(40) DEF RecoveryReason, NoReason
<1>3. ASSUME NEW c \in Cancels, CancelRead(c) \/ CancelNext(c) \/ CancelDropped(c) PROVE FALSE
  <2>1. PICK q \in Runs : q = cancel[c].run
    BY DEF BaseInv, ExecTypeOK, CancelRequests
  <2>2. CASE CancelWrite(c)
    <3>1. UpdateRunState(q, cancel[c].seen, "cancelled") \/ UNCHANGED runVars
      BY <2>1, <2>2 DEF CancelWrite
    <3> QED
      BY <1>0, <3>1, RowWritten DEF WritesOnly, runVars
  <2>3. CASE CancelResults(c)
    <3>1. RecordRunResults(q, "cancelled", cancel[c].report)
      BY <2>1, <2>3 DEF CancelResults
    <3> QED
      BY <1>0, <3>1, RowWritten DEF WritesOnly
  <2>4. CASE CancelRead(c) \/ CancelRecheck(c) \/ CancelDestroy(c) \/ CancelDropped(c)
    BY <1>0, <2>4 DEF CancelRead, CancelRecheck, CancelDestroy, CancelDropped, vars, runVars
  <2> QED
    BY <1>3, <2>2, <2>3, <2>4 DEF CancelNext
<1>4. ASSUME NEW s \in Sweepers, SweeperNext(s) PROVE FALSE
  BY <1>0, <1>4 DEF SweeperNext, ExpireRetention, RetentionDestroy, RetentionReport,
                    RetentionClear, ReportRetentionFailure, ClearRetentionReport, vars, runVars
<1>5. ASSUME NEW q \in Runs, Submit(q) PROVE FALSE
  BY <1>0, <1>5 DEF Submit, EnqueueRun, InsertRun
<1>6. CASE TimePasses \/ UNCHANGED allVars
  BY <1>0, <1>6 DEF TimePasses, Tick, allVars, vars, runVars
<1>7. ASSUME NEW q \in Runs, NEW m \in Attempts, DeleteMachine(q, m) PROVE FALSE
  BY <1>0, <1>7 DEF DeleteMachine, vars, runVars
<1> QED
  BY <1>1, <1>2, <1>3, <1>4, <1>5, <1>6, <1>7 DEF ExecNext

\* At that moment the executor is alone with the run.
LEMMA SettledAtVerdict ==
    ASSUME BaseInv, HoldInv, [ExecNext]_allVars, NEW r \in Runs, ~IsTerminal(runState[r]),
           OwnVerdict(r)'
    PROVE  Settled(r)'
<1>1. PICK o \in Owners : task[o].run = r /\ (Settle(o) \/ SettleFailure(o))
  BY VerdictGiven
<1> DEFINE t == task[o]
<1>2. /\ t \in Tasks /\ Executes(t) /\ task \in [Owners -> Tasks]
      /\ sweeper' = sweeper /\ status' = status
  BY <1>1, HoldFacts
     DEF Settle, SettleFailure, At, Executes, ExecPcs, StoreStep, otherActors, queueVars,
         leaseVars, BaseInv, ExecTypeOK
<1>3. task'[o].pc \in {"fetch", "fail"} /\ \A p \in Owners : p # o => task'[p] = task[p]
  BY <1>1, <1>2, ZenonT(60) DEF Settle, SettleFailure, WriteResults, Becomes, Tasks
<1>4. SettledTasks(r)'
  <2>1. ASSUME NEW p \in Owners, p # o, task[p].run = r PROVE task[p].pc \in Leaving
    <3>1. ~Executes(task[p])
      BY <1>1, <1>2, <2>1 DEF HoldInv, OneExecutor
    <3>2. ~Reclaims(task[p]) /\ task[p] \in Tasks
      BY <2>1, HoldFacts DEF StandsOf
    <3> QED
      BY <3>1, <3>2 DEF Executes, Reclaims, Leaving, Tasks, Pcs
  <2> QED
    BY <1>3, <2>1 DEF SettledTasks, Leaving
<1>5. \A s \in Sweepers : sweeper'[s].run = r => sweeper'[s].pc = "idle"
  BY <1>2 DEF HoldInv, SweeperHolds
<1>6. status'[r] # "finished"
  BY <1>2 DEF BaseInv, RowInv, TeardownHasVerdict
<1> QED
  BY <1>4, <1>5, <1>6 DEF Settled, SettledSweepers, SettledReport

\* Afterwards no task works on the run again, ...
LEMMA SettledThroughTask ==
    ASSUME BaseInv, HoldInv, NEW r \in Runs, OwnVerdict(r), OwnVerdict(r)', Settled(r),
           NEW o \in Owners,
           \/ DispatchRecovery(o) \/ DispatchClaim(o) \/ TaskStep(o)
           \/ Heartbeat(o) \/ HeartbeatTimeout(o) \/ Crash(o)
    PROVE  Settled(r)'
<1> DEFINE t == task[o]
<1>0. /\ t \in Tasks /\ task \in [Owners -> Tasks] /\ (t.run = r => t.pc \in Leaving)
      /\ status \in [Runs -> Statuses] /\ runState[r] # "queued" /\ runState[r] # "cancelled"
      /\ reason \in [Runs -> Reasons \cup {NoReason}] /\ reason[r] = NoReason
      /\ reason'[r] = NoReason /\ IsTerminal(runState[r])
  BY HoldFacts DEF Settled, SettledTasks, BaseInv, ExecTypeOK, RowInv, TypeOK, OwnVerdict,
                   IsTerminal, TerminalStates
<1>n. NoTask.pc = "idle" /\ NoTask \in Tasks
  BY RestingTypes
<1>1. CASE DispatchRecovery(o)
  <2>1. PICK q \in Runs : RecoverRun(q, o)
                          /\ Becomes(o, [NoTask EXCEPT !.pc = "rread", !.run = q])
    BY <1>1 DEF DispatchRecovery
  <2>2. q # r
    <3> SUFFICES ASSUME q = r PROVE FALSE
      OBVIOUS
    <3>1. reason'[r] = RecoveryReason(r)
      BY <1>0, <2>1 DEF RecoverRun
    <3> QED
      BY <1>0, <3>1 DEF RecoveryReason, NoReason
  <2>3. task'[o].run = q /\ \A p \in Owners : p # o => task'[p] = task[p]
    BY <1>0, <1>n, <2>1 DEF Becomes, Tasks
  <2>4. SettledTasks(r)'
    BY <2>2, <2>3 DEF Settled, SettledTasks
  <2>5. status'[r] = status[r] /\ cleanupFailed' = cleanupFailed
    BY <1>0, <2>1, <2>2 DEF RecoverRun, RetireRun
  <2>6. sweeper' = sweeper /\ retained' = retained /\ retainLeft' = retainLeft
    BY <1>1 DEF DispatchRecovery, QueueStep, machineVars, otherActors
  <2> QED
    BY <2>4, <2>5, <2>6, UntouchedSettled DEF Due
<1>2. CASE DispatchClaim(o)
  <2>1. PICK q \in Runs, pc \in {"read", "fail"} :
           ClaimRun(q, o) /\ Becomes(o, [NoTask EXCEPT !.pc = pc, !.run = q])
    BY <1>2 DEF DispatchClaim
  <2>2. q # r
    BY <1>0, <2>1 DEF ClaimRun, Claimable, Eligible
  <2>3. task'[o].run = q /\ \A p \in Owners : p # o => task'[p] = task[p]
    BY <1>0, <1>n, <2>1 DEF Becomes, Tasks
  <2>4. SettledTasks(r)'
    BY <2>2, <2>3 DEF Settled, SettledTasks
  <2>5. status'[r] = status[r] /\ cleanupFailed' = cleanupFailed
    BY <1>0, <2>1, <2>2, SMTT(40) DEF ClaimRun, runVars
  <2>6. sweeper' = sweeper /\ retained' = retained /\ retainLeft' = retainLeft
    BY <1>2 DEF DispatchClaim, QueueStep, machineVars, otherActors
  <2> QED
    BY <2>4, <2>5, <2>6, UntouchedSettled, SMTT(40) DEF Due
<1>3. CASE TaskStep(o) \/ Heartbeat(o) \/ HeartbeatTimeout(o) \/ Crash(o)
  <2>0. /\ \A q \in Runs : q # t.run => Untouched(q)
        /\ t.run # r => task'[o].run # r \/ task'[o].pc = "idle"
        /\ \A p \in Owners : p # o => task'[p] = task[p]
        /\ sweeper' = sweeper
    BY <1>3, OwnRunOnly
  <2>1. CASE t.run # r
    <3>1. SettledTasks(r)'
      BY <2>0, <2>1 DEF Settled, SettledTasks, Leaving
    <3> QED
      BY <2>0, <2>1, <3>1, UntouchedSettled DEF Untouched, Due
  <2>2. CASE t.run = r
    <3>1. t.pc \in Leaving
      BY <1>0, <2>2, SMTT(40)
    <3>2. Fetch(o) \/ Finish(o) \/ Fail(o) \/ LoseLease(o) \/ Heartbeat(o) \/ HeartbeatTimeout(o)
          \/ Crash(o)
      BY <1>3, <3>1, Zenon
         DEF Leaving, TaskStep, Read, Clean, Expire, Reread, Sweep, ReclaimRead, Record, Prepare,
             Mark, Work, Results, SweepResults, Complete, Settle, SettleFailure, ReclaimResults,
             Place, Retain, Destroy, At, TimedPcs
    <3>3. retained' = retained /\ retainLeft' = retainLeft
      BY <3>2 DEF Fetch, Finish, Fail, LoseLease, Heartbeat, HeartbeatTimeout, Crash, LocalStep,
                  QueueStep, machineVars, execVars
    <3>4. ~FailRun(r, o)
      BY <1>0 DEF FailRun, NoReason
    <3>5. task'[o].pc \in Leaving
      <4>1. CASE Fetch(o)
        BY <1>0, <4>1 DEF Fetch, Becomes, Tasks, Leaving
      <4>2. CASE Heartbeat(o)
        BY <3>1, <4>2 DEF Heartbeat, execVars
      <4>3. CASE Finish(o) \/ LoseLease(o) \/ HeartbeatTimeout(o) \/ Crash(o)
        BY <1>0, <1>n, <4>3 DEF Finish, LoseLease, HeartbeatTimeout, Crash, Idle, Becomes, Tasks,
                                Leaving
      <4>4. CASE Fail(o)
        BY <1>0, <1>n, <2>2, <3>4, <4>4 DEF Fail, Idle, Becomes, Leaving
      <4> QED
        BY <3>2, <4>1, <4>2, <4>3, <4>4
    <3>6. SettledTasks(r)'
      BY <2>0, <3>5 DEF Settled, SettledTasks
    <3>7. /\ cleanupFailed' = cleanupFailed
          /\ status'[r] = status[r] \/ cleanupFailed[r] = NoMachine
      <4>1. CASE Fetch(o) \/ LoseLease(o) \/ HeartbeatTimeout(o) \/ Crash(o) \/ Heartbeat(o)
        BY <4>1 DEF Fetch, LoseLease, HeartbeatTimeout, Crash, Heartbeat, HeartbeatRun, LocalStep,
                    vars, runVars, queueVars, leaseVars
      <4>2. CASE Finish(o)
        BY <2>2, <4>2 DEF Finish, FinishRun, vars, runVars, queueVars, leaseVars
      <4>3. CASE Fail(o)
        BY <2>2, <3>4, <4>3 DEF Fail, vars, runVars, queueVars, leaseVars
      <4> QED
        BY <3>2, <4>1, <4>2, <4>3
    <3> QED
      BY <2>0, <3>3, <3>6, <3>7, UntouchedSettled DEF Due
  <2> QED
    BY <2>1, <2>2
<1> QED
  BY <1>1, <1>2, <1>3

\* ... no cancel request gets at it, ...
LEMMA SettledThroughCancel ==
    ASSUME BaseInv, HoldInv, NEW r \in Runs, OwnVerdict(r), OwnVerdict(r)', Settled(r),
           NEW c \in Cancels, CancelRead(c) \/ CancelNext(c) \/ CancelDropped(c)
    PROVE  Settled(r)'
<1> DEFINE x == cancel[c]
<1>1. PICK q \in Runs : q = x.run
  BY DEF BaseInv, ExecTypeOK, CancelRequests
<1>2. /\ CancelHolds(c) /\ task' = task /\ sweeper' = sweeper /\ retained' = retained
      /\ retainLeft' = retainLeft
      /\ status' = status /\ runState[r] # "cancelled" /\ runState'[r] # "cancelled"
  BY DEF HoldInv, CancelRead, CancelNext, CancelDropped, CancelWrite, CancelRecheck,
         CancelDestroy, CancelResults, CancelStep, vars, queueVars, leaseVars, OwnVerdict
<1>3. cleanupFailed'[r] = cleanupFailed[r]
  <2>1. CASE CancelResults(c)
    <3>1. RecordRunResults(q, "cancelled", x.report) /\ q # r
      BY <1>1, <1>2, <2>1 DEF CancelResults, CancelHolds
    <3> QED
      BY <3>1, RowWritten DEF WritesOnly
  <2>2. CASE ~CancelResults(c)
    BY <2>2 DEF CancelNext, CancelRead, CancelDropped, CancelWrite, CancelRecheck, CancelDestroy,
                UpdateRunState, vars, runVars
  <2> QED
    BY <2>1, <2>2
<1>4. SettledTasks(r)'
  BY <1>2 DEF Settled, SettledTasks
<1> QED
  BY <1>2, <1>3, <1>4, UntouchedSettled DEF Due

\* ... and the sweepers that are after its machine keep the reports on record
\* between them: whoever loses the race finds the machine no longer retained.
LEMMA SettledThroughSweeper ==
    ASSUME BaseInv, HoldInv, NEW r \in Runs, OwnVerdict(r), Settled(r),
           NEW s \in Sweepers, SweeperNext(s)
    PROVE  Settled(r)'
<1> DEFINE x == sweeper[s]
           y == sweeper'[s]
<1>s. /\ x \in Expiries /\ x.run \in Runs /\ sweeper \in [Sweepers -> Expiries]
      /\ retained \in [Runs -> Attempts \cup {NoMachine}]
      /\ cleanupFailed \in [Runs -> Attempts \cup {NoMachine}]
      /\ retainLeft \in [Runs -> 0 .. RetainTTL]
  BY DEF BaseInv, ExecTypeOK, RowInv, TypeOK, RunTypeOK, Expiries
<1>t. task' = task /\ status' = status
  BY DEF SweeperNext, ExpireRetention, RetentionDestroy, RetentionReport, RetentionClear,
         SweeperStep, vars, queueVars, leaseVars
<1>z. \A z \in Sweepers : z # s => sweeper'[z] = sweeper[z]
  BY <1>s DEF SweeperNext, ExpireRetention, RetentionDestroy, RetentionReport, RetentionClear,
              SweeperBecomes
<1>0. /\ x \in Expiries /\ x.run \in Runs /\ sweeper \in [Sweepers -> Expiries]
      /\ task' = task /\ status' = status
      /\ retained \in [Runs -> Attempts \cup {NoMachine}] /\ NoMachine \notin Attempts
      /\ cleanupFailed \in [Runs -> Attempts \cup {NoMachine}]
      /\ retainLeft \in [Runs -> 0 .. RetainTTL]
      /\ \A z \in Sweepers : z # s => sweeper'[z] = sweeper[z]
  BY <1>s, <1>t, <1>z, MaxAttemptsAssumption DEF Attempts, NoMachine
<1>m. \A z \in Sweepers : sweeper[z].pc # "idle" => sweeper[z].machine \in Attempts
  BY DEF BaseInv, Shape, SweeperShape, Linked
<1>i. Resting.pc = "idle"
  BY RestingTypes
<1>g. ASSUME retained'[r] \in {retained[r], NoMachine},
             (y.run = r /\ y.pc # "idle") =>
                /\ retained'[r] \in {y.machine, NoMachine}
                /\ y.machine # NoMachine
                /\ retained'[r] = y.machine => Due(r)',
             Due(r) => Due(r)',
             SettledReport(r)'
      PROVE  Settled(r)'
  <2>1. SettledTasks(r)'
    BY <1>0 DEF Settled, SettledTasks
  <2>2. ASSUME NEW z \in Sweepers, sweeper'[z].run = r, sweeper'[z].pc # "idle"
        PROVE  /\ retained'[r] \in {sweeper'[z].machine, NoMachine}
               /\ retained'[r] = sweeper'[z].machine => Due(r)'
    <3>1. CASE z = s
      BY <1>g, <2>2, <3>1
    <3>2. CASE z # s
      <4>1. sweeper'[z] = sweeper[z] /\ sweeper[z].machine # NoMachine
        BY <1>0, <1>m, <2>2, <3>2
      <4> QED
        BY <1>g, <2>2, <4>1 DEF Settled, SettledSweepers
    <3> QED
      BY <3>1, <3>2
  <2>3. SettledSweepers(r)'
    BY <2>2 DEF SettledSweepers
  <2> QED
    BY <1>g, <2>1, <2>3 DEF Settled
<1>1. CASE ExpireRetention(s)
  <2>1. /\ retained' = retained /\ retainLeft' = retainLeft /\ cleanupFailed' = cleanupFailed
    BY <1>1 DEF ExpireRetention, machineVars, vars, runVars
  <2>2. PICK q \in Runs : /\ retained[q] # NoMachine /\ retainLeft[q] = 0
                          /\ y = [pc |-> "destroy", run |-> q, machine |-> retained[q]]
    BY <1>0, <1>1 DEF ExpireRetention, SweeperBecomes
  <2>3. (Due(r) => Due(r)') /\ (y.run = r => Due(r)')
    BY <2>1, <2>2 DEF Due
  <2>4. SettledReport(r)'
    BY <1>0, <2>1, <2>3 DEF Settled, SettledReport
  <2> QED
    BY <1>g, <2>1, <2>2, <2>3, <2>4
<1>2. CASE RetentionDestroy(s)
  <2>1. /\ x.pc = "destroy" /\ retained' = retained /\ retainLeft' = retainLeft
        /\ cleanupFailed' = cleanupFailed
    BY <1>2 DEF RetentionDestroy, vars, runVars
  <2>2. y.run = x.run /\ y.machine = x.machine
    BY <1>0, <1>2 DEF RetentionDestroy, SweeperBecomes, Expiries
  <2>3. x.machine \in Attempts /\ y.machine # NoMachine
    BY <1>0, <1>m, <2>1, <2>2
  <2>4. x.run = r => /\ retained[r] \in {x.machine, NoMachine}
                     /\ retained[r] = x.machine => Due(r)
    BY <2>1 DEF Settled, SettledSweepers
  <2>5. Due(r) => Due(r)'
    BY <2>1 DEF Due
  <2>6. SettledReport(r)'
    BY <1>0, <2>1, <2>5 DEF Settled, SettledReport
  <2> QED
    BY <1>g, <2>1, <2>2, <2>3, <2>4, <2>5, <2>6
<1>3. CASE RetentionReport(s)
  <2>1. /\ x.pc = "report" /\ retained' = retained /\ retainLeft' = retainLeft /\ y.pc = "idle"
    BY <1>0, <1>3, <1>i DEF RetentionReport, machineVars, SweeperBecomes
  <2>2. Due(r) => Due(r)'
    BY <2>1 DEF Due
  <2>3. \/ cleanupFailed'[r] = cleanupFailed[r]
        \/ x.run = r /\ retained[r] = x.machine /\ cleanupFailed'[r] = x.machine
    BY <1>0, <1>3 DEF RetentionReport, ReportRetentionFailure, runVars
  <2>4. SettledReport(r)'
    BY <1>0, <2>1, <2>2, <2>3 DEF Settled, SettledReport, SettledSweepers
  <2> QED
    BY <1>g, <2>1, <2>2, <2>4
<1>4. CASE RetentionClear(s)
  <2>1. x.pc = "clear" /\ y.pc = "idle"
    BY <1>0, <1>4, <1>i DEF RetentionClear, SweeperBecomes
  <2>2. Due(r) => Due(r)'
    BY <1>0, <1>4 DEF RetentionClear, Due
  <2>3. CASE x.run # r
    <3>1. retained'[r] = retained[r] /\ cleanupFailed'[r] = cleanupFailed[r]
      BY <1>0, <1>4, <2>3 DEF RetentionClear, ClearRetentionReport, runVars
    <3>2. SettledReport(r)'
      BY <1>0, <2>2, <3>1 DEF Settled, SettledReport
    <3> QED
      BY <1>g, <2>1, <2>2, <3>1, <3>2
  <2>4. CASE x.run = r
    <3>1. retained[r] \in {x.machine, NoMachine} /\ x.machine \in Attempts
      BY <1>m, <2>1, <2>4 DEF Settled, SettledSweepers
    <3>2. /\ retained'[r] = NoMachine
          /\ (cleanupFailed[r] \in {retained[r], NoMachine}) => cleanupFailed'[r] = NoMachine
      BY <1>0, <1>4, <2>4, <3>1 DEF RetentionClear, ClearRetentionReport, runVars
    <3>3. SettledReport(r)'
      BY <1>0, <3>2 DEF Settled, SettledReport
    <3> QED
      BY <1>g, <2>1, <2>2, <3>2, <3>3
  <2> QED
    BY <2>3, <2>4
<1> QED
  BY <1>1, <1>2, <1>3, <1>4 DEF SweeperNext

\* Every step keeps the reports of settled runs on record.
LEMMA ReportNext ==
    ASSUME BaseInv, HoldInv, ReportInv, [ExecNext]_allVars
    PROVE  ReportInv'
<1> SUFFICES ASSUME NEW r \in Runs, OwnVerdict(r)' PROVE Settled(r)'
  BY DEF ReportInv
<1>1. CASE ~IsTerminal(runState[r])
  BY <1>1, SettledAtVerdict
<1>2. CASE IsTerminal(runState[r])
  <2>0. StepKept
    BY BaseStep
  <2>1. OwnVerdict(r) /\ Settled(r)
    BY <1>2, <2>0, QueueMoves DEF OwnVerdict, ReportInv
  <2>2. ASSUME NEW o \in Owners,
               \/ DispatchRecovery(o) \/ DispatchClaim(o) \/ TaskStep(o)
               \/ Heartbeat(o) \/ HeartbeatTimeout(o) \/ Crash(o)
        PROVE  Settled(r)'
    BY <2>1, <2>2, SettledThroughTask
  <2>3. ASSUME NEW c \in Cancels, CancelRead(c) \/ CancelNext(c) \/ CancelDropped(c)
        PROVE  Settled(r)'
    BY <2>1, <2>3, SettledThroughCancel
  <2>4. ASSUME NEW s \in Sweepers, SweeperNext(s) PROVE Settled(r)'
    BY <2>1, <2>4, SettledThroughSweeper
  <2>5. CASE \/ \E q \in Runs : Submit(q) \/ (\E m \in Attempts : DeleteMachine(q, m))
             \/ TimePasses \/ UNCHANGED allVars
    <3>1. UNCHANGED <<retained, task, sweeper, cleanupFailed>>
      BY <2>5 DEF Submit, EnqueueRun, InsertRun, DeleteMachine, TimePasses, Tick, allVars,
                  execVars, otherActors, vars, runVars
    <3>2. status'[r] = "finished" => status[r] = "finished"
      BY <2>5 DEF Submit, EnqueueRun, DeleteMachine, TimePasses, Tick, allVars, vars, queueVars,
                  leaseVars, BaseInv, RowInv, TypeOK
    <3>3. SettledTasks(r)'
      BY <2>1, <3>1 DEF Settled, SettledTasks
    <3>4. Due(r) => Due(r)'
      BY <2>5 DEF Submit, DeleteMachine, TimePasses, CountDown, allVars, execVars, Due
    <3> QED
      BY <2>1, <3>1, <3>2, <3>3, <3>4, UntouchedSettled
  <2> QED
    BY <2>2, <2>3, <2>4, <2>5 DEF ExecNext
<1> QED
  BY <1>1, <1>2

\* Whatever two sweepers, a slow executor, a cancel and a tenant's DELETE do to a
\* settled run, a report that stays in its results names the machine on record as
\* retained, whose time is over: the fences of record_retention_cleanup_failure and
\* clear_run_retention are enough for the next sweep to find it.
THEOREM RetentionReportOnRecordHolds == ExecSpec => []RetentionReportOnRecord
<1>1. ExecInit => ReportInv
  BY DEF ExecInit, Init, RunInit, ReportInv, OwnVerdict
<1>2. BaseInv /\ HoldInv /\ ReportInv /\ [ExecNext]_allVars => ReportInv'
  BY ReportNext
<1>3. BaseInv /\ ReportInv => RetentionReportOnRecord
  <2> SUFFICES ASSUME BaseInv, ReportInv, NEW r \in Runs, status[r] = "finished",
                      reason[r] = NoReason, runState[r] # "cancelled",
                      cleanupFailed[r] # NoMachine
               PROVE  retained[r] = cleanupFailed[r] /\ retainLeft[r] = 0
    BY DEF RetentionReportOnRecord
  <2>1. OwnVerdict(r)
    BY DEF BaseInv, RowInv, TeardownHasVerdict, OwnVerdict, IsTerminal, TerminalStates
  <2> QED
    BY <2>1 DEF ReportInv, Settled, SettledReport, Due
<1> QED
  BY <1>1, <1>2, <1>3, HoldInvariant, PTL DEF ExecSpec

=============================================================================
