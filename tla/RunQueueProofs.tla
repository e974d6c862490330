--------------------------- MODULE RunQueueProofs ---------------------------
(***************************************************************************)
(* Theorems about RunQueue for any number of runs, tenants, owners and for *)
(* any limits that RunQueueLimits::validate accepts.                       *)
(***************************************************************************)
EXTENDS RunQueue, FiniteSetTheorems, TLAPS

-----------------------------------------------------------------------------
(* The lifecycle of a run.                                                 *)

\* No edge of RunState::can_transition_to leaves a terminal state, and none
\* leaves a run that does not exist.
LEMMA NoEdgeOutOfTerminal ==
    ASSUME NEW s, NEW next, IsTerminal(s) \/ s = "absent"
    PROVE  ~CanTransitionTo(s, next)
BY DEF IsTerminal, TerminalStates, ActiveStates, CanTransitionTo

\* "absent" stands for a row that is not there; no run is ever in it.
LEMMA AbsentIsNoRunState == "absent" \notin RunStates
BY DEF RunStates, ActiveStates, TerminalStates

\* A verdict is a state of an existing run.
LEMMA TerminalIsRunState == \A s : IsTerminal(s) => s \in RunStates /\ s # "absent"
BY DEF RunStates, IsTerminal, TerminalStates, ActiveStates

\* What every write of a runs row keeps: the row's type, its verdict, and its
\* existence.
RunWriteKeeps(r) ==
    /\ RunTypeOK'
    /\ \A q \in Runs :
          /\ q # r => runState'[q] = runState[q]
          /\ IsTerminal(runState[q]) => runState'[q] = runState[q]
          /\ runState[q] # "absent" => runState'[q] # "absent"

\* The unfenced statements of postgres.rs keep verdicts: update_run_state and
\* record_run_results because they are held to the lifecycle,
\* record_run_failure because it writes only over an active or failed state.
LEMMA UnfencedWriteKeeps ==
    ASSUME RunTypeOK, NEW r \in Runs, UnfencedWrite(r)
    PROVE  /\ RunWriteKeeps(r)
           /\ runState[r] # "absent"
           /\ UNCHANGED queueVars
<1> USE DEF RunTypeOK
<1>0. UNCHANGED queueVars
  BY DEF UnfencedWrite
<1>1. CASE \E from, to \in RunStates : UpdateRunState(r, from, to)
  <2>1. PICK from, to \in RunStates : UpdateRunState(r, from, to)
    BY <1>1
  <2>2. ~IsTerminal(runState[r]) /\ runState[r] # "absent" /\ to # "absent"
    BY <2>1, NoEdgeOutOfTerminal, AbsentIsNoRunState DEF UpdateRunState
  <2> QED
    BY <1>0, <2>1, <2>2 DEF UpdateRunState, RunWriteKeeps
<1>2. CASE \E state \in RunStates, report \in Attempts \cup {NoMachine} :
              RecordRunResults(r, state, report)
  <2>1. PICK state \in RunStates, report \in Attempts \cup {NoMachine} :
               RecordRunResults(r, state, report)
    BY <1>2
  <2>2. IsTerminal(runState[r]) => state = runState[r]
    BY <2>1, NoEdgeOutOfTerminal DEF RecordRunResults
  <2>3. state # "absent"
    BY AbsentIsNoRunState
  <2> QED
    BY <1>0, <2>1, <2>2, <2>3 DEF RecordRunResults, RunWriteKeeps
<1>3. CASE \E report \in Attempts \cup {NoMachine} : RecordRunFailure(r, report)
  <2>1. PICK report \in Attempts \cup {NoMachine} : RecordRunFailure(r, report)
    BY <1>3
  <2>2. IsTerminal(runState[r]) =>
           runState[r] = "failed" \/ runState[r] \in {"succeeded", "cancelled"}
    BY DEF IsTerminal, TerminalStates
  <2>3. "failed" \in RunStates
    BY DEF RunStates, TerminalStates
  <2> QED
    BY <1>0, <2>1, <2>2, <2>3 DEF RecordRunFailure, RunWriteKeeps
<1>4. CASE \E m \in Attempts : \/ ReportRetentionFailure(r, m)
                               \/ ClearRetentionReport(r, m)
                               \/ RecordRunAttempt(r, m)
                               \/ CompleteRunAttempt(r, m)
  <2>1. PICK m \in Attempts : \/ ReportRetentionFailure(r, m)
                              \/ ClearRetentionReport(r, m)
                              \/ RecordRunAttempt(r, m)
                              \/ CompleteRunAttempt(r, m)
    BY <1>4
  <2>2. CASE ReportRetentionFailure(r, m)
    BY <1>0, <2>2 DEF ReportRetentionFailure, RunWriteKeeps
  <2>3. CASE ClearRetentionReport(r, m)
    BY <1>0, <2>3 DEF ClearRetentionReport, RunWriteKeeps
  <2>4. CASE RecordRunAttempt(r, m)
    BY <1>0, <2>4 DEF RecordRunAttempt, RunWriteKeeps
  <2>5. CASE CompleteRunAttempt(r, m)
    BY <1>0, <2>5 DEF CompleteRunAttempt, RunWriteKeeps
  <2> QED
    BY <2>1, <2>2, <2>3, <2>4, <2>5
<1> QED
  BY <1>1, <1>2, <1>3, <1>4 DEF UnfencedWrite

-----------------------------------------------------------------------------
(* Type correctness.                                                       *)

\* LEAST(a, b) is one of the two timestamps and exceeds neither.
LEMMA LesserBounds ==
    \A a, b \in Nat : Lesser(a, b) \in Nat /\ Lesser(a, b) <= a /\ Lesser(a, b) <= b
BY DEF Lesser

\* The clock never takes a countdown below zero or out of its range.
LEMMA CountDownBounds ==
    ASSUME NEW n \in Nat, NEW left \in [Runs -> 0 .. n]
    PROVE  CountDown(left) \in [Runs -> 0 .. n]
BY DEF CountDown

\* The empty tables are well typed.
LEMMA TypeInit == Init => TypeOK
BY LimitsAssumption
   DEF Init, TypeOK, RunInit, RunTypeOK, Statuses, NoReason, Attempts, NoMachine

\* Every statement of the queue and every unfenced write keeps the types.
LEMMA TypeStep ==
    ASSUME TypeOK, [Next]_vars
    PROVE  TypeOK'
<1> USE LimitsAssumption DEF TypeOK
<1>1. ASSUME NEW r \in Runs, EnqueueRun(r) PROVE TypeOK'
  <2>1. RunTypeOK'
    BY <1>1 DEF EnqueueRun, InsertRun, RunTypeOK, RunStates, ActiveStates
  <2> QED
    BY <1>1, <2>1 DEF EnqueueRun, Statuses
<1>2. ASSUME NEW r \in Runs, UnfencedWrite(r) PROVE TypeOK'
  BY <1>2, UnfencedWriteKeeps DEF RunWriteKeeps, queueVars, leaseVars, orderVars
<1>3. ASSUME NEW r \in Runs, NEW o \in Owners, ClaimRun(r, o) PROVE TypeOK'
  <2>1. RunTypeOK'
    BY <1>3 DEF ClaimRun, runVars, RunTypeOK
  <2>2. Lesser(LeaseTTL, ExecutionSeconds) \in 0 .. LeaseTTL
    BY LesserBounds
  <2> QED
    BY <1>3, <2>1, <2>2 DEF ClaimRun, Statuses
<1>4. ASSUME NEW r \in Runs, NEW o \in Owners, RecoverRun(r, o) PROVE TypeOK'
  <2>1. RunTypeOK'
    BY <1>4 DEF RecoverRun, RetireRun, RunTypeOK, RunStates, TerminalStates
  <2>2. RecoveryReason(r) \in Reasons \cup {NoReason}
    BY DEF RecoveryReason, Reasons
  <2> QED
    BY <1>4, <2>1, <2>2 DEF RecoverRun, Statuses, orderVars
<1>5. ASSUME NEW r \in Runs, NEW o \in Owners, HeartbeatRun(r, o) PROVE TypeOK'
  <2>1. RunTypeOK'
    BY <1>5 DEF HeartbeatRun, runVars, RunTypeOK
  <2>2. Lesser(LeaseTTL, execLeft[r]) \in 0 .. LeaseTTL
    BY LesserBounds
  <2> QED
    BY <1>5, <2>1, <2>2 DEF HeartbeatRun, orderVars
<1>6. ASSUME NEW r \in Runs, NEW o \in Owners, FailRun(r, o) PROVE TypeOK'
  <2>1. RunTypeOK'
    BY <1>6 DEF FailRun, RetireRun, RunTypeOK, RunStates, TerminalStates
  <2> QED
    BY <1>6, <2>1 DEF FailRun, Statuses, Reasons, orderVars
<1>7. ASSUME NEW r \in Runs, NEW o \in Owners, FinishRun(r, o) PROVE TypeOK'
  <2>1. RunTypeOK'
    BY <1>7 DEF FinishRun, runVars, RunTypeOK
  <2> QED
    BY <1>7, <2>1 DEF FinishRun, Statuses, orderVars
<1>8. CASE Tick
  <2>1. RunTypeOK'
    BY <1>8 DEF Tick, runVars, RunTypeOK
  <2> QED
    BY <1>8, <2>1, CountDownBounds DEF Tick, orderVars
<1>9. CASE UNCHANGED vars
  <2>1. RunTypeOK'
    BY <1>9 DEF vars, runVars, RunTypeOK
  <2> QED
    BY <1>9, <2>1 DEF vars, queueVars, leaseVars, orderVars
<1> QED
  BY <1>1, <1>2, <1>3, <1>4, <1>5, <1>6, <1>7, <1>8, <1>9 DEF Next

\* Every column of runs, run_attempts and run_queue keeps its type, and the
\* three countdowns stay within the lease, the queue timeout and the budget.
THEOREM TypeCorrect == Spec => []TypeOK
BY TypeInit, TypeStep, PTL DEF Spec

-----------------------------------------------------------------------------
(* The rows: shape, leases and verdicts.  None of the three invariants is  *)
(* inductive alone: a teardown keeps its verdict only because a row whose  *)
(* run has one is never inserted again, and a heartbeat respects the       *)
(* deadline only for a row that is still executing.                        *)

RowInv == TypeOK /\ RowShape /\ LeaseWithinDeadline /\ TeardownHasVerdict

\* retire_run leaves every run of the transaction with a verdict and changes
\* no other run.
LEMMA RetireGivesVerdict ==
    ASSUME RunTypeOK, NEW r \in Runs, RetireRun(r), runState[r] # "absent"
    PROVE  /\ IsTerminal(runState'[r])
           /\ \A q \in Runs : q # r => runState'[q] = runState[q]
           /\ IsTerminal(runState[r]) => runState'[r] = runState[r]
BY DEF RetireRun, RunTypeOK, IsTerminal, TerminalStates

\* The empty tables satisfy the row invariant.
LEMMA RowInit == Init => RowInv
BY TypeInit
   DEF Init, RowInv, RunInit, RowShape, LeaseWithinDeadline, TeardownHasVerdict, Held

\* Every statement of run_queue.rs and every unfenced write of postgres.rs keeps
\* the row invariant.
LEMMA RowStep ==
    ASSUME RowInv, [Next]_vars
    PROVE  RowInv'
<1>0. TypeOK /\ TypeOK' /\ RunTypeOK
  BY TypeStep DEF RowInv, TypeOK
<1> USE LimitsAssumption DEF RowInv, RowShape, LeaseWithinDeadline, TeardownHasVerdict
<1>1. ASSUME NEW r \in Runs, EnqueueRun(r) PROVE RowInv'
  <2>1. status[r] = "absent" /\ runState' = [runState EXCEPT ![r] = "queued"]
    BY <1>1 DEF EnqueueRun, InsertRun
  <2> QED
    BY <1>0, <1>1, <2>1 DEF EnqueueRun, Held, TypeOK, RunTypeOK
<1>2. ASSUME NEW r \in Runs, UnfencedWrite(r) PROVE RowInv'
  <2>1. /\ RunWriteKeeps(r)
        /\ runState[r] # "absent"
        /\ UNCHANGED <<status, owner, leaseLeft, execLeft, reason>>
    BY <1>0, <1>2, UnfencedWriteKeeps DEF queueVars, leaseVars
  <2>2. \A q \in Runs : /\ runState[q] = "absent" <=> runState'[q] = "absent"
                        /\ IsTerminal(runState[q]) => runState'[q] = runState[q]
    BY <2>1 DEF RunWriteKeeps
  <2> QED
    BY <1>0, <2>1, <2>2 DEF Held
<1>3. ASSUME NEW r \in Runs, NEW o \in Owners, ClaimRun(r, o) PROVE RowInv'
  <2>1. status[r] = "queued"
    BY <1>3 DEF ClaimRun, Claimable, Eligible
  <2>2. Lesser(LeaseTTL, ExecutionSeconds) <= ExecutionSeconds
    BY LesserBounds
  <2> QED
    BY <1>0, <1>3, <2>1, <2>2 DEF ClaimRun, Held, TypeOK, runVars
<1>4. ASSUME NEW r \in Runs, NEW o \in Owners, RecoverRun(r, o) PROVE RowInv'
  <2>1. status[r] \in {"queued", "executing", "reclaiming"}
    BY <1>4 DEF RecoverRun, Recoverable, Lost, LostLease, Undispatchable, Held
  <2>2. /\ IsTerminal(runState'[r])
        /\ runState'[r] # "absent"
        /\ \A q \in Runs : q # r => runState'[q] = runState[q]
    BY <1>0, <1>4, <2>1, RetireGivesVerdict, TerminalIsRunState DEF RecoverRun
  <2> QED
    BY <1>0, <1>4, <2>1, <2>2 DEF RecoverRun, Held, TypeOK
<1>5. ASSUME NEW r \in Runs, NEW o \in Owners, HeartbeatRun(r, o) PROVE RowInv'
  <2>1. Lesser(LeaseTTL, execLeft[r]) <= execLeft[r]
    BY <1>0, LesserBounds DEF TypeOK
  <2>2. status[r] \in Held
    BY <1>5 DEF HeartbeatRun, OwnsLive, Held
  <2> QED
    BY <1>0, <1>5, <2>1, <2>2 DEF HeartbeatRun, Held, TypeOK, runVars
<1>6. ASSUME NEW r \in Runs, NEW o \in Owners, FailRun(r, o) PROVE RowInv'
  <2>1. status[r] = "executing"
    BY <1>6 DEF FailRun
  <2>2. /\ IsTerminal(runState'[r])
        /\ runState'[r] # "absent"
        /\ \A q \in Runs : q # r => runState'[q] = runState[q]
    BY <1>0, <1>6, <2>1, RetireGivesVerdict, TerminalIsRunState DEF FailRun
  <2> QED
    BY <1>0, <1>6, <2>1, <2>2 DEF FailRun, Held, TypeOK
<1>7. ASSUME NEW r \in Runs, NEW o \in Owners, FinishRun(r, o) PROVE RowInv'
  <2>1. status[r] \in Held /\ IsTerminal(runState[r])
    BY <1>7 DEF FinishRun, OwnsLive, Held
  <2> QED
    BY <1>0, <1>7, <2>1 DEF FinishRun, Held, TypeOK, runVars
<1>8. CASE Tick
  BY <1>0, <1>8 DEF Tick, CountDown, TypeOK, runVars
<1>9. CASE UNCHANGED vars
  BY <1>0, <1>9 DEF vars, queueVars, leaseVars, runVars
<1> QED
  BY <1>1, <1>2, <1>3, <1>4, <1>5, <1>6, <1>7, <1>8, <1>9 DEF Next

\* The row invariant holds in every behaviour of the queue.
LEMMA RowInvariant == Spec => []RowInv
BY RowInit, RowStep, PTL DEF Spec

\* The CHECK constraints of migration 0013 hold after every statement.
THEOREM RowShapeHolds == Spec => []RowShape
BY RowInvariant, PTL DEF RowInv

\* No sequence of heartbeats carries an executor past its execution deadline.
THEOREM LeaseWithinDeadlineHolds == Spec => []LeaseWithinDeadline
BY RowInvariant, PTL DEF RowInv

\* A run that recovery or its executor gave up on has a verdict from then on,
\* whatever a stale executor, a cancel or the sweeper writes.
THEOREM TeardownHasVerdictHolds == Spec => []TeardownHasVerdict
BY RowInvariant, PTL DEF RowInv

-----------------------------------------------------------------------------
(* The limits.                                                             *)

\* A set of rows that did not grow is finite and no larger than it was.
LEMMA BoundKeptBySubset ==
    ASSUME NEW S, NEW T, IsFiniteSet(T), S \subseteq T
    PROVE  IsFiniteSet(S) /\ Cardinality(S) <= Cardinality(T)
BY FS_Subset

\* One more row, where the ceiling was not reached, does not exceed it.
LEMMA BoundKeptByOneMore ==
    ASSUME NEW S, NEW T, NEW x, IsFiniteSet(T), S \subseteq T \cup {x},
           NEW n \in Nat, Cardinality(T) < n
    PROVE  Cardinality(S) <= n
<1>1. /\ IsFiniteSet(T \cup {x})
      /\ Cardinality(T \cup {x}) = Cardinality(T) \/ Cardinality(T \cup {x}) = Cardinality(T) + 1
  BY FS_AddElement
<1>2. Cardinality(T) \in Nat /\ Cardinality(S) \in Nat
  BY <1>1, FS_CardinalityType, FS_Subset
<1>3. Cardinality(S) <= Cardinality(T \cup {x})
  BY <1>1, FS_Subset
<1> QED
  BY <1>1, <1>2, <1>3

\* The row sets that enqueue_run and claim_run_queue count are finite.
LEMMA FiniteRows ==
    /\ IsFiniteSet(Active) /\ IsFiniteSet(Pending)
    /\ \A t : IsFiniteSet(PendingOf(t))
    /\ Cardinality(Active) \in Nat /\ Cardinality(Pending) \in Nat
    /\ \A t : Cardinality(PendingOf(t)) \in Nat
<1>1. Active \subseteq Runs /\ Pending \subseteq Runs /\ \A t : PendingOf(t) \subseteq Runs
  BY DEF Active, Pending, PendingOf
<1> QED
  BY <1>1, LimitsAssumption, FS_Subset, FS_CardinalityType

LimitsInv == TypeOK /\ ActiveBound /\ PendingBound

\* Nothing is pending or active at first.
LEMMA LimitsInit == Init => LimitsInv
<1> SUFFICES ASSUME Init PROVE LimitsInv
  OBVIOUS
<1>1. Active = {} /\ Pending = {} /\ \A t : PendingOf(t) = {}
  BY DEF Init, Active, Pending, PendingOf, Held
<1> QED
  BY <1>1, TypeInit, FS_EmptySet, LimitsAssumption DEF LimitsInv, ActiveBound, PendingBound

\* A step that hands out no new grant and admits no run keeps both limits.
LEMMA LimitsKept ==
    ASSUME LimitsInv, TypeOK', Active' \subseteq Active, Pending' \subseteq Pending
    PROVE  LimitsInv'
<1>1. /\ Cardinality(Active') <= Cardinality(Active)
      /\ Cardinality(Pending') <= Cardinality(Pending)
      /\ Cardinality(Active') \in Nat /\ Cardinality(Pending') \in Nat
  BY FiniteRows, BoundKeptBySubset, FS_CardinalityType
<1>2. ASSUME NEW t \in Tenants
      PROVE  Cardinality(PendingOf(t)') <= TenantPending
  <2>1. PendingOf(t)' \subseteq PendingOf(t)
    BY DEF PendingOf
  <2>2. /\ Cardinality(PendingOf(t)') <= Cardinality(PendingOf(t))
        /\ Cardinality(PendingOf(t)') \in Nat
    BY <2>1, FiniteRows, BoundKeptBySubset, FS_CardinalityType
  <2> QED
    BY <2>2, FiniteRows, LimitsAssumption DEF LimitsInv, PendingBound
<1> QED
  BY <1>1, <1>2, FiniteRows, LimitsAssumption DEF LimitsInv, ActiveBound, PendingBound

\* A step that hands out one grant while a slot is free, to a row that was
\* already pending, keeps both limits.
LEMMA LimitsKeptByGrant ==
    ASSUME LimitsInv, TypeOK', NEW r \in Runs, SlotFree,
           Active' \subseteq Active \cup {r}, Pending' \subseteq Pending
    PROVE  LimitsInv'
<1>1. Cardinality(Active') <= MaxActive
  <2>1. IsFiniteSet(Active) /\ MaxActive \in Nat /\ Cardinality(Active) < MaxActive
    BY FiniteRows, LimitsAssumption DEF SlotFree
  <2> QED
    BY <2>1, BoundKeptByOneMore
<1>2. Cardinality(Pending') <= Cardinality(Pending) /\ Cardinality(Pending') \in Nat
  BY FiniteRows, BoundKeptBySubset, FS_CardinalityType
<1>3. ASSUME NEW t \in Tenants
      PROVE  Cardinality(PendingOf(t)') <= TenantPending
  <2>1. PendingOf(t)' \subseteq PendingOf(t)
    BY DEF PendingOf
  <2>2. /\ Cardinality(PendingOf(t)') <= Cardinality(PendingOf(t))
        /\ Cardinality(PendingOf(t)') \in Nat
    BY <2>1, FiniteRows, BoundKeptBySubset, FS_CardinalityType
  <2> QED
    BY <2>2, FiniteRows, LimitsAssumption DEF LimitsInv, PendingBound
<1> QED
  BY <1>1, <1>2, <1>3, FiniteRows, LimitsAssumption DEF LimitsInv, ActiveBound, PendingBound

\* Admission, dispatch and recovery keep within the ceilings.
LEMMA LimitsStep ==
    ASSUME LimitsInv, [Next]_vars
    PROVE  LimitsInv'
<1>0. TypeOK /\ TypeOK'
  BY TypeStep DEF LimitsInv
<1>1. ASSUME NEW r \in Runs, EnqueueRun(r) PROVE LimitsInv'
  <2>1. status \in [Runs -> Statuses] /\ status' = [status EXCEPT ![r] = "queued"]
    BY <1>0, <1>1 DEF EnqueueRun, TypeOK
  <2>2. Active' \subseteq Active /\ Pending' \subseteq Pending \cup {r}
    BY <2>1 DEF Active, Pending, Held
  <2>3. Cardinality(Active') <= Cardinality(Active) /\ Cardinality(Active') \in Nat
    BY <2>2, FiniteRows, BoundKeptBySubset, FS_CardinalityType
  <2>4. Cardinality(Pending') <= GlobalPending
    <3>1. /\ IsFiniteSet(Pending) /\ GlobalPending \in Nat
          /\ Cardinality(Pending) < GlobalPending
      BY <1>1, FiniteRows, LimitsAssumption DEF EnqueueRun, RoomFor
    <3> QED
      BY <2>2, <3>1, BoundKeptByOneMore
  <2>5. ASSUME NEW t \in Tenants
        PROVE  Cardinality(PendingOf(t)') <= TenantPending
    <3>1. CASE t = TenantOf[r]
      <4>1. PendingOf(t)' \subseteq PendingOf(t) \cup {r}
        BY <2>2 DEF PendingOf
      <4>2. /\ IsFiniteSet(PendingOf(t)) /\ TenantPending \in Nat
            /\ Cardinality(PendingOf(t)) < TenantPending
        BY <1>1, <3>1, FiniteRows, LimitsAssumption DEF EnqueueRun, RoomFor
      <4> QED
        BY <4>1, <4>2, BoundKeptByOneMore
    <3>2. CASE t # TenantOf[r]
      <4>1. PendingOf(t)' \subseteq PendingOf(t)
        BY <2>2, <3>2 DEF PendingOf
      <4>2. /\ Cardinality(PendingOf(t)') <= Cardinality(PendingOf(t))
            /\ Cardinality(PendingOf(t)') \in Nat
        BY <4>1, FiniteRows, BoundKeptBySubset, FS_CardinalityType
      <4> QED
        BY <4>2, FiniteRows, LimitsAssumption DEF LimitsInv, PendingBound
    <3> QED
      BY <3>1, <3>2
  <2> QED
    BY <1>0, <2>3, <2>4, <2>5, FiniteRows, LimitsAssumption
       DEF LimitsInv, ActiveBound, PendingBound
<1>2. ASSUME NEW r \in Runs, UnfencedWrite(r) PROVE LimitsInv'
  <2>1. status' = status
    BY <1>2 DEF UnfencedWrite, queueVars, leaseVars
  <2> QED
    BY <1>0, <2>1, LimitsKept DEF Active, Pending
<1>3. ASSUME NEW r \in Runs, NEW o \in Owners, ClaimRun(r, o) PROVE LimitsInv'
  <2>1. /\ status[r] = "queued" /\ SlotFree
        /\ status \in [Runs -> Statuses] /\ status' = [status EXCEPT ![r] = "executing"]
    BY <1>0, <1>3 DEF ClaimRun, Claimable, Eligible, TypeOK
  <2>2. Active' \subseteq Active \cup {r} /\ Pending' \subseteq Pending
    BY <2>1 DEF Active, Pending, Held
  <2> QED
    BY <1>0, <2>1, <2>2, LimitsKeptByGrant
<1>4. ASSUME NEW r \in Runs, NEW o \in Owners, RecoverRun(r, o) PROVE LimitsInv'
  <2>1. /\ LostLease(r) \/ Undispatchable(r)
        /\ status[r] = "queued" => SlotFree
        /\ status \in [Runs -> Statuses] /\ status' = [status EXCEPT ![r] = "reclaiming"]
    BY <1>0, <1>4 DEF RecoverRun, Recoverable, Lost, TypeOK
  <2>2. CASE status[r] = "queued"
    <3>1. Active' \subseteq Active \cup {r} /\ Pending' \subseteq Pending
      BY <2>1, <2>2 DEF Active, Pending, Held
    <3> QED
      BY <1>0, <2>1, <2>2, <3>1, LimitsKeptByGrant
  <2>3. CASE status[r] \in Held
    <3>1. Active' \subseteq Active /\ Pending' \subseteq Pending
      BY <2>1, <2>3 DEF Active, Pending, Held
    <3> QED
      BY <1>0, <3>1, LimitsKept
  <2> QED
    BY <2>1, <2>2, <2>3 DEF LostLease, Undispatchable
<1>5. ASSUME NEW r \in Runs, NEW o \in Owners, HeartbeatRun(r, o) PROVE LimitsInv'
  BY <1>0, <1>5, LimitsKept DEF HeartbeatRun, Active, Pending
<1>6. ASSUME NEW r \in Runs, NEW o \in Owners, FailRun(r, o) PROVE LimitsInv'
  <2>1. /\ status[r] = "executing"
        /\ status \in [Runs -> Statuses] /\ status' = [status EXCEPT ![r] = "reclaiming"]
    BY <1>0, <1>6 DEF FailRun, TypeOK
  <2> QED
    BY <1>0, <2>1, LimitsKept DEF Active, Pending, Held
<1>7. ASSUME NEW r \in Runs, NEW o \in Owners, FinishRun(r, o) PROVE LimitsInv'
  <2>1. status \in [Runs -> Statuses] /\ status' = [status EXCEPT ![r] = "finished"]
    BY <1>0, <1>7 DEF FinishRun, TypeOK
  <2> QED
    BY <1>0, <2>1, LimitsKept DEF Active, Pending, Held
<1>8. CASE Tick
  BY <1>0, <1>8, LimitsKept DEF Tick, Active, Pending
<1>9. CASE UNCHANGED vars
  BY <1>0, <1>9, LimitsKept DEF vars, queueVars, leaseVars, Active, Pending
<1> QED
  BY <1>1, <1>2, <1>3, <1>4, <1>5, <1>6, <1>7, <1>8, <1>9 DEF Next

\* claim_run_queue and recover_run_queue between them never hand out more than
\* max_active grants, and enqueue_run never admits past its two ceilings.
THEOREM LimitsHold == Spec => []WithinLimits
<1>1. LimitsInv => WithinLimits
  BY DEF LimitsInv, WithinLimits
<1> QED
  BY <1>1, LimitsInit, LimitsStep, PTL DEF Spec

-----------------------------------------------------------------------------
(* What a step may never do.                                               *)

\* One step of the queue, or of an unfenced writer, keeps every verdict.
LEMMA VerdictFinalStep ==
    ASSUME RowInv, [Next]_vars
    PROVE  VerdictKept
<1>0. TypeOK /\ RunTypeOK
  BY DEF RowInv, TypeOK
<1> USE DEF VerdictKept
<1>1. ASSUME NEW r \in Runs, EnqueueRun(r) PROVE VerdictKept
  BY <1>0, <1>1, TerminalIsRunState DEF EnqueueRun, InsertRun, RunTypeOK
<1>2. ASSUME NEW r \in Runs, UnfencedWrite(r) PROVE VerdictKept
  BY <1>0, <1>2, UnfencedWriteKeeps DEF RunWriteKeeps
<1>3. ASSUME NEW r \in Runs, NEW o \in Owners, RecoverRun(r, o) \/ FailRun(r, o)
      PROVE  VerdictKept
  <2>1. RetireRun(r)
    BY <1>3 DEF RecoverRun, FailRun
  <2> QED
    BY <1>0, <2>1 DEF RetireRun, RunTypeOK
<1>4. ASSUME NEW r \in Runs, NEW o \in Owners,
             ClaimRun(r, o) \/ HeartbeatRun(r, o) \/ FinishRun(r, o)
      PROVE  VerdictKept
  BY <1>4 DEF ClaimRun, HeartbeatRun, FinishRun, runVars
<1>5. CASE Tick \/ UNCHANGED vars
  BY <1>5 DEF Tick, vars, runVars
<1> QED
  BY <1>1, <1>2, <1>3, <1>4, <1>5 DEF Next

\* A verdict is final, whichever of the queue's own statements or of the
\* unfenced writers acts next and however stale its view of the run is.
THEOREM VerdictFinalHolds == Spec => VerdictFinal
<1>1. RowInv /\ [Next]_vars => VerdictKept
  BY VerdictFinalStep
<1> QED
  BY <1>1, RowInvariant, PTL DEF Spec, VerdictFinal

\* One step respects every lease.
LEMMA OwnershipFencedStep ==
    ASSUME RowInv, [Next]_vars
    PROVE  LeaseRespected
<1>0. TypeOK /\ RowShape
  BY DEF RowInv
<1> USE LimitsAssumption DEF LeaseRespected
<1>1. ASSUME NEW r \in Runs, EnqueueRun(r) PROVE LeaseRespected
  <2>1. owner[r] = NoOwner
    BY <1>0, <1>1 DEF EnqueueRun, InsertRun, RowShape, Held
  <2> QED
    BY <1>0, <1>1, <2>1 DEF EnqueueRun, TypeOK
<1>2. ASSUME NEW r \in Runs, UnfencedWrite(r) PROVE LeaseRespected
  BY <1>2 DEF UnfencedWrite, queueVars, leaseVars
<1>3. ASSUME NEW r \in Runs, NEW o \in Owners, ClaimRun(r, o) PROVE LeaseRespected
  <2>1. owner[r] = NoOwner
    BY <1>0, <1>3 DEF ClaimRun, Claimable, Eligible, RowShape, Held
  <2> QED
    BY <1>0, <1>3, <2>1 DEF ClaimRun, TypeOK
<1>4. ASSUME NEW r \in Runs, NEW o \in Owners, Fresh(o), RecoverRun(r, o)
      PROVE  LeaseRespected
  <2>1. owner[r] = NoOwner \/ leaseLeft[r] = 0
    BY <1>0, <1>4
       DEF RecoverRun, Recoverable, Lost, LostLease, Undispatchable, RowShape, Held
  <2>2. owner'[r] = o /\ o # owner[r] /\ o # NoOwner
    BY <1>0, <1>4 DEF RecoverRun, Fresh, TypeOK
  <2>3. \A q \in Runs : q # r => /\ owner'[q] = owner[q]
                                /\ leaseLeft'[q] = leaseLeft[q]
                                /\ status'[q] = status[q]
    BY <1>0, <1>4 DEF RecoverRun, TypeOK
  <2> QED
    BY <2>1, <2>2, <2>3
<1>5. ASSUME NEW r \in Runs, NEW o \in Owners,
             HeartbeatRun(r, o) \/ FailRun(r, o) \/ FinishRun(r, o)
      PROVE  LeaseRespected
  <2>1. leaseLeft[r] > 0 /\ leaseLeft[r] # 0
    BY <1>0, <1>5 DEF HeartbeatRun, FailRun, FinishRun, OwnsLive, TypeOK
  <2>2. owner'[r] \in {owner[r], NoOwner}
    BY <1>0, <1>5 DEF HeartbeatRun, FailRun, FinishRun, TypeOK
  <2>3. \A q \in Runs : q # r => /\ owner'[q] = owner[q]
                                /\ leaseLeft'[q] = leaseLeft[q]
                                /\ status'[q] = status[q]
    BY <1>0, <1>5 DEF HeartbeatRun, FailRun, FinishRun, TypeOK
  <2> QED
    BY <2>1, <2>2, <2>3
<1>6. CASE Tick
  BY <1>0, <1>6 DEF Tick, CountDown, TypeOK
<1>7. CASE UNCHANGED vars
  BY <1>7 DEF vars, queueVars, leaseVars
<1> QED
  BY <1>1, <1>2, <1>3, <1>4, <1>5, <1>6, <1>7 DEF Next

\* Every grant is fenced by its lease: it is taken over only once it expired,
\* and its expired owner can do nothing to the row.  The second half needs that
\* an owner id is never drawn twice.
THEOREM OwnershipFencedHolds == Spec => OwnershipFenced
<1>1. RowInv /\ [Next]_vars => LeaseRespected
  BY OwnershipFencedStep
<1> QED
  BY <1>1, RowInvariant, PTL DEF Spec, OwnershipFenced

\* One step never sends a row back to an executor.
LEMMA ExecutedOnceStep ==
    ASSUME RowInv, [Next]_vars
    PROVE  NotExecutedAgain
<1>0. TypeOK /\ RowShape
  BY DEF RowInv
<1> USE DEF NotExecutedAgain
<1>1. ASSUME NEW r \in Runs, EnqueueRun(r) PROVE NotExecutedAgain
  <2>1. status[r] = "absent"
    BY <1>0, <1>1 DEF EnqueueRun, InsertRun, RowShape
  <2> QED
    BY <1>0, <1>1, <2>1 DEF EnqueueRun, TypeOK
<1>2. ASSUME NEW r \in Runs, NEW o \in Owners, ClaimRun(r, o) PROVE NotExecutedAgain
  <2>1. status[r] = "queued"
    BY <1>2 DEF ClaimRun, Claimable, Eligible
  <2> QED
    BY <1>0, <1>2, <2>1 DEF ClaimRun, TypeOK
<1>3. ASSUME NEW r \in Runs, NEW o \in Owners, RecoverRun(r, o) PROVE NotExecutedAgain
  <2>1. status[r] \in {"queued", "executing", "reclaiming"}
    BY <1>3 DEF RecoverRun, Recoverable, Lost, LostLease, Undispatchable, Held
  <2> QED
    BY <1>0, <1>3, <2>1 DEF RecoverRun, TypeOK
<1>4. ASSUME NEW r \in Runs, NEW o \in Owners, FailRun(r, o) \/ FinishRun(r, o)
      PROVE  NotExecutedAgain
  <2>1. status[r] \in {"executing", "reclaiming"}
    BY <1>4 DEF FailRun, FinishRun, OwnsLive
  <2>2. \/ status' = [status EXCEPT ![r] = "finished"]
        \/ status[r] = "executing" /\ status' = [status EXCEPT ![r] = "reclaiming"]
    BY <1>4 DEF FailRun, FinishRun
  <2>3. \A q \in Runs : q # r => owner'[q] = owner[q]
    BY <1>0, <1>4 DEF FailRun, FinishRun, TypeOK
  <2> QED
    BY <1>0, <2>1, <2>2, <2>3 DEF TypeOK
<1>5. CASE \/ \E r \in Runs : UnfencedWrite(r)
           \/ \E r \in Runs, o \in Owners : HeartbeatRun(r, o)
           \/ Tick \/ UNCHANGED vars
  <2>1. status' = status /\ owner' = owner
    BY <1>5 DEF UnfencedWrite, HeartbeatRun, Tick, vars, queueVars, leaseVars
  <2> QED
    BY <1>0, <2>1 DEF TypeOK
<1> QED
  BY <1>1, <1>2, <1>3, <1>4, <1>5 DEF Next

\* A request is executed under at most one grant: no statement returns a row
\* to the queue, passes an executing row to another owner to execute, or hands a
\* row in teardown to an executor.
THEOREM ExecutedOnceHolds == Spec => ExecutedOnce
<1>1. RowInv /\ [Next]_vars => NotExecutedAgain
  BY ExecutedOnceStep
<1> QED
  BY <1>1, RowInvariant, PTL DEF Spec, ExecutedOnce

\* One step of the queue keeps the reason a run was given up for: fail_run_queue
\* meets no earlier one, because only a row in teardown has a reason.
LEMMA ReasonKeptStep ==
    ASSUME RowInv, [Next]_vars
    PROVE  ReasonKept
<1>0. TypeOK /\ RowShape
  BY DEF RowInv
<1> USE DEF ReasonKept
<1>1. ASSUME NEW r \in Runs, NEW o \in Owners, RecoverRun(r, o) PROVE ReasonKept
  <2>1. reason[r] # NoReason => RecoveryReason(r) = reason[r]
    BY DEF RecoveryReason
  <2> QED
    BY <1>0, <1>1, <2>1 DEF RecoverRun, TypeOK
<1>2. ASSUME NEW r \in Runs, NEW o \in Owners, FailRun(r, o) PROVE ReasonKept
  <2>1. reason[r] = NoReason
    BY <1>0, <1>2 DEF FailRun, RowShape
  <2> QED
    BY <1>0, <1>2, <2>1 DEF FailRun, TypeOK
<1>3. CASE \/ \E r \in Runs : EnqueueRun(r) \/ UnfencedWrite(r)
           \/ \E r \in Runs, o \in Owners : \/ ClaimRun(r, o) \/ HeartbeatRun(r, o)
                                            \/ FinishRun(r, o)
           \/ Tick \/ UNCHANGED vars
  <2>1. reason' = reason
    BY <1>3 DEF EnqueueRun, UnfencedWrite, ClaimRun, HeartbeatRun, FinishRun, Tick,
                vars, queueVars, leaseVars
  <2> QED
    BY <2>1
<1> QED
  BY <1>1, <1>2, <1>3 DEF Next

\* However often a row is recovered, the first reason stays on record.
THEOREM FirstReasonKeptHolds == Spec => FirstReasonKept
<1>1. RowInv /\ [Next]_vars => ReasonKept
  BY ReasonKeptStep
<1> QED
  BY <1>1, RowInvariant, PTL DEF Spec, FirstReasonKept

-----------------------------------------------------------------------------
(* Idempotent submission.                                                  *)

\* No statement but enqueue_run brings a run into existence, and none removes
\* one.
LEMMA OnlyEnqueueInserts ==
    ASSUME RowInv, [Next]_vars, \A r \in Runs : ~EnqueueRun(r)
    PROVE  \A q \in Runs : runState'[q] = "absent" <=> runState[q] = "absent"
<1>0. RunTypeOK /\ RowShape
  BY DEF RowInv, TypeOK
<1>1. ASSUME NEW r \in Runs, UnfencedWrite(r)
      PROVE  \A q \in Runs : runState'[q] = "absent" <=> runState[q] = "absent"
  BY <1>0, <1>1, UnfencedWriteKeeps DEF RunWriteKeeps
<1>2. ASSUME NEW r \in Runs, NEW o \in Owners, RecoverRun(r, o) \/ FailRun(r, o)
      PROVE  \A q \in Runs : runState'[q] = "absent" <=> runState[q] = "absent"
  <2>1. RetireRun(r) /\ status[r] \in {"queued", "executing", "reclaiming"}
    BY <1>2 DEF RecoverRun, FailRun, Recoverable, Lost, LostLease, Undispatchable, Held
  <2>2. runState[r] # "absent"
    BY <1>0, <2>1 DEF RowShape
  <2>3. IsTerminal(runState'[r]) /\ \A q \in Runs : q # r => runState'[q] = runState[q]
    BY <1>0, <2>1, <2>2, RetireGivesVerdict
  <2> QED
    BY <2>2, <2>3, TerminalIsRunState
<1>3. CASE \/ \E r \in Runs, o \in Owners : \/ ClaimRun(r, o) \/ HeartbeatRun(r, o)
                                            \/ FinishRun(r, o)
           \/ Tick \/ UNCHANGED vars
  <2>1. runState' = runState
    BY <1>3 DEF ClaimRun, HeartbeatRun, FinishRun, Tick, vars, runVars
  <2> QED
    BY <2>1
<1> QED
  BY <1>1, <1>2, <1>3 DEF Next

\* A step never gives a key a second run.
LEMMA OneRunPerKeyStep ==
    ASSUME RowInv, OneRunPerKey, [Next]_vars
    PROVE  OneRunPerKey'
<1>1. CASE \A r \in Runs : ~EnqueueRun(r)
  BY <1>1, OnlyEnqueueInserts DEF OneRunPerKey
<1>2. ASSUME NEW r \in Runs, EnqueueRun(r) PROVE OneRunPerKey'
  <2>1. /\ runState \in [Runs -> RunStates \cup {"absent"}]
        /\ runState' = [runState EXCEPT ![r] = "queued"]
    BY <1>2 DEF EnqueueRun, InsertRun, RowInv, TypeOK, RunTypeOK
  <2>2. \A q \in Runs : (/\ TenantOf[q] = TenantOf[r] /\ KeyOf[q] = KeyOf[r]
                         /\ KeyOf[r] # NoKey) => runState[q] = "absent"
    BY <1>2 DEF EnqueueRun, Duplicate
  <2> QED
    BY <2>1, <2>2 DEF OneRunPerKey
<1> QED
  BY <1>1, <1>2

\* A retried submission never becomes a second run, whatever became of the first.
THEOREM OneRunPerKeyHolds == Spec => []OneRunPerKey
<1>1. Init => OneRunPerKey
  BY DEF Init, RunInit, OneRunPerKey
<1>2. RowInv /\ OneRunPerKey /\ [Next]_vars => OneRunPerKey'
  BY OneRunPerKeyStep
<1> QED
  BY <1>1, <1>2, RowInvariant, PTL DEF Spec

\* The count of slots a tenant holds is the first thing claim_run_queue orders by.
LEMMA ClaimableIsIdle ==
    ASSUME NEW r \in Claimable, NEW q \in Eligible, ActiveOf(TenantOf[q]) = {}
    PROVE  ActiveOf(TenantOf[r]) = {}
<1>1. IsFiniteSet(ActiveOf(TenantOf[r])) /\ Cardinality(ActiveOf(TenantOf[r])) \in Nat
  <2>1. ActiveOf(TenantOf[r]) \subseteq Active
    BY DEF ActiveOf
  <2> QED
    BY <2>1, FiniteRows, FS_Subset, FS_CardinalityType
<1>2. Cardinality(ActiveOf(TenantOf[q])) = 0
  BY FS_EmptySet
<1>3. ~(Cardinality(ActiveOf(TenantOf[q])) < Cardinality(ActiveOf(TenantOf[r])))
  BY DEF Claimable, DispatchedBefore
<1>4. Cardinality(ActiveOf(TenantOf[r])) = 0
  BY <1>1, <1>2, <1>3
<1> QED
  BY <1>1, <1>4, FS_EmptySet

\* Only a claim hands a waiting run to an executor, and it takes them in order.
LEMMA IdleTenantFirstStep ==
    ASSUME TypeOK, [Next]_vars
    PROVE  IdleGoesFirst
<1> SUFFICES ASSUME NEW r \in Runs, status[r] = "queued", status'[r] = "executing",
                    NEW q \in Eligible, ActiveOf(TenantOf[q]) = {}
             PROVE  ActiveOf(TenantOf[r]) = {}
  BY DEF IdleGoesFirst
<1>1. ASSUME NEW p \in Runs, NEW o \in Owners, ClaimRun(p, o)
      PROVE  r \in Claimable
  BY <1>1 DEF ClaimRun, TypeOK
<1>2. ASSUME NEW p \in Runs, EnqueueRun(p) \/ UnfencedWrite(p) PROVE FALSE
  BY <1>2 DEF EnqueueRun, UnfencedWrite, queueVars, leaseVars, TypeOK
<1>3. ASSUME NEW p \in Runs, NEW o \in Owners,
             RecoverRun(p, o) \/ HeartbeatRun(p, o) \/ FailRun(p, o) \/ FinishRun(p, o)
      PROVE  FALSE
  BY <1>3 DEF RecoverRun, HeartbeatRun, FailRun, FinishRun, TypeOK
<1>4. ASSUME Tick \/ UNCHANGED vars PROVE FALSE
  BY <1>4 DEF Tick, vars, queueVars, leaseVars
<1>5. r \in Claimable
  BY <1>1, <1>2, <1>3, <1>4 DEF Next
<1> QED
  BY <1>5, ClaimableIsIdle

\* Dispatch is fair between tenants: one that holds slots waits for one that
\* holds none.
THEOREM IdleTenantFirstHolds == Spec => IdleTenantFirst
<1>1. TypeOK /\ [Next]_vars => [IdleGoesFirst]_vars
  BY IdleTenantFirstStep
<1> QED
  BY <1>1, TypeCorrect, PTL DEF Spec, IdleTenantFirst

=============================================================================
