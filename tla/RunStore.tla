------------------------------ MODULE RunStore ------------------------------
(***************************************************************************)
(* The rows of tables runs and run_attempts and the statements that write  *)
(* them, crates/aiec-storage/src/postgres.rs.  Every operator is one       *)
(* committed statement or transaction; it is the success branch, and a     *)
(* caller that meets a refusal leaves the rows alone.                      *)
(*                                                                         *)
(* Attempt number a of a run is handed at most one machine, so the machine *)
(* is named by the attempt: cleanupFailed[r] = a says that results.        *)
(* cleanup_failed names the machine of attempt a, 0 that it is empty.      *)
(***************************************************************************)
EXTENDS Integers, RunLifecycle

CONSTANTS
    Runs,          \* run ids, one for every submission
    MaxAttempts    \* the request's max_attempts

ASSUME MaxAttemptsAssumption == MaxAttempts \in Nat \ {0}

Attempts == 1 .. MaxAttempts
NoMachine == 0

VARIABLES
    runState,      \* runs.state, "absent" before the row is inserted
    cleanupFailed, \* runs.results.cleanup_failed
    openAttempts   \* run_attempts with completed_at IS NULL

runVars == <<runState, cleanupFailed, openAttempts>>

RunTypeOK ==
    /\ runState \in [Runs -> RunStates \cup {"absent"}]
    /\ cleanupFailed \in [Runs -> Attempts \cup {NoMachine}]
    /\ openAttempts \in [Runs -> SUBSET Attempts]

RunInit ==
    /\ runState = [r \in Runs |-> "absent"]
    /\ cleanupFailed = [r \in Runs |-> NoMachine]
    /\ openAttempts = [r \in Runs |-> {}]

\* insert_run_tx of a run that build_run made.
InsertRun(r) ==
    /\ runState[r] = "absent"
    /\ runState' = [runState EXCEPT ![r] = "queued"]
    /\ UNCHANGED <<cleanupFailed, openAttempts>>

\* update_run_state: a compare-and-set held to the lifecycle.
UpdateRunState(r, from, to) ==
    /\ CanTransitionTo(from, to)
    /\ runState[r] = from
    /\ runState' = [runState EXCEPT ![r] = to]
    /\ UNCHANGED <<cleanupFailed, openAttempts>>

\* record_run_results: the caller's results replace the stored ones, its claim
\* about the state is held to the lifecycle.
RecordRunResults(r, state, report) ==
    /\ runState[r] # "absent"
    /\ runState[r] = state \/ CanTransitionTo(runState[r], state)
    /\ runState' = [runState EXCEPT ![r] = state]
    /\ cleanupFailed' = [cleanupFailed EXCEPT ![r] = report]
    /\ UNCHANGED openAttempts

\* Mutant: a failure is recorded over whatever verdict there is.
RecordFailureAnyway(r, report) ==
    /\ runState[r] # "absent"
    /\ runState' = [runState EXCEPT ![r] = "failed"]
    /\ cleanupFailed' = [cleanupFailed EXCEPT ![r] = report]
    /\ UNCHANGED openAttempts

\* record_run_failure: a failed run keeps its results, a succeeded or cancelled
\* one its verdict.
RecordRunFailure(r, report) ==
    /\ runState[r] # "absent"
    /\ runState' = [runState EXCEPT
                      ![r] = IF @ \in {"succeeded", "cancelled"} THEN @ ELSE "failed"]
    /\ cleanupFailed' = [cleanupFailed EXCEPT
                           ![r] = IF runState[r] = "failed" THEN @ ELSE report]
    /\ UNCHANGED openAttempts

\* record_retention_cleanup_failure: a targeted write into the results.
ReportRetentionFailure(r, m) ==
    /\ runState[r] # "absent"
    /\ cleanupFailed' = [cleanupFailed EXCEPT ![r] = m]
    /\ UNCHANGED <<runState, openAttempts>>

\* clear_run_retention: the report goes only if it is about this machine.
ClearRetentionReport(r, m) ==
    /\ runState[r] # "absent"
    /\ cleanupFailed' = [cleanupFailed EXCEPT ![r] = IF @ = m THEN NoMachine ELSE @]
    /\ UNCHANGED <<runState, openAttempts>>

\* record_run_attempt: the run must exist; its state is not looked at.
RecordRunAttempt(r, a) ==
    /\ runState[r] # "absent"
    /\ openAttempts' = [openAttempts EXCEPT ![r] = @ \cup {a}]
    /\ UNCHANGED <<runState, cleanupFailed>>

\* complete_run_attempt: only an open attempt can be sealed.
CompleteRunAttempt(r, a) ==
    /\ runState[r] # "absent"
    /\ a \in openAttempts[r]
    /\ openAttempts' = [openAttempts EXCEPT ![r] = @ \ {a}]
    /\ UNCHANGED <<runState, cleanupFailed>>

\* retire_run: a run without a verdict fails, its open attempts are closed.
RetireRun(r) ==
    /\ runState' = [runState EXCEPT ![r] = IF IsTerminal(@) THEN @ ELSE "failed"]
    /\ openAttempts' = [openAttempts EXCEPT ![r] = {}]
    /\ UNCHANGED cleanupFailed

=============================================================================
