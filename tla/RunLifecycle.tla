---------------------------- MODULE RunLifecycle ----------------------------
(***************************************************************************)
(* The lifecycle of a run, crates/aiec-core/src/run.rs: which states a run *)
(* can be in, which of them are final, and the one relation every write of *)
(* the state is held to.                                                   *)
(***************************************************************************)

\* RunState::is_active: the states in which a run still holds compute.
ActiveStates == {"queued", "preparing", "running", "validating", "collecting"}

TerminalStates == {"succeeded", "failed", "cancelled"}

RunStates == ActiveStates \cup TerminalStates

IsTerminal(s) == s \in TerminalStates

\* RunState::can_transition_to: cancellation from any active state, the listed
\* edges otherwise, and nothing out of a terminal state.
CanTransitionTo(s, next) ==
    IF next = "cancelled"
    THEN s \in ActiveStates
    ELSE \/ s = "queued"     /\ next \in {"preparing", "failed"}
         \/ s = "preparing"  /\ next \in {"running", "validating", "failed"}
         \/ s = "running"    /\ next \in {"preparing", "validating", "collecting", "failed"}
         \/ s = "validating" /\ next \in {"preparing", "collecting", "failed"}
         \/ s = "collecting" /\ next \in {"preparing", "succeeded", "failed"}

RetentionPolicies == {"destroy", "keep_on_failure", "keep_always"}

\* RetentionPolicy::should_retain: whether a machine survives this outcome.
ShouldRetain(policy, succeeded) ==
    \/ policy = "keep_on_failure" /\ ~succeeded
    \/ policy = "keep_always"

=============================================================================
