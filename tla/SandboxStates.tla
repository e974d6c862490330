--------------------------- MODULE SandboxStates ---------------------------
(***************************************************************************)
(* SandboxState of crates/aiec-core/src/lib.rs: the lifecycle of one       *)
(* sandbox row and the sets of states the control plane tells apart.       *)
(***************************************************************************)

\* "absent" stands for a row that is not there yet.
SandboxState ==
    {"creating", "starting", "running", "paused", "quarantined", "stopping", "stopped",
     "snapshotting", "restoring", "failed", "destroying", "destroyed"}

\* SandboxState::can_transition_to.
CanTransitionTo(from, to) ==
    \/ from = "creating"     /\ to \in {"starting", "failed", "destroying"}
    \/ from = "starting"     /\ to \in {"running", "failed", "destroying"}
    \/ from = "running"      /\ to \in {"paused", "stopping", "snapshotting", "failed", "destroying"}
    \/ from = "paused"       /\ to = "running"
    \/ from = "stopping"     /\ to \in {"stopped", "failed"}
    \/ from = "stopped"      /\ to \in {"starting", "destroying"}
    \/ from = "snapshotting" /\ to \in {"running", "stopped", "failed"}
    \/ from = "restoring"    /\ to \in {"running", "failed"}
    \/ from = "failed"       /\ to \in {"starting", "destroying"}
    \/ from = "destroying"   /\ to \in {"destroyed", "failed"}
    \/ from = "destroyed"    /\ to = "creating"
    \/ /\ from \in SandboxState \ {"quarantined", "destroying", "destroyed"}
       /\ to = "quarantined"

\* Mutant: the reconciler also recovers what is being torn down.
RecoverableOrDestroying(s) ==
    s \in {"creating", "starting", "running", "paused", "restoring", "destroying"}

\* The states reassign_expired_lease and is_recoverable_state accept.
Recoverable(s) == s \in {"creating", "starting", "running", "paused", "restoring"}
============================================================================
