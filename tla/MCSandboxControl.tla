-------------------------- MODULE MCSandboxControl --------------------------
(***************************************************************************)
(* Instances of SandboxControl.                                            *)
(***************************************************************************)
EXTENDS SandboxControl, TLC

CONSTANTS s1, n1, n2

UnitDemand == [s \in Sandboxes |-> 1]
LeaseBounds == [s \in Sandboxes |-> MaxLeases]
NodeSymmetry == Permutations(Nodes)

\* The request is not retried: what else replaces a lease is the recovery.
AdmittedOnce ==
    job["provision"].at = "idle" /\ job'["provision"].at = "create" => issued[box] = 0
=============================================================================
