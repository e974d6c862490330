--------------------------- MODULE MCSandboxLease ---------------------------
(***************************************************************************)
(* An instance of SandboxLease.  s1 goes through everything; the others    *)
(* only compete with it for the workers and the quota.  Likewise n1 is     *)
(* resized, drained and silent, while the other workers are there from     *)
(* their registration on.                                                  *)
(***************************************************************************)
EXTENDS SandboxLease

CONSTANTS s1, s2, n1, n2, weight, leases1, leases2

EqualDemand == [s \in Sandboxes |-> weight]
LeaseBounds == [s \in Sandboxes |-> IF s = s1 THEN leases1 ELSE leases2]

\* A sandbox that is placed and deleted.
Compete(s) ==
    \/ \E n \in Nodes : Schedule(s, n, "creating")
    \/ \E k \in LeasesOf(s) : DeleteSandbox(s, k)

CompetedNext ==
    \/ SandboxStep(s1) \/ \E k \in LeasesOf(s1) : LeaseStep(s1, k)
    \/ \E s \in Sandboxes \ {s1} : Compete(s)
    \/ NodeStep(n1)
    \/ \E n \in Nodes \ {n1}, t \in Capacities : total[n] = 0 /\ Register(n, t)

CompetedSpec == Init /\ [][CompetedNext]_vars
=============================================================================
