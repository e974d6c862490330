--------------------------- MODULE MCRunExecution ---------------------------
(***************************************************************************)
(* Instances of RunExecution: one run, two owner ids, so that an executor  *)
(* which lost its lease and the recovery that took over meet.  The files   *)
(* named Finding... hold the runs in which the code departs from its docs. *)
(***************************************************************************)
EXTENDS RunExecution, TLC

CONSTANTS r1, t1, o1, o2, c1, c2, s1, s2, policy

OneTenant == [r \in Runs |-> t1]
NoKeys == [r \in Runs |-> NoKey]
SamePolicy == [r \in Runs |-> policy]

Symmetry == Permutations(Owners) \cup Permutations(Cancels) \cup Permutations(Sweepers)
=============================================================================
