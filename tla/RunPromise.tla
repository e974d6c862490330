----------------------------- MODULE RunPromise -----------------------------
(***************************************************************************)
(* What a submitted run is promised, whoever executes, recovers, cancels   *)
(* or sweeps it: one verdict, machines only while the verdict is open, and *)
(* a queue entry that closes only when nothing is held but the machine the *)
(* caller asked to keep.  RunExecution implements it.                      *)
(***************************************************************************)
CONSTANTS
    Runs,       \* submissions
    Machines,   \* the machines one run may be given
    Verdicts    \* the verdicts of a run

VARIABLES
    stage,      \* "new", "open" from admission, "closed" when the queue lets go
    verdict,    \* the verdicts given, at most one
    used,       \* machines handed to the run so far
    held,       \* those of them that exist
    kept        \* those of them kept for the caller, at most one

vars == <<stage, verdict, used, held, kept>>

TypeOK ==
    /\ stage \in [Runs -> {"new", "open", "closed"}]
    /\ verdict \in [Runs -> SUBSET Verdicts]
    /\ used \in [Runs -> SUBSET Machines]
    /\ held \in [Runs -> SUBSET Machines]
    /\ kept \in [Runs -> SUBSET Machines]

Init ==
    /\ stage = [r \in Runs |-> "new"]
    /\ verdict = [r \in Runs |-> {}]
    /\ used = [r \in Runs |-> {}]
    /\ held = [r \in Runs |-> {}]
    /\ kept = [r \in Runs |-> {}]

Admit(r) ==
    /\ stage[r] = "new"
    /\ stage' = [stage EXCEPT ![r] = "open"]
    /\ UNCHANGED <<verdict, used, held, kept>>

\* A machine is given to an undecided run, and never given twice.
Acquire(r, m) ==
    /\ stage[r] = "open" /\ verdict[r] = {}
    /\ m \notin used[r]
    /\ used' = [used EXCEPT ![r] = @ \cup {m}]
    /\ held' = [held EXCEPT ![r] = @ \cup {m}]
    /\ UNCHANGED <<stage, verdict, kept>>

Release(r, m) ==
    /\ m \in held[r]
    /\ held' = [held EXCEPT ![r] = @ \ {m}]
    /\ UNCHANGED <<stage, verdict, used, kept>>

\* One machine at a time is kept; keeping another does not displace it.
Keep(r, m) ==
    /\ kept[r] = {}
    /\ m \in used[r]
    /\ kept' = [kept EXCEPT ![r] = {m}]
    /\ UNCHANGED <<stage, verdict, used, held>>

\* A machine stops being kept only once it is gone.
Forget(r) ==
    /\ kept[r] \cap held[r] = {}
    /\ kept' = [kept EXCEPT ![r] = {}]
    /\ UNCHANGED <<stage, verdict, used, held>>

Decide(r, v) ==
    /\ stage[r] = "open" /\ verdict[r] = {}
    /\ verdict' = [verdict EXCEPT ![r] = {v}]
    /\ UNCHANGED <<stage, used, held, kept>>

Close(r) ==
    /\ stage[r] = "open" /\ verdict[r] # {}
    /\ held[r] \subseteq kept[r]
    /\ stage' = [stage EXCEPT ![r] = "closed"]
    /\ UNCHANGED <<verdict, used, held, kept>>

Next ==
    \E r \in Runs :
        \/ Admit(r) \/ Forget(r) \/ Close(r)
        \/ \E m \in Machines : Acquire(r, m) \/ Release(r, m) \/ Keep(r, m)
        \/ \E v \in Verdicts : Decide(r, v)

Spec == Init /\ [][Next]_vars

-----------------------------------------------------------------------------
\* No compute is leaked: a run the queue has let go of has its verdict and holds
\* at most the machine its caller asked to keep, and that machine is on record
\* (retained_sandbox_id), so the retention sweeper will find it.
NothingLeaked ==
    \A r \in Runs : stage[r] = "closed" =>
        verdict[r] # {} /\ held[r] \subseteq kept[r]

=============================================================================
