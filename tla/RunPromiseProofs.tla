-------------------------- MODULE RunPromiseProofs --------------------------
(***************************************************************************)
(* What a run is promised follows from the steps of RunPromise, for any    *)
(* number of runs and machines.                                            *)
(***************************************************************************)
EXTENDS RunPromise, TLAPS

\* The types and the promise itself; the guards of Acquire, Keep and Forget make
\* what Close required last.
PromiseInv == TypeOK /\ NothingLeaked

\* Nothing is promised before admission.
LEMMA PromiseInit == Init => PromiseInv
BY DEF Init, PromiseInv, TypeOK, NothingLeaked

\* Every step keeps the promise: after the close no machine is acquired, and a
\* machine that is still held stays on record as kept.
LEMMA PromiseStep ==
    ASSUME PromiseInv, [Next]_vars
    PROVE  PromiseInv'
<1> USE DEF PromiseInv, TypeOK, NothingLeaked
<1>1. ASSUME NEW r \in Runs, Admit(r) PROVE PromiseInv'
  BY <1>1 DEF Admit
<1>2. ASSUME NEW r \in Runs, Forget(r) PROVE PromiseInv'
  BY <1>2 DEF Forget
<1>3. ASSUME NEW r \in Runs, Close(r) PROVE PromiseInv'
  BY <1>3 DEF Close
<1>4. ASSUME NEW r \in Runs, NEW m \in Machines, Acquire(r, m) PROVE PromiseInv'
  BY <1>4 DEF Acquire
<1>5. ASSUME NEW r \in Runs, NEW m \in Machines, Release(r, m) PROVE PromiseInv'
  BY <1>5 DEF Release
<1>6. ASSUME NEW r \in Runs, NEW m \in Machines, Keep(r, m) PROVE PromiseInv'
  <2>1. stage[r] = "closed" => held[r] = {}
    BY <1>6 DEF Keep
  <2> QED
    BY <1>6, <2>1 DEF Keep
<1>7. ASSUME NEW r \in Runs, NEW v \in Verdicts, Decide(r, v) PROVE PromiseInv'
  BY <1>7 DEF Decide
<1>8. CASE UNCHANGED vars
  BY <1>8 DEF vars
<1> QED
  BY <1>1, <1>2, <1>3, <1>4, <1>5, <1>6, <1>7, <1>8 DEF Next

\* No behaviour that keeps to RunPromise leaks compute: once the queue has let a
\* run go it has a verdict and holds only what is on record as kept.
THEOREM NothingLeakedHolds == Spec => []NothingLeaked
<1>1. PromiseInv => NothingLeaked
  BY DEF PromiseInv
<1> QED
  BY <1>1, PromiseInit, PromiseStep, PTL DEF Spec

=============================================================================
