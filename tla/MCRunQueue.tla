----------------------------- MODULE MCRunQueue -----------------------------
(***************************************************************************)
(* Instances of RunQueue.  MCRunQueue.cfg gives the unfenced writers free  *)
(* rein over two runs, and a retry of the first, that compete for one slot. *)
(* MCRunQueueDispatch.cfg asks about admission and dispatch, which need    *)
(* more runs: there the only unfenced writes are the two that decide a     *)
(* run, a cancel and an executor that settles it.                          *)
(***************************************************************************)
EXTENDS RunQueue, TLC

CONSTANTS r1, r2, r3, r4, t1, t2, k1, o1, o2, o3

\* r3 is r1 submitted again under the same key; r2 belongs to someone else.
RetryTenants == [r \in Runs |-> IF r = r2 THEN t2 ELSE t1]
RetryKeys == [r \in Runs |-> IF r = r2 THEN NoKey ELSE k1]
RetrySymmetry == Permutations(Owners) \cup Permutations({r1, r3})

\* r4 is the only run of its tenant.
CrowdTenants == [r \in Runs |-> IF r = r4 THEN t2 ELSE t1]
CrowdKeys == [r \in Runs |-> NoKey]
CrowdSymmetry == Permutations(Owners) \cup Permutations({r1, r2, r3})

QuietNext ==
    \/ \E r \in Runs :
          \/ EnqueueRun(r)
          \/ (UpdateRunState(r, "queued", "cancelled") /\ UNCHANGED queueVars)
          \/ (status[r] = "executing" /\ RecordRunFailure(r, NoMachine)
                                      /\ UNCHANGED queueVars)
    \/ \E r \in Runs, o \in Owners :
          \/ Fresh(o) /\ (ClaimRun(r, o) \/ RecoverRun(r, o))
          \/ HeartbeatRun(r, o) \/ FailRun(r, o) \/ FinishRun(r, o)
    \/ Tick

QuietSpec == Init /\ [][QuietNext]_vars
=============================================================================
