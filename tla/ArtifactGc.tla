----------------------------- MODULE ArtifactGc -----------------------------
(***************************************************************************)
(* Artifacts: objects in a store without transactions, the ledger          *)
(* artifact_objects that owns their names, the references to them (rows    *)
(* of run_artifacts and snapshots, the artifacts a run's results name),    *)
(* and everyone who works on them: collections of a run, captures, the     *)
(* artifact routes of a sandbox, and the sweepers of all processes         *)
(* (artifact_gc.rs of aiec-storage and aiec-api, migration 0014).          *)
(*                                                                         *)
(* A timestamp is a countdown: updated_at > abandoned is graceLeft > 0.    *)
(* A claim is named by its sweeper, which works off one pass before it     *)
(* begins the next, so no two claims under way share a name.               *)
(***************************************************************************)
EXTENDS Integers, FiniteSets

CONSTANTS
    Keys,           \* object keys, as numbers in the order of the ledger's index
    SnapshotKeys,   \* the keys captures draw
    ManifestOf,     \* the second key a snapshot names, <object_key>.manifest.json
    Runs, NoRun,
    OwnerOf,        \* owner_run_id: the run a collected key belongs to, or NoRun
    Uploaders,      \* requests and executors that upload
    Sweepers, NoSweeper,
    Limit,          \* batch_size
    UploadTTL,      \* MAX_ARTIFACT_UPLOAD_SECONDS
    Grace,          \* pending_grace_seconds
    DeletionLease,  \* DELETION_LEASE_SECONDS
    Retry,          \* RETRY_SECONDS
    MaxFaults       \* bound: deletions that fail, sweepers that stop or are late

ASSUME ArtifactAssumption ==
    /\ Keys \subseteq Nat \ {0}
    /\ OwnerOf \in [Keys -> Runs \cup {NoRun}] /\ NoRun \notin Runs
    /\ SnapshotKeys \subseteq {k \in Keys : OwnerOf[k] = NoRun}
    /\ ManifestOf \in [SnapshotKeys -> {k \in Keys : OwnerOf[k] = NoRun} \ SnapshotKeys]
    /\ \A j, k \in SnapshotKeys : ManifestOf[j] = ManifestOf[k] => j = k
    /\ NoSweeper \notin Sweepers
    /\ Limit \in Nat \ {0}
    /\ UploadTTL \in Nat /\ Grace \in Nat
    /\ UploadTTL <= Grace   \* MIN_PENDING_GRACE_SECONDS is twice the upload deadline
    /\ DeletionLease \in Nat \ {0} /\ Retry \in Nat /\ MaxFaults \in Nat

VARIABLES
    state, claim, leaseLeft, retryLeft, graceLeft,  \* the columns of artifact_objects
    cursor,     \* artifact_gc_scan.last_object_key, 0 for NULL
    bytes,      \* keys with an object in the store
    listed,     \* keys a run_artifacts or snapshots row names
    named,      \* keys the results of a run name
    run,        \* what the ledger tells apart of a run
    at, key, got, left,     \* each uploader: its step, its object, what its collection has
                            \* stored so far, and the time its PUT has left
    deleter,    \* the key a DELETE request removed the bytes of, 0 for none
    work,       \* each sweeper's claims: to delete, deleted, failed
    faults

ledger == <<state, claim, leaseLeft, retryLeft, graceLeft>>
references == <<listed, named>>
uploads == <<at, key, got, left>>
vars == <<state, claim, leaseLeft, retryLeft, graceLeft, cursor, bytes, listed, named,
          run, at, key, got, left, deleter, work, faults>>

RunKeys == {k \in Keys : OwnerOf[k] # NoRun}
KeysOf(r) == {k \in Keys : OwnerOf[k] = r}

\* create_snapshot names a manifest that nobody reserves or writes: its ledger row is
\* made by the reference, and no object is ever behind it.
ManifestKeys == {ManifestOf[k] : k \in SnapshotKeys}

\* Keys of the artifact routes: the only ones a caller chooses and uses again.
SandboxKeys == {k \in Keys : OwnerOf[k] = NoRun} \ (SnapshotKeys \cup ManifestKeys)

NoWork == [k \in Keys |-> "none"]

Init ==
    /\ state = [k \in Keys |-> "absent"]
    /\ claim = [k \in Keys |-> NoSweeper]
    /\ leaseLeft = [k \in Keys |-> 0]
    /\ retryLeft = [k \in Keys |-> 0]
    /\ graceLeft = [k \in Keys |-> 0]
    /\ cursor = 0 /\ bytes = {} /\ listed = {} /\ named = {}
    /\ run = [r \in Runs |-> "active"]
    /\ at = [u \in Uploaders |-> "idle"] /\ key = [u \in Uploaders |-> 0]
    /\ got = [u \in Uploaders |-> {}] /\ left = [u \in Uploaders |-> 0]
    /\ deleter = 0
    /\ work = [s \in Sweepers |-> NoWork]
    /\ faults = 0

Faulty == faults < MaxFaults /\ faults' = faults + 1
Dying(k) == state[k] \in {"deleting", "deleted"}

\* What every write of one ledger row but a claim does: no claim, no lease.  Columns
\* that are not read in the new state are 0.
Settle(k, to, retry) ==
    /\ state' = [state EXCEPT ![k] = to]
    /\ claim' = [claim EXCEPT ![k] = NoSweeper]
    /\ leaseLeft' = [leaseLeft EXCEPT ![k] = 0]
    /\ retryLeft' = [retryLeft EXCEPT ![k] = IF to = "deleted" THEN 0 ELSE retry]
    /\ graceLeft' = [graceLeft EXCEPT ![k] = IF to = "available" THEN Grace ELSE 0]

----------------------------------------------------------------------------
(* Uploads *)

\* u is at step a with object k, collected objects g and time l.
Become(u, a, k, g, l) ==
    /\ at' = [at EXCEPT ![u] = a]
    /\ key' = [key EXCEPT ![u] = k]
    /\ got' = [got EXCEPT ![u] = g]
    /\ left' = [left EXCEPT ![u] = l]

Stop(u) == Become(u, "idle", 0, {}, 0)

\* reserve_artifact_upload succeeds.  Runs and captures draw a new key for every
\* upload; a name of the artifact routes may be used until it is deleted.
Reserve(k) ==
    /\ k \notin ManifestKeys
    /\ k \in RunKeys => run[OwnerOf[k]] = "active"
    /\ IF k \in SandboxKeys THEN state[k] \in {"absent", "pending", "available"}
                            ELSE state[k] = "absent"
    /\ state' = [state EXCEPT ![k] = IF @ = "absent" THEN "pending" ELSE @]
    /\ graceLeft' = [graceLeft EXCEPT ![k] = Grace]
    /\ UNCHANGED <<claim, leaseLeft, retryLeft>>

\* A first upload, or the next path of a collection under way.
BeginUpload(u, k) ==
    /\ \/ at[u] = "idle"
       \/ at[u] = "more" /\ OwnerOf[k] = OwnerOf[key[u]]
    /\ Reserve(k)
    /\ Become(u, "put", k, got[u], UploadTTL)
    /\ UNCHANGED <<cursor, bytes, references, run, deleter, work, faults>>

\* What a collection does after the upload of one path: goes on, or stops at the
\* first failure and records what it has.  Other handlers return the error.
Failed(u) ==
    IF key[u] \in RunKeys THEN Become(u, "list", key[u], got[u], 0) ELSE Stop(u)

\* The PUT lands while its deadline lasts.
Put(u) ==
    /\ at[u] = "put" /\ left[u] > 0
    /\ bytes' = bytes \cup {key[u]}
    /\ Become(u, "complete", key[u], got[u], 0)
    /\ UNCHANGED <<ledger, cursor, references, run, deleter, work, faults>>

\* It fails or times out, without having landed or though it has.
PutFails(u) ==
    /\ at[u] = "put"
    /\ \/ UNCHANGED bytes
       \/ left[u] > 0 /\ bytes' = bytes \cup {key[u]}
    /\ Failed(u)
    /\ UNCHANGED <<ledger, cursor, references, run, deleter, work, faults>>

Uploaded(u, k) ==
    IF k \in RunKeys THEN Become(u, "more", k, got[u] \cup {k}, 0)
    ELSE IF k \in SnapshotKeys THEN Become(u, "snapshot", k, {}, 0)
    ELSE Stop(u)

\* Mutant: a late completion makes its object available again.
CompleteRevives(u) ==
    /\ at[u] = "complete"
    /\ Settle(key[u], "available", 0)
    /\ Uploaded(u, key[u])
    /\ UNCHANGED <<cursor, bytes, references, run, deleter, work, faults>>

\* complete_artifact_upload: after a deletion was claimed, or done, the bytes just
\* written are left to the sweeper and the upload is refused.
CompleteUpload(u) ==
    LET k == key[u] IN
    /\ at[u] = "complete"
    /\ Settle(k, IF Dying(k) THEN "deleting" ELSE "available", 0)
    /\ IF Dying(k) THEN Failed(u) ELSE Uploaded(u, k)
    /\ UNCHANGED <<cursor, bytes, references, run, deleter, work, faults>>

\* The process stops, or the client goes away and its handler is dropped.
DropUpload(u) ==
    /\ at[u] # "idle"
    /\ Stop(u)
    /\ UNCHANGED <<ledger, cursor, bytes, references, run, deleter, work, faults>>

----------------------------------------------------------------------------
(* References *)

\* aiec_lock_artifact_reference for every key of one statement: a key without a row
\* gets one, as available as if it had been stored, and an object whose deletion was
\* claimed refuses the statement.
Refer(S) ==
    /\ \A k \in S : ~Dying(k)
    /\ state' = [k \in Keys |-> IF k \in S THEN "available" ELSE state[k]]
    /\ graceLeft' = [k \in Keys |-> IF k \in S THEN Grace ELSE graceLeft[k]]

\* put_run_artifacts replaces what the run lists; run_artifact_reference_guard
\* refuses an expired run and a dying object.  The results follow either way.
ListArtifacts(u) ==
    LET r == OwnerOf[key[u]] IN
    /\ at[u] \in {"more", "list"}
    /\ \/ /\ run[r] # "expired"
          /\ Refer(got[u])
          /\ listed' = (listed \ KeysOf(r)) \cup got[u]
       \/ /\ run[r] = "expired" \/ \E k \in got[u] : Dying(k)
          /\ UNCHANGED <<state, graceLeft, listed>>
    /\ Become(u, "name", key[u], got[u], 0)
    /\ UNCHANGED <<claim, leaseLeft, retryLeft, cursor, bytes, named, run, deleter, work, faults>>

\* record_run_results with the collected artifacts, behind the same kind of
\* trigger; a lifecycle conflict or an error refuses it too (DropUpload).
NameArtifacts(u) ==
    LET r == OwnerOf[key[u]] IN
    /\ at[u] = "name"
    /\ run[r] # "expired" \/ got[u] = {}
    /\ Refer(got[u])
    /\ named' = (named \ KeysOf(r)) \cup got[u]
    /\ Stop(u)
    /\ UNCHANGED <<claim, leaseLeft, retryLeft, cursor, bytes, listed, run, deleter, work, faults>>

\* The objects a snapshot's row names.
Objects(k) == {k, ManifestOf[k]}

\* put_stored_snapshot after the capture was stored; its row names the manifest too.
ListSnapshot(u) ==
    /\ at[u] = "snapshot"
    /\ Refer(Objects(key[u]))
    /\ listed' = listed \cup Objects(key[u])
    /\ Stop(u)
    /\ UNCHANGED <<claim, leaseLeft, retryLeft, cursor, bytes, named, run, deleter, work, faults>>

\* delete_snapshot removes the row and leaves its objects to the sweeper.
DeleteSnapshot(k) ==
    /\ k \in SnapshotKeys \cap listed
    /\ listed' = listed \ Objects(k)
    /\ UNCHANGED <<ledger, cursor, bytes, named, run, uploads, deleter, work, faults>>

\* What becomes of a run: it is decided, with or without a machine retained, the
\* machine goes, and its completion falls out of the retention of evidence.
AdvanceRun(r) ==
    /\ \/ run[r] = "active"   /\ \E to \in {"retained", "decided"} : run' = [run EXCEPT ![r] = to]
       \/ run[r] = "retained" /\ run' = [run EXCEPT ![r] = "decided"]
       \/ run[r] = "decided"  /\ run' = [run EXCEPT ![r] = "aged"]
    /\ UNCHANGED <<ledger, cursor, bytes, references, uploads, deleter, work, faults>>

----------------------------------------------------------------------------
(* DELETE of a sandbox's artifact *)

\* delete_artifact removes the bytes first.
DeleteBytes(k) ==
    /\ deleter = 0 /\ k \in SandboxKeys
    /\ bytes' = bytes \ {k}
    /\ deleter' = k
    /\ UNCHANGED <<ledger, cursor, references, run, uploads, work, faults>>

\* delete_artifact_upload then retires the name, unless a sweeper claimed it or
\* there is no row.
DeleteUpload ==
    /\ deleter # 0
    /\ IF state[deleter] \in {"pending", "available"}
       THEN Settle(deleter, "deleted", 0)
       ELSE UNCHANGED ledger
    /\ deleter' = 0
    /\ UNCHANGED <<cursor, bytes, references, run, uploads, work, faults>>

DropDelete ==
    /\ deleter # 0
    /\ deleter' = 0
    /\ UNCHANGED <<ledger, cursor, bytes, references, run, uploads, work, faults>>

----------------------------------------------------------------------------
(* The sweep *)

Rank(k, S) == Cardinality({j \in S : j <= k})
First(n, S) == {k \in S : Rank(k, S) <= n}
Last(k, S) == k \in S /\ \A j \in S : j <= k

LiveRows == {k \in Keys : state[k] \notin {"absent", "deleted"}}

\* candidate_window_after and candidate_window_up_to: one page of live rows after
\* the cursor, filled up from the start of the ledger.
Tail == First(Limit, {k \in LiveRows : k > cursor})
Wrapped == First(Limit - Cardinality(Tail), {k \in LiveRows : k <= cursor})
Window == Tail \cup Wrapped

\* Mutant: every pass begins at the first key.
CursorRestarts(c) == c = 0

\* The last row read is where the next pass goes on; NULL when there was none.
NextCursor(c) ==
    IF Wrapped # {} THEN Last(c, Wrapped)
    ELSE IF Tail # {} THEN Last(c, Tail)
    ELSE c = 0

\* live_owner_runs.
OwnerLive(k) == k \in RunKeys /\ run[OwnerOf[k]] \in {"active", "retained"}

\* Mutant: the check for references is missing.
ClaimableThoughReferenced(k, referenced) ==
    /\ retryLeft[k] = 0 /\ leaseLeft[k] = 0
    /\ state[k] = "deleting" \/ graceLeft[k] = 0
    /\ ~OwnerLive(k)

\* Mutant: an upload under way is not given its grace.
ClaimableAtOnce(k, referenced) ==
    /\ retryLeft[k] = 0 /\ leaseLeft[k] = 0
    /\ k \notin referenced
    /\ ~OwnerLive(k)

\* The conditions claim_artifact_deletions checks for each row of the window.
Claimable(k, referenced) ==
    /\ retryLeft[k] = 0 /\ leaseLeft[k] = 0
    /\ state[k] = "deleting" \/ graceLeft[k] = 0
    /\ k \notin referenced
    /\ ~OwnerLive(k)

\* A page of at most Limit members of S, in an order the model does not fix.
Page(P, S) ==
    /\ P \subseteq S
    /\ Cardinality(P) <= Limit
    /\ P = S \/ Cardinality(P) = Limit

\* claim_artifact_deletions: runs out of retention expire and their results are
\* emptied, rows of expired runs go, and the claimable rows of the window are
\* claimed, all in one transaction.  A pass that finds the scan or a row locked (SKIP
\* LOCKED) leaves it to the next pass, as if it had come later.
Sweep(s) ==
    /\ work[s] = NoWork
    /\ UNCHANGED <<retryLeft, graceLeft, bytes, uploads, deleter, faults>>
    /\ \E E \in SUBSET {r \in Runs : run[r] = "aged"}, D \in SUBSET (listed \cap RunKeys) :
        LET expired == E \cup {r \in Runs : run[r] = "expired"}
            rows == listed \ D
            results == {k \in named : OwnerOf[k] \notin E}
            claimed == {k \in Window : Claimable(k, rows \cup results)}
        IN  /\ Page(E, {r \in Runs : run[r] = "aged"})
            /\ Page(D, {k \in listed \cap RunKeys : OwnerOf[k] \in expired})
            /\ run' = [r \in Runs |-> IF r \in E THEN "expired" ELSE run[r]]
            /\ named' = results /\ listed' = rows
            /\ state' = [k \in Keys |-> IF k \in claimed THEN "deleting" ELSE state[k]]
            /\ claim' = [k \in Keys |-> IF k \in claimed THEN s ELSE claim[k]]
            /\ leaseLeft' = [k \in Keys |-> IF k \in claimed THEN DeletionLease ELSE leaseLeft[k]]
            /\ work' = [work EXCEPT ![s] = [k \in Keys |-> IF k \in claimed THEN "delete" ELSE "none"]]
    /\ \E c \in Keys \cup {0} : NextCursor(c) /\ cursor' = c

\* The object is deleted, or was not there.
SweepDelete(s, k) ==
    /\ work[s][k] = "delete"
    /\ bytes' = bytes \ {k}
    /\ work' = [work EXCEPT ![s][k] = "deleted"]
    /\ UNCHANGED <<ledger, cursor, references, run, uploads, deleter, faults>>

\* The deletion fails or times out; it may have taken place.
SweepDeleteFails(s, k) ==
    /\ work[s][k] = "delete"
    /\ Faulty
    /\ bytes' \in {bytes, bytes \ {k}}
    /\ work' = [work EXCEPT ![s][k] = "failed"]
    /\ UNCHANGED <<ledger, cursor, references, run, uploads, deleter>>

\* finish_artifact_deletion: fenced by the claim.
FinishDeletion(s, k) ==
    /\ work[s][k] \in {"deleted", "failed"}
    /\ IF claim[k] = s /\ state[k] = "deleting"
       THEN Settle(k, IF work[s][k] = "deleted" THEN "deleted" ELSE "deleting", Retry)
       ELSE UNCHANGED ledger
    /\ work' = [work EXCEPT ![s][k] = "none"]
    /\ UNCHANGED <<cursor, bytes, references, run, uploads, deleter, faults>>

\* A sweeper stops and starts again; its claims are left to their leases.
SweeperStops(s) ==
    /\ work[s] # NoWork
    /\ Faulty
    /\ work' = [work EXCEPT ![s] = NoWork]
    /\ UNCHANGED <<ledger, cursor, bytes, references, run, uploads, deleter>>

CountDown(n) == IF n > 0 THEN n - 1 ELSE 0

\* Time passes.  A pass of 100 deletions, four at a time with ten seconds each, ends
\* before its lease of 300 seconds; a pass that does not is one of the faults.
Tick ==
    /\ \E k \in Keys : leaseLeft[k] + retryLeft[k] + graceLeft[k] > 0
    /\ IF \E s \in Sweepers, k \in Keys : /\ work[s][k] # "none"
                                          /\ claim[k] = s /\ leaseLeft[k] = 1
       THEN Faulty ELSE UNCHANGED faults
    /\ leaseLeft' = [k \in Keys |-> CountDown(leaseLeft[k])]
    /\ retryLeft' = [k \in Keys |-> CountDown(retryLeft[k])]
    /\ graceLeft' = [k \in Keys |-> CountDown(graceLeft[k])]
    /\ left' = [u \in Uploaders |-> CountDown(left[u])]
    /\ UNCHANGED <<state, claim, cursor, bytes, references, run, at, key, got, deleter, work>>

----------------------------------------------------------------------------

UploadStep(u) ==
    \/ Put(u) \/ PutFails(u) \/ CompleteUpload(u)
    \/ ListArtifacts(u) \/ NameArtifacts(u) \/ ListSnapshot(u) \/ DropUpload(u)

SweepStep(s) ==
    \/ Sweep(s) \/ SweeperStops(s)
    \/ \E k \in Keys : SweepDelete(s, k) \/ SweepDeleteFails(s, k) \/ FinishDeletion(s, k)

Next ==
    \/ \E u \in Uploaders : (\E k \in Keys : BeginUpload(u, k)) \/ UploadStep(u)
    \/ \E k \in Keys : DeleteSnapshot(k) \/ DeleteBytes(k)
    \/ DeleteUpload \/ DropDelete
    \/ \E r \in Runs : AdvanceRun(r)
    \/ \E s \in Sweepers : SweepStep(s)
    \/ Tick

Spec == Init /\ [][Next]_vars

\* The maintenance task sweeps every minute for as long as its process lives, and time
\* passes.  Nothing is assumed of those who upload and delete.
Fairness ==
    /\ \A s \in Sweepers : WF_vars(SweepStep(s))
    /\ WF_vars(Tick)

FairSpec == Spec /\ Fairness

----------------------------------------------------------------------------

\* Every variable has its type.
ArtifactTypeOK ==
    /\ state \in [Keys -> {"absent", "pending", "available", "deleting", "deleted"}]
    /\ claim \in [Keys -> Sweepers \cup {NoSweeper}]
    /\ leaseLeft \in [Keys -> 0..DeletionLease]
    /\ retryLeft \in [Keys -> 0..Retry]
    /\ graceLeft \in [Keys -> 0..Grace]
    /\ cursor \in Keys \cup {0}
    /\ bytes \subseteq Keys /\ listed \subseteq Keys /\ named \subseteq Keys
    /\ run \in [Runs -> {"active", "retained", "decided", "aged", "expired"}]
    /\ at \in [Uploaders -> {"idle", "put", "complete", "more", "list", "name", "snapshot"}]
    /\ key \in [Uploaders -> Keys \cup {0}]
    /\ got \in [Uploaders -> SUBSET Keys]
    /\ left \in [Uploaders -> 0..UploadTTL]
    /\ deleter \in SandboxKeys \cup {0}
    /\ work \in [Sweepers -> [Keys -> {"none", "delete", "deleted", "failed"}]]
    /\ faults \in 0..MaxFaults

\* Whatever a run lists, its results name or a snapshot names keeps its ledger row, and
\* its bytes, as long as it is referred to: no sweeper, however late, deletes it, and no
\* reference is taken to an object whose deletion was claimed.  A snapshot's manifest
\* has a row and never had bytes (lib.rs:3801).
ReferencedIntact ==
    \A k \in listed \cup named :
        state[k] = "available" /\ (k \in bytes \/ k \in ManifestKeys)

\* A tombstone of a run's evidence or of a capture means that its bytes are gone for
\* good: the grace outlasts every PUT, so none lands behind a deletion, where no
\* sweep would ever look again.
TombstoneMeansGone ==
    \A k \in Keys \ SandboxKeys : state[k] = "deleted" => k \notin bytes

\* A key whose deletion was claimed or done is never live again, whatever delayed
\* PUT, completion, reference or stale sweeper comes after it (migration 0014).
NeverRevived == \A k \in Keys : Dying(k) => state'[k] \in {"deleting", "deleted"}
DeletionFinal == [][NeverRevived]_vars

Uploading(k) == \E u \in Uploaders : at[u] # "idle" /\ (key[u] = k \/ k \in got[u])

\* Evidence, a capture or a manifest that nothing may need any more: its run's evidence
\* is out of retention, or no snapshot names it.
Garbage(k) ==
    /\ k \in LiveRows /\ ~Uploading(k)
    /\ IF k \in RunKeys THEN run[OwnerOf[k]] \in {"aged", "expired"} ELSE k \notin listed

\* Garbage is deleted in the end, though a page of protected objects lies before it,
\* deletions fail and sweepers stop.
GarbageReclaimed ==
    \A k \in Keys \ SandboxKeys : Garbage(k) ~> (state[k] = "deleted" \/ ~Garbage(k))
=============================================================================
