------------------------- MODULE ArtifactGcProofs -------------------------
(***************************************************************************)
(* Theorems about ArtifactGc for any keys, runs, uploaders, sweepers,      *)
(* durations and faults, from ArtifactAssumption: above all, that no       *)
(* upload may take longer than the grace.                                  *)
(***************************************************************************)
EXTENDS ArtifactGc, TLAPS

----------------------------------------------------------------------------
(* The inductive invariant *)

\* An object that was available once.
Kept(k) == state[k] = "available" \/ Dying(k)

Writing == {"put", "complete"}

\* What an upload under way knows of its object.  While its PUT may land the row is
\* pending and within its grace, so that no sweep claims it.
UploadOK(u) ==
    /\ at[u] \in Writing => key[u] \in Keys \ ManifestKeys /\ state[key[u]] # "absent"
    /\ (at[u] = "put" /\ left[u] > 0 /\ key[u] \notin SandboxKeys) =>
          state[key[u]] = "pending" /\ left[u] <= graceLeft[key[u]]
    /\ (at[u] = "complete" /\ key[u] \notin SandboxKeys) =>
          Dying(key[u]) \/ key[u] \in bytes
    /\ at[u] = "snapshot" => key[u] \in SnapshotKeys /\ Kept(key[u])
    /\ \A k \in got[u] : k \in RunKeys /\ Kept(k)

\* A collected or captured key is written by one upload.
OneWriter ==
    \A u, v \in Uploaders :
        (u # v /\ at[u] \in Writing /\ at[v] \in Writing /\ key[u] = key[v])
        => key[u] \in SandboxKeys

ReferencesLive == \A k \in listed \cup named : k \notin SandboxKeys /\ state[k] = "available"

\* What was uploaded is there while it is available.
StoredWhileLive ==
    \A k \in Keys \ (SandboxKeys \cup ManifestKeys) : state[k] = "available" => k \in bytes

\* A sweeper works on dying objects only, and what it deleted stays away.
WorkOK(s) ==
    \A k \in Keys :
        /\ work[s][k] # "none" => Dying(k)
        /\ work[s][k] = "deleted" /\ k \notin SandboxKeys => k \notin bytes

\* References are safe because what was uploaded is in the store while it is available,
\* which rests on what every upload and every sweeper has under way.
ArtifactInv ==
    /\ ArtifactTypeOK
    /\ \A u \in Uploaders : UploadOK(u)
    /\ OneWriter
    /\ ReferencesLive
    /\ StoredWhileLive
    /\ \A s \in Sweepers : WorkOK(s)
    /\ TombstoneMeansGone

\* The four kinds of keys.
LEMMA Kinds ==
    /\ 0 \notin Keys
    /\ RunKeys \subseteq Keys /\ SnapshotKeys \subseteq Keys /\ SandboxKeys \subseteq Keys
    /\ RunKeys \cap SandboxKeys = {} /\ SnapshotKeys \cap SandboxKeys = {}
    /\ \A k \in SnapshotKeys : ManifestOf[k] \in ManifestKeys
    /\ ManifestKeys \subseteq Keys /\ ManifestKeys \cap SandboxKeys = {}
    /\ ManifestKeys \cap RunKeys = {} /\ ManifestKeys \cap SnapshotKeys = {}
BY ArtifactAssumption DEF RunKeys, SandboxKeys, ManifestKeys

\* The empty ledger satisfies the invariant.
LEMMA InvInit == Init => ArtifactInv
<1> SUFFICES ASSUME Init PROVE ArtifactInv
  OBVIOUS
<1>1. ArtifactTypeOK
  BY ArtifactAssumption DEF Init, ArtifactTypeOK, NoWork
<1>2. \A u \in Uploaders : UploadOK(u)
  BY DEF Init, UploadOK, Writing
<1>3. OneWriter
  BY DEF Init, OneWriter, Writing
<1>4. \A s \in Sweepers : WorkOK(s)
  BY DEF Init, NoWork, WorkOK
<1> QED
  BY <1>1, <1>2, <1>3, <1>4
     DEF Init, ArtifactInv, ReferencesLive, StoredWhileLive, TombstoneMeansGone

----------------------------------------------------------------------------
(* Types *)

States == {"absent", "pending", "available", "deleting", "deleted"}

\* The columns of the ledger, and the uploads, have their types.
LedgerTypeOK ==
    /\ state \in [Keys -> States]
    /\ claim \in [Keys -> Sweepers \cup {NoSweeper}]
    /\ leaseLeft \in [Keys -> 0..DeletionLease]
    /\ retryLeft \in [Keys -> 0..Retry]
    /\ graceLeft \in [Keys -> 0..Grace]

UploadsTypeOK ==
    /\ at \in [Uploaders -> {"idle", "put", "complete", "more", "list", "name", "snapshot"}]
    /\ key \in [Uploaders -> Keys \cup {0}]
    /\ got \in [Uploaders -> SUBSET Keys]
    /\ left \in [Uploaders -> 0..UploadTTL]

RestTypeOK ==
    /\ cursor \in Keys \cup {0}
    /\ bytes \subseteq Keys /\ listed \subseteq Keys /\ named \subseteq Keys
    /\ run \in [Runs -> {"active", "retained", "decided", "aged", "expired"}]
    /\ deleter \in SandboxKeys \cup {0}
    /\ work \in [Sweepers -> [Keys -> {"none", "delete", "deleted", "failed"}]]
    /\ faults \in 0..MaxFaults

\* The type invariant is what the three parts say, in a state and in the next one.
LEMMA TypeParts ==
    /\ ArtifactTypeOK <=> LedgerTypeOK /\ UploadsTypeOK /\ RestTypeOK
    /\ ArtifactTypeOK' <=> (LedgerTypeOK /\ UploadsTypeOK /\ RestTypeOK)'
BY DEF ArtifactTypeOK, LedgerTypeOK, UploadsTypeOK, RestTypeOK, States

\* Countdowns stay in their range.
LEMMA CountDownBounds ==
    ASSUME NEW n \in Nat, NEW i \in 0..n
    PROVE  CountDown(i) \in 0..n /\ CountDown(i) <= i
BY DEF CountDown

\* A settled row has the types of the ledger.
LEMMA SettleTypes ==
    ASSUME LedgerTypeOK, NEW k \in Keys, NEW to \in States, NEW retry \in 0..Retry,
           Settle(k, to, retry)
    PROVE  LedgerTypeOK'
BY ArtifactAssumption DEF LedgerTypeOK, Settle, States

\* So has a reserved one.
LEMMA ReserveTypes ==
    ASSUME LedgerTypeOK, NEW k \in Keys, Reserve(k)
    PROVE  LedgerTypeOK'
BY ArtifactAssumption DEF LedgerTypeOK, Reserve, States

\* So have the rows a statement refers to.
LEMMA ReferTypes ==
    ASSUME LedgerTypeOK, NEW S \in SUBSET Keys, Refer(S), UNCHANGED <<claim, leaseLeft, retryLeft>>
    PROVE  LedgerTypeOK'
BY ArtifactAssumption DEF LedgerTypeOK, Refer, States

\* An uploader's next step has the types of the uploads.
LEMMA BecomeTypes ==
    ASSUME UploadsTypeOK, NEW u \in Uploaders,
           NEW a \in {"idle", "put", "complete", "more", "list", "name", "snapshot"},
           NEW k \in Keys \cup {0}, NEW g \in SUBSET Keys, NEW l \in 0..UploadTTL,
           Become(u, a, k, g, l)
    PROVE  UploadsTypeOK'
BY DEF UploadsTypeOK, Become

\* So has that of one that stops,
LEMMA StopTypes ==
    ASSUME UploadsTypeOK, NEW u \in Uploaders, Stop(u) PROVE UploadsTypeOK'
BY ArtifactAssumption, BecomeTypes DEF Stop

\* that of one whose upload failed,
LEMMA FailedTypes ==
    ASSUME UploadsTypeOK, NEW u \in Uploaders, Failed(u) PROVE UploadsTypeOK'
<1>1. 0 \in 0..UploadTTL /\ key[u] \in Keys \cup {0} /\ got[u] \in SUBSET Keys
  BY ArtifactAssumption DEF UploadsTypeOK
<1> QED
  BY <1>1, BecomeTypes, StopTypes DEF Failed

\* and that of one whose upload is complete.
LEMMA UploadedTypes ==
    ASSUME UploadsTypeOK, NEW u \in Uploaders, NEW k \in Keys, Uploaded(u, k) PROVE UploadsTypeOK'
<1>1. 0 \in 0..UploadTTL /\ {} \in SUBSET Keys /\ got[u] \cup {k} \in SUBSET Keys
  BY ArtifactAssumption DEF UploadsTypeOK
<1> QED
  BY <1>1, BecomeTypes, StopTypes DEF Uploaded

\* A window shows live rows only.
LEMMA WindowLive == Window \subseteq LiveRows
BY DEF Window, Tail, Wrapped, First

\* A sweep claims some rows of the window, each of them claimable.
LEMMA SweepEffect ==
    ASSUME NEW s \in Sweepers, Sweep(s)
    PROVE  \E E \in SUBSET Runs, C \in SUBSET LiveRows :
              /\ run' = [r \in Runs |-> IF r \in E THEN "expired" ELSE run[r]]
              /\ named' \subseteq named /\ listed' \subseteq listed
              /\ \A k \in C : Claimable(k, listed' \cup named')
              /\ state' = [k \in Keys |-> IF k \in C THEN "deleting" ELSE state[k]]
              /\ claim' = [k \in Keys |-> IF k \in C THEN s ELSE claim[k]]
              /\ leaseLeft' = [k \in Keys |-> IF k \in C THEN DeletionLease ELSE leaseLeft[k]]
              /\ work' = [work EXCEPT ![s] = [k \in Keys |-> IF k \in C THEN "delete" ELSE "none"]]
              /\ cursor' \in Keys \cup {0}
              /\ UNCHANGED <<retryLeft, graceLeft, bytes, uploads, deleter, faults>>
<1>1. PICK E \in SUBSET {r \in Runs : run[r] = "aged"}, D \in SUBSET (listed \cap RunKeys) :
        LET rows == listed \ D
            results == {k \in named : OwnerOf[k] \notin E}
            claimed == {k \in Window : Claimable(k, rows \cup results)}
        IN  /\ run' = [r \in Runs |-> IF r \in E THEN "expired" ELSE run[r]]
            /\ named' = results /\ listed' = rows
            /\ state' = [k \in Keys |-> IF k \in claimed THEN "deleting" ELSE state[k]]
            /\ claim' = [k \in Keys |-> IF k \in claimed THEN s ELSE claim[k]]
            /\ leaseLeft' = [k \in Keys |-> IF k \in claimed THEN DeletionLease ELSE leaseLeft[k]]
            /\ work' = [work EXCEPT ![s] = [k \in Keys |-> IF k \in claimed THEN "delete" ELSE "none"]]
  BY DEF Sweep
<1> DEFINE C == {k \in Window : Claimable(k, listed' \cup named')}
<1>2. C \in SUBSET LiveRows /\ \A k \in C : Claimable(k, listed' \cup named')
  BY WindowLive
<1>3. C = {k \in Window : Claimable(k, (listed \ D) \cup {j \in named : OwnerOf[j] \notin E})}
  BY <1>1
<1>4. cursor' \in Keys \cup {0} /\ UNCHANGED <<retryLeft, graceLeft, bytes, uploads, deleter, faults>>
  BY DEF Sweep
<1>5. named' \subseteq named /\ listed' \subseteq listed /\ E \in SUBSET Runs
  BY <1>1
<1> HIDE DEF C
<1> QED
  BY <1>1, <1>2, <1>3, <1>4, <1>5

\* Every step keeps the types.
LEMMA TypesStep == ArtifactInv /\ [Next]_vars => ArtifactTypeOK'
<1> SUFFICES ASSUME ArtifactInv, [Next]_vars PROVE LedgerTypeOK' /\ UploadsTypeOK' /\ RestTypeOK'
  BY TypeParts
<1> USE ArtifactAssumption, Kinds
<1>0. LedgerTypeOK /\ UploadsTypeOK /\ RestTypeOK
  BY TypeParts DEF ArtifactInv
<1> DEFINE TypesKept == LedgerTypeOK' /\ UploadsTypeOK' /\ RestTypeOK'
<1>1. ASSUME NEW u \in Uploaders, NEW k \in Keys, BeginUpload(u, k) PROVE TypesKept
  <2>1. UploadsTypeOK'
    <3>1. UploadTTL \in 0..UploadTTL /\ got[u] \in SUBSET Keys
      BY <1>0 DEF UploadsTypeOK
    <3> QED
      BY <1>0, <1>1, <3>1, BecomeTypes DEF BeginUpload
  <2>2. LedgerTypeOK'
    BY <1>0, <1>1, ReserveTypes DEF BeginUpload
  <2> QED
    BY <1>0, <1>1, <2>1, <2>2 DEF BeginUpload, RestTypeOK, references
<1>2. ASSUME NEW u \in Uploaders, UploadStep(u) PROVE TypesKept
  <2>0. /\ 0 \in 0..UploadTTL /\ 0 \in 0..Retry
        /\ key[u] \in Keys \cup {0} /\ got[u] \in SUBSET Keys
        /\ at[u] \in Writing \cup {"snapshot"} => key[u] \in Keys
    BY <1>0 DEF UploadsTypeOK, ArtifactInv, UploadOK
  <2>1. CASE Put(u)
    <3>1. UploadsTypeOK'
      BY <1>0, <2>0, <2>1, BecomeTypes DEF Put
    <3> QED
      BY <1>0, <2>0, <2>1, <3>1 DEF Put, LedgerTypeOK, RestTypeOK, ledger, references, Writing
  <2>2. CASE PutFails(u)
    <3>1. UploadsTypeOK'
      BY <1>0, <2>2, FailedTypes DEF PutFails
    <3> QED
      BY <1>0, <2>0, <2>2, <3>1 DEF PutFails, LedgerTypeOK, RestTypeOK, ledger, references, Writing
  <2>3. CASE CompleteUpload(u)
    <3>1. key[u] \in Keys
      BY <2>0, <2>3 DEF CompleteUpload, Writing
    <3>2. UploadsTypeOK'
      BY <1>0, <2>3, <3>1, FailedTypes, UploadedTypes DEF CompleteUpload
    <3>3. LedgerTypeOK'
      BY <1>0, <2>0, <2>3, <3>1, SettleTypes DEF CompleteUpload, States
    <3> QED
      BY <1>0, <2>3, <3>2, <3>3 DEF CompleteUpload, RestTypeOK, references
  <2>4. CASE ListArtifacts(u)
    <3>1. UploadsTypeOK'
      BY <1>0, <2>0, <2>4, BecomeTypes DEF ListArtifacts
    <3>2. LedgerTypeOK'
      <4>1. CASE Refer(got[u])
        BY <1>0, <2>0, <2>4, <4>1, ReferTypes DEF ListArtifacts
      <4>2. CASE UNCHANGED <<state, graceLeft>>
        BY <1>0, <2>4, <4>2 DEF ListArtifacts, LedgerTypeOK
      <4> QED
        BY <2>4, <4>1, <4>2 DEF ListArtifacts
    <3> QED
      BY <1>0, <2>0, <2>4, <3>1, <3>2 DEF ListArtifacts, RestTypeOK
  <2>5. CASE NameArtifacts(u)
    <3>1. UploadsTypeOK' /\ LedgerTypeOK'
      BY <1>0, <2>0, <2>5, StopTypes, ReferTypes DEF NameArtifacts
    <3> QED
      BY <1>0, <2>0, <2>5, <3>1 DEF NameArtifacts, RestTypeOK
  <2>6. CASE ListSnapshot(u)
    <3>0. key[u] \in SnapshotKeys
      BY <2>6 DEF ListSnapshot, ArtifactInv, UploadOK
    <3>1. Objects(key[u]) \in SUBSET Keys
      BY <3>0, Kinds DEF Objects
    <3>2. UploadsTypeOK' /\ LedgerTypeOK'
      BY <1>0, <2>6, <3>1, StopTypes, ReferTypes DEF ListSnapshot
    <3> QED
      BY <1>0, <2>6, <3>1, <3>2 DEF ListSnapshot, RestTypeOK
  <2>7. CASE DropUpload(u)
    <3>1. UploadsTypeOK'
      BY <1>0, <2>7, StopTypes DEF DropUpload
    <3> QED
      BY <1>0, <2>7, <3>1 DEF DropUpload, LedgerTypeOK, RestTypeOK, ledger, references
  <2> QED
    BY <1>2, <2>1, <2>2, <2>3, <2>4, <2>5, <2>6, <2>7 DEF UploadStep
<1>3. ASSUME NEW k \in Keys, DeleteSnapshot(k) \/ DeleteBytes(k) PROVE TypesKept
  <2>1. CASE DeleteSnapshot(k)
    BY <1>0, <2>1 DEF DeleteSnapshot, LedgerTypeOK, UploadsTypeOK, RestTypeOK, ledger, uploads
  <2>2. CASE DeleteBytes(k)
    BY <1>0, <2>2 DEF DeleteBytes, LedgerTypeOK, UploadsTypeOK, RestTypeOK, ledger, references, uploads
  <2> QED
    BY <1>3, <2>1, <2>2
<1>4. CASE DeleteUpload
  <2>1. deleter \in Keys
    BY <1>0, <1>4 DEF DeleteUpload, RestTypeOK
  <2>2. LedgerTypeOK'
    <3>1. CASE Settle(deleter, "deleted", 0)
      BY <1>0, <2>1, <3>1, SettleTypes DEF States
    <3>2. CASE UNCHANGED ledger
      BY <1>0, <3>2 DEF LedgerTypeOK, ledger
    <3> QED
      BY <1>4, <3>1, <3>2 DEF DeleteUpload
  <2> QED
    BY <1>0, <1>4, <2>2 DEF DeleteUpload, UploadsTypeOK, RestTypeOK, references, uploads
<1>5. CASE DropDelete
  BY <1>0, <1>5 DEF DropDelete, LedgerTypeOK, UploadsTypeOK, RestTypeOK, ledger, references, uploads
<1>6. ASSUME NEW r \in Runs, AdvanceRun(r) PROVE TypesKept
  <2>1. run' \in [Runs -> {"active", "retained", "decided", "aged", "expired"}]
    BY <1>0, <1>6 DEF AdvanceRun, RestTypeOK
  <2> QED
    BY <1>0, <1>6, <2>1
       DEF AdvanceRun, LedgerTypeOK, UploadsTypeOK, RestTypeOK, ledger, references, uploads
<1>7. ASSUME NEW s \in Sweepers, SweepStep(s) PROVE TypesKept
  <2>1. CASE Sweep(s)
    <3>1. PICK E \in SUBSET Runs, C \in SUBSET LiveRows :
            /\ run' = [r \in Runs |-> IF r \in E THEN "expired" ELSE run[r]]
            /\ named' \subseteq named /\ listed' \subseteq listed
            /\ state' = [k \in Keys |-> IF k \in C THEN "deleting" ELSE state[k]]
            /\ claim' = [k \in Keys |-> IF k \in C THEN s ELSE claim[k]]
            /\ leaseLeft' = [k \in Keys |-> IF k \in C THEN DeletionLease ELSE leaseLeft[k]]
            /\ work' = [work EXCEPT ![s] = [k \in Keys |-> IF k \in C THEN "delete" ELSE "none"]]
            /\ cursor' \in Keys \cup {0}
            /\ UNCHANGED <<retryLeft, graceLeft, bytes, uploads, deleter, faults>>
      BY <2>1, SweepEffect, ZenonT(60)
    <3>2. LedgerTypeOK'
      BY <1>0, <3>1 DEF LedgerTypeOK, States
    <3>3. work' \in [Sweepers -> [Keys -> {"none", "delete", "deleted", "failed"}]]
      BY <1>0, <3>1 DEF RestTypeOK
    <3>4. UploadsTypeOK' /\ RestTypeOK'
      BY <1>0, <3>1, <3>3 DEF UploadsTypeOK, RestTypeOK, uploads
    <3> QED
      BY <3>2, <3>4
  <2>2. CASE SweeperStops(s)
    BY <1>0, <2>2 DEF SweeperStops, Faulty, NoWork, LedgerTypeOK, UploadsTypeOK, RestTypeOK,
                      ledger, references, uploads
  <2>3. ASSUME NEW k \in Keys, SweepDelete(s, k) \/ SweepDeleteFails(s, k) PROVE TypesKept
    <3>1. work' \in [Sweepers -> [Keys -> {"none", "delete", "deleted", "failed"}]]
      BY <1>0, <2>3 DEF SweepDelete, SweepDeleteFails, RestTypeOK
    <3>2. bytes' \subseteq Keys
      BY <1>0, <2>3 DEF SweepDelete, SweepDeleteFails, RestTypeOK
    <3>3. faults' \in 0..MaxFaults
      BY <1>0, <2>3 DEF SweepDelete, SweepDeleteFails, Faulty, RestTypeOK
    <3>4. UNCHANGED <<ledger, cursor, references, run, uploads, deleter>>
      BY <2>3 DEF SweepDelete, SweepDeleteFails
    <3> QED
      BY <1>0, <3>1, <3>2, <3>3, <3>4
         DEF LedgerTypeOK, UploadsTypeOK, RestTypeOK, ledger, references, uploads
  <2>4. ASSUME NEW k \in Keys, FinishDeletion(s, k) PROVE TypesKept
    <3>1. work' \in [Sweepers -> [Keys -> {"none", "delete", "deleted", "failed"}]]
      BY <1>0, <2>4 DEF FinishDeletion, RestTypeOK
    <3>2. LedgerTypeOK'
      <4>1. Retry \in 0..Retry
        OBVIOUS
      <4>2. CASE UNCHANGED ledger
        BY <1>0, <4>2 DEF LedgerTypeOK, ledger
      <4> QED
        BY <1>0, <2>4, <4>1, <4>2, SettleTypes DEF FinishDeletion, States
    <3> QED
      BY <1>0, <2>4, <3>1, <3>2 DEF FinishDeletion, UploadsTypeOK, RestTypeOK, references, uploads
  <2> QED
    BY <1>7, <2>1, <2>2, <2>3, <2>4 DEF SweepStep
<1>8. CASE Tick
  <2>1. UploadsTypeOK'
    BY <1>0, <1>8, CountDownBounds DEF Tick, UploadsTypeOK
  <2>2. LedgerTypeOK'
    BY <1>0, <1>8, CountDownBounds DEF Tick, LedgerTypeOK
  <2>3. faults' \in 0..MaxFaults
    BY <1>0, <1>8 DEF Tick, Faulty, RestTypeOK
  <2> QED
    BY <1>0, <1>8, <2>1, <2>2, <2>3 DEF Tick, RestTypeOK, references
<1>9. CASE UNCHANGED vars
  BY <1>0, <1>9 DEF vars, LedgerTypeOK, UploadsTypeOK, RestTypeOK
<1> QED
  BY <1>1, <1>2, <1>3, <1>4, <1>5, <1>6, <1>7, <1>8, <1>9 DEF Next

----------------------------------------------------------------------------
(* What a step may do to the rows *)

\* A step changes the row of k in no way but to make that of a manifest.
Recorded(k) ==
    \/ state'[k] = state[k]
    \/ k \in ManifestKeys /\ ~Dying(k) /\ state'[k] = "available"

\* A statement refers to manifests and to objects that were available once, so it changes
\* the state of manifests only, and shortens no grace.
LEMMA ReferKeeps ==
    ASSUME ArtifactTypeOK, NEW S \in SUBSET Keys, \A k \in S : Kept(k) \/ k \in ManifestKeys,
           Refer(S)
    PROVE  /\ \A k \in Keys : Recorded(k) /\ graceLeft[k] <= graceLeft'[k]
           /\ \A k \in S : state'[k] = "available"
<1>1. \A k \in S : ~Dying(k) /\ (state[k] = "available" \/ k \in ManifestKeys)
  BY DEF Refer, Kept
<1>2. \A k \in Keys : state'[k] = IF k \in S THEN "available" ELSE state[k]
  BY DEF Refer
<1>3. \A k \in Keys : graceLeft[k] <= graceLeft'[k]
  BY ArtifactAssumption DEF Refer, ArtifactTypeOK
<1> QED
  BY <1>1, <1>2, <1>3 DEF Recorded

\* Every statement of an uploader refers to objects of its own.
LEMMA Referring ==
    ASSUME ArtifactInv, NEW u \in Uploaders,
           ListArtifacts(u) \/ NameArtifacts(u) \/ ListSnapshot(u)
    PROVE  /\ \A k \in Keys : Recorded(k) /\ graceLeft[k] <= graceLeft'[k]
           /\ \A k \in listed' \cup named' :
                 k \in listed \cup named \/ (k \notin SandboxKeys /\ state'[k] = "available")
<1> USE Kinds
<1>0. got[u] \in SUBSET Keys /\ UploadOK(u) /\ ArtifactTypeOK
  BY DEF ArtifactInv, ArtifactTypeOK
<1>1. \A k \in got[u] : k \notin SandboxKeys /\ Kept(k)
  BY <1>0 DEF UploadOK
<1>2. CASE ListArtifacts(u)
  <2>1. CASE Refer(got[u]) /\ listed' = (listed \ KeysOf(OwnerOf[key[u]])) \cup got[u]
    BY <1>0, <1>1, <1>2, <2>1, ReferKeeps DEF ListArtifacts
  <2>2. CASE UNCHANGED <<state, graceLeft, listed>>
    BY <1>0, <1>2, <2>2, ArtifactAssumption DEF ListArtifacts, ArtifactTypeOK, Recorded
  <2> QED
    BY <1>2, <2>1, <2>2 DEF ListArtifacts
<1>3. CASE NameArtifacts(u)
  BY <1>0, <1>1, <1>3, ReferKeeps DEF NameArtifacts
<1>4. CASE ListSnapshot(u)
  <2>1. key[u] \in SnapshotKeys /\ Kept(key[u])
    BY <1>0, <1>4 DEF UploadOK, ListSnapshot
  <2>2. /\ Objects(key[u]) \in SUBSET Keys
        /\ \A k \in Objects(key[u]) : k \notin SandboxKeys /\ (Kept(k) \/ k \in ManifestKeys)
    BY <2>1 DEF Objects
  <2>3. Refer(Objects(key[u])) /\ listed' = listed \cup Objects(key[u]) /\ named' = named
    BY <1>4 DEF ListSnapshot
  <2> QED
    BY <1>0, <2>2, <2>3, ReferKeeps
<1> QED
  BY <1>2, <1>3, <1>4

\* A row never goes away, an object that was available never becomes pending, and
\* what is dying stays so.
OnlyForward(k) ==
    /\ state[k] # "absent" => state'[k] # "absent"
    /\ state[k] = "available" => state'[k] \in {"available", "deleting", "deleted"}
    /\ Dying(k) => state'[k] \in {"deleting", "deleted"}

\* Every step moves every row only forward.
LEMMA StateStep ==
    ASSUME ArtifactInv, [Next]_vars, NEW k \in Keys
    PROVE  OnlyForward(k)
<1> USE Kinds
<1>0. state \in [Keys -> States] /\ ArtifactTypeOK /\ deleter \in SandboxKeys \cup {0}
  BY DEF ArtifactInv, ArtifactTypeOK, States
<1>1. ASSUME NEW u \in Uploaders, NEW j \in Keys, BeginUpload(u, j) PROVE OnlyForward(k)
  BY <1>0, <1>1 DEF BeginUpload, Reserve, OnlyForward, Dying, States
<1>2. ASSUME NEW u \in Uploaders, UploadStep(u) PROVE OnlyForward(k)
  <2>1. CASE CompleteUpload(u)
    <3>1. key[u] \in Keys
      BY <2>1 DEF ArtifactInv, UploadOK, CompleteUpload, Writing
    <3> QED
      BY <1>0, <2>1, <3>1 DEF CompleteUpload, Settle, OnlyForward, Dying, States
  <2>2. CASE ListArtifacts(u) \/ NameArtifacts(u) \/ ListSnapshot(u)
    BY <2>2, Referring DEF OnlyForward, Dying, Recorded
  <2>3. CASE Put(u) \/ PutFails(u) \/ DropUpload(u)
    BY <2>3 DEF Put, PutFails, DropUpload, ledger, OnlyForward, Dying
  <2> QED
    BY <1>2, <2>1, <2>2, <2>3 DEF UploadStep
<1>3. ASSUME NEW j \in Keys, DeleteSnapshot(j) \/ DeleteBytes(j) PROVE OnlyForward(k)
  BY <1>3 DEF DeleteSnapshot, DeleteBytes, ledger, OnlyForward, Dying
<1>4. CASE DeleteUpload
  BY <1>0, <1>4 DEF DeleteUpload, Settle, ledger, OnlyForward, Dying
<1>5. CASE DropDelete \/ (\E r \in Runs : AdvanceRun(r)) \/ Tick \/ UNCHANGED vars
  BY <1>5 DEF DropDelete, AdvanceRun, Tick, vars, ledger, OnlyForward, Dying
<1>6. ASSUME NEW s \in Sweepers, SweepStep(s) PROVE OnlyForward(k)
  <2>1. CASE Sweep(s)
    <3>1. PICK C \in SUBSET LiveRows :
            state' = [j \in Keys |-> IF j \in C THEN "deleting" ELSE state[j]]
      BY <2>1, SweepEffect
    <3> QED
      BY <1>0, <3>1 DEF OnlyForward, Dying, LiveRows
  <2>2. CASE SweeperStops(s)
    BY <2>2 DEF SweeperStops, ledger, OnlyForward, Dying
  <2>3. ASSUME NEW j \in Keys, SweepDelete(s, j) \/ SweepDeleteFails(s, j) PROVE OnlyForward(k)
    BY <2>3 DEF SweepDelete, SweepDeleteFails, ledger, OnlyForward, Dying
  <2>4. ASSUME NEW j \in Keys, FinishDeletion(s, j) PROVE OnlyForward(k)
    BY <1>0, <2>4 DEF FinishDeletion, Settle, ledger, OnlyForward, Dying
  <2> QED
    BY <1>6, <2>1, <2>2, <2>3, <2>4 DEF SweepStep
<1> QED
  BY <1>1, <1>2, <1>3, <1>4, <1>5, <1>6 DEF Next

----------------------------------------------------------------------------
(* What a step may do to the uploads *)

\* An uploader that takes no step keeps what it knows, when no step but a tick touches
\* the row its PUT may still land in, and only dying objects lose their bytes.
LEMMA UploadKept ==
    ASSUME ArtifactTypeOK, NEW v \in Uploaders, UploadOK(v),
           UNCHANGED <<at[v], key[v], got[v]>>, left'[v] <= left[v],
           \A k \in Keys : OnlyForward(k),
           (at[v] = "put" /\ left'[v] > 0 /\ key[v] \in Keys \ SandboxKeys) =>
              /\ state'[key[v]] = state[key[v]]
              /\ left[v] <= graceLeft[key[v]] => left'[v] <= graceLeft'[key[v]],
           \A k \in Keys \ SandboxKeys : k \in bytes => k \in bytes' \/ Dying(k),
           left'[v] \in Nat
    PROVE  UploadOK(v)'
<1> USE Kinds
<1>0. left[v] \in Nat /\ got[v] \subseteq Keys
  BY ArtifactAssumption DEF ArtifactTypeOK
<1>1. (at[v] \in Writing => key[v] \in Keys \ ManifestKeys /\ state[key[v]] # "absent")'
  BY DEF UploadOK, OnlyForward
<1>2. ((at[v] = "put" /\ left[v] > 0 /\ key[v] \notin SandboxKeys) =>
          state[key[v]] = "pending" /\ left[v] <= graceLeft[key[v]])'
  BY <1>0 DEF UploadOK, Writing
<1>3. ((at[v] = "complete" /\ key[v] \notin SandboxKeys) =>
          Dying(key[v]) \/ key[v] \in bytes)'
  BY DEF UploadOK, OnlyForward, Writing, Dying
<1>4. (at[v] = "snapshot" => key[v] \in SnapshotKeys /\ Kept(key[v]))'
  BY DEF UploadOK, OnlyForward, Kept, Dying
<1>5. (\A k \in got[v] : k \in RunKeys /\ Kept(k))'
  BY <1>0 DEF UploadOK, OnlyForward, Kept, Dying
<1> QED
  BY <1>1, <1>2, <1>3, <1>4, <1>5 DEF UploadOK

\* An uploader that leaves its PUT behind, with nothing but collected objects.
LEMMA UploadAfter ==
    ASSUME ArtifactTypeOK, NEW v \in Uploaders,
           at'[v] \notin Writing, at'[v] = "snapshot" => key'[v] \in SnapshotKeys /\ Kept(key[v])',
           got'[v] \subseteq RunKeys, \A k \in got'[v] : Kept(k)'
    PROVE  UploadOK(v)'
BY DEF UploadOK, Writing

\* What the object store loses in a step, of runs and captures, was dying.
LEMMA BytesStep ==
    ASSUME ArtifactInv, [Next]_vars, NEW k \in Keys \ SandboxKeys, k \in bytes
    PROVE  k \in bytes' \/ Dying(k)
<1>1. ASSUME NEW u \in Uploaders, NEW j \in Keys, BeginUpload(u, j) PROVE k \in bytes'
  BY <1>1 DEF BeginUpload
<1>2. ASSUME NEW u \in Uploaders, UploadStep(u) PROVE k \in bytes'
  BY <1>2 DEF UploadStep, Put, PutFails, CompleteUpload, ListArtifacts, NameArtifacts,
              ListSnapshot, DropUpload
<1>3. ASSUME NEW j \in Keys, DeleteSnapshot(j) \/ DeleteBytes(j) PROVE k \in bytes'
  BY <1>3 DEF DeleteSnapshot, DeleteBytes
<1>4. CASE DeleteUpload \/ DropDelete \/ (\E r \in Runs : AdvanceRun(r)) \/ Tick \/ UNCHANGED vars
  BY <1>4 DEF DeleteUpload, DropDelete, AdvanceRun, Tick, vars
<1>5. ASSUME NEW s \in Sweepers, SweepStep(s) PROVE k \in bytes' \/ Dying(k)
  BY <1>5 DEF SweepStep, Sweep, SweeperStops, SweepDelete, SweepDeleteFails, FinishDeletion,
              ArtifactInv, WorkOK
<1> QED
  BY <1>1, <1>2, <1>3, <1>4, <1>5 DEF Next

\* Every step keeps what every upload knows.
LEMMA UploadsStep ==
    ASSUME ArtifactInv, [Next]_vars, NEW v \in Uploaders
    PROVE  UploadOK(v)'
<1> USE Kinds
<1>0. /\ ArtifactTypeOK /\ UploadOK(v) /\ left[v] \in Nat
      /\ \A k \in Keys : OnlyForward(k)
      /\ \A k \in Keys \ SandboxKeys : k \in bytes => k \in bytes' \/ Dying(k)
  BY StateStep, BytesStep, ArtifactAssumption DEF ArtifactInv, ArtifactTypeOK
<1>a. state \in [Keys -> States] /\ graceLeft \in [Keys -> Nat]
  BY <1>0, ArtifactAssumption DEF ArtifactTypeOK, States
<1>b. graceLeft' \in [Keys -> Nat]
  BY TypesStep, ArtifactAssumption DEF ArtifactTypeOK
<1>c. \A k \in got[v] : k \in Keys /\ k \in RunKeys /\ Kept(k)'
  BY <1>0 DEF UploadOK, OnlyForward, Kept, Dying
\* The row of a PUT of v that may land stays as it is.
<1> DEFINE RowKept == (at[v] = "put" /\ left'[v] > 0 /\ key[v] \in Keys \ SandboxKeys) =>
                         /\ state'[key[v]] = state[key[v]]
                         /\ left[v] <= graceLeft[key[v]] => left'[v] <= graceLeft'[key[v]]
<1>1. ASSUME NEW u \in Uploaders, NEW k \in Keys, BeginUpload(u, k) PROVE UploadOK(v)'
  <2>1. CASE v = u
    <3>1. /\ at'[v] = "put" /\ key'[v] = k /\ got'[v] = got[v] /\ left'[v] = UploadTTL
      BY <1>0, <1>1, <2>1 DEF BeginUpload, Become, ArtifactTypeOK
    <3>2. state'[k] # "absent" /\ graceLeft'[k] = Grace
      BY <1>a, <1>1 DEF BeginUpload, Reserve
    <3>3. k \notin SandboxKeys => state'[k] = "pending"
      BY <1>a, <1>1 DEF BeginUpload, Reserve
    <3> QED
      BY <1>1, <1>c, <3>1, <3>2, <3>3, ArtifactAssumption DEF UploadOK, Writing, BeginUpload, Reserve
  <2>2. CASE v # u
    <3>1. UNCHANGED <<at[v], key[v], got[v], left[v]>>
      BY <1>0, <1>1, <2>2 DEF BeginUpload, Become, ArtifactTypeOK
    <3>2. at[v] = "put" /\ key[v] \notin SandboxKeys => key[v] # k
      BY <1>0, <1>1 DEF BeginUpload, Reserve, UploadOK, Writing
    <3>3. RowKept
      BY <1>a, <1>1, <3>1, <3>2 DEF BeginUpload, Reserve
    <3> QED
      BY <1>0, <3>1, <3>3, UploadKept
  <2> QED
    BY <2>1, <2>2
<1>2. ASSUME NEW u \in Uploaders, UploadStep(u) PROVE UploadOK(v)'
  <2>1. CASE v # u
    <3>1. UNCHANGED <<at[v], key[v], got[v], left[v]>>
      BY <1>0, <1>2, <2>1
         DEF UploadStep, Put, PutFails, CompleteUpload, ListArtifacts, NameArtifacts, ListSnapshot,
             DropUpload, Failed, Uploaded, Stop, Become, ArtifactTypeOK
    <3>2. CASE CompleteUpload(u)
      <4>1. key[u] \in Keys
        BY <3>2 DEF ArtifactInv, UploadOK, CompleteUpload, Writing
      <4>2. at[v] = "put" /\ key[v] \notin SandboxKeys => key[v] # key[u]
        BY <2>1, <3>2 DEF ArtifactInv, OneWriter, CompleteUpload, Writing
      <4> QED
        BY <1>a, <3>1, <3>2, <4>1, <4>2, <1>0, UploadKept DEF CompleteUpload, Settle
    <3>3. CASE ListArtifacts(u) \/ NameArtifacts(u) \/ ListSnapshot(u)
      <4>1. RowKept
        BY <1>a, <1>b, <1>0, <3>1, <3>3, Referring DEF UploadOK, Writing, Recorded
      <4> QED
        BY <1>0, <3>1, <4>1, UploadKept
    <3>4. CASE Put(u) \/ PutFails(u) \/ DropUpload(u)
      <4>1. UNCHANGED <<state, graceLeft>>
        BY <3>4 DEF Put, PutFails, DropUpload, ledger
      <4> QED
        BY <1>0, <3>1, <4>1, UploadKept
    <3> QED
      BY <1>2, <3>2, <3>3, <3>4 DEF UploadStep
  <2>2. CASE v = u
    <3>1. CASE Put(u)
      <4>1. /\ at'[v] = "complete" /\ key'[v] = key[v] /\ got'[v] = got[v] /\ left'[v] = 0
            /\ at[v] = "put" /\ key[v] \in bytes'
        BY <1>0, <2>2, <3>1 DEF Put, Become, ArtifactTypeOK
      <4>2. key[v] \in Keys \ ManifestKeys /\ state'[key[v]] # "absent"
        BY <1>0, <4>1 DEF UploadOK, OnlyForward, Writing
      <4> QED
        BY <1>c, <4>1, <4>2 DEF UploadOK, Writing
    <3>2. CASE Failed(u) \/ Stop(u)
      <4>1. at'[v] \in {"idle", "list"} /\ got'[v] \subseteq got[v]
        BY <1>0, <2>2, <3>2 DEF Failed, Stop, Become, ArtifactTypeOK
      <4> QED
        BY <1>0, <1>c, <4>1, UploadAfter DEF Writing
    <3>3. CASE Uploaded(u, key[u]) /\ CompleteUpload(u)
      <4>1. key[u] \in Keys
        BY <3>3 DEF ArtifactInv, UploadOK, CompleteUpload, Writing
      <4>2. state'[key[u]] \in {"available", "deleting"}
        BY <1>a, <3>3, <4>1 DEF CompleteUpload, Settle
      <4>3. \/ at'[v] = "idle" /\ got'[v] = {}
            \/ at'[v] = "more" /\ key[u] \in RunKeys /\ got'[v] = got[v] \cup {key[u]}
            \/ at'[v] = "snapshot" /\ key'[v] = key[u] /\ key[u] \in SnapshotKeys /\ got'[v] = {}
        BY <1>0, <2>2, <3>3 DEF Uploaded, Stop, Become, ArtifactTypeOK
      <4>4. at'[v] = "snapshot" => key'[v] \in SnapshotKeys /\ Kept(key[v])'
        BY <4>2, <4>3 DEF Kept, Dying
      <4>5. got'[v] \subseteq RunKeys /\ \A k \in got'[v] : Kept(k)'
        BY <1>c, <4>2, <4>3 DEF Kept, Dying
      <4> QED
        BY <1>0, <4>3, <4>4, <4>5, UploadAfter DEF Writing
    <3>4. CASE ListArtifacts(u)
      <4>1. at'[v] = "name" /\ got'[v] = got[v]
        BY <1>0, <2>2, <3>4 DEF ListArtifacts, Become, ArtifactTypeOK
      <4> QED
        BY <1>0, <1>c, <4>1, UploadAfter DEF Writing
    <3> QED
      BY <1>2, <3>1, <3>2, <3>3, <3>4
         DEF UploadStep, PutFails, CompleteUpload, NameArtifacts, ListSnapshot, DropUpload
  <2> QED
    BY <2>1, <2>2
<1>3. ASSUME UNCHANGED <<state, graceLeft, uploads>> PROVE UploadOK(v)'
  BY <1>0, <1>3, UploadKept DEF uploads
<1>4. CASE DeleteUpload
  <2>1. deleter \in SandboxKeys
    BY <1>0, <1>4 DEF DeleteUpload, ArtifactTypeOK
  <2>2. RowKept
    BY <1>a, <1>4, <2>1 DEF DeleteUpload, Settle, ledger, uploads
  <2> QED
    BY <1>0, <1>4, <2>2, UploadKept DEF DeleteUpload, uploads
<1>5. ASSUME NEW s \in Sweepers, SweepStep(s) PROVE UploadOK(v)'
  <2>1. CASE Sweep(s)
    <3>1. PICK C \in SUBSET LiveRows :
            /\ \A k \in C : Claimable(k, listed' \cup named')
            /\ state' = [k \in Keys |-> IF k \in C THEN "deleting" ELSE state[k]]
            /\ UNCHANGED <<graceLeft, uploads>>
      BY <2>1, SweepEffect
    <3>2. (at[v] = "put" /\ left[v] > 0 /\ key[v] \in Keys \ SandboxKeys) => key[v] \notin C
      BY <1>0, <1>a, <3>1 DEF UploadOK, Claimable
    <3>3. RowKept
      BY <1>a, <3>1, <3>2 DEF uploads
    <3> QED
      BY <1>0, <3>1, <3>3, UploadKept DEF uploads
  <2>2. ASSUME NEW k \in Keys, FinishDeletion(s, k) PROVE UploadOK(v)'
    <3>1. CASE UNCHANGED ledger
      BY <1>3, <2>2, <3>1 DEF FinishDeletion, ledger
    <3>2. CASE state[k] = "deleting"
      <4>1. (at[v] = "put" /\ left[v] > 0 /\ key[v] \in Keys \ SandboxKeys) => key[v] # k
        BY <1>0, <3>2 DEF UploadOK
      <4>2. RowKept
        BY <1>a, <2>2, <4>1 DEF FinishDeletion, Settle, ledger, uploads
      <4> QED
        BY <1>0, <2>2, <4>2, UploadKept DEF FinishDeletion, uploads
    <3> QED
      BY <2>2, <3>1, <3>2 DEF FinishDeletion
  <2> QED
    BY <1>3, <1>5, <2>1, <2>2 DEF SweepStep, SweeperStops, SweepDelete, SweepDeleteFails, ledger
<1>6. CASE Tick
  <2>1. left'[v] \in Nat /\ left'[v] <= left[v] /\ UNCHANGED <<at[v], key[v], got[v], state>>
    BY <1>0, <1>6 DEF Tick, CountDown
  <2>2. ASSUME NEW k \in Keys, left'[v] > 0, left[v] <= graceLeft[k] PROVE left'[v] <= graceLeft'[k]
    BY <1>0, <1>a, <1>6, <2>2 DEF Tick, CountDown
  <2> QED
    BY <1>0, <2>1, <2>2, UploadKept
<1> QED
  BY <1>1, <1>2, <1>3, <1>4, <1>5, <1>6
     DEF Next, DeleteSnapshot, DeleteBytes, DropDelete, AdvanceRun, vars, ledger, uploads

\* A key of a run or a capture never gets a second writer.
LEMMA WritersStep ==
    ASSUME ArtifactInv, [Next]_vars
    PROVE  OneWriter'
<1> USE Kinds
<1>0. ArtifactTypeOK /\ OneWriter /\ \A u \in Uploaders : UploadOK(u)
  BY DEF ArtifactInv
<1>1. ASSUME NEW u \in Uploaders, NEW k \in Keys, BeginUpload(u, k) PROVE OneWriter'
  <2>1. /\ at'[u] = "put" /\ key'[u] = k
        /\ \A v \in Uploaders \ {u} : at'[v] = at[v] /\ key'[v] = key[v]
    BY <1>0, <1>1 DEF BeginUpload, Become, ArtifactTypeOK
  <2>2. \A v \in Uploaders : at[v] \in Writing /\ key[v] = k => k \in SandboxKeys
    BY <1>0, <1>1 DEF BeginUpload, Reserve, UploadOK
  <2> QED
    BY <1>0, <2>1, <2>2 DEF OneWriter
<1>2. ASSUME NEW u \in Uploaders, UploadStep(u) PROVE OneWriter'
  <2>1. \A v \in Uploaders \ {u} : at'[v] = at[v] /\ key'[v] = key[v]
    BY <1>0, <1>2
       DEF UploadStep, Put, PutFails, CompleteUpload, ListArtifacts, NameArtifacts, ListSnapshot,
           DropUpload, Failed, Uploaded, Stop, Become, ArtifactTypeOK
  <2>2. at'[u] \in Writing => at[u] \in Writing /\ key'[u] = key[u]
    BY <1>0, <1>2
       DEF UploadStep, Put, PutFails, CompleteUpload, ListArtifacts, NameArtifacts, ListSnapshot,
           DropUpload, Failed, Uploaded, Stop, Become, ArtifactTypeOK, Writing
  <2> QED
    BY <1>0, <2>1, <2>2 DEF OneWriter
<1>3. ASSUME UNCHANGED <<at, key>> PROVE OneWriter'
  BY <1>0, <1>3 DEF OneWriter
<1> QED
  BY <1>1, <1>2, <1>3
     DEF Next, DeleteSnapshot, DeleteBytes, DeleteUpload, DropDelete, AdvanceRun, SweepStep, Sweep,
         SweeperStops, SweepDelete, SweepDeleteFails, FinishDeletion, Tick, vars, uploads

----------------------------------------------------------------------------
(* What a step may do to the objects *)

\* What holds of references, objects and the sweepers' work, in the invariant.
ObjectsOK ==
    /\ ReferencesLive
    /\ StoredWhileLive
    /\ \A s \in Sweepers : WorkOK(s)
    /\ TombstoneMeansGone

\* A step that makes no rows but those of manifests, leaves the sweepers alone, refers to
\* available objects only, and stores nothing but what is pending, keeps it.
LEMMA ObjectsKept ==
    ASSUME ArtifactInv, UNCHANGED work, \A k \in Keys : Recorded(k),
           \A k \in listed' \cup named' :
              k \in listed \cup named \/ (k \notin SandboxKeys /\ state'[k] = "available"),
           \A k \in Keys \ SandboxKeys : k \in bytes => k \in bytes' \/ Dying(k),
           \A k \in Keys \ SandboxKeys : k \in bytes' => k \in bytes \/ state[k] = "pending"
    PROVE  ObjectsOK'
<1>1. ReferencesLive'
  BY DEF ArtifactInv, ArtifactTypeOK, ReferencesLive, Recorded
<1>2. StoredWhileLive'
  BY DEF ArtifactInv, StoredWhileLive, Dying, Recorded
<1>3. ASSUME NEW s \in Sweepers PROVE WorkOK(s)'
  BY DEF ArtifactInv, WorkOK, Dying, Recorded
<1>4. TombstoneMeansGone'
  BY DEF ArtifactInv, TombstoneMeansGone, Recorded
<1> QED
  BY <1>1, <1>2, <1>3, <1>4 DEF ObjectsOK

\* Every step keeps it.
LEMMA ObjectsStep ==
    ASSUME ArtifactInv, [Next]_vars
    PROVE  ObjectsOK'
<1> USE Kinds
<1>0. /\ state \in [Keys -> States]
      /\ work \in [Sweepers -> [Keys -> {"none", "delete", "deleted", "failed"}]]
      /\ listed \subseteq Keys /\ named \subseteq Keys /\ deleter \in SandboxKeys \cup {0}
      /\ ReferencesLive /\ StoredWhileLive /\ TombstoneMeansGone
      /\ \A s \in Sweepers : WorkOK(s)
  BY DEF ArtifactInv, ArtifactTypeOK, States
<1>1. \A k \in Keys \ SandboxKeys : k \in bytes => k \in bytes' \/ Dying(k)
  BY BytesStep
<1>2. ASSUME NEW k \in Keys, UNCHANGED <<bytes, references, work>>,
             state' = [state EXCEPT ![k] = state'[k]], state[k] # state'[k],
             k \notin SandboxKeys =>
                \/ state[k] = "absent" /\ state'[k] = "pending"
                \/ state[k] = "pending" /\ state'[k] = "available" /\ k \in bytes
                \/ state[k] = "deleted" /\ state'[k] = "deleting",
             Dying(k) => state'[k] \in {"deleting", "deleted"}
      PROVE  ObjectsOK'
  <2>1. \A j \in Keys \ {k} : state'[j] = state[j]
    BY <1>0, <1>2
  <2>2. ReferencesLive'
    BY <1>0, <1>2, <2>1 DEF ReferencesLive, references
  <2>3. StoredWhileLive'
    BY <1>0, <1>2, <2>1 DEF StoredWhileLive
  <2>4. ASSUME NEW s \in Sweepers PROVE WorkOK(s)'
    BY <1>0, <1>2, <2>1, <2>4 DEF WorkOK, Dying
  <2>5. TombstoneMeansGone'
    BY <1>0, <1>2, <2>1 DEF TombstoneMeansGone
  <2> QED
    BY <2>2, <2>3, <2>4, <2>5 DEF ObjectsOK
<1>3. ASSUME UNCHANGED <<state, bytes, references, work>> PROVE ObjectsOK'
  BY <1>3, ObjectsKept DEF references, Recorded
<1>4. ASSUME NEW u \in Uploaders, NEW k \in Keys, BeginUpload(u, k) PROVE ObjectsOK'
  <2>1. CASE state[k] = "absent"
    BY <1>0, <1>2, <1>4, <2>1 DEF BeginUpload, Reserve, Dying
  <2>2. CASE state[k] # "absent"
    BY <1>0, <1>3, <1>4, <2>2 DEF BeginUpload, Reserve
  <2> QED
    BY <2>1, <2>2
<1>5. ASSUME NEW u \in Uploaders, UploadStep(u) PROVE ObjectsOK'
  <2>1. CASE Put(u) \/ PutFails(u)
    <3>1. UNCHANGED <<state, work, references>>
      BY <2>1 DEF Put, PutFails, ledger
    <3>2. bytes' = bytes \/ (bytes' = bytes \cup {key[u]} /\ at[u] = "put" /\ left[u] > 0)
      BY <2>1 DEF Put, PutFails
    <3>3. \A k \in Keys \ SandboxKeys : k \in bytes' => k \in bytes \/ state[k] = "pending"
      BY <3>2 DEF ArtifactInv, UploadOK
    <3> QED
      BY <1>1, <3>1, <3>3, ObjectsKept DEF references, Recorded
  <2>2. CASE CompleteUpload(u)
    <3> DEFINE k == key[u]
    <3>1. k \in Keys /\ state[k] # "absent"
      BY <2>2 DEF ArtifactInv, UploadOK, CompleteUpload, Writing
    <3>2. k \notin SandboxKeys => Dying(k) \/ k \in bytes
      BY <2>2 DEF ArtifactInv, UploadOK, CompleteUpload
    <3>3. /\ state' = [state EXCEPT ![k] = IF Dying(k) THEN "deleting" ELSE "available"]
          /\ UNCHANGED <<bytes, references, work>>
      BY <2>2 DEF CompleteUpload, Settle
    <3> HIDE DEF k
    <3>4. CASE state'[k] = state[k]
      BY <1>0, <1>3, <3>1, <3>3, <3>4
    <3>5. CASE state'[k] # state[k]
      <4>1. state[k] \in {"pending", "available", "deleting", "deleted"}
        BY <1>0, <3>1 DEF States
      <4>2. /\ Dying(k) => state[k] = "deleted" /\ state'[k] = "deleting"
            /\ ~Dying(k) => state[k] = "pending" /\ state'[k] = "available"
        BY <1>0, <3>1, <3>3, <3>5, <4>1 DEF Dying
      <4>3. state' = [state EXCEPT ![k] = state'[k]]
        BY <1>0, <3>1, <3>3
      <4> QED
        BY <1>2, <3>1, <3>2, <3>3, <3>5, <4>2, <4>3
    <3> QED
      BY <3>4, <3>5
  <2>3. CASE ListArtifacts(u) \/ NameArtifacts(u) \/ ListSnapshot(u)
    <3>1. UNCHANGED <<bytes, work>>
      BY <2>3 DEF ListArtifacts, NameArtifacts, ListSnapshot
    <3> QED
      BY <2>3, <3>1, Referring, ObjectsKept
  <2>4. CASE DropUpload(u)
    BY <1>3, <2>4 DEF DropUpload, ledger
  <2> QED
    BY <1>5, <2>1, <2>2, <2>3, <2>4 DEF UploadStep
<1>6. ASSUME NEW k \in Keys, DeleteSnapshot(k) \/ DeleteBytes(k) PROVE ObjectsOK'
  <2>1. UNCHANGED <<state, work>> /\ listed' \cup named' \subseteq listed \cup named /\ bytes' \subseteq bytes
    BY <1>6 DEF DeleteSnapshot, DeleteBytes, ledger, references
  <2> QED
    BY <1>1, <2>1, ObjectsKept DEF Recorded
<1>7. CASE DeleteUpload
  <2>1. deleter \in SandboxKeys /\ UNCHANGED <<bytes, references, work>>
    BY <1>0, <1>7 DEF DeleteUpload
  <2>2. CASE UNCHANGED ledger
    BY <1>3, <2>1, <2>2 DEF ledger
  <2>3. CASE state[deleter] \in {"pending", "available"} /\ Settle(deleter, "deleted", 0)
    BY <1>0, <1>2, <2>1, <2>3 DEF Settle, Dying
  <2> QED
    BY <1>7, <2>2, <2>3 DEF DeleteUpload
<1>8. ASSUME NEW s \in Sweepers, SweepStep(s) PROVE ObjectsOK'
  <2>1. CASE Sweep(s)
    <3>1. PICK C \in SUBSET LiveRows :
            /\ named' \subseteq named /\ listed' \subseteq listed
            /\ \A k \in C : Claimable(k, listed' \cup named')
            /\ state' = [k \in Keys |-> IF k \in C THEN "deleting" ELSE state[k]]
            /\ work' = [work EXCEPT ![s] = [k \in Keys |-> IF k \in C THEN "delete" ELSE "none"]]
            /\ UNCHANGED bytes
      BY <2>1, SweepEffect
    <3>2. ReferencesLive'
      BY <1>0, <3>1 DEF ReferencesLive, Claimable
    <3>3. StoredWhileLive' /\ TombstoneMeansGone'
      BY <1>0, <3>1 DEF StoredWhileLive, TombstoneMeansGone
    <3>4. ASSUME NEW t \in Sweepers PROVE WorkOK(t)'
      BY <1>0, <3>1, <3>4 DEF WorkOK, Dying
    <3> QED
      BY <3>2, <3>3, <3>4 DEF ObjectsOK
  <2>2. CASE SweeperStops(s)
    <3>1. UNCHANGED <<state, bytes, references>>
          /\ \A t \in Sweepers, k \in Keys : work'[t][k] \in {work[t][k], "none"}
      BY <1>0, <2>2 DEF SweeperStops, NoWork, ledger
    <3>2. ReferencesLive' /\ StoredWhileLive' /\ TombstoneMeansGone'
      BY <1>0, <3>1 DEF ReferencesLive, StoredWhileLive, TombstoneMeansGone, references
    <3>3. ASSUME NEW t \in Sweepers PROVE WorkOK(t)'
      BY <1>0, <3>1, <3>3 DEF WorkOK, Dying
    <3> QED
      BY <3>2, <3>3 DEF ObjectsOK
  <2>3. ASSUME NEW k \in Keys, SweepDelete(s, k) \/ SweepDeleteFails(s, k) PROVE ObjectsOK'
    <3>1. /\ UNCHANGED <<state, references>> /\ bytes' \subseteq bytes
          /\ work[s][k] = "delete"
          /\ \/ work' = [work EXCEPT ![s][k] = "deleted"] /\ k \notin bytes'
             \/ work' = [work EXCEPT ![s][k] = "failed"]
      BY <2>3 DEF SweepDelete, SweepDeleteFails, ledger
    <3>2. ReferencesLive' /\ StoredWhileLive' /\ TombstoneMeansGone'
      BY <1>0, <1>1, <3>1 DEF ReferencesLive, StoredWhileLive, TombstoneMeansGone, references, Dying
    <3>3. ASSUME NEW t \in Sweepers PROVE WorkOK(t)'
      BY <1>0, <3>1, <3>3 DEF WorkOK, Dying
    <3> QED
      BY <3>2, <3>3 DEF ObjectsOK
  <2>4. ASSUME NEW k \in Keys, FinishDeletion(s, k) PROVE ObjectsOK'
    <3>1. /\ UNCHANGED <<bytes, references>> /\ work[s][k] # "none"
          /\ work' = [work EXCEPT ![s][k] = "none"]
      BY <2>4 DEF FinishDeletion
    <3>2. \/ UNCHANGED state
          \/ /\ state[k] = "deleting"
             /\ \/ work[s][k] = "deleted" /\ state' = [state EXCEPT ![k] = "deleted"]
                \/ state' = [state EXCEPT ![k] = "deleting"]
      BY <2>4 DEF FinishDeletion, Settle, ledger
    <3>3. ReferencesLive' /\ StoredWhileLive'
      BY <1>0, <3>1, <3>2 DEF ReferencesLive, StoredWhileLive, references
    <3>4. TombstoneMeansGone'
      BY <1>0, <3>1, <3>2 DEF TombstoneMeansGone, WorkOK
    <3>5. ASSUME NEW t \in Sweepers PROVE WorkOK(t)'
      BY <1>0, <3>1, <3>2, <3>5 DEF WorkOK, Dying
    <3> QED
      BY <3>3, <3>4, <3>5 DEF ObjectsOK
  <2> QED
    BY <1>8, <2>1, <2>2, <2>3, <2>4 DEF SweepStep
<1> QED
  BY <1>3, <1>4, <1>5, <1>6, <1>7, <1>8
     DEF Next, DropDelete, AdvanceRun, Tick, vars, ledger, references

----------------------------------------------------------------------------
(* Theorems *)

\* The invariant holds in every state.
LEMMA InvHolds == Spec => []ArtifactInv
<1>1. ArtifactInv /\ [Next]_vars => ArtifactInv'
  BY TypesStep, UploadsStep, WritersStep, ObjectsStep DEF ArtifactInv, ObjectsOK
<1> QED
  BY <1>1, InvInit, PTL DEF Spec

\* Every variable of the ledger, the store and their users has its type.
THEOREM ArtifactTypes == Spec => []ArtifactTypeOK
<1>1. ArtifactInv => ArtifactTypeOK
  BY DEF ArtifactInv
<1> QED
  BY <1>1, InvHolds, PTL

\* What a run lists, its results name or a snapshot names keeps its row as long as it is
\* referred to, and its bytes unless it is a manifest, which never had any; for any number
\* of uploaders and sweepers, however late.
THEOREM ReferencesHold == Spec => []ReferencedIntact
<1>1. ArtifactInv => ReferencedIntact
  BY DEF ArtifactInv, ArtifactTypeOK, ReferencesLive, StoredWhileLive, ReferencedIntact
<1> QED
  BY <1>1, InvHolds, PTL

\* No bytes of a run or a capture are left behind a tombstone.
THEOREM TombstonesHold == Spec => []TombstoneMeansGone
<1>1. ArtifactInv => TombstoneMeansGone
  BY DEF ArtifactInv
<1> QED
  BY <1>1, InvHolds, PTL

\* No step of anyone makes an object live again whose deletion was claimed or done.
THEOREM DeletionsFinal == Spec => DeletionFinal
<1>1. ArtifactInv /\ [Next]_vars => [NeverRevived]_vars
  BY StateStep DEF NeverRevived, OnlyForward
<1> QED
  BY <1>1, InvHolds, PTL DEF Spec, DeletionFinal
=============================================================================
