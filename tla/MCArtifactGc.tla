---------------------------- MODULE MCArtifactGc ----------------------------
(***************************************************************************)
(* One run with one artifact (key 3), a name of the artifact routes that   *)
(* sorts behind it, a capture that sorts before it, and the manifest of    *)
(* the capture, which sorts behind the capture.  Objects meet only in the  *)
(* window of a sweep, so the name need not meet the capture: a behaviour   *)
(* has one of the two.                                                     *)
(***************************************************************************)
EXTENDS ArtifactGc

CONSTANTS r1

Owners == [k \in Keys |-> IF k = 3 THEN r1 ELSE NoRun]
Manifests == [k \in SnapshotKeys |-> k + 1]

ApartNext == Next /\ (state'[1] = "absent" \/ state'[4] = "absent")

ApartSpec == Init /\ [][ApartNext]_vars /\ Fairness
=============================================================================
