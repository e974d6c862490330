------------------------- MODULE MCGuardQuarantine -------------------------
(***************************************************************************)
(* One caller, who asks again and again while an earlier task of its own   *)
(* may have left the incident half done; GuardQuarantineProofs covers any  *)
(* number of tasks at once.                                                *)
(***************************************************************************)
EXTENDS GuardQuarantine

CONSTANT q1
============================================================================
