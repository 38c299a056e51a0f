------------------------------ MODULE MCDrift ------------------------------
(***************************************************************************)
(* Instance of DriftDetector for TLC: an automated application and one     *)
(* that is synced by hand.  The third revision changes JSON files only.    *)
(***************************************************************************)
EXTENDS DriftDetector

DevAndProd == {"dev", "prod"}
OnlyDev == {"dev"}
ThreeRevisions == <<1, 2, 2>>

=============================================================================
