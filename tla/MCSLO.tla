------------------------------- MODULE MCSLO -------------------------------
(***************************************************************************)
(* Instances of SLOReconciler and SLOMirror for TLC.  Two environments are *)
(* enough for a client that is missing and, where edits may change it, for *)
(* an SLO left in the wrong tenant.                                        *)
(***************************************************************************)
EXTENDS SLOMirror

DevAndProd == {"dev", "prod"}
OnlyDev == {"dev"}

\* Everything that can go wrong.
AnyTrouble == TroubleKinds

NoTrouble == {}
LostReplies == {"lost"}
Rotations == {"rotate"}

\* What the controller recovers from on its own, with the promise of
\* TenantMirror kept all the while.  (A late request is to the tenant what an
\* edit in the UI is.)
Recoverable == {"reject", "lost", "empty", "k8s", "crash", "uiEdit"}

=============================================================================
