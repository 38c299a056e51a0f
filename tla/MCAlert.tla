------------------------------ MODULE MCAlert ------------------------------
(***************************************************************************)
(* Instances of AlertReconciler for TLC: an alert that names an SLO or     *)
(* names none, as its spec is edited.                                      *)
(***************************************************************************)
EXTENDS AlertReconciler

Availability == {"availability"}
OneOrNone == {<<>>, <<"availability">>}

\* Everything that can go wrong.
AnyTrouble == TroubleKinds

\* What the controller recovers from on its own, with the promise of
\* TenantMirror kept all the while: nobody deletes in the UI, and the
\* credentials stay.
Recoverable == TroubleKinds \ {"uiDelete", "secret"}

\* A restart that does not find the Secret of the environment.
LostSecret == {"crash", "secret"}

=============================================================================
