---------------------------- MODULE MCDashboard ----------------------------
(***************************************************************************)
(* Instances of DashboardReconciler for TLC: a dashboard that lists one or *)
(* both of two SLOs, in either order, as its spec is edited.               *)
(***************************************************************************)
EXTENDS DashboardReconciler

TwoSLOs == {"availability", "latency"}
OneOrBoth == {<<"latency">>, <<"availability", "latency">>,
              <<"latency", "availability">>}
NoneOrBoth == {<<>>, <<"availability", "latency">>}

\* Everything that can go wrong.
AnyTrouble == TroubleKinds

\* What the controller recovers from on its own, with the promise of
\* TenantMirror kept all the while: nobody deletes in the UI, and the
\* credentials stay.
Recoverable == TroubleKinds \ {"uiDelete", "secret"}

=============================================================================
