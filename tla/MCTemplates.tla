---------------------------- MODULE MCTemplates ----------------------------
(***************************************************************************)
(* Instances of DashboardTemplates for TLC.  Three IDs leave room for      *)
(* repetitions in spec.sloRefs; the row holds four tiles, and a fifth and  *)
(* a sixth entry show what becomes of those that do not fit.               *)
(***************************************************************************)
EXTENDS DashboardTemplates

ThreeIds == {"SLO-a", "SLO-b", "SLO-c"}
=============================================================================
