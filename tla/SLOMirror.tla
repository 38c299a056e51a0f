----------------------------- MODULE SLOMirror -----------------------------
(***************************************************************************)
(* The DynatraceSLO controller implements TenantMirror as long as nobody   *)
(* deletes SLOs in the Dynatrace UI, no request outlives its timeout and   *)
(* spec.environment does not change.  Lost replies, failed patches, stale  *)
(* reads, crashes and revoked tokens are all allowed: they may leave SLOs  *)
(* nobody records, but never break this promise.                           *)
(***************************************************************************)
EXTENDS SLOReconciler

Phase ==
    CASE ~Exists(obj)                                -> "none"
      [] Exists(obj) /\ obj.del                      -> "leaving"
      [] Exists(obj) /\ ~obj.del /\ obj.fin          -> "held"
      [] Exists(obj) /\ ~obj.del /\ ~obj.fin         -> "open"

Mirror == INSTANCE TenantMirror WITH
            phase <- Phase,
            ref   <- obj.id,
            spent <- {i \in Ids : tenant[i].env # NoEnv},
            live  <- {i \in Ids : Live(i)}

\* Every step of reconcileCreate and reconcileDelete is a step of the promise
\* or changes nothing it speaks of (lines 45-164).
MirrorsTenant == Mirror!Spec

=============================================================================
