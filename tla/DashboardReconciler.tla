------------------------ MODULE DashboardReconciler ------------------------
(***************************************************************************)
(* The DynatraceDashboard controller (operator/controllers/                *)
(* dynatracedashboard_controller.go).  A dashboard lists DynatraceSLOs in  *)
(* spec.sloRefs; it is built when all of them have an ID, with one tile    *)
(* for each, and an event of any of them wakes this controller up.         *)
(***************************************************************************)
EXTENDS ManagedResource

\* Locals of reconcileCreate, next to sloIDs.
VARIABLES
    sloNames,  \* the labels, appended to with sloIDs
    pending    \* how many SLOs read so far have no ID yet

dashVars == <<vars, sloNames, pending>>

\* A local goes when Reconcile returns, and the loop alone changes it.
Scope ==
    /\ sloNames' = IF pc' = "idle" THEN <<>> ELSE sloNames
    /\ pending' = IF pc' = "idle" THEN 0 ELSE pending

\* BuildDashboard: an ID and a label for each SLO, at the same place in two lists.
\* (DashboardTemplates models the tiles.)
DashboardPayload(o, names, ids) ==
    [gen |-> o.gen, labels |-> names, ids |-> ids]

\* The entries of spec.sloRefs the loop has been over.
Seen == Len(sloIDs) + pending

-----------------------------------------------------------------------------

FirstCall_NoFinalizer(o) ==                 \* mutant: no finalizer first
    CASE ~Exists(o)                                          -> "idle"
      [] Exists(o) /\ o.del /\ (o.id = NoId \/ ~client)      -> "unfinalize"
      [] Exists(o) /\ o.del /\ o.id # NoId /\ client         -> "delete"
      [] Exists(o) /\ ~o.del                                 -> "resolve"

\* Without a client for the environment a deleted object is let go at once.
FirstCall(o) ==
    CASE ~Exists(o)                                          -> "idle"
      [] Exists(o) /\ o.del /\ (o.id = NoId \/ ~client)      -> "unfinalize"
      [] Exists(o) /\ o.del /\ o.id # NoId /\ client         -> "delete"
      [] Exists(o) /\ ~o.del /\ ~o.fin                       -> "finalize"
      [] Exists(o) /\ ~o.del /\ o.fin                        -> "resolve"

\* Get from the informer cache, and the branch Reconcile takes.
Reconcile ==
    /\ pc = "idle"
    /\ queued
    /\ queued' = FALSE
    /\ pc' = FirstCall(cache)
    /\ copy' = cache
    /\ cur' = (Exists(cache) /\ behind = 0)
    /\ UNCHANGED <<k8sVars, informerVars, sloIDs, dtID, client, sloVars,
                   dtVars, trouble>>
    /\ Scope

AddFinalizer ==
    /\ pc = "finalize"
    /\ UNCHANGED <<client, sloVars, dtVars>>
    /\ \/ /\ UpdateAccepted
          /\ Write([obj EXCEPT !.fin = TRUE], FALSE)
          /\ copy' = [copy EXCEPT !.fin = TRUE]
          /\ pc' = "resolve"
          /\ UNCHANGED <<rev, cur, sloIDs, dtID, trouble>>
       \/ /\ \/ ~UpdateAccepted /\ UNCHANGED trouble
             \/ Meet("k8s")
          /\ Requeue
    /\ Scope

ResolveSLO_Silent ==                        \* mutant: the failure is not shown
    /\ pc = "resolve"
    /\ client
    /\ Seen < Len(copy.refs)
    /\ UNCHANGED <<client, sloVars, dtVars, trouble>>
    /\ LET ref == copy.refs[Seen + 1]
       IN \/ /\ slos[ref] # Missing
             /\ sloIDs' = Append(sloIDs, slos[ref])
             /\ sloNames' = Append(sloNames, ref)
             /\ UNCHANGED <<k8sVars, informerVars, queued, pc, copy, cur, dtID,
                            pending>>
          \/ slos[ref] = Missing /\ Requeue /\ Scope

\* The loop over spec.sloRefs: one read of the informer cache for each name.  An
\* SLO that is missing is shown as a failure, one without an ID is passed over.
ResolveSLO ==
    /\ pc = "resolve"
    /\ client
    /\ Seen < Len(copy.refs)
    /\ LET ref == copy.refs[Seen + 1]
       IN \/ /\ slos[ref] = Missing
             /\ pc' = "fail"
             /\ UNCHANGED <<sloIDs, sloNames, pending>>
          \/ /\ slos[ref] = NoId
             /\ pending' = pending + 1
             /\ UNCHANGED <<pc, sloIDs, sloNames>>
          \/ /\ slos[ref] \notin {NoId, Missing}
             /\ sloIDs' = Append(sloIDs, slos[ref])
             /\ sloNames' = Append(sloNames, ref)
             /\ UNCHANGED <<pc, pending>>
    /\ UNCHANGED <<k8sVars, informerVars, queued, copy, cur, dtID, client,
                   sloVars, dtVars, trouble>>

BuildDashboard_NoWait ==                    \* mutant: pending is not looked at
    /\ pc = "resolve"
    /\ client
    /\ Seen = Len(copy.refs)
    /\ pc' = "apply"
    /\ UNCHANGED <<k8sVars, informerVars, queued, copy, cur, sloIDs, dtID, client>>
    /\ UNCHANGED <<sloVars, dtVars, trouble>>
    /\ Scope

\* After the loop: SLOs without an ID are waited for; otherwise the payload is
\* built.  (The CRD's enum lets no template through that BuildDashboard does
\* not know.)
BuildDashboard ==
    /\ pc = "resolve"
    /\ client
    /\ Seen = Len(copy.refs)
    /\ UNCHANGED <<client, sloVars, dtVars, trouble>>
    /\ \/ /\ pending = 0
          /\ pc' = "apply"
          /\ UNCHANGED <<k8sVars, informerVars, queued, copy, cur, sloIDs, dtID>>
       \/ pending > 0 /\ Requeue
    /\ Scope

\* No client for the environment: an error that no condition shows.
NoClient ==
    /\ pc = "resolve"
    /\ ~client
    /\ Requeue
    /\ UNCHANGED <<client, sloVars, dtVars, trouble>>
    /\ Scope

\* ApplyDashboard: PUT when the worker's copy has an ID, POST otherwise.
ApplyDashboard ==
    /\ pc = "apply"
    /\ LET rq == [id |-> copy.id, pay |-> DashboardPayload(copy, sloNames, sloIDs)]
       IN \/ /\ \E i \in Ids :
                 /\ Succeeds(rq, i)
                 /\ \/ dtID' = i /\ UNCHANGED trouble
                    \/ copy.id = NoId /\ dtID' = NoId /\ Meet("empty")
             /\ pc' = "patch"
          \/ /\ NotFound(rq) \/ Fails(rq)
             /\ pc' = "fail"
             /\ UNCHANGED dtID
    /\ UNCHANGED <<k8sVars, informerVars, queued, copy, cur, sloIDs, client,
                   sloVars>>
    /\ Scope

\* The status written after generation g was applied under the ID i.
Synced(i, g) == [copy EXCEPT !.id = i, !.obs = g, !.cond = <<"True", g>>]

\* Success: RequeueAfter 5 minutes.  A failed patch is returned as an error.
RecordSync ==
    /\ pc = "patch"
    /\ UNCHANGED <<client, sloVars, dtVars>>
    /\ \/ /\ \E touched \in BOOLEAN :
              PatchStatus(Synced(dtID, copy.gen), dtID # copy.id, touched)
          /\ UNCHANGED trouble
       \/ Meet("k8s") /\ Requeue
    /\ Scope

\* setFailed: the condition says nothing of a generation, and the error of
\* the patch is ignored.
SetFailed ==
    /\ pc = "fail"
    /\ UNCHANGED <<client, sloVars, dtVars>>
    /\ \/ /\ \E reworded, touched \in BOOLEAN :
              PatchStatus([copy EXCEPT !.cond = <<"False", 0>>],
                          reworded, touched)
          /\ UNCHANGED trouble
       \/ Meet("k8s") /\ Requeue
    /\ Scope

\* reconcileDelete with a recorded ID and a client: 404 counts as deleted.
DeleteDashboard ==
    /\ pc = "delete"
    /\ UNCHANGED <<client, sloVars>>
    /\ LET rq == [id |-> copy.id, pay |-> Nothing]
       IN \/ /\ \/ Succeeds(rq, copy.id) /\ UNCHANGED trouble
                \/ NotFound(rq)
             /\ pc' = "unfinalize"
             /\ UNCHANGED <<k8sVars, informerVars, queued, copy, cur, sloIDs,
                            dtID>>
          \/ Fails(rq) /\ Requeue
    /\ Scope

\* The API server removes a deleted object that has no finalizer left.
RemoveFinalizer ==
    /\ pc = "unfinalize"
    /\ UNCHANGED <<client, sloVars, dtVars>>
    /\ \/ /\ UpdateAccepted
          /\ Write(Absent, FALSE)
          /\ Finish
          /\ UNCHANGED <<rev, trouble>>
       \/ /\ \/ ~UpdateAccepted /\ UNCHANGED trouble
             \/ Meet("k8s")
          /\ Requeue
    /\ Scope

\* sloToDashboards: an event of an SLO that the cached dashboard lists enqueues
\* the dashboard.
SLOEvent ==
    /\ \E r \in SLONames :
        /\ SLOStep(r)
        /\ queued' = (queued \/ r \in Named(cache))
    /\ Scope

-----------------------------------------------------------------------------
(* The specification; the fairness is SLOReconciler's.                     *)

Work == \/ Reconcile \/ AddFinalizer
        \/ NoClient \/ ResolveSLO \/ BuildDashboard
        \/ ApplyDashboard \/ RecordSync \/ SetFailed
        \/ DeleteDashboard \/ RemoveFinalizer

Next == \/ Work
        \/ SLOEvent
        \/ Surroundings /\ Scope

Fairness == WF_dashVars(Work) /\ WF_dashVars(Deliver /\ Scope)

InitDashboard == Init /\ sloNames = <<>> /\ pending = 0

Spec == InitDashboard /\ [][Next]_dashVars
FairSpec == Spec /\ Fairness

-----------------------------------------------------------------------------
(* Properties.                                                             *)

\* A dashboard is never stored with some of its SLOs left out, and the tile
\* labelled with an SLO shows an ID that was that SLO's, the two lists being built
\* apart (84-143): whatever happens between reading the DynatraceSLOs and applying
\* the dashboard.
TilesMatchLabels ==
    [][\A i \in Ids : tenant'[i] # tenant[i] /\ pc = "apply" /\ pc' # "apply"
         => /\ tenant'[i].labels = copy.refs
            /\ Len(tenant'[i].ids) = Len(copy.refs)
            /\ \A k \in 1..Len(copy.refs) :
                 <<copy.refs[k], tenant'[i].ids[k]>> \in assigned]_dashVars

\* reconcileDelete: when a process that has a client for the environment drops
\* the finalizer, and the object goes with it, the dashboard the object's status
\* names is gone from the tenant, although the worker decided on a copy that may
\* have been stale (181-198).
CleanDelete ==
    [][client /\ Exists(obj) /\ obj.fin /\ ~Exists(obj')
         => obj.id = NoId \/ ~Live(obj.id)]_dashVars

\* The dashboard's status and the tenant agree with the spec, and with the SLOs
\* that the spec lists as they are now.
InSync ==
    Exists(obj) /\ ~obj.del =>
        \/ ~client
        \/ \E r \in Named(obj) : slos[r] \in {NoId, Missing}
        \/ /\ obj.cond = <<"True", obj.gen>>
           /\ obj.obs = obj.gen
           /\ obj.id # NoId
           /\ tenant[obj.id] = DashboardPayload(obj, obj.refs, SLOIDsOf(obj))

\* "the ordering resolves automatically": in whatever order the dashboard and
\* its SLOs come, once edits, the SLOs and trouble settle the dashboard shows
\* the SLOs as they are.
EventuallyInSync == <>[]InSync

\* A deleted dashboard does not hang on its finalizer.
DeletionCompletes == obj.del ~> ~Exists(obj)

\* A dashboard one of whose DynatraceSLOs stays missing says Synced=False, as
\* long as there is a client to get that far (87-95).
MissingSLOShown ==
    <>[](Exists(obj) /\ ~obj.del /\ client
         /\ (\E r \in Named(obj) : slos[r] = Missing)
           => obj.cond[1] = "False")

\* Every step of the dashboard controller is a step of TenantMirror's promise or
\* changes nothing it speaks of.
MirrorsTenant == Mirror!Spec

\* Every ID that a DynatraceSLO shows it has been seen with, and so have the
\* IDs the worker has read, each for the name at its place in sloNames; and as
\* long as nothing was passed over, that list follows spec.sloRefs.
NamesInv ==
    /\ \A r \in SLONames :
         slos[r] \notin {NoId, Missing} => <<r, slos[r]>> \in assigned
    /\ sloNames \in Seq(SLONames)
    /\ pending \in Nat
    /\ pc \notin HeldCalls => sloNames = <<>> /\ pending = 0
    /\ pc \in {"resolve", "apply"} =>
         /\ Len(sloNames) = Len(sloIDs)
         /\ Seen <= Len(copy.refs)
         /\ \A k \in 1..Len(sloIDs) :
              /\ <<sloNames[k], sloIDs[k]>> \in assigned
              /\ pending = 0 => sloNames[k] = copy.refs[k]
    /\ pc = "apply" => pending = 0 /\ Len(sloIDs) = Len(copy.refs)

IInv == ManagedInv /\ NamesInv

=============================================================================
