-------------------------- MODULE AlertReconciler --------------------------
(***************************************************************************)
(* The DynatraceAlert controller (operator/controllers/                    *)
(* dynatracealert_controller.go).  A burn rate alert names one DynatraceSLO *)
(* in spec.sloRef; refs is empty for every other alert, and for a burn     *)
(* rate alert that names none.  DynatraceSLO events do not wake this       *)
(* controller up: it finds an ID, or another one, when it is requeued.     *)
(***************************************************************************)
EXTENDS ManagedResource

ASSUME OneRefAssumption == \A refs \in RefLists : Len(refs) <= 1

\* buildAlertPayload: the SLO's ID goes into the description of the event.
AlertPayload(o, ids) == [gen |-> o.gen, labels |-> <<>>, ids |-> ids]

-----------------------------------------------------------------------------

FirstCall_NoFinalizer(o) ==                 \* mutant: no finalizer first
    CASE ~Exists(o)                                          -> "idle"
      [] Exists(o) /\ o.del /\ (o.id = NoId \/ ~client)      -> "unfinalize"
      [] Exists(o) /\ o.del /\ o.id # NoId /\ client         -> "delete"
      [] Exists(o) /\ ~o.del                                 -> "resolve"

\* Without a client for the environment a deleted object is let go at once.
FirstCall(o) ==
    CASE ~Exists(o)                                          -> "idle"
      [] Exists(o) /\ o.del /\ (o.id = NoId \/ ~client)      -> "unfinalize"
      [] Exists(o) /\ o.del /\ o.id # NoId /\ client         -> "delete"
      [] Exists(o) /\ ~o.del /\ ~o.fin                       -> "finalize"
      [] Exists(o) /\ ~o.del /\ o.fin                        -> "resolve"

\* Get from the informer cache, and the branch Reconcile takes.
Reconcile ==
    /\ pc = "idle"
    /\ queued
    /\ queued' = FALSE
    /\ pc' = FirstCall(cache)
    /\ copy' = cache
    /\ cur' = (Exists(cache) /\ behind = 0)
    /\ UNCHANGED <<k8sVars, informerVars, sloIDs, dtID, client, sloVars,
                   dtVars, trouble>>

AddFinalizer ==
    /\ pc = "finalize"
    /\ UNCHANGED <<client, sloVars, dtVars>>
    /\ \/ /\ UpdateAccepted
          /\ Write([obj EXCEPT !.fin = TRUE], FALSE)
          /\ copy' = [copy EXCEPT !.fin = TRUE]
          /\ pc' = "resolve"
          /\ UNCHANGED <<rev, cur, sloIDs, dtID, trouble>>
       \/ /\ \/ ~UpdateAccepted /\ UNCHANGED trouble
             \/ Meet("k8s")
          /\ Requeue

ResolveSLO_NoWait ==                        \* mutant: a pending SLO is skipped
    /\ pc = "resolve"
    /\ client
    /\ \A r \in Named(copy) : slos[r] # Missing
    /\ sloIDs' = SelectSeq(SLOIDsOf(copy), LAMBDA i : i # NoId)
    /\ pc' = "apply"
    /\ UNCHANGED <<k8sVars, informerVars, queued, copy, cur, dtID>>
    /\ UNCHANGED <<client, sloVars, dtVars, trouble>>

\* The client and the SLO's ID.  A client or an SLO that is missing is an error
\* that no condition shows; an SLO without an ID is waited for.
ResolveSLO ==
    /\ pc = "resolve"
    /\ UNCHANGED <<client, sloVars, dtVars, trouble>>
    /\ \/ /\ client
          /\ \A r \in Named(copy) : slos[r] \notin {Missing, NoId}
          /\ sloIDs' = SLOIDsOf(copy)
          /\ pc' = "apply"
          /\ UNCHANGED <<k8sVars, informerVars, queued, copy, cur, dtID>>
       \/ /\ ~client \/ \E r \in Named(copy) : slos[r] \in {Missing, NoId}
          /\ Requeue

\* ApplyMetricEvent: PUT when the worker's copy has an ID, POST otherwise.
ApplyMetricEvent ==
    /\ pc = "apply"
    /\ LET rq == [id |-> copy.id, pay |-> AlertPayload(copy, sloIDs)]
       IN \/ /\ \E i \in Ids :
                 /\ Succeeds(rq, i)
                 /\ \/ dtID' = i /\ UNCHANGED trouble
                    \/ copy.id = NoId /\ dtID' = NoId /\ Meet("empty")
             /\ pc' = "patch"
          \/ /\ NotFound(rq) \/ Fails(rq)
             /\ pc' = "fail"
             /\ UNCHANGED dtID
    /\ UNCHANGED <<k8sVars, informerVars, queued, copy, cur, sloIDs, client,
                   sloVars>>

\* The status written after generation g was applied under the ID i.
Synced(i, g) == [copy EXCEPT !.id = i, !.obs = g, !.cond = <<"True", g>>]

\* Success: RequeueAfter 5 minutes.  A failed patch is returned as an error.
RecordSync ==
    /\ pc = "patch"
    /\ UNCHANGED <<client, sloVars, dtVars>>
    /\ \/ /\ \E touched \in BOOLEAN :
              PatchStatus(Synced(dtID, copy.gen), dtID # copy.id, touched)
          /\ UNCHANGED trouble
       \/ Meet("k8s") /\ Requeue

\* setAlertFailed: the condition says nothing of a generation, and the error of
\* the patch is ignored.
SetAlertFailed ==
    /\ pc = "fail"
    /\ UNCHANGED <<client, sloVars, dtVars>>
    /\ \/ /\ \E reworded, touched \in BOOLEAN :
              PatchStatus([copy EXCEPT !.cond = <<"False", 0>>],
                          reworded, touched)
          /\ UNCHANGED trouble
       \/ Meet("k8s") /\ Requeue

\* reconcileDelete with a recorded ID and a client: 404 counts as deleted.
DeleteMetricEvent ==
    /\ pc = "delete"
    /\ UNCHANGED <<client, sloVars>>
    /\ LET rq == [id |-> copy.id, pay |-> Nothing]
       IN \/ /\ \/ Succeeds(rq, copy.id) /\ UNCHANGED trouble
                \/ NotFound(rq)
             /\ pc' = "unfinalize"
             /\ UNCHANGED <<k8sVars, informerVars, queued, copy, cur, sloIDs,
                            dtID>>
          \/ Fails(rq) /\ Requeue

\* The API server removes a deleted object that has no finalizer left.
RemoveFinalizer ==
    /\ pc = "unfinalize"
    /\ UNCHANGED <<client, sloVars, dtVars>>
    /\ \/ /\ UpdateAccepted
          /\ Write(Absent, FALSE)
          /\ Finish
          /\ UNCHANGED <<rev, trouble>>
       \/ /\ \/ ~UpdateAccepted /\ UNCHANGED trouble
             \/ Meet("k8s")
          /\ Requeue

SLOEvent == \E r \in SLONames : SLOStep(r) /\ UNCHANGED queued

-----------------------------------------------------------------------------
(* The specification; the fairness is SLOReconciler's.                     *)

Work == \/ Reconcile \/ AddFinalizer \/ ResolveSLO \/ ApplyMetricEvent
        \/ RecordSync \/ SetAlertFailed \/ DeleteMetricEvent
        \/ RemoveFinalizer

Next == Work \/ SLOEvent \/ Surroundings

Fairness == WF_vars(Work) /\ WF_vars(Deliver)

Spec == Init /\ [][Next]_vars
FairSpec == Spec /\ Fairness

-----------------------------------------------------------------------------
(* Properties.                                                             *)

\* An alert that names an SLO is never stored without that SLO's ID, and the ID
\* was the named SLO's at some time (66-85): whatever happens between reading
\* the DynatraceSLO and applying the alert, nobody else's SLO gets into it.
NamesItsSLO ==
    [][\A i \in Ids : tenant'[i] # tenant[i] /\ pc = "apply" /\ pc' # "apply"
         => /\ Len(tenant'[i].ids) = Len(copy.refs)
            /\ \A k \in 1..Len(copy.refs) :
                 <<copy.refs[k], tenant'[i].ids[k]>> \in assigned]_vars

\* reconcileDelete: when a process that has a client for the environment drops
\* the finalizer, and the object goes with it, the alert the object's status
\* names is gone from the tenant, although the worker decided on a copy that may
\* have been stale (193-205).  Without a client it lets go of it at once.
CleanDelete ==
    [][client /\ Exists(obj) /\ obj.fin /\ ~Exists(obj')
         => obj.id = NoId \/ ~Live(obj.id)]_vars

\* docs/operator/README.md 175-176: "The object stays in the cluster until
\* deletion succeeds."  A process that found no credentials for the environment
\* lets the object go without a DELETE (193-204).
DeletionSucceedsFirst ==
    [][Exists(obj) /\ obj.fin /\ ~Exists(obj')
         => obj.id = NoId \/ ~Live(obj.id)]_vars

\* The alert's status and the tenant agree with the spec, and with the SLO that
\* the spec names as it is now.
InSync ==
    Exists(obj) /\ ~obj.del =>
        \/ ~client
        \/ \E r \in Named(obj) : slos[r] \in {NoId, Missing}
        \/ /\ obj.cond = <<"True", obj.gen>>
           /\ obj.obs = obj.gen
           /\ obj.id # NoId
           /\ tenant[obj.id] = AlertPayload(obj, SLOIDsOf(obj))

\* "resources always create in the right order, regardless of the order CRs are
\* applied": once edits, the SLOs and trouble settle, the alert is up to date,
\* although no SLO event wakes the controller up.
EventuallyInSync == <>[]InSync

\* A deleted alert does not hang on its finalizer.
DeletionCompletes == obj.del ~> ~Exists(obj)

\* Every step of the alert controller is a step of TenantMirror's promise or
\* changes nothing it speaks of.
MirrorsTenant == Mirror!Spec

\* Every ID that a DynatraceSLO shows it has been seen with, and so have the
\* IDs the worker has read, each for the SLO the alert names.
NamesInv ==
    /\ \A r \in SLONames :
         slos[r] \notin {NoId, Missing} => <<r, slos[r]>> \in assigned
    /\ pc = "apply" =>
         /\ Len(sloIDs) = Len(copy.refs)
         /\ \A k \in 1..Len(copy.refs) : <<copy.refs[k], sloIDs[k]>> \in assigned

IInv == ManagedInv /\ NamesInv

=============================================================================
