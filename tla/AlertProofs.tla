---------------------------- MODULE AlertProofs ----------------------------
(***************************************************************************)
(* Proofs about the DynatraceAlert controller, for all constants.  Each of *)
(* its actions is a step that ManagedProofs speaks of; what is left to do  *)
(* here is NamesInv, and the property of the alert that rests on it.       *)
(***************************************************************************)
EXTENDS AlertReconciler, ManagedProofs

USE RefsAssumption, BoundsAssumption

\* Everything that every step preserves.
LEMMA InvFacts == IInv => ManagedInv /\ NamesInv /\ TypeOK /\ PcInv
  BY DEF IInv, ManagedInv

-----------------------------------------------------------------------------
(* Each action is a step of ManagedProofs.                                 *)

LEMMA FirstCallFits ==
    ASSUME NEW o \in Objects
    PROVE  Fits(FirstCall(o), o)
<1>1. CASE ~Exists(o)
  <2>1. FirstCall(o) = "idle"
    BY <1>1 DEF FirstCall
  <2> QED
    BY <1>1, <2>1 DEF Fits, PCs, LeavingCalls
<1>2. CASE Exists(o) /\ o.del /\ (o.id = NoId \/ ~client)
  <2>1. FirstCall(o) = "unfinalize"
    BY <1>2 DEF FirstCall
  <2> QED
    BY <1>2, <2>1 DEF Fits, PCs, LeavingCalls
<1>3. CASE Exists(o) /\ o.del /\ o.id # NoId /\ client
  <2>1. FirstCall(o) = "delete"
    BY <1>3 DEF FirstCall
  <2> QED
    BY <1>3, <2>1 DEF Fits, PCs, LeavingCalls
<1>4. CASE Exists(o) /\ ~o.del /\ ~o.fin
  <2>1. FirstCall(o) = "finalize"
    BY <1>4 DEF FirstCall
  <2> QED
    BY <1>4, <2>1 DEF Fits, PCs, LeavingCalls
<1>5. CASE Exists(o) /\ ~o.del /\ o.fin
  <2>1. FirstCall(o) = "resolve"
    BY <1>5 DEF FirstCall
  <2> QED
    BY <1>5, <2>1 DEF Fits, PCs, LeavingCalls
<1> QED
  BY <1>1, <1>2, <1>3, <1>4, <1>5

LEMMA ReconcileTakes == TypeOK /\ Reconcile => Takes
<1> SUFFICES ASSUME TypeOK, Reconcile PROVE Takes
  OBVIOUS
<1>1. Fits(pc', cache)
  BY FirstCallFits DEF Reconcile, TypeOK
<1>2. queued' \in BOOLEAN
  BY Zenon DEF Reconcile
<1>3. cur' = (Exists(cache) /\ behind = 0)
  BY Zenon DEF Reconcile
<1> QED
  BY <1>1, <1>2, <1>3 DEF Reconcile, Takes

LEMMA NoTrouble == TypeOK /\ (UNCHANGED trouble \/ Meet("k8s")) => TroubleOK
  BY DEF TypeOK, Meet, TroubleOK

LEMMA AddFinalizerHolds == TypeOK /\ AddFinalizer => Holds \/ Returns
  BY NoTrouble DEF AddFinalizer, Holds, Returns

LEMMA RemoveFinalizerUnholds == TypeOK /\ RemoveFinalizer => Unholds \/ Returns
  BY NoTrouble DEF RemoveFinalizer, Unholds, Returns

\* The IDs the worker has read in full are IDs.
LEMMA PayloadFacts ==
    ASSUME IInv, pc = "apply"
    PROVE  /\ AlertPayload(copy, sloIDs) \in Payloads
           /\ AlertPayload(copy, sloIDs).gen = copy.gen
           /\ AlertPayload(copy, sloIDs).ids = sloIDs
<1>1. TypeOK /\ NamesInv
  BY InvFacts
<1>2. copy.gen \in 0..(MaxRev + 1)
  BY <1>1, AbsentFacts DEF TypeOK
<1>3. sloIDs \in Seq(SLOIds)
  <2>1. sloIDs \in Seq(SLOIds \cup {NoId}) /\ assigned \subseteq SLONames \X SLOIds
    BY <1>1 DEF TypeOK
  <2>2. ASSUME NEW k \in 1..Len(sloIDs)
        PROVE  sloIDs[k] \in SLOIds
    <3>1. <<copy.refs[k], sloIDs[k]>> \in assigned
      BY <1>1 DEF NamesInv
    <3> QED
      BY <2>1, <3>1
  <2> QED
    BY <2>1, <2>2, SeqOver
<1>4. <<>> \in Seq(SLONames)
  OBVIOUS
<1> QED
  BY <1>2, <1>3, <1>4 DEF AlertPayload, Payloads

LEMMA ResolveSLOFacts ==
    ASSUME IInv, ResolveSLO
    PROVE  /\ Resolves \/ Returns
           /\ pc' = "apply" =>
                /\ Len(sloIDs') = Len(copy.refs)
                /\ \A k \in 1..Len(copy.refs) :
                     <<copy.refs[k], sloIDs'[k]>> \in assigned
<1>1. TypeOK /\ NamesInv /\ PcInv
  BY InvFacts
<1>2. CASE Requeue
  <2>1. UNCHANGED <<client, sloVars, dtVars, trouble>>
    BY DEF ResolveSLO
  <2> QED
    BY <1>1, <1>2, <2>1, FinishFacts, NoTrouble DEF Returns, Requeue
<1>3. CASE /\ \A r \in Named(copy) : slos[r] \notin {Missing, NoId}
           /\ sloIDs' = SLOIDsOf(copy)
           /\ pc' = "apply"
           /\ UNCHANGED <<k8sVars, informerVars, queued, copy, cur, dtID>>
  <2>1. copy \in CRs /\ copy.refs \in Seq(SLONames)
    <3>1. copy \in CRs
      BY <1>1, AbsentFacts DEF TypeOK, PcInv, ResolveSLO
    <3> QED
      BY <3>1 DEF CRs
  <2>2. /\ DOMAIN sloIDs' = 1..Len(copy.refs)
        /\ \A k \in 1..Len(copy.refs) : sloIDs'[k] = slos[copy.refs[k]]
    BY <1>3 DEF SLOIDsOf
  <2>3. \A k \in 1..Len(copy.refs) :
          copy.refs[k] \in SLONames /\ copy.refs[k] \in Named(copy)
    BY <2>1 DEF Named
  <2>4. \A k \in 1..Len(copy.refs) : slos[copy.refs[k]] \notin {Missing, NoId}
    BY <1>3, <2>3
  <2>5. \A k \in 1..Len(copy.refs) : <<copy.refs[k], sloIDs'[k]>> \in assigned
    BY <1>1, <2>2, <2>3, <2>4 DEF NamesInv
  <2>6. \A k \in 1..Len(copy.refs) : sloIDs'[k] \in SLOIds
    BY <1>1, <2>5 DEF TypeOK
  <2>7. sloIDs' \in Seq(SLOIds) /\ Len(sloIDs') = Len(copy.refs)
    <3>1. sloIDs' \in [1..Len(copy.refs) -> SLOIds]
      BY <1>3, <2>2, <2>6 DEF SLOIDsOf
    <3>2. Len(copy.refs) \in Nat
      BY <2>1
    <3> QED
      BY <3>1, <3>2
  <2>8. sloIDs' \in Seq(SLOIds \cup {NoId})
    BY <2>7
  <2>9. Resolves
    BY <1>3, <2>8 DEF Resolves, ResolveSLO
  <2> QED
    BY <2>5, <2>7, <2>9
<1> QED
  BY <1>2, <1>3 DEF ResolveSLO

LEMMA ApplyFacts ==
    ASSUME IInv, ApplyMetricEvent
    PROVE  /\ AlertPayload(copy, sloIDs) \in Payloads
           /\ Applies(AlertPayload(copy, sloIDs))
<1>1. AlertPayload(copy, sloIDs) \in Payloads
      /\ AlertPayload(copy, sloIDs).gen = copy.gen
  BY PayloadFacts DEF ApplyMetricEvent
<1> QED
  BY <1>1 DEF Applies, ApplyMetricEvent

\* Both status patches.
StatusPatch ==
    \E i \in 0..MaxIds, g \in 0..MaxRev, c \in Conditions :
       Patches([copy EXCEPT !.id = i, !.obs = g, !.cond = c])

LEMMA RecordSyncFacts == IInv /\ RecordSync => StatusPatch \/ Returns
<1> SUFFICES ASSUME IInv, RecordSync PROVE StatusPatch \/ Returns
  OBVIOUS
<1>1. TypeOK /\ PcInv
  BY InvFacts
<1>2. copy \in CRs /\ dtID \in 0..MaxIds /\ pc = "patch"
  BY <1>1, AbsentFacts DEF TypeOK, PcInv, RecordSync
<1>3. CASE Meet("k8s") /\ Requeue
  BY <1>1, <1>3, NoTrouble DEF Returns, RecordSync
<1>4. ASSUME NEW touched \in BOOLEAN, UNCHANGED trouble,
             PatchStatus(Synced(dtID, copy.gen), dtID # copy.id, touched)
      PROVE  StatusPatch
  <2> DEFINE g == copy.gen
             c == <<"True", copy.gen>>
             n == [copy EXCEPT !.id = dtID, !.obs = g, !.cond = c]
  <2>1. g \in 0..MaxRev /\ c \in Conditions
    BY <1>2, AbsentFacts DEF Conditions
  <2>2. n.id = dtID /\ n.obs = g /\ n.cond = c
    BY <1>2 DEF CRs
  <2>3. n = Synced(dtID, copy.gen)
    BY DEF Synced
  <2>4. TroubleOK /\ UNCHANGED <<client, sloVars, dtVars>>
    BY <1>1, <1>4, NoTrouble DEF RecordSync
  <2>5. (dtID # copy.id) \in BOOLEAN
    OBVIOUS
  <2> HIDE DEF n, g, c
  <2>6. PatchStatus(n, dtID # copy.id, touched)
    BY <1>4, <2>3
  <2>7. Patches(n)
    BY <1>2, <2>1, <2>2, <2>4, <2>5, <2>6 DEF Patches
  <2> QED
    BY <1>2, <2>1, <2>7 DEF StatusPatch, n
<1> QED
  BY <1>3, <1>4 DEF RecordSync

LEMMA SetAlertFailedFacts == IInv /\ SetAlertFailed => StatusPatch \/ Returns
<1> SUFFICES ASSUME IInv, SetAlertFailed PROVE StatusPatch \/ Returns
  OBVIOUS
<1>1. TypeOK /\ PcInv
  BY InvFacts
<1>2. copy \in CRs /\ pc = "fail"
  BY <1>1, AbsentFacts DEF TypeOK, PcInv, SetAlertFailed
<1>3. CASE Meet("k8s") /\ Requeue
  BY <1>1, <1>3, NoTrouble DEF Returns, SetAlertFailed
<1>4. ASSUME NEW reworded \in BOOLEAN, NEW touched \in BOOLEAN, UNCHANGED trouble,
             PatchStatus([copy EXCEPT !.cond = <<"False", 0>>], reworded, touched)
      PROVE  StatusPatch
  <2> DEFINE i == copy.id
             g == copy.obs
             c == <<"False", 0>>
             n == [copy EXCEPT !.id = i, !.obs = g, !.cond = c]
  <2>1. i \in 0..MaxIds /\ g \in 0..MaxRev /\ c \in Conditions
    BY <1>2 DEF Conditions, CRs
  <2>2. n.id = i /\ n.obs = g /\ n.cond = c
    BY <1>2 DEF CRs
  <2>3. n = [copy EXCEPT !.cond = <<"False", 0>>]
    BY <1>2 DEF CRs
  <2>4. TroubleOK /\ UNCHANGED <<client, sloVars, dtVars>>
    BY <1>1, <1>4, NoTrouble DEF SetAlertFailed
  <2> HIDE DEF n, g, c
  <2>5. PatchStatus(n, reworded, touched)
    BY <1>4, <2>3
  <2>6. Patches(n)
    BY <1>2, <2>1, <2>2, <2>4, <2>5 DEF Patches
  <2> QED
    BY <2>1, <2>6 DEF StatusPatch, n
<1> QED
  BY <1>3, <1>4 DEF SetAlertFailed

LEMMA SLOEventMoves == TypeOK /\ SLOEvent => SLOMoves
  BY DEF TypeOK, SLOEvent, SLOMoves

LEMMA NextManaged == IInv /\ [Next]_vars => ManagedStep \/ UNCHANGED vars
<1> SUFFICES ASSUME IInv, Next PROVE ManagedStep
  OBVIOUS
<1>1. TypeOK
  BY InvFacts
<1>2. DeleteMetricEvent => Deletes
  BY DEF DeleteMetricEvent, Deletes
<1>3. ApplyMetricEvent => WorkerStep
  BY ApplyFacts DEF WorkerStep
<1>4. StatusPatch => WorkerStep
  BY DEF StatusPatch, WorkerStep
<1> QED
  BY <1>1, <1>2, <1>3, <1>4, ReconcileTakes, AddFinalizerHolds, ResolveSLOFacts,
     RecordSyncFacts, SetAlertFailedFacts, RemoveFinalizerUnholds, SLOEventMoves
     DEF Next, Work, ManagedStep, WorkerStep

-----------------------------------------------------------------------------
(* The invariant.                                                          *)

LEMMA SLOEventNames == IInv /\ SLOEvent => NamesInv'
<1> SUFFICES ASSUME IInv, NEW s \in SLONames, SLOStep(s) PROVE NamesInv'
  BY DEF SLOEvent
<1>1. TypeOK /\ NamesInv
  BY InvFacts
<1>2. assigned \subseteq assigned' /\ UNCHANGED <<pc, copy, sloIDs>>
  BY DEF SLOStep, workerVars
<1>3. ASSUME NEW r \in SLONames, slos'[r] \notin {NoId, Missing}
      PROVE  <<r, slos'[r]>> \in assigned'
  <2>1. slos \in [SLONames -> 0..Missing]
    BY <1>1 DEF TypeOK
  <2>2. CASE slos'[r] = slos[r]
    BY <1>1, <1>2, <1>3, <2>2 DEF NamesInv
  <2>3. CASE slos'[r] # slos[r]
    BY <1>3, <2>1, <2>3 DEF SLOStep
  <2> QED
    BY <2>2, <2>3
<1> QED
  BY <1>1, <1>2, <1>3 DEF NamesInv

LEMMA NamesStep == IInv /\ [Next]_vars => NamesInv'
<1> SUFFICES ASSUME IInv, [Next]_vars PROVE NamesInv'
  OBVIOUS
<1>1. NamesInv
  BY InvFacts
<1>2. ASSUME UNCHANGED <<slos, assigned>>, pc' # "apply"
      PROVE  NamesInv'
  BY <1>1, <1>2 DEF NamesInv
<1>3. ASSUME UNCHANGED <<slos, assigned, pc, copy, sloIDs>>
      PROVE  NamesInv'
  BY <1>1, <1>3 DEF NamesInv
<1>4. CASE ResolveSLO
  <2>1. UNCHANGED <<slos, assigned>>
    BY <1>4 DEF ResolveSLO, sloVars
  <2>2. pc' = "apply" => copy' = copy
    BY <1>4 DEF ResolveSLO, Requeue, Finish
  <2> QED
    BY <1>1, <1>4, <2>1, <2>2, ResolveSLOFacts DEF NamesInv
<1>5. Finish => pc' # "apply"
  BY DEF Finish
<1>6. CASE Reconcile
  <2>1. pc' # "apply"
    BY <1>6, InvFacts, ReconcileTakes DEF Takes, Fits, PCs
  <2> QED
    BY <1>2, <1>6, <2>1 DEF Reconcile, sloVars
<1>7. CASE AddFinalizer \/ ApplyMetricEvent \/ DeleteMetricEvent
           \/ RemoveFinalizer
  BY <1>2, <1>5, <1>7 DEF AddFinalizer, ApplyMetricEvent, DeleteMetricEvent,
                          RemoveFinalizer, Requeue, sloVars
<1>8. CASE RecordSync \/ SetAlertFailed
  <2>1. StatusPatch \/ Returns
    BY <1>8, RecordSyncFacts, SetAlertFailedFacts
  <2>2. Finish
    <3>1. ASSUME NEW new, NEW w, NEW t, PatchStatus(new, w, t)
          PROVE  Finish
      BY <3>1 DEF PatchStatus, Requeue
    <3> QED
      BY <2>1, <3>1 DEF StatusPatch, Patches, Returns, Requeue
  <2> QED
    BY <1>2, <1>5, <1>8, <2>2 DEF RecordSync, SetAlertFailed, sloVars
<1>9. CASE Deliver \/ CreateCR \/ EditSpec \/ DeleteCR \/ ChangeInUI
           \/ UNCHANGED vars
  BY <1>3, <1>9 DEF Deliver, CreateCR, EditSpec, DeleteCR, ChangeInUI, vars,
                    workerVars, sloVars
<1>10. CASE Restart
  BY <1>2, <1>5, <1>10 DEF Restart, sloVars
<1> QED
  BY <1>4, <1>6, <1>7, <1>8, <1>9, <1>10, SLOEventNames
     DEF Next, Work, Surroundings

\* The state of the alert controller, of its object, its SLO and the tenant
\* keeps the types of TypeOK, and a copy in the worker's hands means what
\* Reconcile takes it to mean however old it is: the finalizer is there before
\* any request, a recorded ID was assigned, the ID of an SLO is one that the SLO
\* had (dynatracealert_controller.go, 35-114).
THEOREM Inductive == Spec => []IInv
<1>1. Init => IInv
  BY ManagedInit DEF IInv, NamesInv, Init
<1>2. IInv /\ [Next]_vars => IInv'
  BY NextManaged, ManagedKeeps, NamesStep DEF IInv
<1> QED
  BY <1>1, <1>2, PTL DEF Spec

-----------------------------------------------------------------------------
(* The properties of the steps.                                            *)

LEMMA NamesItsSLOStep ==
    ASSUME IInv, [Next]_vars, NEW i \in Ids,
           tenant'[i] # tenant[i], pc = "apply", pc' # "apply"
    PROVE  /\ Len(tenant'[i].ids) = Len(copy.refs)
           /\ \A k \in 1..Len(copy.refs) :
                <<copy.refs[k], tenant'[i].ids[k]>> \in assigned
<1>1. ApplyMetricEvent
  <2>1. ~Reconcile /\ ~AddFinalizer /\ ~ResolveSLO /\ ~RecordSync
        /\ ~SetAlertFailed /\ ~DeleteMetricEvent /\ ~RemoveFinalizer
    BY DEF Reconcile, AddFinalizer, ResolveSLO, RecordSync, SetAlertFailed,
           DeleteMetricEvent, RemoveFinalizer
  <2>2. ~SLOEvent
    BY DEF SLOEvent, SLOStep, dtVars
  <2>3. ~Surroundings /\ ~UNCHANGED vars
    BY DEF Surroundings, Deliver, Restart, CreateCR, EditSpec, DeleteCR,
           ChangeInUI, vars, workerVars, dtVars
  <2> QED
    BY <2>1, <2>2, <2>3 DEF Next, Work
<1>2. tenant'[i].ids = sloIDs
  BY <1>1, InvFacts, ApplyFacts, PayloadFacts, AppliesStores
<1> QED
  BY <1>2, InvFacts DEF NamesInv

\* An alert is stored in the tenant with the ID of the SLO it names, and of no
\* other, whatever the SLO went through between reading its ID and applying
\* (lines 66-85).
THEOREM NamesItsSLOHolds == Spec => NamesItsSLO
<1>1. IInv /\ [Next]_vars =>
        [\A i \in Ids : tenant'[i] # tenant[i] /\ pc = "apply" /\ pc' # "apply"
           => /\ Len(tenant'[i].ids) = Len(copy.refs)
              /\ \A k \in 1..Len(copy.refs) :
                   <<copy.refs[k], tenant'[i].ids[k]>> \in assigned]_vars
  BY NamesItsSLOStep
<1> QED
  BY <1>1, Inductive, PTL DEF Spec, NamesItsSLO

\* A process that has a client lets go of a deleted alert only after the tenant
\* has (lines 193-205).
THEOREM CleanDeleteHolds == Spec => CleanDelete
<1>1. IInv /\ [Next]_vars =>
        [client /\ Exists(obj) /\ obj.fin /\ ~Exists(obj')
           => obj.id = NoId \/ ~Live(obj.id)]_vars
  BY NextManaged, CleanStep DEF IInv
<1> QED
  BY <1>1, Inductive, PTL DEF Spec, CleanDelete

\* The alert controller implements TenantMirror, step by step, as long as nobody
\* deletes in the UI and the credentials stay: metric events are made under the
\* finalizer only, never under a used ID, recorded while they exist, destroyed
\* for a deleted object only, and gone before the object that records them.
THEOREM Refinement ==
    ASSUME Calm
    PROVE  Spec => MirrorsTenant
<1>1. ManagedInv /\ LeavingInv /\ (ManagedStep \/ UNCHANGED vars) => LeavingInv'
  BY LeavingStep
<1>2. IInv /\ LeavingInv /\ [Next]_vars => LeavingInv'
  BY <1>1, NextManaged DEF IInv
<1>3. IInv /\ LeavingInv /\ [Next]_vars => [Mirror!Next]_(Mirror!mirrorVars)
  BY NextManaged, MirrorStep DEF IInv
<1> QED
  BY <1>2, <1>3, Inductive, LeavingInit, MirrorInit, PTL
     DEF Spec, MirrorsTenant, Mirror!Spec

=============================================================================
