-------------------------- MODULE DashboardProofs --------------------------
(***************************************************************************)
(* Proofs about the DynatraceDashboard controller, for all constants.      *)
(* Each of its actions is a step that ManagedProofs speaks of; what is     *)
(* left to do here is NamesInv, over the loop that reads the IDs one by    *)
(* one, and the property of the tiles that rests on it.                    *)
(***************************************************************************)
EXTENDS DashboardReconciler, ManagedProofs

USE RefsAssumption, BoundsAssumption

\* Everything that every step preserves.
LEMMA InvFacts == IInv => ManagedInv /\ NamesInv /\ TypeOK /\ PcInv
  BY DEF IInv, ManagedInv

-----------------------------------------------------------------------------
(* Each action is a step of ManagedProofs.                                 *)

LEMMA FirstCallFits ==
    ASSUME NEW o \in Objects
    PROVE  Fits(FirstCall(o), o)
<1>1. CASE ~Exists(o)
  <2>1. FirstCall(o) = "idle"
    BY <1>1 DEF FirstCall
  <2> QED
    BY <1>1, <2>1 DEF Fits, PCs, LeavingCalls
<1>2. CASE Exists(o) /\ o.del /\ (o.id = NoId \/ ~client)
  <2>1. FirstCall(o) = "unfinalize"
    BY <1>2 DEF FirstCall
  <2> QED
    BY <1>2, <2>1 DEF Fits, PCs, LeavingCalls
<1>3. CASE Exists(o) /\ o.del /\ o.id # NoId /\ client
  <2>1. FirstCall(o) = "delete"
    BY <1>3 DEF FirstCall
  <2> QED
    BY <1>3, <2>1 DEF Fits, PCs, LeavingCalls
<1>4. CASE Exists(o) /\ ~o.del /\ ~o.fin
  <2>1. FirstCall(o) = "finalize"
    BY <1>4 DEF FirstCall
  <2> QED
    BY <1>4, <2>1 DEF Fits, PCs, LeavingCalls
<1>5. CASE Exists(o) /\ ~o.del /\ o.fin
  <2>1. FirstCall(o) = "resolve"
    BY <1>5 DEF FirstCall
  <2> QED
    BY <1>5, <2>1 DEF Fits, PCs, LeavingCalls
<1> QED
  BY <1>1, <1>2, <1>3, <1>4, <1>5

LEMMA ReconcileTakes == TypeOK /\ Reconcile => Takes
<1> SUFFICES ASSUME TypeOK, Reconcile PROVE Takes
  OBVIOUS
<1>1. Fits(pc', cache)
  BY FirstCallFits DEF Reconcile, TypeOK
<1>2. queued' \in BOOLEAN
  BY Zenon DEF Reconcile
<1>3. cur' = (Exists(cache) /\ behind = 0)
  BY Zenon DEF Reconcile
<1> QED
  BY <1>1, <1>2, <1>3 DEF Reconcile, Takes

LEMMA NoTrouble == TypeOK /\ (UNCHANGED trouble \/ Meet("k8s")) => TroubleOK
  BY DEF TypeOK, Meet, TroubleOK

LEMMA AddFinalizerHolds == TypeOK /\ AddFinalizer => Holds \/ Returns
  BY NoTrouble DEF AddFinalizer, Holds, Returns

LEMMA RemoveFinalizerUnholds == TypeOK /\ RemoveFinalizer => Unholds \/ Returns
  BY NoTrouble DEF RemoveFinalizer, Unholds, Returns

LEMMA NoClientReturns == TypeOK /\ NoClient => Returns
  BY NoTrouble DEF NoClient, Returns

\* Sequences of the same length that agree everywhere are the same.
LEMMA SameSeq ==
    ASSUME NEW S, NEW s \in Seq(S), NEW t \in Seq(S), Len(s) = Len(t),
           \A k \in 1..Len(s) : s[k] = t[k]
    PROVE  s = t
  OBVIOUS

\* The names the worker's copy lists are names.
LEMMA CopyRefs ==
    ASSUME IInv, pc # "idle"
    PROVE  copy.refs \in Seq(SLONames)
<1>1. copy \in CRs
  BY InvFacts, AbsentFacts DEF TypeOK, PcInv
<1> QED
  BY <1>1 DEF CRs

\* What the worker has read in full are IDs, labelled in the order of its copy.
LEMMA PayloadFacts ==
    ASSUME IInv, pc = "apply"
    PROVE  LET pay == DashboardPayload(copy, sloNames, sloIDs)
           IN /\ pay \in Payloads /\ pay.gen = copy.gen
              /\ pay.ids = sloIDs /\ pay.labels = copy.refs
<1>1. TypeOK /\ NamesInv
  BY InvFacts
<1>2. copy.gen \in 0..(MaxRev + 1)
  BY <1>1, AbsentFacts DEF TypeOK
<1>3. copy.refs \in Seq(SLONames) /\ sloNames \in Seq(SLONames)
      /\ sloIDs \in Seq(SLOIds \cup {NoId})
  BY <1>1, CopyRefs DEF TypeOK, NamesInv
<1>4. /\ pending = 0 /\ Len(sloNames) = Len(sloIDs) /\ Len(sloIDs) = Len(copy.refs)
      /\ \A k \in 1..Len(sloIDs) : /\ <<sloNames[k], sloIDs[k]>> \in assigned
                                  /\ sloNames[k] = copy.refs[k]
  BY <1>1 DEF NamesInv
<1>5. sloIDs \in Seq(SLOIds)
  <2>1. assigned \subseteq SLONames \X SLOIds
    BY <1>1 DEF TypeOK
  <2>2. ASSUME NEW k \in 1..Len(sloIDs)
        PROVE  sloIDs[k] \in SLOIds
    BY <1>4, <2>1
  <2> QED
    BY <1>3, <2>2, SeqOver
<1>6. sloNames = copy.refs
  BY <1>3, <1>4, SameSeq
<1> QED
  BY <1>2, <1>3, <1>5, <1>6 DEF DashboardPayload, Payloads

LEMMA AppendFacts ==
    ASSUME NEW S, NEW s \in Seq(S), NEW e \in S
    PROVE  /\ Append(s, e) \in Seq(S)
           /\ Len(Append(s, e)) = Len(s) + 1
           /\ Append(s, e)[Len(s) + 1] = e
           /\ \A k \in 1..Len(s) : Append(s, e)[k] = s[k]
  OBVIOUS

\* One round of the loop over spec.sloRefs.
LEMMA ResolveSLOFacts ==
    ASSUME IInv, ResolveSLO
    PROVE  Resolves /\ NamesInv'
<1> USE DEF sloVars
<1>1. TypeOK /\ NamesInv /\ pc = "resolve"
  BY InvFacts DEF ResolveSLO
<1>2. /\ copy.refs \in Seq(SLONames) /\ sloIDs \in Seq(SLOIds \cup {NoId})
      /\ sloNames \in Seq(SLONames) /\ pending \in Nat
      /\ Len(sloNames) = Len(sloIDs) /\ Len(sloIDs) \in Nat /\ Len(copy.refs) \in Nat
      /\ Seen \in Nat /\ Seen < Len(copy.refs)
      /\ slos \in [SLONames -> 0..Missing]
      /\ assigned \subseteq SLONames \X SLOIds
  BY <1>1, CopyRefs DEF TypeOK, NamesInv, ResolveSLO, Seen
<1> DEFINE n == Len(sloIDs) + 1
           ref == copy.refs[Seen + 1]
<1>3. ref \in SLONames
  <2>1. \A l, m \in Nat : l < m => l + 1 \in 1..m
    OBVIOUS
  <2>2. Seen + 1 \in 1..Len(copy.refs)
    BY <1>2, <2>1
  <2> QED
    BY <1>2, <2>2
<1>4. UNCHANGED <<copy, slos, assigned>>
  BY DEF ResolveSLO
<1>5. CASE slos[ref] = Missing /\ pc' = "fail" /\ UNCHANGED <<sloIDs, sloNames, pending>>
  <2>1. NamesInv'
    BY <1>1, <1>4, <1>5 DEF NamesInv, HeldCalls
  <2>2. Resolves
    BY <1>2, <1>5 DEF Resolves, ResolveSLO
  <2> QED
    BY <2>1, <2>2
\* From the first one passed over, the labels need not follow the list.
<1>6. CASE pending' = pending + 1 /\ UNCHANGED <<pc, sloIDs, sloNames>>
  <2>1. pending' \in Nat /\ pending' # 0 /\ Seen' <= Len(copy.refs)
    BY <1>2, <1>6 DEF Seen
  <2>2. NamesInv'
    BY <1>1, <1>4, <1>6, <2>1 DEF NamesInv, HeldCalls
  <2>3. Resolves
    BY <1>2, <1>6 DEF Resolves, ResolveSLO
  <2> QED
    BY <2>2, <2>3
<1>7. CASE /\ slos[ref] \notin {NoId, Missing}
           /\ sloIDs' = Append(sloIDs, slos[ref])
           /\ sloNames' = Append(sloNames, ref)
           /\ UNCHANGED <<pc, pending>>
  <2> DEFINE e == slos[ref]
  <2>1. <<ref, e>> \in assigned /\ e \in SLOIds
    <3>1. <<ref, e>> \in assigned
      BY <1>1, <1>3, <1>7 DEF NamesInv
    <3> QED
      BY <1>2, <3>1
  <2>2. /\ sloIDs' \in Seq(SLOIds \cup {NoId}) /\ Len(sloIDs') = n /\ sloIDs'[n] = e
        /\ \A k \in 1..Len(sloIDs) : sloIDs'[k] = sloIDs[k]
    BY <1>2, <1>7, <2>1, AppendFacts
  <2>3. /\ sloNames' \in Seq(SLONames) /\ Len(sloNames') = n /\ sloNames'[n] = ref
        /\ \A k \in 1..Len(sloIDs) : sloNames'[k] = sloNames[k]
    BY <1>2, <1>3, <1>7, AppendFacts
  <2>4. pc' = "resolve" /\ pending' = pending
    BY <1>1, <1>7
  <2>5. Resolves
    BY <1>7, <2>2, <2>4 DEF Resolves, ResolveSLO
  <2>6. ASSUME NEW k \in 1..Len(sloIDs')
        PROVE  /\ <<sloNames'[k], sloIDs'[k]>> \in assigned
               /\ pending = 0 => sloNames'[k] = copy.refs[k]
    <3>1. \A l \in Nat : \A j \in 1..(l + 1) : j \in 1..l \/ j = l + 1
      OBVIOUS
    <3>2. k \in 1..Len(sloIDs) \/ k = n
      BY <1>2, <2>2, <3>1
    <3>3. CASE k \in 1..Len(sloIDs)
      BY <1>1, <2>2, <2>3, <3>3 DEF NamesInv
    <3>4. CASE k = n
      <4>1. pending = 0 => Seen + 1 = n
        BY <1>2 DEF Seen
      <4> QED
        BY <2>1, <2>2, <2>3, <3>4, <4>1
    <3> QED
      BY <3>2, <3>3, <3>4
  <2>7. Seen' <= Len(copy.refs)
    BY <1>2, <2>2, <2>4 DEF Seen
  <2>8. NamesInv'
    BY <1>1, <1>2, <1>4, <2>2, <2>3, <2>4, <2>6, <2>7 DEF NamesInv, HeldCalls
  <2> QED
    BY <2>5, <2>8
<1> QED
  BY <1>5, <1>6, <1>7 DEF ResolveSLO

\* Where the locals stay, or go with the call that had them, so does what is
\* known of them.
LEMMA ScopeKeeps ==
    ASSUME NamesInv, Scope, UNCHANGED <<slos, assigned>>,
           \/ pc' = "idle"
           \/ UNCHANGED <<pc, copy, sloIDs>>
           \/ pc \in HeldCalls /\ pc' \in HeldCalls /\ pc' \notin {"resolve", "apply"}
    PROVE  NamesInv'
<1>1. CASE pc' = "idle"
  <2>1. sloNames' = <<>> /\ pending' = 0 /\ <<>> \in Seq(SLONames)
    BY <1>1 DEF Scope
  <2> QED
    BY <1>1, <2>1 DEF NamesInv, HeldCalls
<1>2. CASE pc' # "idle"
  <2>1. UNCHANGED <<sloNames, pending>>
    BY <1>2 DEF Scope
  <2> QED
    BY <1>2, <2>1 DEF NamesInv, HeldCalls, Seen
<1> QED
  BY <1>1, <1>2

\* The end of the loop: nothing in it is still pending.
LEMMA BuildDashboardFacts ==
    ASSUME IInv, BuildDashboard
    PROVE  (Resolves \/ Returns) /\ NamesInv'
<1> USE DEF sloVars
<1>1. TypeOK /\ NamesInv /\ pc = "resolve" /\ Seen = Len(copy.refs) /\ Scope
      /\ UNCHANGED <<client, sloVars, dtVars, trouble>>
  BY InvFacts DEF BuildDashboard
<1>2. CASE Requeue
  <2>1. Returns
    BY <1>1, <1>2, NoTrouble DEF Returns
  <2>2. NamesInv'
    BY <1>1, <1>2, ScopeKeeps DEF Requeue, Finish
  <2> QED
    BY <2>1, <2>2
<1>3. CASE /\ pending = 0
           /\ pc' = "apply"
           /\ UNCHANGED <<k8sVars, informerVars, queued, copy, cur, sloIDs, dtID>>
  <2>1. UNCHANGED <<sloNames, pending, copy, sloIDs, slos, assigned>>
    BY <1>1, <1>3 DEF Scope
  <2>2. Len(sloIDs) = Len(copy.refs)
    <3>1. Len(sloIDs) \in Nat
      BY <1>1 DEF TypeOK
    <3> QED
      BY <1>1, <1>3, <3>1 DEF Seen
  <2>3. NamesInv'
    BY <1>1, <1>3, <2>1, <2>2 DEF NamesInv, HeldCalls, Seen
  <2>4. Resolves
    BY <1>1, <1>3 DEF Resolves, TypeOK
  <2> QED
    BY <2>3, <2>4
<1> QED
  BY <1>2, <1>3 DEF BuildDashboard

LEMMA ApplyFacts ==
    ASSUME IInv, ApplyDashboard
    PROVE  /\ DashboardPayload(copy, sloNames, sloIDs) \in Payloads
           /\ Applies(DashboardPayload(copy, sloNames, sloIDs))
<1>1. DashboardPayload(copy, sloNames, sloIDs) \in Payloads
      /\ DashboardPayload(copy, sloNames, sloIDs).gen = copy.gen
  BY PayloadFacts DEF ApplyDashboard
<1> QED
  BY <1>1 DEF Applies, ApplyDashboard

\* Both status patches.
StatusPatch ==
    \E i \in 0..MaxIds, g \in 0..MaxRev, c \in Conditions :
       Patches([copy EXCEPT !.id = i, !.obs = g, !.cond = c])

LEMMA RecordSyncFacts == IInv /\ RecordSync => StatusPatch \/ Returns
<1> SUFFICES ASSUME IInv, RecordSync PROVE StatusPatch \/ Returns
  OBVIOUS
<1>1. TypeOK /\ PcInv
  BY InvFacts
<1>2. copy \in CRs /\ dtID \in 0..MaxIds /\ pc = "patch"
  BY <1>1, AbsentFacts DEF TypeOK, PcInv, RecordSync
<1>3. CASE Meet("k8s") /\ Requeue
  BY <1>1, <1>3, NoTrouble DEF Returns, RecordSync
<1>4. ASSUME NEW touched \in BOOLEAN, UNCHANGED trouble,
             PatchStatus(Synced(dtID, copy.gen), dtID # copy.id, touched)
      PROVE  StatusPatch
  <2> DEFINE g == copy.gen
             c == <<"True", copy.gen>>
             n == [copy EXCEPT !.id = dtID, !.obs = g, !.cond = c]
  <2>1. g \in 0..MaxRev /\ c \in Conditions
    BY <1>2, AbsentFacts DEF Conditions
  <2>2. n.id = dtID /\ n.obs = g /\ n.cond = c
    BY <1>2 DEF CRs
  <2>3. n = Synced(dtID, copy.gen)
    BY DEF Synced
  <2>4. TroubleOK /\ UNCHANGED <<client, sloVars, dtVars>>
    BY <1>1, <1>4, NoTrouble DEF RecordSync
  <2>5. (dtID # copy.id) \in BOOLEAN
    OBVIOUS
  <2> HIDE DEF n, g, c
  <2>6. PatchStatus(n, dtID # copy.id, touched)
    BY <1>4, <2>3
  <2>7. Patches(n)
    BY <1>2, <2>1, <2>2, <2>4, <2>5, <2>6 DEF Patches
  <2> QED
    BY <1>2, <2>1, <2>7 DEF StatusPatch, n
<1> QED
  BY <1>3, <1>4 DEF RecordSync

LEMMA SetFailedFacts == IInv /\ SetFailed => StatusPatch \/ Returns
<1> SUFFICES ASSUME IInv, SetFailed PROVE StatusPatch \/ Returns
  OBVIOUS
<1>1. TypeOK /\ PcInv
  BY InvFacts
<1>2. copy \in CRs /\ pc = "fail"
  BY <1>1, AbsentFacts DEF TypeOK, PcInv, SetFailed
<1>3. CASE Meet("k8s") /\ Requeue
  BY <1>1, <1>3, NoTrouble DEF Returns, SetFailed
<1>4. ASSUME NEW reworded \in BOOLEAN, NEW touched \in BOOLEAN, UNCHANGED trouble,
             PatchStatus([copy EXCEPT !.cond = <<"False", 0>>], reworded, touched)
      PROVE  StatusPatch
  <2> DEFINE i == copy.id
             g == copy.obs
             c == <<"False", 0>>
             n == [copy EXCEPT !.id = i, !.obs = g, !.cond = c]
  <2>1. i \in 0..MaxIds /\ g \in 0..MaxRev /\ c \in Conditions
    BY <1>2 DEF Conditions, CRs
  <2>2. n.id = i /\ n.obs = g /\ n.cond = c
    BY <1>2 DEF CRs
  <2>3. n = [copy EXCEPT !.cond = <<"False", 0>>]
    BY <1>2 DEF CRs
  <2>4. TroubleOK /\ UNCHANGED <<client, sloVars, dtVars>>
    BY <1>1, <1>4, NoTrouble DEF SetFailed
  <2> HIDE DEF n, g, c
  <2>5. PatchStatus(n, reworded, touched)
    BY <1>4, <2>3
  <2>6. Patches(n)
    BY <1>2, <2>1, <2>2, <2>4, <2>5 DEF Patches
  <2> QED
    BY <2>1, <2>6 DEF StatusPatch, n
<1> QED
  BY <1>3, <1>4 DEF SetFailed

LEMMA SLOEventMoves == TypeOK /\ SLOEvent => SLOMoves
  BY DEF TypeOK, SLOEvent, SLOMoves

LEMMA NextManaged == IInv /\ [Next]_dashVars => ManagedStep \/ UNCHANGED vars
<1> SUFFICES ASSUME IInv, Next PROVE ManagedStep
  BY DEF dashVars
<1>1. TypeOK
  BY InvFacts
<1>2. DeleteDashboard => Deletes
  BY DEF DeleteDashboard, Deletes
<1>3. ApplyDashboard => WorkerStep
  BY ApplyFacts DEF WorkerStep
<1>4. StatusPatch => WorkerStep
  BY DEF StatusPatch, WorkerStep
<1> QED
  BY <1>1, <1>2, <1>3, <1>4, ReconcileTakes, AddFinalizerHolds, ResolveSLOFacts,
     BuildDashboardFacts, NoClientReturns, RecordSyncFacts, SetFailedFacts,
     RemoveFinalizerUnholds, SLOEventMoves
     DEF Next, Work, ManagedStep, WorkerStep

-----------------------------------------------------------------------------
(* The invariant.                                                          *)

LEMMA SLOEventNames == IInv /\ SLOEvent => NamesInv'
<1> SUFFICES ASSUME IInv, Scope, NEW s \in SLONames, SLOStep(s) PROVE NamesInv'
  BY DEF SLOEvent
<1>1. TypeOK /\ NamesInv
  BY InvFacts
<1>2. assigned \subseteq assigned' /\ UNCHANGED <<pc, copy, sloIDs>>
  BY DEF SLOStep, workerVars
<1>3. ASSUME NEW r \in SLONames, slos'[r] \notin {NoId, Missing}
      PROVE  <<r, slos'[r]>> \in assigned'
  <2>1. slos \in [SLONames -> 0..Missing]
    BY <1>1 DEF TypeOK
  <2>2. CASE slos'[r] = slos[r]
    BY <1>1, <1>2, <1>3, <2>2 DEF NamesInv
  <2>3. CASE slos'[r] # slos[r]
    BY <1>3, <2>1, <2>3 DEF SLOStep
  <2> QED
    BY <2>2, <2>3
<1>4. UNCHANGED <<sloNames, pending>>
  BY <1>1, <1>2 DEF Scope, NamesInv, HeldCalls
<1> QED
  BY <1>1, <1>2, <1>3, <1>4 DEF NamesInv, Seen

LEMMA NamesStep == IInv /\ [Next]_dashVars => NamesInv'
<1> SUFFICES ASSUME IInv, [Next]_dashVars PROVE NamesInv'
  OBVIOUS
<1>1. NamesInv /\ PcInv /\ TypeOK
  BY InvFacts
\* Outside the calls that have them, the locals are empty and stay so.
<1>2. ASSUME Scope, UNCHANGED <<slos, assigned, sloIDs>>, pc \notin HeldCalls,
             pc' # "apply", copy'.refs \in Seq(SLONames)
      PROVE  NamesInv'
  <2>1. sloIDs = <<>> /\ sloNames = <<>> /\ pending = 0
    BY <1>1, <1>2 DEF PcInv, NamesInv
  <2>2. sloIDs' = <<>> /\ sloNames' = <<>> /\ pending' = 0
    BY <1>2, <2>1 DEF Scope
  <2>3. Len(sloIDs') = 0 /\ Seen' = 0 /\ Len(copy'.refs) \in Nat
    BY <1>2, <2>2 DEF Seen
  <2> QED
    BY <1>1, <1>2, <2>2, <2>3 DEF NamesInv
<1>3. CASE Reconcile
  <2>1. /\ pc = "idle" /\ pc' # "apply" /\ copy' = cache /\ cache \in Objects
        /\ UNCHANGED <<slos, assigned, sloIDs>> /\ Scope
    BY <1>1, <1>3, ReconcileTakes
       DEF Takes, Fits, PCs, PcInv, HeldCalls, TypeOK, Reconcile, sloVars
  <2>2. cache.refs \in Seq(SLONames)
    <3>1. Absent.refs = <<>>
      BY DEF Absent, NewObject
    <3>2. <<>> \in Seq(SLONames)
      OBVIOUS
    <3>3. \A o \in CRs : o.refs \in Seq(SLONames)
      BY DEF CRs
    <3> QED
      BY <2>1, <3>1, <3>2, <3>3 DEF Objects
  <2> QED
    BY <1>2, <2>1, <2>2 DEF HeldCalls
<1>4. CASE AddFinalizer
  <2>1. copy \in CRs /\ pc = "finalize" /\ Scope /\ UNCHANGED <<slos, assigned>>
    BY <1>1, <1>4, AbsentFacts DEF AddFinalizer, TypeOK, PcInv, sloVars
  <2>2. [copy EXCEPT !.fin = TRUE].refs \in Seq(SLONames)
    BY <2>1 DEF CRs
  <2>3. CASE Requeue
    BY <1>1, <2>1, <2>3, ScopeKeeps DEF Requeue, Finish
  <2>4. CASE pc' = "resolve" /\ copy' = [copy EXCEPT !.fin = TRUE] /\ UNCHANGED sloIDs
    BY <1>2, <2>1, <2>2, <2>4 DEF HeldCalls
  <2> QED
    BY <1>4, <2>3, <2>4 DEF AddFinalizer
<1>5. CASE NoClient \/ RemoveFinalizer
  BY <1>1, <1>5, ScopeKeeps DEF NoClient, RemoveFinalizer, Requeue, Finish, sloVars
<1>6. CASE ApplyDashboard
  BY <1>1, <1>6, ScopeKeeps DEF ApplyDashboard, sloVars, HeldCalls
<1>7. CASE DeleteDashboard
  <2>1. CASE Requeue
    BY <1>1, <1>7, <2>1, ScopeKeeps DEF DeleteDashboard, Requeue, Finish, sloVars
  <2>2. CASE pc' = "unfinalize" /\ UNCHANGED <<copy, sloIDs>>
    <3>1. pc = "delete" /\ Scope /\ copy \in CRs /\ UNCHANGED <<slos, assigned>>
      BY <1>1, <1>7, AbsentFacts DEF DeleteDashboard, TypeOK, PcInv, sloVars
    <3>2. copy'.refs \in Seq(SLONames)
      BY <2>2, <3>1 DEF CRs
    <3> QED
      BY <1>2, <2>2, <3>1, <3>2 DEF HeldCalls
  <2> QED
    BY <1>7, <2>1, <2>2 DEF DeleteDashboard
<1>8. CASE RecordSync \/ SetFailed
  <2>1. StatusPatch \/ Returns
    BY <1>8, RecordSyncFacts, SetFailedFacts
  <2>2. Finish
    <3>1. ASSUME NEW new, NEW w, NEW t, PatchStatus(new, w, t)
          PROVE  Finish
      BY <3>1 DEF PatchStatus, Requeue
    <3> QED
      BY <2>1, <3>1 DEF StatusPatch, Patches, Returns, Requeue
  <2> QED
    BY <1>1, <1>8, <2>2, ScopeKeeps DEF RecordSync, SetFailed, sloVars, Finish
<1>9. CASE Surroundings /\ Scope
  <2>1. CASE Deliver \/ CreateCR \/ EditSpec \/ DeleteCR \/ ChangeInUI
    BY <1>1, <1>9, <2>1, ScopeKeeps
       DEF Deliver, CreateCR, EditSpec, DeleteCR, ChangeInUI, workerVars, sloVars
  <2>2. CASE Restart
    BY <1>1, <1>9, <2>2, ScopeKeeps DEF Restart, Finish, sloVars
  <2> QED
    BY <1>9, <2>1, <2>2 DEF Surroundings
<1>10. CASE UNCHANGED dashVars
  BY <1>1, <1>10 DEF NamesInv, dashVars, vars, Seen
<1> QED
  BY <1>3, <1>4, <1>5, <1>6, <1>7, <1>8, <1>9, <1>10, ResolveSLOFacts,
     BuildDashboardFacts, SLOEventNames DEF Next, Work

\* The state of the dashboard controller, of its object, its SLOs and the tenant
\* keeps the types of TypeOK, and a copy in the worker's hands means what
\* Reconcile takes it to mean however old it is: the finalizer is there before
\* any request, a recorded ID was assigned, and each ID the loop has read is one
\* that the SLO of the label beside it had
\* (dynatracedashboard_controller.go, 46-178).
THEOREM Inductive == Spec => []IInv
<1>1. InitDashboard => IInv
  <2> SUFFICES ASSUME InitDashboard PROVE IInv
    OBVIOUS
  <2>1. ManagedInv
    BY ManagedInit DEF InitDashboard
  <2>2. <<>> \in Seq(SLONames)
    OBVIOUS
  <2>3. NamesInv
    BY <2>2 DEF InitDashboard, Init, NamesInv
  <2> QED
    BY <2>1, <2>3 DEF IInv
<1>2. IInv /\ [Next]_dashVars => IInv'
  BY NextManaged, ManagedKeeps, NamesStep DEF IInv
<1> QED
  BY <1>1, <1>2, PTL DEF Spec

-----------------------------------------------------------------------------
(* The properties of the steps.                                            *)

LEMMA TilesMatchLabelsStep ==
    ASSUME IInv, [Next]_dashVars, NEW i \in Ids,
           tenant'[i] # tenant[i], pc = "apply", pc' # "apply"
    PROVE  /\ tenant'[i].labels = copy.refs
           /\ Len(tenant'[i].ids) = Len(copy.refs)
           /\ \A k \in 1..Len(copy.refs) :
                <<copy.refs[k], tenant'[i].ids[k]>> \in assigned
<1>1. ApplyDashboard
  <2>1. ~Reconcile /\ ~AddFinalizer /\ ~NoClient /\ ~ResolveSLO
        /\ ~BuildDashboard /\ ~RecordSync /\ ~SetFailed /\ ~DeleteDashboard
        /\ ~RemoveFinalizer
    BY DEF Reconcile, AddFinalizer, NoClient, ResolveSLO, BuildDashboard,
           RecordSync, SetFailed, DeleteDashboard, RemoveFinalizer
  <2>2. ~SLOEvent
    BY DEF SLOEvent, SLOStep, dtVars
  <2>3. ~Surroundings /\ ~UNCHANGED dashVars
    BY DEF Surroundings, Deliver, Restart, CreateCR, EditSpec, DeleteCR,
           ChangeInUI, vars, dashVars, workerVars, dtVars
  <2> QED
    BY <2>1, <2>2, <2>3 DEF Next, Work
<1>2. tenant'[i].ids = sloIDs /\ tenant'[i].labels = copy.refs
  BY <1>1, InvFacts, ApplyFacts, PayloadFacts, AppliesStores
<1>3. NamesInv
  BY InvFacts
<1>4. Len(sloIDs) = Len(copy.refs)
      /\ \A k \in 1..Len(sloIDs) : <<copy.refs[k], sloIDs[k]>> \in assigned
  BY <1>3 DEF NamesInv
<1> QED
  BY <1>2, <1>4

\* A dashboard is stored in the tenant with all the SLOs it lists, and each tile
\* shows an ID that the SLO it is labelled with had, whatever the SLOs went
\* through while the loop was reading them (lines 74-143).
THEOREM TilesMatchLabelsHolds == Spec => TilesMatchLabels
<1>1. IInv /\ [Next]_dashVars =>
        [\A i \in Ids : tenant'[i] # tenant[i] /\ pc = "apply" /\ pc' # "apply"
           => /\ tenant'[i].labels = copy.refs
              /\ Len(tenant'[i].ids) = Len(copy.refs)
              /\ \A k \in 1..Len(copy.refs) :
                   <<copy.refs[k], tenant'[i].ids[k]>> \in assigned]_dashVars
  BY TilesMatchLabelsStep
<1> QED
  BY <1>1, Inductive, PTL DEF Spec, TilesMatchLabels

\* A process that has a client lets go of a deleted dashboard only after the tenant
\* has (lines 181-198).
THEOREM CleanDeleteHolds == Spec => CleanDelete
<1>1. IInv /\ [Next]_dashVars =>
        [client /\ Exists(obj) /\ obj.fin /\ ~Exists(obj')
           => obj.id = NoId \/ ~Live(obj.id)]_dashVars
  BY NextManaged, CleanStep DEF IInv
<1> QED
  BY <1>1, Inductive, PTL DEF Spec, CleanDelete

\* The dashboard controller implements TenantMirror, step by step, as long as nobody
\* deletes in the UI and the credentials stay: dashboards are made under the
\* finalizer only, never under a used ID, recorded while they exist, destroyed
\* for a deleted object only, and gone before the object that records them.
THEOREM Refinement ==
    ASSUME Calm
    PROVE  Spec => MirrorsTenant
<1>1. ManagedInv /\ LeavingInv /\ (ManagedStep \/ UNCHANGED vars) => LeavingInv'
  BY LeavingStep
<1>2. IInv /\ LeavingInv /\ [Next]_dashVars => LeavingInv'
  BY <1>1, NextManaged DEF IInv
<1>3. IInv /\ LeavingInv /\ [Next]_dashVars => [Mirror!Next]_(Mirror!mirrorVars)
  BY NextManaged, MirrorStep DEF IInv
<1>4. InitDashboard => LeavingInv /\ Mirror!Init
  BY LeavingInit, MirrorInit DEF InitDashboard
<1> QED
  BY <1>2, <1>3, <1>4, Inductive, PTL
     DEF Spec, MirrorsTenant, Mirror!Spec

=============================================================================
