---------------------------- MODULE MirrorProofs ----------------------------
(***************************************************************************)
(* The DynatraceSLO controller implements TenantMirror, for all constants, *)
(* when an edit cannot move the object to another environment, no request  *)
(* outlives its timeout and nobody deletes SLOs in the Dynatrace UI.       *)
(***************************************************************************)
EXTENDS SLOProofs

USE EnvsAssumption, BoundsAssumption

\* Who may be in trouble, and how.
Calm == /\ EnvMutable = FALSE
        /\ "late" \notin Troubles
        /\ "uiDelete" \notin Troubles

\* Nothing comes to life or dies.
LivesSame ==
    \A j \in Ids : /\ tenant'[j].env = NoEnv <=> tenant[j].env = NoEnv
                   /\ tenant'[j].pay = Gone <=> tenant[j].pay = Gone

\* ApplySLO's POST under the ID i.
Creates(i) ==
    /\ ApplySLO /\ slo.id = NoId
    /\ tenant[i].env = NoEnv /\ tenant'[i].env = slo.env /\ tenant'[i].pay = slo.gen
    /\ \A j \in Ids : j # i => tenant'[j] = tenant[j]

\* DeleteSLO's DELETE, executed.
Destroys ==
    /\ DeleteSLO /\ slo.id \in Ids /\ Live(slo.id)
    /\ tenant'[slo.id].env = tenant[slo.id].env /\ tenant'[slo.id].pay = Gone
    /\ \A j \in Ids : j # slo.id => tenant'[j] = tenant[j]

LEMMA CalmLate ==
    ASSUME Calm, late = {}, [Next]_vars
    PROVE  late' = {}
<1>1. ASSUME NEW rq, Succeeds(rq, rq.id) \/ NotFound(rq) \/ Fails(rq)
      PROVE  late' = late
  BY <1>1 DEF Calm, Succeeds, NotFound, Fails, Meet, dtVars
<1>2. CASE ApplySLO
  BY <1>2, Zenon DEF Calm, ApplySLO, Succeeds, NotFound, Fails, Meet, dtVars
<1>3. CASE DeleteSLO
  BY <1>3 DEF Calm, DeleteSLO, Succeeds, NotFound, Fails, Meet, dtVars
<1>4. CASE late' = late \/ LateArrives
  BY <1>4 DEF LateArrives
<1> QED
  BY <1>2, <1>3, <1>4
     DEF Next, Work, vars, Reconcile, AddFinalizer, BuildPayload, RecordSync,
         SetFailed, RemoveFinalizer, Deliver, Restart, CreateCR, EditSpec,
         DeleteCR, ChangeInUI, RotateToken, dtVars

LEMMA CalmTenants ==
    ASSUME Calm, late = {}, IInv, TypeInv, [Next]_vars
    PROVE  LivesSame \/ Destroys \/ \E i \in Ids : Creates(i)
<1>0. TypeOK /\ BusyInv
  BY DEF TypeInv
<1>1. CASE ApplySLO
  <2>1. /\ ApplyRequest \in Requests /\ ApplyRequest.id = slo.id
        /\ ApplyRequest.env = slo.env /\ ApplyRequest.pay = slo.gen
        /\ slo.gen # Gone /\ slo.env # NoEnv
    BY <1>0, <1>1, RequestFacts DEF ApplySLO, BusyInv, Revs, Gone, Requests
  <2>2. CASE UNCHANGED <<tenant, accepted>>
    BY <2>2 DEF LivesSame
  <2>3. ASSUME NEW i \in Ids, Finds(ApplyRequest, i), Land(ApplyRequest, i)
        PROVE  LivesSame \/ Creates(i)
    <3>1. /\ tenant'[i] = [env |-> ApplyRequest.env, pay |-> ApplyRequest.pay]
          /\ \A k \in Ids : k # i => tenant'[k] = tenant[k]
      BY <1>0, <2>1, <2>3, LandFacts
    <3>2. tenant'[i].env = slo.env /\ tenant'[i].pay = slo.gen
      BY <2>1, <3>1
    <3>3. CASE slo.id = NoId
      BY <1>1, <2>1, <2>3, <3>1, <3>2, <3>3 DEF Creates, Finds, Fresh
    <3>4. CASE slo.id # NoId
      <4>1. tenant[i].env = slo.env /\ tenant[i].pay # Gone
        BY <2>1, <2>3, <3>4 DEF Finds, Live
      <4> QED
        BY <2>1, <3>1, <3>2, <4>1 DEF LivesSame
    <3> QED
      BY <3>3, <3>4
  <2>4. \/ UNCHANGED <<tenant, accepted>>
        \/ \E i \in Ids : Finds(ApplyRequest, i) /\ Land(ApplyRequest, i)
    BY <1>1, OutcomeFacts DEF ApplySLO
  <2> QED
    BY <2>2, <2>3, <2>4
<1>2. CASE DeleteSLO
  <2> DEFINE rq == [id |-> slo.id, env |-> slo.env, pay |-> Gone]
  <2>1. /\ rq \in Requests /\ slo.id \in Ids /\ rq.id = slo.id /\ rq.id # NoId
        /\ rq.pay = Gone
    BY <1>0, <1>2, RequestFacts, AbsentFacts
       DEF DeleteSLO, BusyInv, TypeOK, CRs, Ids, NoId
  <2>2. \/ Succeeds(rq, slo.id) \/ NotFound(rq) \/ Fails(rq)
        \/ UNCHANGED <<dtVars, trouble>>
    BY <1>2 DEF DeleteSLO
  <2> HIDE DEF rq
  <2>3. \/ UNCHANGED <<tenant, accepted>>
        \/ \E i \in Ids : Finds(rq, i) /\ Land(rq, i)
    BY <2>1, <2>2, OutcomeFacts DEF dtVars
  <2>4. CASE UNCHANGED <<tenant, accepted>>
    BY <2>4 DEF LivesSame
  <2>5. ASSUME NEW i \in Ids, Finds(rq, i), Land(rq, i)
        PROVE  Destroys
    <3>1. /\ tenant'[i] = [env |-> rq.env, pay |-> rq.pay]
          /\ \A k \in Ids : k # i => tenant'[k] = tenant[k]
      BY <1>0, <2>1, <2>5, LandFacts
    <3>2. i = slo.id /\ tenant[i].env = rq.env /\ Live(i)
      BY <2>1, <2>5 DEF Finds
    <3>3. tenant'[i].env = rq.env /\ tenant'[i].pay = Gone
      BY <2>1, <3>1
    <3> QED
      BY <1>2, <2>1, <3>1, <3>2, <3>3 DEF Destroys
  <2> QED
    BY <2>3, <2>4, <2>5
<1>3. CASE ChangeInUI
  <2>1. PICK k \in Ids : Live(k) /\ tenant' = [tenant EXCEPT ![k].pay = Edited]
    BY <1>3 DEF ChangeInUI, Calm, Meet
  <2>2. /\ \A j \in Ids : tenant'[j].env = tenant[j].env
        /\ \A j \in Ids : j # k => tenant'[j] = tenant[j]
        /\ tenant'[k].pay = Edited
    BY <1>0, <2>1 DEF TypeOK
  <2>3. tenant[k].pay # Gone /\ Edited # Gone
    BY <2>1 DEF Live, Edited, Gone
  <2> QED
    BY <2>2, <2>3 DEF LivesSame
<1>4. CASE tenant' = tenant \/ LateArrives
  BY <1>4 DEF LivesSame, LateArrives
<1> QED
  BY <1>1, <1>2, <1>3, <1>4
     DEF Next, Work, vars, Reconcile, AddFinalizer, BuildPayload, RecordSync,
         SetFailed, RemoveFinalizer, Deliver, Restart, CreateCR, EditSpec,
         DeleteCR, RotateToken, dtVars

\* A spec that cannot be moved names the tenant of the recorded SLO still, so
\* the DELETE that let the finalizer go reached it.
LEMMA CalmGone ==
    ASSUME Calm, IInv, pc = "unfinalize", slo.id # NoId
    PROVE  ~Live(slo.id)
<1>1. slo.envs = {slo.env}
  BY DEF Calm, IInv, EnvsInv
<1>2. tenant[slo.id].env \in slo.envs
  BY DEF IInv, PcInv
<1> QED
  BY <1>1, <1>2 DEF IInv, GoneInv

-----------------------------------------------------------------------------
(* What the promise rests on.                                              *)

LEMMA LeavingInit == Init => LeavingInv
<1> SUFFICES ASSUME Init PROVE LeavingInv
  OBVIOUS
<1>1. Copies \cup {slo} = {Absent} /\ obj = Absent /\ late = {} /\ pc = "idle"
  BY DEF Init, Copies
<1> QED
  BY <1>1, AbsentFacts DEF LeavingInv

LEMMA LeavingStep ==
    ASSUME Calm, LeavingInv, IInv, TypeInv, [Next]_vars
    PROVE  LeavingInv'
<1>0. TypeOK /\ BusyInv /\ PcInv /\ HeldInv /\ TenantsEvolve /\ late' = {}
  BY TenantStep, CalmLate DEF IInv, TypeInv, LeavingInv
<1>t. /\ Exists(obj) => obj \in CRs
      /\ pc # "idle" => slo \in CRs
  BY <1>0, AbsentFacts DEF TypeOK, BusyInv
<1>p. obj \in Copies /\ cache \in Copies
  BY DEF Copies
<1> DEFINE Alive(c) == c.del /\ c.id # NoId /\ tenant'[c.id].pay # Gone
           Marked == Exists(obj) /\ obj.del
           Recordable == pc' = "patch" /\ dtID' # slo'.id
                           => dtID' # NoId /\ tenant'[dtID'].pay # Gone
\* What is dead stays dead, so the copies there were say what they said.
<1>o. \A c \in Copies \cup {slo} : Alive(c) => Marked
  <2>1. \A c \in Copies \cup {slo} : c.id # NoId => c.id \in Ids /\ tenant[c.id].env # NoEnv
    BY <1>0, CopyFacts DEF IInv, TenantInv, PcInv
  <2> QED
    BY <1>0, <2>1 DEF LeavingInv, Live, TenantsEvolve
<1>q. ASSUME \A c \in Copies' \cup {slo'} : Alive(c) => Marked', Recordable
      PROVE  LeavingInv'
  BY <1>0, <1>q DEF LeavingInv, Live
\* The ID about to be recorded stays live until it is.
<1>r. ASSUME UNCHANGED <<pc, slo, dtID>>
      PROVE  Recordable
  <2> SUFFICES ASSUME pc = "patch", dtID # slo.id
               PROVE  dtID # NoId /\ tenant'[dtID].pay # Gone
    BY <1>r
  <2>1. dtID \in Ids /\ tenant[dtID].pay # Gone
    BY <1>0 DEF LeavingInv, Live, TypeOK, Ids, NoId
  <2>2. LivesSame
    BY CalmTenants DEF LeavingInv, Creates, Destroys, ApplySLO, DeleteSLO
  <2> QED
    BY <2>1, <2>2 DEF LivesSame, Ids, NoId
<1>s. ASSUME pc' # "patch"
      PROVE  Recordable
  BY <1>s
<1> HIDE DEF Alive, Marked, Recordable
<1>e. obj' = obj => (Marked' <=> Marked)
  BY DEF Marked
<1>1. CASE Quiet \/ BuildPayload \/ Deletes
  <2>1. Copies' = Copies /\ slo' = slo /\ obj' = obj
    BY <1>1 DEF Quiet, BuildPayload, Deletes, Copies, k8sVars, informerVars
  <2>2. UNCHANGED <<pc, slo, dtID>> \/ pc' # "patch"
    BY <1>1 DEF Quiet, BuildPayload, Deletes
  <2> QED
    BY <1>o, <1>q, <1>r, <1>s, <1>e, <2>1, <2>2
<1>2. CASE Deliver
  <2>1. Copies' \subseteq Copies /\ UNCHANGED <<pc, slo, dtID>> /\ obj' = obj
    BY <1>0, <1>2, DeliverFacts DEF Deliver, workerVars, k8sVars
  <2> QED
    BY <1>o, <1>q, <1>r, <1>e, <2>1
<1>3. CASE Reconcile
  <2>1. /\ Copies' = Copies /\ slo' = cache /\ pc' = FirstCall(cache) /\ obj' = obj
    BY <1>3 DEF Reconcile, Copies, k8sVars, informerVars
  <2>2. pc' # "patch"
    BY <1>0, <2>1, FirstCallFacts DEF TypeOK
  <2> QED
    BY <1>o, <1>p, <1>q, <1>s, <1>e, <2>1, <2>2
<1>4. CASE ApplySLO
  <2>1. /\ Copies' = Copies /\ slo' = slo /\ obj' = obj /\ Exists(slo)
    BY <1>0, <1>4 DEF ApplySLO, Copies, k8sVars, informerVars, BusyInv
  <2>2. /\ ApplyRequest \in Requests /\ ApplyRequest.id = slo.id
        /\ ApplyRequest.pay = slo.gen /\ slo.gen # Gone
    BY <1>0, <2>1, RequestFacts DEF Revs, Gone
  <2>3. ASSUME NEW i \in Ids, Succeeds(ApplyRequest, i)
        PROVE  tenant'[i].pay # Gone /\ (slo.id # NoId => i = slo.id)
    <3>1. tenant'[i] = [env |-> ApplyRequest.env, pay |-> ApplyRequest.pay]
      BY <1>0, <2>2, <2>3, LandFacts DEF Succeeds
    <3> QED
      BY <2>2, <2>3, <3>1 DEF Succeeds, Finds
  <2>4. pc' = "patch" => \/ slo.id = NoId /\ dtID' = NoId
                         \/ dtID' \in Ids /\ tenant'[dtID'].pay # Gone
    BY <1>4, <2>3 DEF ApplySLO
  <2>5. Recordable
    BY <2>1, <2>4 DEF Recordable, Ids, NoId
  <2> QED
    BY <1>o, <1>q, <1>e, <2>1, <2>5
<1>5. CASE Returns
  <2>1. /\ Copies' \subseteq Copies /\ slo' = Absent /\ pc' # "patch" /\ obj' = obj
    BY <1>5 DEF Returns, Copies, Finish
  <2>2. ~Alive(slo')
    BY <2>1, AbsentFacts DEF Alive
  <2> QED
    BY <1>o, <1>q, <1>s, <1>e, <2>1, <2>2
\* So only the object that a write stores is left to look at.
<1>w. ASSUME NEW o \in Objects, NEW r \in BOOLEAN, Write(o, r),
             Marked \/ Alive(o) => Exists(o) /\ o.del,
             slo' = slo \/ ~Alive(slo'), Recordable
      PROVE  LeavingInv'
  <2>1. Copies' \subseteq Copies \cup {o} /\ obj' = o
    BY <1>0, <1>w, WriteFacts
  <2>2. Marked' <=> Exists(o) /\ o.del
    BY <2>1 DEF Marked
  <2> QED
    BY <1>o, <1>q, <1>w, <2>1, <2>2
<1>6. CASE Finalizes
  <2> DEFINE o == [obj EXCEPT !.fin = TRUE]
  <2>1. /\ o \in Objects /\ o.del = obj.del /\ Exists(o) /\ o.fin /\ Write(o, FALSE)
        /\ pc' # "patch"
    BY <1>6, <1>t, FinalizedFacts DEF Finalizes, UpdateAccepted
  <2>2. ~slo'.del
    BY <1>0, <1>6, <1>t, FinalizedFacts DEF Finalizes, PcInv
  <2>3. obj.del = FALSE
    BY <1>0, <1>6, <1>t DEF Finalizes, UpdateAccepted, IInv, CurInv, PcInv, CRs
  <2> HIDE DEF o
  <2> QED
    BY <1>s, <1>w, <2>1, <2>2, <2>3 DEF Alive, Marked
<1>7. CASE pc = "patch" /\ Patches(Synced(dtID, slo.gen), dtID # slo.id)
  <2> DEFINE o == Merge(slo, Synced(dtID, slo.gen), dtID # slo.id)
  <2>1. /\ obj \in CRs /\ slo \in CRs /\ dtID \in 0..MaxIds /\ Exists(obj)
        /\ Write(o, TRUE) /\ slo' = Absent /\ pc' # "patch" /\ obj.fin
    BY <1>0, <1>7, <1>t DEF Patches, Finish, TypeOK, HeldInv, HeldCalls
  <2>2. o \in Objects /\ Exists(o) /\ o.del = obj.del /\ o.fin = obj.fin
    BY <2>1, SyncedMerge
  <2>3. Alive(o) => obj.del
    BY <2>2 DEF Alive
  <2> HIDE DEF o
  <2> QED
    BY <1>s, <1>w, <2>1, <2>2, <2>3, AbsentFacts DEF Alive, Marked
<1>8. ASSUME NEW w \in BOOLEAN, pc = "fail", Patches(Failed, w)
      PROVE  LeavingInv'
  <2> DEFINE o == Merge(slo, Failed, w)
  <2>1. /\ obj \in CRs /\ slo \in CRs /\ Exists(obj)
        /\ Write(o, TRUE) /\ slo' = Absent /\ pc' # "patch" /\ obj.fin
    BY <1>0, <1>8, <1>t DEF Patches, Finish, HeldInv, HeldCalls
  <2>2. o \in Objects /\ Exists(o) /\ o.del = obj.del /\ o.fin = obj.fin
    BY <2>1, FailedMerge
  <2> HIDE DEF o
  <2> QED
    BY <1>s, <1>w, <2>1, <2>2, AbsentFacts DEF Alive, Marked
<1>9. CASE Vanishes
  <2>1. /\ slo = obj /\ watch = <<>> /\ cache = obj /\ pc' # "patch" /\ slo' = Absent
    BY <1>9 DEF Vanishes, UpdateAccepted, IInv, CurInv, PcInv, LeavingCalls, Finish
  <2>2. Copies \subseteq {obj} /\ obj' = Absent
    BY <1>9, <2>1 DEF Copies, Vanishes, Write
  <2>3. Copies' \subseteq {obj, Absent}
    BY <1>0, <1>9, <2>2, WriteFacts, AbsentFacts DEF Vanishes
  <2>4. obj.id # NoId => tenant'[obj.id].pay = Gone
    BY <1>9, <2>1, CalmGone DEF Vanishes, Live, dtVars
  <2>5. ~Alive(obj) /\ ~Alive(Absent)
    BY <2>4, AbsentFacts DEF Alive
  <2> QED
    BY <1>q, <1>s, <2>1, <2>3, <2>5
<1>10. CASE CreateCR
  <2>1. PICK e \in Envs, ok \in BOOLEAN :
          /\ rev + 1 \in Revs
          /\ NewObject(rev + 1, e, ok) \in Objects
          /\ Write(NewObject(rev + 1, e, ok), FALSE)
    BY <1>10, WrittenFacts
  <2> DEFINE o == NewObject(rev + 1, e, ok)
  <2>2. ~o.del /\ o.id = NoId
    BY <2>1, NewObjectFacts
  <2> HIDE DEF o
  <2>3. o \in Objects /\ Write(o, FALSE)
    BY <2>1 DEF o
  <2>4. ~Marked /\ UNCHANGED <<pc, slo, dtID>>
    BY <1>10 DEF CreateCR, Marked
  <2> QED
    BY <1>r, <1>w, <2>2, <2>3, <2>4 DEF Alive
<1>11. CASE EditSpec
  <2>1. PICK e \in Edits(obj.env), b \in BOOLEAN :
          /\ rev + 1 \in Revs /\ e \in Envs
          /\ [obj EXCEPT !.gen = rev + 1, !.env = e, !.envs = @ \cup {e}, !.ok = b] \in Objects
          /\ Write([obj EXCEPT !.gen = rev + 1, !.env = e, !.envs = @ \cup {e}, !.ok = b], FALSE)
    BY <1>11, WrittenFacts
  <2> DEFINE o == [obj EXCEPT !.gen = rev + 1, !.env = e, !.envs = @ \cup {e}, !.ok = b]
  <2>2. obj \in CRs
    BY <1>11, <1>t DEF EditSpec
  <2>3. o.del = obj.del /\ o.fin = obj.fin /\ o.id = obj.id
    BY <2>1, <2>2 DEF CRs
  <2> HIDE DEF o
  <2>4. o \in Objects /\ Write(o, FALSE)
    BY <2>1 DEF o
  <2>5. ~Marked /\ ~obj.del /\ Exists(obj) /\ UNCHANGED <<pc, slo, dtID>>
    BY <1>11 DEF EditSpec, Marked
  <2> QED
    BY <1>r, <1>w, <2>3, <2>4, <2>5 DEF Alive
<1>12. CASE DeleteCR
  <2> DEFINE o == IF obj.fin THEN [obj EXCEPT !.del = TRUE] ELSE Absent
  <2>1. /\ o \in Objects /\ obj \in CRs /\ Write(o, FALSE)
        /\ ~Marked /\ UNCHANGED <<pc, slo, dtID>>
    BY <1>12, WrittenFacts DEF DeleteCR, Marked
  <2>2. \/ o = Absent
        \/ Exists(o) /\ o.del /\ o.fin
    BY <2>1, MarkedFacts
  <2> HIDE DEF o
  <2> QED
    BY <1>r, <1>w, <2>1, <2>2, AbsentFacts DEF Alive
<1> QED
  BY <1>1, <1>2, <1>3, <1>4, <1>5, <1>6, <1>7, <1>8, <1>9, <1>10, <1>11,
     <1>12, StepCases

-----------------------------------------------------------------------------
(* The refinement.                                                         *)

LEMMA PhaseFacts ==
    /\ ~Exists(obj) => Phase = "none"
    /\ Exists(obj) /\ obj.del => Phase = "leaving"
    /\ Exists(obj) /\ ~obj.del /\ obj.fin => Phase = "held"
    /\ Exists(obj) /\ ~obj.del /\ ~obj.fin => Phase = "open"
<1>1. ~Exists(obj) => Phase = "none"
  BY DEF Phase
<1>2. Exists(obj) /\ obj.del => Phase = "leaving"
  BY DEF Phase
<1>3. Exists(obj) /\ ~obj.del /\ obj.fin => Phase = "held"
  BY DEF Phase
<1>4. Exists(obj) /\ ~obj.del /\ ~obj.fin => Phase = "open"
  BY DEF Phase
<1> QED
  BY <1>1, <1>2, <1>3, <1>4

Spent == {i \in Ids : tenant[i].env # NoEnv}
Lives == {i \in Ids : Live(i)}

LEMMA MirrorInit == Init => Mirror!Init
<1> SUFFICES ASSUME Init PROVE Mirror!Init
  OBVIOUS
<1>1. obj = Absent /\ Phase = "none"
  BY AbsentFacts, PhaseFacts DEF Init
<1>2. \A i \in Ids : tenant[i].env = NoEnv /\ ~Live(i)
  BY DEF Init, Live
<1> QED
  BY <1>1, <1>2, AbsentFacts DEF Mirror!Init

LEMMA MirrorStep ==
    ASSUME Calm, LeavingInv, IInv, TypeInv, [Next]_vars
    PROVE  [Mirror!Next]_(Mirror!mirrorVars)
<1>0. TypeOK /\ BusyInv /\ PcInv /\ HeldInv /\ late = {}
  BY DEF IInv, TypeInv, LeavingInv
<1>t. /\ obj \in Objects
      /\ Exists(obj) => obj \in CRs
      /\ pc # "idle" => slo \in CRs
  BY <1>0, AbsentFacts DEF TypeOK, BusyInv
<1>h. pc \in HeldCalls => Phase \in {"held", "leaving"} /\ Exists(obj) /\ obj.fin
  BY <1>0, PhaseFacts DEF HeldInv
<1>v. ASSUME UNCHANGED <<Phase, obj, Spent, Lives>>
      PROVE  UNCHANGED Mirror!mirrorVars
  BY <1>v DEF Mirror!mirrorVars, Spent, Lives
<1>u. obj' = obj => Phase' = Phase
  BY DEF Phase, Exists
<1>l. LivesSame => Spent' = Spent /\ Lives' = Lives
  BY DEF LivesSame, Spent, Lives, Live
<1>1. ASSUME NEW i \in Ids, Creates(i)
      PROVE  Mirror!Create(i)
  <2>1. slo.gen # Gone /\ slo.env # NoEnv /\ obj' = obj /\ pc = "apply"
    BY <1>1, <1>t DEF Creates, ApplySLO, CRs, Revs, Gone, k8sVars
  <2>2. i \notin Spent /\ Spent' = Spent \cup {i} /\ Lives' = Lives \cup {i}
    BY <1>1, <2>1 DEF Creates, Spent, Lives, Live
  <2> QED
    BY <1>h, <1>u, <2>1, <2>2 DEF Mirror!Create, Spent, Lives, HeldCalls
<1>2. ASSUME Destroys
      PROVE  Mirror!Destroy(slo.id)
  <2>1. obj' = obj /\ pc = "delete"
    BY <1>2 DEF Destroys, DeleteSLO, Requeue, k8sVars
  <2>2. Spent' = Spent /\ Lives' = Lives \ {slo.id} /\ slo.id \in Lives
    BY <1>2 DEF Destroys, Spent, Lives, Live
  <2>3. Phase = "leaving"
    BY <1>0, <1>2, <2>1, PhaseFacts DEF LeavingInv, PcInv, LeavingCalls, Destroys
  <2> QED
    BY <1>u, <2>1, <2>2, <2>3 DEF Mirror!Destroy, Spent, Lives
<1>3. CASE LivesSame
  <2> USE <1>3
  <2>1. ASSUME Exists(obj), Exists(obj'), obj'.id = obj.id,
               obj'.del = obj.del, obj'.fin = obj.fin
        PROVE  UNCHANGED Mirror!mirrorVars
    <3>1. Phase' = Phase
      BY <2>1 DEF Phase, Exists
    <3> QED
      BY <1>l, <2>1, <3>1 DEF Mirror!mirrorVars, Spent, Lives
  <2>2. ASSUME obj' = obj
        PROVE  UNCHANGED Mirror!mirrorVars
    BY <1>l, <1>u, <1>v, <2>2
  <2>3. CASE Finalizes
    <3>1. obj \in CRs /\ Exists(obj) /\ ~obj.del /\ ~obj.fin
      BY <1>0, <1>t, <2>3 DEF Finalizes, UpdateAccepted, IInv, CurInv, PcInv
    <3>2. Exists(obj') /\ ~obj'.del /\ obj'.fin /\ obj'.id = obj.id
      BY <2>3, <3>1, FinalizedFacts DEF Finalizes, Write
    <3>3. Phase = "open"
      BY <3>1, PhaseFacts
    <3>4. Phase' = "held"
      <4>1. ~(~Exists(obj')) /\ ~(Exists(obj') /\ obj'.del)
        BY <3>2
      <4> QED
        BY <3>2, <4>1 DEF Phase, Exists
    <3> QED
      BY <1>l, <3>2, <3>3, <3>4 DEF Mirror!Next, Mirror!Hold, Spent, Lives
  <2>4. CASE pc = "patch" /\ Patches(Synced(dtID, slo.gen), dtID # slo.id)
    <3>1. obj \in CRs /\ slo \in CRs /\ dtID \in 0..MaxIds /\ Exists(obj)
      BY <1>0, <1>t, <2>4 DEF Patches, TypeOK
    <3>2. /\ Exists(obj') /\ obj'.del = obj.del /\ obj'.fin = obj.fin
          /\ obj'.id = obj.id \/ (dtID # slo.id /\ obj'.id = dtID)
      BY <2>4, <3>1, SyncedMerge DEF Patches, Write
    <3>3. CASE obj'.id = obj.id
      BY <2>1, <3>1, <3>2, <3>3
    <3>4. CASE dtID # slo.id /\ obj'.id = dtID
      <4>1. dtID \in Lives
        BY <2>4, <3>1, <3>4 DEF LeavingInv, Lives, Ids, NoId
      <4>2. Phase' = Phase
        BY <3>1, <3>2 DEF Phase, Exists
      <4>3. Phase \in {"held", "leaving"}
        BY <1>h, <2>4 DEF HeldCalls
      <4>4. Mirror!Record(dtID)
        BY <1>l, <3>4, <4>1, <4>2, <4>3 DEF Mirror!Record, Spent, Lives
      <4> QED
        BY <4>1, <4>4 DEF Mirror!Next, Lives
    <3> QED
      BY <3>2, <3>3, <3>4
  <2>5. ASSUME NEW w \in BOOLEAN, pc = "fail", Patches(Failed, w)
        PROVE  [Mirror!Next]_(Mirror!mirrorVars)
    <3>1. obj \in CRs /\ slo \in CRs /\ Exists(obj)
      BY <1>t, <2>5 DEF Patches
    <3>2. /\ Exists(obj') /\ obj'.del = obj.del /\ obj'.fin = obj.fin
          /\ obj'.id = obj.id
      BY <2>5, <3>1, FailedMerge DEF Patches, Write
    <3> QED
      BY <2>1, <3>1, <3>2
  <2>6. CASE Vanishes
    <3>1. slo = obj /\ Exists(obj) /\ obj.del /\ obj' = Absent
      BY <1>0, <2>6 DEF Vanishes, UpdateAccepted, Write, IInv, CurInv, PcInv,
                        LeavingCalls
    <3>2. obj.id \notin Lives
      BY <2>6, <3>1, CalmGone DEF Vanishes, Lives, Ids, NoId
    <3>3. Phase = "leaving"
      BY <3>1, PhaseFacts
    <3>4. Phase' = "none" /\ obj'.id = NoId
      BY <3>1, AbsentFacts DEF Phase, Exists
    <3> QED
      BY <1>l, <3>2, <3>3, <3>4 DEF Mirror!Next, Mirror!Vanish, Spent, Lives
  <2>7. CASE CreateCR
    <3>1. PICK e \in Envs, ok \in BOOLEAN :
            /\ rev + 1 \in Revs
            /\ obj' = NewObject(rev + 1, e, ok)
      BY <2>7, WrittenFacts DEF Write
    <3>2. Exists(obj') /\ ~obj'.del /\ ~obj'.fin /\ obj'.id = NoId
      BY <3>1, NewObjectFacts
    <3>3. Phase = "none" /\ obj.id = NoId
      BY <1>t, <2>7, PhaseFacts, AbsentFacts DEF CreateCR
    <3>4. Phase' = "open"
      BY <3>2 DEF Phase, Exists
    <3> QED
      BY <1>l, <3>2, <3>3, <3>4 DEF Mirror!Next, Mirror!Declare, Spent, Lives
  <2>8. CASE EditSpec
    <3>1. PICK e \in Edits(obj.env), b \in BOOLEAN :
            /\ rev + 1 \in Revs
            /\ obj' = [obj EXCEPT !.gen = rev + 1, !.env = e, !.envs = @ \cup {e}, !.ok = b]
      BY <2>8, WrittenFacts DEF Write
    <3>2. obj \in CRs /\ Exists(obj)
      BY <1>t, <2>8 DEF EditSpec
    <3>3. /\ obj'.gen = rev + 1 /\ obj'.del = obj.del /\ obj'.fin = obj.fin
          /\ obj'.id = obj.id
      BY <3>1, <3>2 DEF CRs
    <3>4. Exists(obj')
      BY <3>1, <3>3 DEF Exists, Revs
    <3> QED
      BY <2>1, <3>2, <3>3, <3>4
  <2>9. CASE DeleteCR
    <3>1. obj \in CRs /\ Exists(obj) /\ ~obj.del
      BY <1>t, <2>9 DEF DeleteCR
    <3>2. CASE obj.fin
      <4>1. Exists(obj') /\ obj'.del /\ obj'.id = obj.id
        BY <2>9, <3>1, <3>2, MarkedFacts DEF DeleteCR, Write
      <4>2. Phase = "held"
        BY <3>1, <3>2, PhaseFacts
      <4>3. Phase' = "leaving"
        BY <4>1 DEF Phase, Exists
      <4> QED
        BY <1>l, <4>1, <4>2, <4>3 DEF Mirror!Next, Mirror!Withdraw, Spent, Lives
    <3>3. CASE ~obj.fin
      <4>1. obj' = Absent /\ obj.id = NoId
        BY <1>0, <2>9, <3>1, <3>3 DEF DeleteCR, Write, HeldInv
      <4>2. Phase = "open"
        BY <3>1, <3>3, PhaseFacts
      <4>3. Phase' = "none" /\ obj'.id = obj.id
        BY <4>1, AbsentFacts DEF Phase, Exists
      <4> QED
        BY <1>l, <4>2, <4>3 DEF Mirror!Next, Mirror!Withdraw, Spent, Lives
    <3> QED
      BY <3>2, <3>3
  <2> QED
    BY <2>2, <2>3, <2>4, <2>5, <2>6, <2>7, <2>8, <2>9, StepCases
       DEF Quiet, Deliver, Reconcile, BuildPayload, ApplySLO, Deletes, Returns,
           k8sVars
<1>4. Destroys => slo.id \in Ids
  BY DEF Destroys
<1> QED
  BY <1>0, <1>1, <1>2, <1>3, <1>4, CalmTenants DEF Mirror!Next

\* A copy of a deleted object whose SLO is still live is a copy of an object
\* still there and marked, and an ID about to be recorded is live
\* (reconcileDelete and reconcileCreate, lines 45-164): what the refinement
\* rests on, under the same hypotheses.
THEOREM LeavingHolds ==
    ASSUME Calm
    PROVE  Spec => []LeavingInv
<1>1. IInv /\ TypeInv /\ LeavingInv /\ [Next]_vars => LeavingInv'
  BY LeavingStep
<1>2. Spec => [](IInv /\ TypeInv)
  BY Inductive
<1> QED
  BY <1>1, <1>2, LeavingInit, PTL DEF Spec

\* reconcileCreate and reconcileDelete keep the promise of TenantMirror, step by
\* step (lines 45-164): resources are made under the finalizer only, never under
\* a used ID, recorded while they exist, destroyed for a deleted object only,
\* and gone before the object that records them.  The hypotheses are Calm: an
\* edit of spec.environment, a request that outlives its timeout and a deletion
\* in the UI each break a step of it.
THEOREM Refinement ==
    ASSUME Calm
    PROVE  Spec => MirrorsTenant
<1>1. IInv /\ TypeInv /\ LeavingInv /\ [Next]_vars
        => [Mirror!Next]_(Mirror!mirrorVars)
  BY MirrorStep
<1>2. Spec => [](IInv /\ TypeInv)
  BY Inductive
<1> QED
  BY <1>1, <1>2, LeavingHolds, MirrorInit, PTL
     DEF Spec, MirrorsTenant, Mirror!Spec

=============================================================================
