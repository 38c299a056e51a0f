--------------------------- MODULE ManagedProofs ---------------------------
(***************************************************************************)
(* Proofs about what the DynatraceAlert and the DynatraceDashboard         *)
(* controller have in common, for any names, reference lists, kinds of     *)
(* trouble and bounds.  WorkerStep says what a step of either worker       *)
(* amounts to; AlertProofs and DashboardProofs show that theirs do, and    *)
(* take the rest from here.                                                *)
(***************************************************************************)
EXTENDS ManagedResource, TLAPS

USE RefsAssumption, BoundsAssumption

-----------------------------------------------------------------------------
(* What the steps of the two workers amount to.                            *)

TroubleOK == trouble' \in 0..MaxTrouble

\* The branch Reconcile takes fits the copy o it takes it for.
Fits(call, o) ==
    /\ call \in PCs \ {"apply", "patch", "fail"}
    /\ call # "idle" <=> Exists(o)
    /\ call = "finalize" => ~o.del /\ ~o.fin
    /\ call = "resolve" => ~o.del /\ o.fin
    /\ call \in LeavingCalls => o.del
    /\ call = "delete" => o.id # NoId
    /\ call = "unfinalize" => o.id = NoId \/ ~client

Takes ==
    /\ pc = "idle"
    /\ queued' \in BOOLEAN
    /\ Fits(pc', cache)
    /\ copy' = cache
    /\ cur' = (Exists(cache) /\ behind = 0)
    /\ UNCHANGED <<k8sVars, informerVars, sloIDs, dtID, client, sloVars,
                   dtVars, trouble>>

Holds ==
    /\ pc = "finalize"
    /\ UpdateAccepted
    /\ Write([obj EXCEPT !.fin = TRUE], FALSE)
    /\ copy' = [copy EXCEPT !.fin = TRUE]
    /\ pc' = "resolve"
    /\ UNCHANGED <<rev, cur, sloIDs, dtID, client, sloVars, dtVars, trouble>>

Resolves ==
    /\ pc = "resolve"
    /\ pc' \in {"resolve", "apply", "fail"}
    /\ sloIDs' \in Seq(SLOIds \cup {NoId})
    /\ UNCHANGED <<k8sVars, informerVars, queued, copy, cur, dtID, client,
                   sloVars, dtVars, trouble>>

\* pay is what the worker's copy was built into.
Applies(pay) ==
    /\ pc = "apply"
    /\ pay \in Payloads /\ pay.gen = copy.gen
    /\ LET rq == [id |-> copy.id, pay |-> pay]
       IN \/ /\ \E i \in Ids :
                 /\ Succeeds(rq, i)
                 /\ \/ dtID' = i /\ UNCHANGED trouble
                    \/ copy.id = NoId /\ dtID' = NoId /\ Meet("empty")
             /\ pc' = "patch"
          \/ /\ NotFound(rq) \/ Fails(rq)
             /\ pc' = "fail"
             /\ UNCHANGED dtID
    /\ UNCHANGED <<k8sVars, informerVars, queued, copy, cur, sloIDs, client,
                   sloVars>>

\* The condition and the observed generation may be any; the ID is the one
\* the tenant gave, or the one the copy has.
Patches(new) ==
    /\ pc \in {"patch", "fail"}
    /\ new.id = IF pc = "patch" THEN dtID ELSE copy.id
    /\ new.obs \in 0..MaxRev /\ new.cond \in Conditions
    /\ \E reworded, touched \in BOOLEAN : PatchStatus(new, reworded, touched)
    /\ UNCHANGED <<client, sloVars, dtVars>>
    /\ TroubleOK

Deletes ==
    /\ pc = "delete"
    /\ UNCHANGED <<client, sloVars>>
    /\ LET rq == [id |-> copy.id, pay |-> Nothing]
       IN \/ /\ \/ Succeeds(rq, copy.id) /\ UNCHANGED trouble
                \/ NotFound(rq)
             /\ pc' = "unfinalize"
             /\ UNCHANGED <<k8sVars, informerVars, queued, copy, cur, sloIDs,
                            dtID>>
          \/ Fails(rq) /\ Requeue

Unholds ==
    /\ pc = "unfinalize"
    /\ UpdateAccepted
    /\ Write(Absent, FALSE)
    /\ Finish
    /\ UNCHANGED <<rev, client, sloVars, dtVars, trouble>>

\* Reconcile returns and has written nothing.
Returns ==
    /\ Requeue
    /\ UNCHANGED <<client, sloVars, dtVars>>
    /\ TroubleOK

WorkerStep ==
    \/ Takes \/ Holds \/ Resolves
    \/ \E pay \in Payloads : Applies(pay)
    \/ \E i \in 0..MaxIds, g \in 0..MaxRev, c \in Conditions :
          Patches([copy EXCEPT !.id = i, !.obs = g, !.cond = c])
    \/ Deletes \/ Unholds \/ Returns

\* The queue may or may not take notice of a DynatraceSLO.
SLOMoves == \E r \in SLONames : SLOStep(r) /\ queued' \in BOOLEAN

ManagedStep == WorkerStep \/ SLOMoves \/ Surroundings

-----------------------------------------------------------------------------
(* Facts about the helpers.                                                *)

\* A sequence is one over any set that has its elements.
LEMMA SeqOver ==
    ASSUME NEW S, NEW T, NEW s \in Seq(S), \A k \in 1..Len(s) : s[k] \in T
    PROVE  s \in Seq(T)
<1> DEFINE n == Len(s)
           t == [k \in 1..n |-> s[k]]
<1>1. n \in Nat /\ t = s
  OBVIOUS
<1>2. t \in [1..n -> T]
  OBVIOUS
<1> HIDE DEF t, n
<1>3. t \in Seq(T)
  BY <1>1, <1>2
<1> QED
  BY <1>1, <1>3

LEMMA AbsentFacts ==
    /\ Absent \in Objects /\ ~Exists(Absent)
    /\ Absent.id = NoId /\ ~Absent.fin /\ ~Absent.del
    /\ \A o \in Objects : Exists(o) <=> o \in CRs
    /\ \A o \in Objects : ~Exists(o) => o = Absent
    /\ \A o \in Objects : o.id \in 0..MaxIds /\ o.gen \in 0..MaxRev
    /\ \A o \in CRs : o \in Objects
  BY DEF Absent, NewObject, Objects, CRs, Exists, NoId

LEMMA NewObjectFacts ==
    ASSUME NEW g \in 1..MaxRev, NEW refs \in RefLists
    PROVE  LET o == NewObject(g, refs)
           IN o \in CRs /\ o.id = NoId /\ ~o.fin /\ ~o.del
  BY DEF NewObject, CRs, NoId, Conditions

\* The updates of the object, and which fields they leave alone.
LEMMA EditedFacts ==
    ASSUME NEW o \in CRs, NEW g \in 1..MaxRev, NEW refs \in RefLists
    PROVE  LET p == [o EXCEPT !.gen = g, !.refs = refs]
           IN p \in CRs /\ p.id = o.id /\ p.fin = o.fin /\ p.del = o.del
  BY DEF CRs

LEMMA MarkedFacts ==
    ASSUME NEW o \in CRs
    PROVE  LET p == [o EXCEPT !.del = TRUE]
           IN p \in CRs /\ p.id = o.id /\ p.fin = o.fin /\ p.del
  BY DEF CRs

LEMMA FinalizedFacts ==
    ASSUME NEW o \in CRs
    PROVE  LET p == [o EXCEPT !.fin = TRUE]
           IN p \in CRs /\ p.id = o.id /\ p.fin /\ p.del = o.del
  BY DEF CRs

\* The patches of the status: an ID is changed only where it differs from the
\* base's.
LEMMA MergeFacts ==
    ASSUME obj \in CRs, NEW base, NEW new, NEW w,
           new.id \in 0..MaxIds, new.obs \in 0..MaxRev, new.cond \in Conditions
    PROVE  LET o == Merge(base, new, w)
           IN /\ o \in CRs
              /\ o.fin = obj.fin /\ o.del = obj.del
              /\ o.id = obj.id \/ (new.id # base.id /\ o.id = new.id)
<1>1. Merge(base, new, w) \in CRs
  BY DEF Merge, CRs
<1>2. /\ Merge(base, new, w).fin = obj.fin /\ Merge(base, new, w).del = obj.del
      /\ \/ Merge(base, new, w).id = obj.id
         \/ new.id # base.id /\ Merge(base, new, w).id = new.id
  BY DEF Merge, CRs
<1> QED
  BY <1>1, <1>2

LEMMA WriteFacts ==
    ASSUME TypeOK, NEW o \in Objects, NEW r \in BOOLEAN, Write(o, r)
    PROVE  /\ obj' = o
           /\ cache' \in {obj, cache} /\ cache' \in Objects
           /\ behind = 0 => cache' = cache
           /\ behind' \in 1..MaxLag
           /\ queued' \in BOOLEAN
<1>1. behind \in 0..MaxLag /\ obj \in Objects /\ cache \in Objects
  BY DEF TypeOK
<1>2. queued' \in BOOLEAN
  BY DEF Write, TypeOK
<1> QED
  BY <1>1, <1>2 DEF Write

LEMMA FinishFacts ==
    Finish => /\ pc' = "idle" /\ copy' = Absent /\ cur' = FALSE
              /\ sloIDs' = <<>> /\ dtID' = NoId
              /\ copy' \in Objects /\ cur' \in BOOLEAN
              /\ sloIDs' \in Seq(SLOIds \cup {NoId}) /\ dtID' \in 0..MaxIds
<1> SUFFICES ASSUME Finish
             PROVE  /\ copy' \in Objects /\ cur' \in BOOLEAN
                    /\ sloIDs' \in Seq(SLOIds \cup {NoId}) /\ dtID' \in 0..MaxIds
  BY DEF Finish
<1>1. cur' \in BOOLEAN
  BY Zenon DEF Finish
<1>2. copy' \in Objects
  BY AbsentFacts DEF Finish
<1>3. sloIDs' \in Seq(SLOIds \cup {NoId})
  BY DEF Finish
<1>4. dtID' \in 0..MaxIds
  BY DEF Finish, NoId
<1> QED
  BY <1>1, <1>2, <1>3, <1>4

\* A status patch stores an object that differs in the status, or nothing.
LEMMA PatchFacts ==
    ASSUME TypeOK, NEW new, NEW w \in BOOLEAN, NEW t \in BOOLEAN,
           PatchStatus(new, w, t),
           new.id \in 0..MaxIds, new.obs \in 0..MaxRev, new.cond \in Conditions
    PROVE  /\ Finish /\ UNCHANGED rev
           /\ \/ Requeue
              \/ \E o \in CRs :
                   /\ Exists(obj)
                   /\ Write(o, TRUE)
                   /\ o.fin = obj.fin /\ o.del = obj.del
                   /\ o.id = obj.id \/ (new.id # copy.id /\ o.id = new.id)
<1> DEFINE o == Merge(copy, new, w)
<1>1. \/ Exists(obj) /\ Write(o, TRUE) /\ Finish /\ UNCHANGED rev
      \/ Requeue
  BY DEF PatchStatus
<1>2. CASE Requeue
  BY <1>2 DEF Requeue, k8sVars
<1>3. CASE Exists(obj) /\ Write(o, TRUE) /\ Finish /\ UNCHANGED rev
  <2>1. obj \in CRs
    BY <1>3, AbsentFacts DEF TypeOK
  <2>2. /\ o \in CRs
        /\ o.fin = obj.fin /\ o.del = obj.del
        /\ o.id = obj.id \/ (new.id # copy.id /\ o.id = new.id)
    BY <2>1, MergeFacts
  <2> QED
    BY <1>3, <2>2
<1> QED
  BY <1>1, <1>2, <1>3

Requests == [id : 0..MaxIds, pay : Payloads]

\* A request creates under the next ID, or changes what it names.
LEMMA RequestFacts ==
    ASSUME TypeOK, NEW rq \in Requests, NEW i \in Ids, Succeeds(rq, i)
    PROVE  /\ tenant' \in [Ids -> Payloads]
           /\ made' \in 0..MaxIds /\ made <= made'
           /\ tenant'[i] = rq.pay
           /\ \A j \in Ids : j # i => tenant'[j] = tenant[j]
           /\ rq.id = NoId => i = made + 1 /\ made' = i
           /\ rq.id # NoId => i = rq.id /\ Live(i) /\ made' = made
<1>1. tenant \in [Ids -> Payloads] /\ made \in 0..MaxIds /\ rq.pay \in Payloads
  BY DEF TypeOK, Requests
<1>2. /\ tenant' \in [Ids -> Payloads]
      /\ tenant'[i] = rq.pay
      /\ \A j \in Ids : j # i => tenant'[j] = tenant[j]
  BY <1>1 DEF Succeeds, Land
<1>3. /\ rq.id = NoId => i = made + 1 /\ made' = i
      /\ rq.id # NoId => i = rq.id /\ Live(i) /\ made' = made
  BY DEF Succeeds, Finds, Land
<1>4. made' \in 0..MaxIds /\ made <= made'
  BY <1>1, <1>3 DEF Ids
<1> QED
  BY <1>2, <1>3, <1>4

LEMMA FailsFacts ==
    ASSUME TypeOK, NEW rq, Fails(rq) \/ NotFound(rq)
    PROVE  /\ TroubleOK
           /\ \/ UNCHANGED dtVars
              \/ \E i \in Ids : Succeeds(rq, i)
<1>1. TroubleOK
  BY DEF TroubleOK, TypeOK, Fails, NotFound, Meet
<1>2. UNCHANGED dtVars \/ \E i \in Ids : Succeeds(rq, i)
  BY DEF Fails, NotFound
<1> QED
  BY <1>1, <1>2

\* What an apply call stores is what the copy was built into.
LEMMA AppliesStores ==
    ASSUME TypeOK, NEW pay \in Payloads, Applies(pay),
           NEW i \in Ids, tenant'[i] # tenant[i]
    PROVE  tenant'[i] = pay
<1> DEFINE rq == [id |-> copy.id, pay |-> pay]
<1>1. \/ \E j \in Ids : Succeeds(rq, j)
      \/ NotFound(rq) \/ Fails(rq)
  BY DEF Applies
<1>2. rq \in Requests /\ rq.pay = pay
  BY AbsentFacts DEF Requests, TypeOK
<1> HIDE DEF rq
<1>3. PICK j \in Ids : Succeeds(rq, j)
  BY <1>1, FailsFacts DEF dtVars
<1> QED
  BY <1>2, <1>3, RequestFacts

-----------------------------------------------------------------------------
(* What is stored and what the informer shows.                             *)

StoreInv ==
    /\ StreamInv
    /\ Exists(cache) /\ cache.fin /\ ~cache.del => Exists(obj) /\ obj.fin
    /\ Exists(obj) /\ obj.del => obj.fin
    /\ Exists(obj) /\ ~obj.fin => obj.id = NoId
    /\ obj.id <= made /\ cache.id <= made

LEMMA StoreFacts == ManagedInv => StoreInv /\ TypeOK
  BY DEF ManagedInv, StoreInv, HeldInv, IdsInv

LEMMA StoreSame ==
    ASSUME ManagedInv, UNCHANGED <<obj, informerVars>>,
           made' \in Nat, made <= made'
    PROVE  StoreInv'
<1>1. obj.id \in Nat /\ cache.id \in Nat /\ made \in Nat
  BY StoreFacts, AbsentFacts DEF TypeOK
<1> QED
  BY <1>1, StoreFacts DEF StoreInv, StreamInv, informerVars

\* The informer catches up.
LEMMA StoreShown ==
    ASSUME ManagedInv, cache' = obj, UNCHANGED <<obj, made>>
    PROVE  StoreInv'
  BY StoreFacts DEF StoreInv, StreamInv

\* A version of an object that is, or is to be, there.
LEMMA StoreWritten ==
    ASSUME ManagedInv, NEW o \in CRs, NEW r \in BOOLEAN, Write(o, r),
           Exists(obj) /\ obj.fin => o.fin,
           o.del => o.fin,
           ~o.fin => o.id = NoId,
           o.id <= made, UNCHANGED made
    PROVE  StoreInv'
<1>1. /\ obj' = o /\ cache' \in {obj, cache} /\ behind' \in 1..MaxLag
  BY StoreFacts, AbsentFacts, WriteFacts
<1>2. Exists(o)
  BY AbsentFacts
<1>3. StreamInv'
  BY <1>1 DEF StreamInv
<1>4. (Exists(cache) /\ cache.fin /\ ~cache.del => Exists(obj) /\ obj.fin)'
  BY <1>1, <1>2, StoreFacts DEF StoreInv, Exists
<1>5. (obj.id <= made /\ cache.id <= made)'
  BY <1>1, StoreFacts DEF StoreInv
<1> QED
  BY <1>1, <1>3, <1>4, <1>5 DEF StoreInv

\* The object goes: its finalizer goes and the informer has seen that it was to
\* go, or it never had one.
LEMMA StoreGone ==
    ASSUME ManagedInv, NEW r \in BOOLEAN, Write(Absent, r),
           (obj.del /\ behind = 0) \/ ~obj.fin,
           UNCHANGED made
    PROVE  StoreInv'
<1>1. /\ obj' = Absent /\ cache' \in {obj, cache} /\ behind' \in 1..MaxLag
      /\ behind = 0 => cache' = cache
  BY StoreFacts, AbsentFacts, WriteFacts
<1>2. StreamInv'
  BY <1>1 DEF StreamInv
<1>3. ~(Exists(cache) /\ cache.fin /\ ~cache.del)'
  BY <1>1, StoreFacts DEF StoreInv, StreamInv, Exists
<1>4. made \in Nat
  BY StoreFacts DEF TypeOK
<1>5. (obj.id <= made /\ cache.id <= made)'
  BY <1>1, <1>4, AbsentFacts, StoreFacts DEF StoreInv, NoId
<1> QED
  BY <1>1, <1>2, <1>3, <1>5, AbsentFacts DEF StoreInv

\* After the end of a call of Reconcile only what is stored matters.
LEMMA FinishKeeps ==
    ASSUME Finish, TypeOK', StoreInv'
    PROVE  ManagedInv'
<1>1. /\ pc' = "idle" /\ copy' = Absent /\ cur' = FALSE
      /\ sloIDs' = <<>> /\ dtID' = NoId
  BY FinishFacts
<1>2. CurInv'
  BY <1>1 DEF CurInv
<1>3. PcInv'
  BY <1>1 DEF PcInv, HeldCalls, LeavingCalls
<1>4. HeldInv'
  BY <1>1 DEF HeldInv, StoreInv, HeldCalls
<1>5. made' \in Nat
  BY DEF TypeOK
<1>6. IdsInv'
  BY <1>1, <1>5, AbsentFacts DEF IdsInv, StoreInv, NoId
<1>7. GoneInv'
  BY <1>1 DEF GoneInv
<1> QED
  BY <1>2, <1>3, <1>4, <1>6, <1>7 DEF ManagedInv, StoreInv

\* What users do leaves the worker with a copy that is no longer current.
LEMMA UserKeeps ==
    ASSUME ManagedInv, TypeOK', StoreInv', cur' = FALSE,
           UNCHANGED <<pc, copy, sloIDs, dtID, client, dtVars>>,
           pc \in HeldCalls => Exists(obj') /\ obj'.fin
    PROVE  ManagedInv'
<1>1. CurInv'
  BY DEF CurInv
<1>2. PcInv'
  BY DEF ManagedInv, PcInv
<1>3. HeldInv'
  BY DEF HeldInv, StoreInv
<1>4. IdsInv'
  BY DEF ManagedInv, IdsInv, StoreInv, dtVars
<1>5. GoneInv'
  BY DEF ManagedInv, GoneInv, Live, dtVars
<1> QED
  BY <1>1, <1>2, <1>3, <1>4, <1>5 DEF ManagedInv, StoreInv

-----------------------------------------------------------------------------
(* The invariant, step by step.                                            *)

LEMMA ManagedInit == Init => ManagedInv
<1> SUFFICES ASSUME Init PROVE ManagedInv
  OBVIOUS
<1>1. queued \in BOOLEAN /\ cur \in BOOLEAN /\ client \in BOOLEAN
  BY Zenon DEF Init
<1>2. obj \in Objects /\ cache \in Objects /\ copy \in Objects
  BY AbsentFacts DEF Init
<1>3. Nothing \in Payloads
  BY DEF Nothing, Payloads, Gone
<1>4. tenant \in [Ids -> Payloads] /\ slos \in [SLONames -> 0..Missing]
  BY <1>3 DEF Init, Missing
<1>5. sloIDs \in Seq(SLOIds \cup {NoId})
  BY DEF Init
<1>6. TypeOK
  BY <1>1, <1>2, <1>4, <1>5 DEF TypeOK, Init, PCs, NoId
<1>7. StreamInv /\ CurInv /\ PcInv /\ HeldInv /\ IdsInv /\ GoneInv
  BY AbsentFacts DEF Init, StreamInv, CurInv, PcInv, HeldInv, IdsInv, GoneInv,
                     HeldCalls, LeavingCalls, NoId
<1> QED
  BY <1>6, <1>7 DEF ManagedInv

LEMMA TakesKeeps == ManagedInv /\ Takes => ManagedInv'
<1> SUFFICES ASSUME ManagedInv, Takes PROVE ManagedInv'
  OBVIOUS
<1> USE DEF k8sVars, informerVars, sloVars, dtVars
<1>1. TypeOK /\ StoreInv
  BY StoreFacts
<1>2. cur' \in BOOLEAN
  BY Zenon DEF Takes
<1>3. TypeOK'
  BY <1>1, <1>2 DEF TypeOK, Takes, Fits
<1>4. StreamInv'
  BY <1>1 DEF StoreInv, StreamInv, Takes
<1>5. CurInv'
  <2> SUFFICES ASSUME Exists(cache), behind = 0
               PROVE  pc' # "idle" /\ Exists(obj) /\ cache = obj
    BY DEF CurInv, Takes
  <2>1. cache = obj
    BY <1>1 DEF StoreInv, StreamInv
  <2>2. pc' # "idle"
    BY DEF Takes, Fits
  <2> QED
    BY <2>1, <2>2
<1>6. PcInv'
  BY DEF ManagedInv, PcInv, Takes, Fits, HeldCalls, LeavingCalls, PCs
<1>7. HeldInv'
  BY <1>1 DEF StoreInv, HeldInv, Takes, Fits, HeldCalls, PCs
<1>8. IdsInv'
  BY DEF ManagedInv, IdsInv, Takes
<1>9. GoneInv'
  BY DEF GoneInv, Takes, Fits
<1> QED
  BY <1>3, <1>4, <1>5, <1>6, <1>7, <1>8, <1>9 DEF ManagedInv

LEMMA HoldsKeeps == ManagedInv /\ Holds => ManagedInv'
<1> SUFFICES ASSUME ManagedInv, Holds PROVE ManagedInv'
  OBVIOUS
<1> USE DEF sloVars, dtVars
<1> DEFINE o == [obj EXCEPT !.fin = TRUE]
<1>1. TypeOK /\ StoreInv /\ CurInv /\ PcInv /\ IdsInv
  BY StoreFacts DEF ManagedInv
<1>2. /\ pc = "finalize" /\ cur /\ Exists(obj) /\ Write(o, FALSE)
      /\ pc' = "resolve" /\ copy' = [copy EXCEPT !.fin = TRUE]
      /\ UNCHANGED <<rev, cur, sloIDs, dtID, client, slos, changes, assigned,
                     tenant, made, trouble>>
  BY DEF Holds, UpdateAccepted
<1>3. copy = obj /\ obj \in CRs /\ ~obj.del
  BY <1>1, <1>2, AbsentFacts DEF TypeOK, CurInv, PcInv
<1>4. o \in CRs /\ o.id = obj.id /\ o.fin /\ o.del = obj.del
  BY <1>3, FinalizedFacts
<1>5. /\ obj' = o /\ copy' = o
      /\ cache' \in Objects /\ behind' \in 1..MaxLag /\ queued' \in BOOLEAN
  BY <1>1, <1>2, <1>3, <1>4, AbsentFacts, WriteFacts
<1>6. StoreInv'
  BY <1>1, <1>2, <1>3, <1>4, StoreWritten DEF StoreInv
<1> HIDE DEF o
<1>7. o \in Objects /\ Exists(o)
  BY <1>4, AbsentFacts
<1>8. TypeOK'
  <2>1. UNCHANGED <<rev, cur, sloIDs, dtID, client, slos, changes, assigned,
                    tenant, made, trouble>>
    BY <1>2
  <2>2. /\ obj' \in Objects /\ cache' \in Objects /\ copy' \in Objects
        /\ behind' \in 0..MaxLag
    BY <1>5, <1>7
  <2>3. queued' \in BOOLEAN
    BY <1>5
  <2>4. pc' \in PCs
    BY <1>2 DEF PCs
  <2> QED
    BY <1>1, <2>1, <2>2, <2>3, <2>4 DEF TypeOK
<1>9. CurInv'
  BY <1>2, <1>5, <1>7 DEF CurInv, LeavingCalls
<1>10. PcInv'
  BY <1>1, <1>2, <1>3, <1>4, <1>5, <1>7 DEF PcInv, HeldCalls, LeavingCalls
<1>11. HeldInv'
  BY <1>4, <1>5, <1>6, <1>7 DEF HeldInv, StoreInv
<1>12. IdsInv'
  BY <1>1, <1>2, <1>4, <1>5, <1>6 DEF IdsInv, StoreInv
<1>13. GoneInv'
  BY <1>2 DEF GoneInv
<1> QED
  BY <1>6, <1>8, <1>9, <1>10, <1>11, <1>12, <1>13 DEF ManagedInv, StoreInv

LEMMA ResolvesKeeps == ManagedInv /\ Resolves => ManagedInv'
<1> SUFFICES ASSUME ManagedInv, Resolves PROVE ManagedInv'
  OBVIOUS
<1> USE DEF k8sVars, informerVars, sloVars, dtVars, ManagedInv, Resolves
<1>1. TypeOK'
  BY DEF TypeOK, PCs
<1>2. StreamInv' /\ CurInv'
  BY DEF StreamInv, CurInv, LeavingCalls
<1>3. PcInv' /\ HeldInv'
  BY DEF PcInv, HeldInv, HeldCalls, LeavingCalls
<1>4. IdsInv' /\ GoneInv'
  BY DEF IdsInv, GoneInv
<1> QED
  BY <1>1, <1>2, <1>3, <1>4

LEMMA AppliesKeeps ==
    ASSUME ManagedInv, NEW pay \in Payloads, Applies(pay)
    PROVE  ManagedInv'
<1> USE DEF k8sVars, informerVars, sloVars
<1> DEFINE rq == [id |-> copy.id, pay |-> pay]
<1>1. /\ TypeOK /\ StoreInv /\ CurInv /\ PcInv /\ HeldInv /\ IdsInv
      /\ pc = "apply" /\ pc' \in {"patch", "fail"}
      /\ UNCHANGED <<obj, rev, cache, behind, queued, copy, cur, sloIDs, client,
                     slos, changes, assigned>>
  BY StoreFacts DEF ManagedInv, Applies
<1>2. rq \in Requests
  BY <1>1, AbsentFacts DEF Requests, TypeOK
<1>3. \/ /\ pc' = "patch" /\ TroubleOK
         /\ \E i \in Ids : Succeeds(rq, i) /\ dtID' \in {i, NoId}
      \/ /\ pc' = "fail" /\ dtID' = dtID /\ TroubleOK
         /\ UNCHANGED dtVars \/ \E i \in Ids : Succeeds(rq, i)
  <2>1. CASE /\ \E i \in Ids :
                  /\ Succeeds(rq, i)
                  /\ \/ dtID' = i /\ UNCHANGED trouble
                     \/ copy.id = NoId /\ dtID' = NoId /\ Meet("empty")
             /\ pc' = "patch"
    BY <1>1, <2>1 DEF TroubleOK, TypeOK, Meet
  <2>2. CASE (NotFound(rq) \/ Fails(rq)) /\ pc' = "fail" /\ UNCHANGED dtID
    BY <1>1, <2>2, FailsFacts
  <2> QED
    BY <2>1, <2>2 DEF Applies
<1> HIDE DEF rq
<1>4. /\ tenant' \in [Ids -> Payloads] /\ made' \in 0..MaxIds /\ made <= made'
      /\ TroubleOK
  BY <1>1, <1>2, <1>3, RequestFacts DEF TypeOK, dtVars
<1>5. dtID' \in 0..MaxIds /\ dtID' <= made'
  <2>1. dtID = NoId /\ made \in Nat
    BY <1>1 DEF PcInv, TypeOK
  <2>2. CASE \E i \in Ids : Succeeds(rq, i) /\ dtID' \in {i, NoId}
    <3>1. PICK i \in Ids : Succeeds(rq, i) /\ dtID' \in {i, NoId}
      BY <2>2
    <3>2. i <= made'
      <4>1. CASE rq.id = NoId
        BY <1>1, <1>2, <3>1, <4>1, RequestFacts DEF Ids
      <4>2. CASE rq.id # NoId
        BY <1>1, <1>2, <3>1, <4>2, RequestFacts DEF IdsInv, rq
      <4> QED
        BY <4>1, <4>2
    <3> QED
      BY <1>4, <3>1, <3>2 DEF Ids, NoId
  <2>3. CASE dtID' = dtID
    BY <1>4, <2>1, <2>3 DEF NoId
  <2> QED
    BY <1>3, <2>2, <2>3
<1>6. TypeOK'
  BY <1>1, <1>4, <1>5 DEF TypeOK, TroubleOK, PCs
<1>7. StreamInv' /\ CurInv'
  BY <1>1 DEF StoreInv, StreamInv, CurInv, LeavingCalls
<1>8. PcInv' /\ HeldInv'
  <2>1. pc' = "fail" => dtID' = NoId
    BY <1>1, <1>3 DEF PcInv
  <2> QED
    BY <1>1, <2>1 DEF PcInv, HeldInv, HeldCalls, LeavingCalls
<1>9. IdsInv'
  <2>1. obj.id \in Nat /\ cache.id \in Nat /\ copy.id \in Nat /\ made \in Nat
    BY <1>1, AbsentFacts DEF TypeOK
  <2> QED
    BY <1>1, <1>4, <1>5, <2>1 DEF IdsInv
<1>10. GoneInv'
  BY <1>1 DEF GoneInv
<1> QED
  BY <1>6, <1>7, <1>8, <1>9, <1>10 DEF ManagedInv

LEMMA FinishType ==
    ASSUME TypeOK, Finish, UNCHANGED sloVars, TroubleOK,
           obj' \in Objects, rev' \in 0..MaxRev,
           cache' \in Objects, behind' \in 0..MaxLag,
           queued' \in BOOLEAN, client' \in BOOLEAN,
           tenant' \in [Ids -> Payloads], made' \in 0..MaxIds
    PROVE  TypeOK'
<1>1. /\ copy' \in Objects /\ sloIDs' \in Seq(SLOIds \cup {NoId})
      /\ dtID' \in 0..MaxIds
  BY FinishFacts
<1>2. cur' \in BOOLEAN
  BY FinishFacts
<1>3. pc' \in PCs
  BY FinishFacts DEF PCs
<1> QED
  BY <1>1, <1>2, <1>3 DEF TypeOK, sloVars, TroubleOK

\* A call that ends without another write; its last request may have had an
\* effect.
LEMMA RequeueKeeps ==
    ASSUME ManagedInv, Requeue, UNCHANGED <<client, sloVars>>, TroubleOK,
           tenant' \in [Ids -> Payloads], made' \in 0..MaxIds, made <= made'
    PROVE  ManagedInv'
<1>1. TypeOK
  BY StoreFacts
<1>2. Finish /\ UNCHANGED <<obj, rev, cache, behind>>
  BY DEF Requeue, k8sVars, informerVars
<1>3. queued' \in BOOLEAN
  BY Zenon DEF Requeue
<1>4. client' \in BOOLEAN
  BY <1>1 DEF TypeOK
<1>5. obj' \in Objects /\ rev' \in 0..MaxRev /\ cache' \in Objects
      /\ behind' \in 0..MaxLag
  BY <1>1, <1>2 DEF TypeOK
<1>6. UNCHANGED sloVars
  BY DEF sloVars
<1>7. TypeOK'
  BY <1>1, <1>2, <1>3, <1>4, <1>5, <1>6, FinishType
<1>8. made' \in Nat
  OBVIOUS
<1>9. StoreInv'
  BY <1>2, <1>8, StoreSame DEF informerVars
<1> QED
  BY <1>2, <1>7, <1>9, FinishKeeps

LEMMA ReturnsKeeps == ManagedInv /\ Returns => ManagedInv'
<1> SUFFICES ASSUME ManagedInv, Returns PROVE ManagedInv'
  OBVIOUS
<1>1. /\ Requeue /\ UNCHANGED <<client, sloVars>> /\ TroubleOK
      /\ UNCHANGED <<tenant, made>>
  BY DEF Returns, dtVars
<1>2. tenant' \in [Ids -> Payloads] /\ made' \in 0..MaxIds /\ made <= made'
  BY <1>1, StoreFacts DEF TypeOK
<1> QED
  BY <1>1, <1>2, RequeueKeeps

LEMMA PatchesKeeps ==
    ASSUME ManagedInv,
           NEW i \in 0..MaxIds, NEW g \in 0..MaxRev, NEW c \in Conditions,
           Patches([copy EXCEPT !.id = i, !.obs = g, !.cond = c])
    PROVE  ManagedInv'
<1> DEFINE n == [copy EXCEPT !.id = i, !.obs = g, !.cond = c]
<1>1. /\ TypeOK /\ StoreInv /\ PcInv /\ HeldInv /\ IdsInv
      /\ pc \in {"patch", "fail"}
  BY StoreFacts DEF ManagedInv, Patches
<1>2. copy \in CRs
  BY <1>1, AbsentFacts DEF TypeOK, PcInv
<1>3. n.id = i /\ n.obs = g /\ n.cond = c
  BY <1>2 DEF CRs
<1>4. /\ i = IF pc = "patch" THEN dtID ELSE copy.id
      /\ UNCHANGED <<client, sloVars, tenant, made>> /\ TroubleOK
  BY <1>3 DEF Patches, dtVars
<1>5. PICK w \in BOOLEAN, t \in BOOLEAN : PatchStatus(n, w, t)
  BY DEF Patches
<1> HIDE DEF n
<1>6. /\ Finish /\ UNCHANGED rev
      /\ \/ Requeue
         \/ \E o \in CRs :
              /\ Exists(obj)
              /\ Write(o, TRUE)
              /\ o.fin = obj.fin /\ o.del = obj.del
              /\ o.id = obj.id \/ (n.id # copy.id /\ o.id = n.id)
  BY <1>1, <1>3, <1>5, PatchFacts
<1>7. CASE Requeue
  <2>1. tenant' \in [Ids -> Payloads] /\ made' \in 0..MaxIds /\ made <= made'
    BY <1>1, <1>4 DEF TypeOK
  <2> QED
    BY <1>4, <1>7, <2>1, RequeueKeeps
<1>8. ASSUME NEW o \in CRs, Exists(obj), Write(o, TRUE),
             o.fin = obj.fin, o.del = obj.del,
             o.id = obj.id \/ (n.id # copy.id /\ o.id = n.id)
      PROVE  ManagedInv'
  <2>1. obj.fin
    BY <1>1 DEF HeldInv, HeldCalls
  <2>2. o.id <= made
    BY <1>1, <1>3, <1>4, <1>8 DEF IdsInv
  <2>3. StoreInv'
    BY <1>1, <1>4, <1>8, <2>1, <2>2, StoreWritten DEF StoreInv
  <2>4. o \in Objects
    BY AbsentFacts
  <2>5. /\ obj' \in Objects /\ cache' \in Objects /\ behind' \in 1..MaxLag
    BY <1>1, <1>8, <2>4, WriteFacts
  <2>6. queued' \in BOOLEAN
    BY <1>1, <1>8, <2>4, WriteFacts
  <2>7. /\ rev' \in 0..MaxRev /\ behind' \in 0..MaxLag
        /\ tenant' \in [Ids -> Payloads] /\ made' \in 0..MaxIds
    BY <1>1, <1>4, <1>6, <2>5 DEF TypeOK
  <2>8. client' \in BOOLEAN
    BY <1>1, <1>4 DEF TypeOK
  <2>9. TypeOK'
    BY <1>1, <1>4, <1>6, <2>5, <2>6, <2>7, <2>8, FinishType
  <2> QED
    BY <1>6, <2>3, <2>9, FinishKeeps
<1> QED
  BY <1>6, <1>7, <1>8

LEMMA DeletesKeeps == ManagedInv /\ Deletes => ManagedInv'
<1> SUFFICES ASSUME ManagedInv, Deletes PROVE ManagedInv'
  OBVIOUS
<1> USE DEF k8sVars, informerVars, dtVars
<1> DEFINE rq == [id |-> copy.id, pay |-> Nothing]
<1>1. /\ TypeOK /\ StoreInv /\ CurInv /\ PcInv /\ HeldInv /\ IdsInv
      /\ pc = "delete" /\ UNCHANGED <<client, slos, changes, assigned>>
  BY StoreFacts DEF ManagedInv, Deletes, sloVars
<1>2. rq \in Requests /\ copy.id # NoId /\ copy.id \in Ids
  <2>1. Nothing \in Payloads
    BY DEF Nothing, Payloads, Gone
  <2>2. copy.id \in 0..MaxIds /\ copy.id # NoId
    BY <1>1, AbsentFacts DEF TypeOK, PcInv
  <2> QED
    BY <2>1, <2>2 DEF Requests, Ids, NoId
<1>3. \/ /\ pc' = "unfinalize"
         /\ \/ Succeeds(rq, copy.id) /\ UNCHANGED trouble
            \/ NotFound(rq)
         /\ UNCHANGED <<obj, rev, cache, behind, queued, copy, cur, sloIDs, dtID>>
      \/ Fails(rq) /\ Requeue
  BY DEF Deletes
<1> HIDE DEF rq
<1>4. /\ tenant' \in [Ids -> Payloads] /\ made' \in 0..MaxIds /\ made <= made'
      /\ TroubleOK
  <2>1. UNCHANGED <<tenant, made>> \/ \E i \in Ids : Succeeds(rq, i)
    BY <1>1, <1>2, <1>3, FailsFacts
  <2>2. TroubleOK
    BY <1>1, <1>3, FailsFacts DEF TroubleOK, TypeOK
  <2> QED
    BY <1>1, <1>2, <2>1, <2>2, RequestFacts DEF TypeOK
<1>5. CASE Fails(rq) /\ Requeue
  BY <1>1, <1>4, <1>5, RequeueKeeps DEF sloVars
<1>6. CASE /\ pc' = "unfinalize"
           /\ \/ Succeeds(rq, copy.id) /\ UNCHANGED trouble
              \/ NotFound(rq)
           /\ UNCHANGED <<obj, rev, cache, behind, queued, copy, cur, sloIDs,
                          dtID>>
  <2>1. TypeOK'
    BY <1>1, <1>4, <1>6 DEF TypeOK, TroubleOK, PCs
  <2>2. StreamInv' /\ CurInv'
    BY <1>1, <1>6 DEF StoreInv, StreamInv, CurInv, LeavingCalls
  <2>3. PcInv' /\ HeldInv'
    BY <1>1, <1>6 DEF PcInv, HeldInv, HeldCalls, LeavingCalls
  <2>4. IdsInv'
    <3>1. obj.id \in Nat /\ cache.id \in Nat /\ copy.id \in Nat /\ dtID \in Nat
          /\ made \in Nat
      BY <1>1, AbsentFacts DEF TypeOK
    <3> QED
      BY <1>1, <1>4, <1>6, <3>1 DEF IdsInv
  <2>5. tenant'[copy.id].gen = Gone
    <3>1. CASE Succeeds(rq, copy.id)
      BY <1>1, <1>2, <3>1, RequestFacts DEF rq, Nothing
    <3>2. CASE NotFound(rq)
      BY <1>2, <3>2 DEF NotFound, Finds, Live, rq
    <3> QED
      BY <1>6, <3>1, <3>2
  <2>6. GoneInv'
    BY <1>6, <2>5 DEF GoneInv, Live
  <2> QED
    BY <2>1, <2>2, <2>3, <2>4, <2>6 DEF ManagedInv
<1> QED
  BY <1>3, <1>5, <1>6

LEMMA UnholdsKeeps == ManagedInv /\ Unholds => ManagedInv'
<1> SUFFICES ASSUME ManagedInv, Unholds PROVE ManagedInv'
  OBVIOUS
<1>1. /\ TypeOK /\ CurInv /\ PcInv /\ pc = "unfinalize" /\ cur
      /\ Write(Absent, FALSE) /\ Finish
      /\ UNCHANGED <<rev, client, sloVars, tenant, made, trouble>>
  BY StoreFacts DEF ManagedInv, Unholds, UpdateAccepted, dtVars
<1>2. obj.del /\ behind = 0
  BY <1>1 DEF CurInv, PcInv, LeavingCalls
<1>3. StoreInv'
  BY <1>1, <1>2, StoreGone
<1>4. /\ obj' \in Objects /\ cache' \in Objects /\ behind' \in 1..MaxLag
  BY <1>1, AbsentFacts, WriteFacts
<1>5. queued' \in BOOLEAN
  BY <1>1, AbsentFacts, WriteFacts
<1>6. /\ rev' \in 0..MaxRev /\ behind' \in 0..MaxLag
      /\ tenant' \in [Ids -> Payloads] /\ made' \in 0..MaxIds /\ TroubleOK
  BY <1>1, <1>4 DEF TypeOK, TroubleOK
<1>7. client' \in BOOLEAN
  BY <1>1 DEF TypeOK
<1>8. TypeOK'
  BY <1>1, <1>4, <1>5, <1>6, <1>7, FinishType
<1> QED
  BY <1>1, <1>3, <1>8, FinishKeeps

LEMMA SLOMovesKeeps == ManagedInv /\ SLOMoves => ManagedInv'
<1> SUFFICES ASSUME ManagedInv, NEW r \in SLONames, SLOStep(r), queued' \in BOOLEAN
             PROVE  ManagedInv'
  BY DEF SLOMoves
<1> USE DEF k8sVars, informerVars, workerVars, dtVars
<1>1. /\ TypeOK
      /\ UNCHANGED <<obj, rev, cache, behind, pc, copy, cur, sloIDs, dtID,
                     client, tenant, made, trouble>>
  BY StoreFacts DEF SLOStep
<1>2. /\ changes' \in 0..MaxChanges /\ changes' \in SLOIds
      /\ changes' = changes + 1
  BY <1>1 DEF SLOStep, TypeOK, SLOIds
<1>3. /\ slos' \in [SLONames -> 0..Missing]
      /\ assigned' \subseteq SLONames \X SLOIds
  <2>1. /\ slos \in [SLONames -> 0..Missing]
        /\ assigned \subseteq SLONames \X SLOIds
        /\ NoId \in 0..Missing /\ Missing \in 0..Missing
        /\ changes' \in 0..Missing
    BY <1>1, <1>2 DEF TypeOK, NoId, Missing, SLOIds
  <2>2. \/ slos' = [slos EXCEPT ![r] = NoId] /\ assigned' = assigned
        \/ slos' = [slos EXCEPT ![r] = changes'] /\ assigned' = assigned \cup {<<r, changes'>>}
        \/ slos' = [slos EXCEPT ![r] = Missing] /\ assigned' = assigned
    BY <1>2 DEF SLOStep
  <2>3. <<r, changes'>> \in SLONames \X SLOIds
    BY <1>2
  <2> QED
    BY <2>1, <2>2, <2>3
<1>4. TypeOK'
  BY <1>1, <1>2, <1>3 DEF TypeOK
<1>5. StreamInv' /\ CurInv' /\ PcInv' /\ HeldInv' /\ IdsInv' /\ GoneInv'
  BY <1>1 DEF ManagedInv, StreamInv, CurInv, PcInv, HeldInv, IdsInv, GoneInv,
              Live
<1> QED
  BY <1>4, <1>5 DEF ManagedInv

LEMMA DeliverKeeps == ManagedInv /\ Deliver => ManagedInv'
<1> SUFFICES ASSUME ManagedInv, Deliver PROVE ManagedInv'
  OBVIOUS
<1> USE DEF k8sVars, workerVars, sloVars, dtVars
<1>1. /\ TypeOK /\ CurInv /\ PcInv /\ HeldInv /\ IdsInv /\ GoneInv
      /\ cache' = obj /\ behind' = 0
      /\ UNCHANGED <<obj, rev, pc, copy, cur, sloIDs, dtID, client, slos,
                     changes, assigned, tenant, made, trouble>>
  BY StoreFacts DEF ManagedInv, Deliver
<1>2. StoreInv'
  BY <1>1, StoreShown
<1>3. queued' \in BOOLEAN
  BY Zenon DEF Deliver
<1>4. cache' \in Objects /\ behind' \in 0..MaxLag
  BY <1>1 DEF TypeOK
<1>5. TypeOK'
  BY <1>1, <1>3, <1>4 DEF TypeOK
<1>6. CurInv' /\ PcInv' /\ GoneInv'
  BY <1>1 DEF CurInv, PcInv, GoneInv, Live
<1>7. HeldInv' /\ IdsInv'
  BY <1>1, <1>2 DEF HeldInv, IdsInv, StoreInv
<1> QED
  BY <1>2, <1>5, <1>6, <1>7 DEF ManagedInv, StoreInv

LEMMA RestartKeeps == ManagedInv /\ Restart => ManagedInv'
<1> SUFFICES ASSUME ManagedInv, Restart PROVE ManagedInv'
  OBVIOUS
<1> USE DEF k8sVars, informerVars, dtVars
<1>1. /\ TypeOK /\ Finish /\ UNCHANGED <<obj, rev, sloVars, tenant, made>>
      /\ \/ cache' = obj /\ behind' = 0
         \/ UNCHANGED <<cache, behind>>
  BY StoreFacts DEF Restart
<1>2. queued' \in BOOLEAN
  BY Zenon DEF Restart
<1>3. client' \in BOOLEAN
  <2>1. client \in BOOLEAN
    BY <1>1 DEF TypeOK
  <2> QED
    BY <2>1, Zenon DEF Restart
<1>4. TroubleOK
  BY <1>1 DEF Restart, Meet, TroubleOK, TypeOK
<1>5. /\ obj' \in Objects /\ rev' \in 0..MaxRev
      /\ cache' \in Objects /\ behind' \in 0..MaxLag
      /\ tenant' \in [Ids -> Payloads] /\ made' \in 0..MaxIds
      /\ made' \in Nat /\ made <= made'
  BY <1>1 DEF TypeOK
<1>6. TypeOK'
  BY <1>1, <1>2, <1>3, <1>4, <1>5, FinishType
<1>7. StoreInv'
  BY <1>1, <1>5, StoreSame, StoreShown
<1> QED
  BY <1>1, <1>6, <1>7, FinishKeeps

\* The types after a user's write of the object.
LEMMA UserType ==
    ASSUME TypeOK, NEW o \in Objects, Write(o, FALSE), cur' = FALSE,
           rev' \in 0..MaxRev,
           UNCHANGED <<pc, copy, sloIDs, dtID, client, sloVars, dtVars, trouble>>
    PROVE  TypeOK'
<1>1. obj' \in Objects /\ cache' \in Objects /\ behind' \in 1..MaxLag
  BY WriteFacts
<1>2. queued' \in BOOLEAN
  BY WriteFacts
<1>3. cur' \in BOOLEAN
  BY Zenon
<1>4. behind' \in 0..MaxLag
  BY <1>1
<1> QED
  BY <1>1, <1>2, <1>3, <1>4 DEF TypeOK, sloVars, dtVars

LEMMA CreateCRKeeps == ManagedInv /\ CreateCR => ManagedInv'
<1> SUFFICES ASSUME ManagedInv, CreateCR PROVE ManagedInv'
  OBVIOUS
<1>1. /\ TypeOK /\ HeldInv /\ ~Exists(obj) /\ cur' = FALSE
      /\ rev' = rev + 1 /\ rev < MaxRev
      /\ UNCHANGED <<pc, copy, sloIDs, dtID, client, sloVars, dtVars, trouble>>
  BY StoreFacts DEF ManagedInv, CreateCR
<1>2. PICK refs \in RefLists : Write(NewObject(rev + 1, refs), FALSE)
  BY DEF CreateCR
<1> DEFINE o == NewObject(rev + 1, refs)
<1>3. rev + 1 \in 1..MaxRev /\ rev' \in 0..MaxRev /\ made \in Nat
  BY <1>1 DEF TypeOK
<1>4. o \in CRs /\ o.id = NoId /\ ~o.fin /\ ~o.del /\ o \in Objects
  BY <1>3, NewObjectFacts, AbsentFacts
<1> HIDE DEF o
<1>5. Write(o, FALSE)
  BY <1>2 DEF o
<1>6. o.id <= made /\ UNCHANGED made
  BY <1>1, <1>3, <1>4 DEF NoId, dtVars
<1>7. StoreInv'
  BY <1>1, <1>4, <1>5, <1>6, StoreWritten
<1>8. TypeOK'
  BY <1>1, <1>3, <1>4, <1>5, UserType
<1>9. pc \notin HeldCalls
  BY <1>1 DEF HeldInv
<1> QED
  BY <1>1, <1>7, <1>8, <1>9, UserKeeps

LEMMA EditSpecKeeps == ManagedInv /\ EditSpec => ManagedInv'
<1> SUFFICES ASSUME ManagedInv, EditSpec PROVE ManagedInv'
  OBVIOUS
<1>1. /\ TypeOK /\ HeldInv /\ StoreInv /\ Exists(obj) /\ ~obj.del /\ cur' = FALSE
      /\ rev' = rev + 1 /\ rev < MaxRev
      /\ UNCHANGED <<pc, copy, sloIDs, dtID, client, sloVars, dtVars, trouble>>
  BY StoreFacts DEF ManagedInv, EditSpec
<1>2. PICK refs \in RefLists :
         Write([obj EXCEPT !.gen = rev + 1, !.refs = refs], FALSE)
  BY DEF EditSpec
<1> DEFINE o == [obj EXCEPT !.gen = rev + 1, !.refs = refs]
<1>3. /\ rev + 1 \in 1..MaxRev /\ rev' \in 0..MaxRev /\ obj \in CRs
      /\ UNCHANGED made
  BY <1>1, AbsentFacts DEF TypeOK, dtVars
<1>4. /\ o \in CRs /\ o.id = obj.id /\ o.fin = obj.fin /\ o.del = obj.del
  BY <1>3, EditedFacts
<1> HIDE DEF o
<1>5. Write(o, FALSE) /\ o \in Objects /\ Exists(o)
  BY <1>2, <1>4, AbsentFacts DEF o
<1>6. StoreInv'
  BY <1>1, <1>3, <1>4, <1>5, StoreWritten DEF StoreInv
<1>7. TypeOK'
  BY <1>1, <1>3, <1>5, UserType
<1>8. pc \in HeldCalls => Exists(obj') /\ obj'.fin
  <2>1. obj' = o
    BY <1>5 DEF Write
  <2> QED
    BY <1>1, <1>4, <1>5, <2>1 DEF HeldInv
<1> QED
  BY <1>1, <1>6, <1>7, <1>8, UserKeeps

LEMMA DeleteCRKeeps == ManagedInv /\ DeleteCR => ManagedInv'
<1> SUFFICES ASSUME ManagedInv, DeleteCR PROVE ManagedInv'
  OBVIOUS
<1>1. /\ TypeOK /\ HeldInv /\ StoreInv /\ Exists(obj) /\ ~obj.del /\ cur' = FALSE
      /\ UNCHANGED <<rev, pc, copy, sloIDs, dtID, client, sloVars, dtVars,
                     trouble>>
      /\ Write(IF obj.fin THEN [obj EXCEPT !.del = TRUE] ELSE Absent, FALSE)
  BY StoreFacts DEF ManagedInv, DeleteCR
<1>2. rev' \in 0..MaxRev /\ obj \in CRs /\ UNCHANGED made
  BY <1>1, AbsentFacts DEF TypeOK, dtVars
<1>3. CASE obj.fin
  <2> DEFINE o == [obj EXCEPT !.del = TRUE]
  <2>1. o \in CRs /\ o.id = obj.id /\ o.fin = obj.fin /\ o.del
    BY <1>2, MarkedFacts
  <2>2. Write(o, FALSE)
    BY <1>1, <1>3
  <2> HIDE DEF o
  <2>3. o \in Objects /\ Exists(o) /\ obj' = o
    BY <2>1, <2>2, AbsentFacts DEF Write
  <2>4. StoreInv'
    BY <1>1, <1>2, <1>3, <2>1, <2>2, StoreWritten DEF StoreInv
  <2>5. TypeOK'
    BY <1>1, <1>2, <2>2, <2>3, UserType
  <2> QED
    BY <1>1, <1>3, <2>1, <2>3, <2>4, <2>5, UserKeeps
<1>4. CASE ~obj.fin
  <2>1. Write(Absent, FALSE)
    BY <1>1, <1>4
  <2>2. StoreInv'
    BY <1>2, <1>4, <2>1, StoreGone
  <2>3. TypeOK'
    BY <1>1, <1>2, <2>1, UserType, AbsentFacts
  <2>4. pc \notin HeldCalls
    BY <1>1, <1>4 DEF HeldInv
  <2> QED
    BY <1>1, <2>2, <2>3, <2>4, UserKeeps
<1> QED
  BY <1>3, <1>4

\* In the UI resources are changed and deleted, but not created.
LEMMA UIFacts ==
    ASSUME TypeOK, ChangeInUI
    PROVE  /\ tenant' \in [Ids -> Payloads] /\ TroubleOK
           /\ \A i \in Ids : Live(i)' => Live(i)
           /\ UNCHANGED <<obj, rev, cache, behind, queued, pc, copy, cur, sloIDs,
                          dtID, client, slos, changes, assigned, made>>
           /\ "uiDelete" \notin Troubles => \A i \in Ids : Live(i)' <=> Live(i)
<1>1. PICK i \in Ids :
         /\ Live(i)
         /\ \/ Meet("uiEdit") /\ tenant' = [tenant EXCEPT ![i].gen = Edited]
            \/ Meet("uiDelete") /\ tenant' = [tenant EXCEPT ![i] = Nothing]
  BY DEF ChangeInUI
<1>2. TroubleOK /\ tenant \in [Ids -> Payloads]
  BY <1>1 DEF Meet, TroubleOK, TypeOK
<1>3. Nothing \in Payloads /\ Nothing.gen = Gone /\ Edited \in 0..(MaxRev + 1)
      /\ Edited # Gone
  BY DEF Nothing, Payloads, Gone, Edited
<1>4. CASE Meet("uiEdit") /\ tenant' = [tenant EXCEPT ![i].gen = Edited]
  <2> DEFINE p == [tenant[i] EXCEPT !.gen = Edited]
  <2>1. p \in Payloads /\ p.gen = Edited
    BY <1>2, <1>3 DEF Payloads
  <2>2. tenant' = [tenant EXCEPT ![i] = p]
    BY <1>4
  <2> HIDE DEF p
  <2>3. tenant' \in [Ids -> Payloads] /\ \A j \in Ids : Live(j)' <=> Live(j)
    BY <1>1, <1>2, <1>3, <2>1, <2>2 DEF Live
  <2> QED
    BY <1>2, <2>3 DEF ChangeInUI, k8sVars, informerVars, workerVars, sloVars
<1>5. CASE Meet("uiDelete") /\ tenant' = [tenant EXCEPT ![i] = Nothing]
  <2>1. tenant' \in [Ids -> Payloads] /\ \A j \in Ids : Live(j)' => Live(j)
    BY <1>2, <1>3, <1>5 DEF Live
  <2>2. "uiDelete" \in Troubles
    BY <1>5 DEF Meet
  <2> QED
    BY <1>2, <2>1, <2>2 DEF ChangeInUI, k8sVars, informerVars, workerVars, sloVars
<1> QED
  BY <1>1, <1>4, <1>5

LEMMA ChangeInUIKeeps == ManagedInv /\ ChangeInUI => ManagedInv'
<1> SUFFICES ASSUME ManagedInv, ChangeInUI PROVE ManagedInv'
  OBVIOUS
<1>1. /\ TypeOK
      /\ tenant' \in [Ids -> Payloads] /\ TroubleOK
      /\ \A i \in Ids : Live(i)' => Live(i)
      /\ UNCHANGED <<obj, rev, cache, behind, queued, pc, copy, cur, sloIDs, dtID,
                     client, slos, changes, assigned, made>>
  BY StoreFacts, UIFacts
<1>2. TypeOK'
  BY <1>1 DEF TypeOK, TroubleOK
<1>3. StreamInv' /\ CurInv' /\ PcInv' /\ HeldInv' /\ IdsInv'
  BY <1>1 DEF ManagedInv, StreamInv, CurInv, PcInv, HeldInv, IdsInv
<1>4. GoneInv'
  <2> SUFFICES ASSUME pc = "unfinalize", client, copy.id # NoId
               PROVE  ~Live(copy.id)'
    BY <1>1 DEF GoneInv, Live
  <2>1. copy.id \in Ids
    BY <1>1, AbsentFacts DEF TypeOK, Ids, NoId
  <2>2. ~Live(copy.id)
    BY DEF ManagedInv, GoneInv
  <2>3. Live(copy.id)' <=> tenant'[copy.id].gen # Gone
    BY <1>1 DEF Live
  <2>4. tenant'[copy.id].gen # Gone => Live(copy.id)
    BY <1>1, <2>1 DEF Live
  <2> QED
    BY <2>2, <2>3, <2>4
<1> QED
  BY <1>2, <1>3, <1>4 DEF ManagedInv

\* The invariant is inductive.
LEMMA ManagedKeeps ==
    ManagedInv /\ (ManagedStep \/ UNCHANGED vars) => ManagedInv'
<1>1. ManagedInv /\ WorkerStep => ManagedInv'
  BY TakesKeeps, HoldsKeeps, ResolvesKeeps, AppliesKeeps, PatchesKeeps,
     DeletesKeeps, UnholdsKeeps, ReturnsKeeps DEF WorkerStep
<1>2. ManagedInv /\ Surroundings => ManagedInv'
  BY DeliverKeeps, RestartKeeps, CreateCRKeeps, EditSpecKeeps, DeleteCRKeeps,
     ChangeInUIKeeps DEF Surroundings
<1>3. ManagedInv /\ UNCHANGED vars => ManagedInv'
  BY DEF vars, ManagedInv, TypeOK, StreamInv, CurInv, PcInv, HeldInv, IdsInv,
         GoneInv, Live
<1> QED
  BY <1>1, <1>2, <1>3, SLOMovesKeeps DEF ManagedStep

-----------------------------------------------------------------------------
(* What a step comes to for the object, its copies and the tenant.         *)

\* The object stays as it is.  What the worker is about to record is live.
Quiet ==
    /\ obj' = obj /\ cache' \in {cache, obj}
    /\ \/ UNCHANGED <<pc, copy, dtID>>
       \/ pc' # "patch" /\ copy' \in {copy, cache, Absent}
       \/ /\ pc' = "patch" /\ copy' = copy
          /\ dtID' # copy.id => dtID' \in Ids /\ tenant'[dtID'].gen # Gone

\* The object is stored with another spec or another status.
Rewrites ==
    /\ Exists(obj)
    /\ UNCHANGED dtVars
    /\ UNCHANGED <<pc, copy, dtID>> \/ Finish
    /\ \E o \in CRs, r \in BOOLEAN :
          /\ Write(o, r)
          /\ o.fin = obj.fin /\ o.del = obj.del
          /\ \/ o.id = obj.id
             \/ pc = "patch" /\ dtID # copy.id /\ o.id = dtID

LEMMA AppliesQuiet ==
    ASSUME ManagedInv, NEW pay \in Payloads, Applies(pay)
    PROVE  Quiet
<1> DEFINE rq == [id |-> copy.id, pay |-> pay]
<1>1. /\ TypeOK /\ PcInv /\ pay.gen = copy.gen /\ pc = "apply"
      /\ obj' = obj /\ cache' = cache /\ copy' = copy
      /\ \/ /\ \E i \in Ids :
                /\ Succeeds(rq, i)
                /\ dtID' = i \/ (copy.id = NoId /\ dtID' = NoId)
            /\ pc' = "patch"
         \/ pc' = "fail"
  BY StoreFacts DEF ManagedInv, Applies, k8sVars, informerVars
<1>2. rq \in Requests /\ rq.pay = pay /\ pay.gen # Gone
  BY <1>1, AbsentFacts DEF Requests, TypeOK, PcInv, Exists, Gone
<1> HIDE DEF rq
<1>3. ASSUME NEW i \in Ids, Succeeds(rq, i)
      PROVE  tenant'[i].gen # Gone
  BY <1>1, <1>2, <1>3, RequestFacts
<1> QED
  BY <1>1, <1>3 DEF Quiet

LEMMA PatchesCases ==
    ASSUME ManagedInv,
           NEW i \in 0..MaxIds, NEW g \in 0..MaxRev, NEW c \in Conditions,
           Patches([copy EXCEPT !.id = i, !.obs = g, !.cond = c])
    PROVE  Quiet \/ Rewrites
<1> DEFINE n == [copy EXCEPT !.id = i, !.obs = g, !.cond = c]
<1>1. /\ TypeOK /\ PcInv /\ pc \in {"patch", "fail"} /\ UNCHANGED dtVars
  BY StoreFacts DEF ManagedInv, Patches
<1>2. copy \in CRs
  BY <1>1, AbsentFacts DEF TypeOK, PcInv
<1>3. n.id = i /\ n.obs = g /\ n.cond = c
  BY <1>2 DEF CRs
<1>4. i = IF pc = "patch" THEN dtID ELSE copy.id
  BY <1>3 DEF Patches
<1>5. PICK w \in BOOLEAN, t \in BOOLEAN : PatchStatus(n, w, t)
  BY DEF Patches
<1> HIDE DEF n
<1>6. /\ Finish
      /\ \/ Requeue
         \/ \E o \in CRs :
              /\ Exists(obj)
              /\ Write(o, TRUE)
              /\ o.fin = obj.fin /\ o.del = obj.del
              /\ o.id = obj.id \/ (n.id # copy.id /\ o.id = n.id)
  BY <1>1, <1>3, <1>5, PatchFacts
<1>7. CASE Requeue
  BY <1>7, FinishFacts DEF Quiet, Requeue, k8sVars, informerVars
<1>8. ASSUME NEW o \in CRs, Exists(obj), Write(o, TRUE),
             o.fin = obj.fin, o.del = obj.del,
             o.id = obj.id \/ (n.id # copy.id /\ o.id = n.id)
      PROVE  Rewrites
  BY <1>1, <1>3, <1>4, <1>6, <1>8 DEF Rewrites
<1> QED
  BY <1>6, <1>7, <1>8

LEMMA EditSpecCases ==
    ASSUME ManagedInv, EditSpec
    PROVE  Rewrites
<1>1. /\ Exists(obj) /\ rev + 1 \in 1..MaxRev /\ obj \in CRs
      /\ UNCHANGED <<pc, copy, dtID, dtVars>>
  BY StoreFacts, AbsentFacts DEF EditSpec, TypeOK
<1>2. PICK refs \in RefLists :
         Write([obj EXCEPT !.gen = rev + 1, !.refs = refs], FALSE)
  BY DEF EditSpec
<1> DEFINE o == [obj EXCEPT !.gen = rev + 1, !.refs = refs]
<1>3. o \in CRs /\ o.id = obj.id /\ o.fin = obj.fin /\ o.del = obj.del
  BY <1>1, EditedFacts
<1>4. Write(o, FALSE)
  BY <1>2
<1> HIDE DEF o
<1> QED
  BY <1>1, <1>3, <1>4 DEF Rewrites

LEMMA StepCases ==
    ASSUME ManagedInv, ManagedStep \/ UNCHANGED vars
    PROVE  Quiet \/ Rewrites \/ Holds \/ Unholds \/ CreateCR \/ DeleteCR
<1> USE DEF k8sVars, informerVars, workerVars, sloVars, dtVars
<1>1. Finish => pc' # "patch" /\ copy' = Absent
  BY DEF Finish
<1>2. Takes \/ Resolves => Quiet
  BY DEF Takes, Resolves, Fits, Quiet
<1>3. Deletes \/ Returns => Quiet
  BY <1>1 DEF Deletes, Returns, Requeue, Quiet
<1>4. Deliver \/ Restart => Quiet
  BY <1>1 DEF Deliver, Restart, Quiet
<1>5. SLOMoves \/ ChangeInUI \/ UNCHANGED vars => Quiet
  BY DEF SLOMoves, SLOStep, ChangeInUI, vars, Quiet
<1> QED
  BY <1>2, <1>3, <1>4, <1>5, AppliesQuiet, PatchesCases, EditSpecCases
     DEF ManagedStep, WorkerStep, Surroundings

\* The step property CleanDelete of both controllers: a process with a client
\* drops the finalizer, and the object with it, only after the resource the
\* object records is gone.
LEMMA CleanStep ==
    ASSUME ManagedInv, ManagedStep \/ UNCHANGED vars,
           client, Exists(obj), obj.fin, ~Exists(obj')
    PROVE  obj.id = NoId \/ ~Live(obj.id)
<1>1. /\ TypeOK /\ CurInv /\ GoneInv
  BY StoreFacts DEF ManagedInv
<1>2. obj \in CRs
  BY <1>1, AbsentFacts DEF TypeOK
<1>3. ASSUME NEW o \in CRs, NEW r \in BOOLEAN, Write(o, r)
      PROVE  FALSE
  BY <1>3, AbsentFacts DEF Write
<1>4. ~Quiet /\ ~Rewrites
  BY <1>3 DEF Quiet, Rewrites
<1>5. ~Holds
  <2> SUFFICES ASSUME Write([obj EXCEPT !.fin = TRUE], FALSE) PROVE FALSE
    BY DEF Holds
  <2> QED
    BY <1>2, <1>3, FinalizedFacts
<1>6. ~CreateCR
  BY DEF CreateCR
<1>7. ~DeleteCR
  <2> SUFFICES ASSUME Write([obj EXCEPT !.del = TRUE], FALSE) PROVE FALSE
    BY DEF DeleteCR
  <2> QED
    BY <1>2, <1>3, MarkedFacts
<1>8. Unholds
  BY <1>4, <1>5, <1>6, <1>7, StepCases
<1> QED
  BY <1>1, <1>8 DEF Unholds, UpdateAccepted, CurInv, GoneInv

-----------------------------------------------------------------------------
(* The promise of TenantMirror, where nobody deletes in the UI and the     *)
(* credentials stay.                                                       *)

Calm == "uiDelete" \notin Troubles /\ "secret" \notin Troubles

\* Nothing comes to life or dies.
LivesSame ==
    /\ made' = made
    /\ \A j \in Ids : tenant'[j].gen # Gone <=> Live(j)

\* The POST of an apply call, executed.
Creates ==
    /\ pc = "apply" /\ obj' = obj
    /\ made + 1 \in Ids /\ made' = made + 1
    /\ tenant'[made + 1].gen # Gone
    /\ \A j \in Ids : j # made + 1 => (tenant'[j].gen # Gone <=> Live(j))

\* The DELETE of a delete call, executed.
Destroys ==
    /\ pc = "delete" /\ obj' = obj /\ made' = made
    /\ copy.id \in Ids /\ Live(copy.id) /\ tenant'[copy.id].gen = Gone
    /\ \A j \in Ids : j # copy.id => (tenant'[j].gen # Gone <=> Live(j))

LEMMA AppliesTenant ==
    ASSUME ManagedInv, NEW pay \in Payloads, Applies(pay)
    PROVE  LivesSame \/ Creates
<1> DEFINE rq == [id |-> copy.id, pay |-> pay]
<1>1. /\ TypeOK /\ PcInv /\ pay.gen = copy.gen /\ pc = "apply" /\ obj' = obj
      /\ \/ \E i \in Ids : Succeeds(rq, i)
         \/ NotFound(rq) \/ Fails(rq)
  BY StoreFacts DEF ManagedInv, Applies, k8sVars
<1>2. rq \in Requests /\ rq.id = copy.id /\ rq.pay = pay /\ pay.gen # Gone
  BY <1>1, AbsentFacts DEF Requests, TypeOK, PcInv, Exists, Gone
<1> HIDE DEF rq
<1>3. UNCHANGED dtVars \/ \E i \in Ids : Succeeds(rq, i)
  BY <1>1, FailsFacts
<1>4. CASE UNCHANGED dtVars
  BY <1>4 DEF LivesSame, Live, dtVars
<1>5. ASSUME NEW i \in Ids, Succeeds(rq, i)
      PROVE  LivesSame \/ Creates
  <2>1. /\ tenant'[i] = pay
        /\ \A j \in Ids : j # i => tenant'[j] = tenant[j]
        /\ rq.id = NoId => i = made + 1 /\ made' = i
        /\ rq.id # NoId => i = rq.id /\ Live(i) /\ made' = made
    BY <1>1, <1>2, <1>5, RequestFacts
  <2>2. \A j \in Ids : j # i => (tenant'[j].gen # Gone <=> Live(j))
    BY <2>1 DEF Live
  <2>3. CASE rq.id = NoId
    BY <1>1, <1>2, <2>1, <2>2, <2>3 DEF Creates
  <2>4. CASE rq.id # NoId
    BY <1>1, <1>2, <2>1, <2>2, <2>4 DEF LivesSame
  <2> QED
    BY <2>3, <2>4
<1> QED
  BY <1>3, <1>4, <1>5

LEMMA DeletesTenant ==
    ASSUME ManagedInv, Deletes
    PROVE  LivesSame \/ Destroys
<1> DEFINE rq == [id |-> copy.id, pay |-> Nothing]
<1>1. /\ TypeOK /\ PcInv /\ pc = "delete" /\ obj' = obj
      /\ Succeeds(rq, copy.id) \/ NotFound(rq) \/ Fails(rq)
  BY StoreFacts DEF ManagedInv, Deletes, Requeue, k8sVars
<1>2. /\ rq \in Requests /\ rq.id = copy.id /\ rq.pay.gen = Gone
      /\ copy.id # NoId /\ copy.id \in Ids
  <2>1. Nothing \in Payloads /\ Nothing.gen = Gone
    BY DEF Nothing, Payloads, Gone
  <2>2. copy.id \in 0..MaxIds /\ copy.id # NoId
    BY <1>1, AbsentFacts DEF TypeOK, PcInv
  <2> QED
    BY <2>1, <2>2 DEF Requests, Ids, NoId
<1> HIDE DEF rq
<1>3. UNCHANGED dtVars \/ \E i \in Ids : Succeeds(rq, i)
  BY <1>1, <1>2, FailsFacts
<1>4. CASE UNCHANGED dtVars
  BY <1>4 DEF LivesSame, Live, dtVars
<1>5. ASSUME NEW i \in Ids, Succeeds(rq, i)
      PROVE  Destroys
  <2>1. /\ tenant'[i].gen = Gone
        /\ \A j \in Ids : j # i => tenant'[j] = tenant[j]
        /\ i = copy.id /\ Live(i) /\ made' = made
    BY <1>1, <1>2, <1>5, RequestFacts
  <2>2. \A j \in Ids : j # i => (tenant'[j].gen # Gone <=> Live(j))
    BY <2>1 DEF Live
  <2> QED
    BY <1>1, <1>2, <2>1, <2>2 DEF Destroys
<1> QED
  BY <1>3, <1>4, <1>5

LEMMA CalmTenant ==
    ASSUME Calm, ManagedInv, ManagedStep \/ UNCHANGED vars
    PROVE  LivesSame \/ Creates \/ Destroys
<1>1. UNCHANGED dtVars => LivesSame
  BY DEF LivesSame, Live, dtVars
<1>2. ChangeInUI => LivesSame
  <2> SUFFICES ASSUME ChangeInUI PROVE LivesSame
    OBVIOUS
  <2>1. made' = made /\ \A i \in Ids : Live(i)' <=> Live(i)
    BY StoreFacts, UIFacts DEF Calm
  <2> QED
    BY <2>1 DEF LivesSame, Live
<1>3. Takes \/ Holds \/ Resolves \/ Unholds \/ Returns => UNCHANGED dtVars
  BY DEF Takes, Holds, Resolves, Unholds, Returns
<1>4. ASSUME NEW n, Patches(n)
      PROVE  UNCHANGED dtVars
  BY <1>4 DEF Patches
<1>5. SLOMoves \/ Deliver \/ Restart \/ CreateCR \/ EditSpec \/ DeleteCR
      \/ UNCHANGED vars => UNCHANGED dtVars
  BY DEF SLOMoves, SLOStep, Deliver, Restart, CreateCR, EditSpec, DeleteCR,
         vars, dtVars
<1> QED
  BY <1>1, <1>2, <1>3, <1>4, <1>5, AppliesTenant, DeletesTenant
     DEF ManagedStep, WorkerStep, Surroundings

LEMMA CalmClient ==
    ASSUME Calm, ManagedStep \/ UNCHANGED vars, client
    PROVE  client'
<1>1. client' = client
  <2>1. Takes \/ Holds \/ Resolves \/ Deletes \/ Unholds \/ Returns
        => client' = client
    BY DEF Takes, Holds, Resolves, Deletes, Unholds, Returns
  <2>2. ASSUME NEW n, Patches(n) \/ Applies(n)
        PROVE  client' = client
    BY <2>2 DEF Patches, Applies
  <2>3. SLOMoves \/ Deliver \/ CreateCR \/ EditSpec \/ DeleteCR \/ ChangeInUI
        \/ UNCHANGED vars => client' = client
    BY DEF SLOMoves, SLOStep, Deliver, CreateCR, EditSpec, DeleteCR,
           ChangeInUI, vars
  <2>4. Restart => client' = client
    BY DEF Calm, Restart
  <2> QED
    BY <2>1, <2>2, <2>3, <2>4 DEF ManagedStep, WorkerStep, Surroundings
<1> QED
  BY <1>1

LEMMA LeavingInit == Init => LeavingInv
<1> SUFFICES ASSUME Init PROVE LeavingInv
  OBVIOUS
<1>1. obj = Absent /\ cache = Absent /\ copy = Absent /\ pc = "idle"
  BY DEF Init
<1>2. client
  BY DEF Init
<1> QED
  BY <1>1, <1>2, AbsentFacts DEF LeavingInv

LEMMA LeavingStep ==
    ASSUME Calm, LeavingInv, ManagedInv, ManagedStep \/ UNCHANGED vars
    PROVE  LeavingInv'
<1>1. /\ TypeOK /\ CurInv /\ PcInv /\ HeldInv /\ IdsInv /\ GoneInv /\ StreamInv
  BY StoreFacts DEF ManagedInv
<1> DEFINE Alive(c) == c.del /\ c.id # NoId /\ tenant'[c.id].gen # Gone
           Marked == Exists(obj) /\ obj.del
           Recordable == pc' = "patch" /\ dtID' # copy'.id
                           => dtID' # NoId /\ tenant'[dtID'].gen # Gone
\* An ID that was assigned is not assigned again, so what is dead stays dead.
<1>2. \A c \in {obj, cache, copy} : Alive(c) => Marked
  <2> SUFFICES ASSUME NEW c \in {obj, cache, copy}, Alive(c)
               PROVE  Live(c.id)
    BY DEF LeavingInv
  <2>1. c.id \in Ids /\ c.id <= made /\ made \in Nat
    BY <1>1, AbsentFacts DEF TypeOK, IdsInv, Ids, NoId
  <2>2. c.id # made + 1
    BY <2>1 DEF Ids
  <2> QED
    BY <2>1, <2>2, CalmTenant DEF LivesSame, Creates, Destroys
<1>3. ASSUME \A c \in {obj', cache', copy'} : Alive(c) => Marked', Recordable
      PROVE  LeavingInv'
  <2>1. client'
    BY CalmClient DEF LeavingInv
  <2>2. \A c \in {obj', cache', copy'} :
          c.del /\ c.id # NoId /\ tenant'[c.id].gen # Gone
             => Exists(obj') /\ obj'.del
    BY <1>3 DEF Exists
  <2> QED
    BY <1>3, <2>1, <2>2 DEF LeavingInv, Live, Exists
\* The ID about to be recorded stays live until it is.
<1>4. ASSUME UNCHANGED <<pc, copy, dtID>>
      PROVE  Recordable
  <2> SUFFICES ASSUME pc = "patch", dtID # copy.id
               PROVE  dtID # NoId /\ tenant'[dtID].gen # Gone
    BY <1>4
  <2>1. dtID \in Ids /\ Live(dtID)
    BY <1>1 DEF LeavingInv, TypeOK, Ids, NoId
  <2>2. LivesSame
    BY CalmTenant DEF Creates, Destroys
  <2> QED
    BY <2>1, <2>2 DEF LivesSame, Ids, NoId
<1>5. Finish => Recordable /\ ~Alive(copy')
  BY FinishFacts, AbsentFacts
<1> HIDE DEF Alive, Marked, Recordable
<1>6. CASE Quiet
  <2>1. Marked' <=> Marked
    BY <1>6 DEF Quiet, Marked, Exists
  <2>2. Recordable
    <3>1. CASE UNCHANGED <<pc, copy, dtID>>
      BY <1>4, <3>1
    <3>2. CASE pc' # "patch"
      BY <3>2 DEF Recordable
    <3>3. CASE /\ copy' = copy
               /\ dtID' # copy.id => dtID' \in Ids /\ tenant'[dtID'].gen # Gone
      BY <3>3 DEF Recordable, Ids, NoId
    <3> QED
      BY <1>6, <3>1, <3>2, <3>3 DEF Quiet
  <2>3. /\ obj' = obj /\ cache' \in {cache, obj}
        /\ copy' \in {copy, cache, Absent}
    BY <1>6 DEF Quiet
  <2>4. ~Alive(Absent)
    BY AbsentFacts DEF Alive
  <2> QED
    BY <1>2, <1>3, <2>1, <2>2, <2>3, <2>4
\* So only the object that a write stores is left to look at.
<1>7. ASSUME NEW o \in Objects, NEW r \in BOOLEAN, Write(o, r),
             Marked \/ Alive(o) => Exists(o) /\ o.del,
             copy' = copy \/ ~Alive(copy'), Recordable
      PROVE  LeavingInv'
  <2>1. obj' = o /\ cache' \in {obj, cache}
    BY <1>1, <1>7, WriteFacts
  <2>2. Marked' <=> Exists(o) /\ o.del
    BY <2>1 DEF Marked, Exists
  <2> QED
    BY <1>2, <1>3, <1>7, <2>1, <2>2
<1>8. CASE Rewrites
  <2>1. PICK o \in CRs, r \in BOOLEAN :
          Write(o, r) /\ o.fin = obj.fin /\ o.del = obj.del
    BY <1>8 DEF Rewrites
  <2>2. o \in Objects /\ Exists(o) /\ Exists(obj)
    BY <1>8, AbsentFacts DEF Rewrites
  <2>3. Recordable /\ (copy' = copy \/ ~Alive(copy'))
    BY <1>4, <1>5, <1>8 DEF Rewrites
  <2>4. Marked \/ Alive(o) => Exists(o) /\ o.del
    BY <2>1, <2>2 DEF Marked, Alive
  <2> QED
    BY <1>7, <2>1, <2>2, <2>3, <2>4
<1>9. CASE Holds
  <2> DEFINE o == [obj EXCEPT !.fin = TRUE]
  <2>1. obj \in CRs /\ copy = obj /\ ~obj.del /\ Write(o, FALSE)
    BY <1>1, <1>9, AbsentFacts DEF Holds, UpdateAccepted, TypeOK, CurInv, PcInv
  <2>2. o \in CRs /\ o.id = obj.id /\ o.fin /\ o.del = obj.del
    BY <2>1, FinalizedFacts
  <2>3. copy' = o /\ pc' # "patch"
    BY <1>9, <2>1 DEF Holds
  <2> HIDE DEF o
  <2>4. o \in Objects /\ Recordable /\ ~Alive(copy') /\ ~Alive(o) /\ ~Marked
    BY <2>1, <2>2, <2>3, AbsentFacts DEF Recordable, Alive, Marked
  <2> QED
    BY <1>7, <2>1, <2>4
<1>10. CASE Unholds
  <2>1. /\ copy = obj /\ behind = 0 /\ cache = obj
        /\ Write(Absent, FALSE) /\ Finish /\ UNCHANGED dtVars
    BY <1>1, <1>10 DEF Unholds, UpdateAccepted, CurInv, StreamInv, LeavingCalls
  <2>2. obj' = Absent /\ cache' \in {obj, cache}
    BY <1>1, <2>1, AbsentFacts, WriteFacts
  <2>3. obj.id # NoId => ~Live(obj.id)
    BY <1>1, <1>10, <2>1 DEF Unholds, GoneInv, LeavingInv
  <2>4. ~Alive(obj) /\ ~Alive(Absent)
    BY <2>1, <2>3, AbsentFacts DEF Alive, Live, dtVars
  <2> QED
    BY <1>3, <1>5, <2>1, <2>2, <2>4
<1>11. CASE CreateCR
  <2>1. PICK refs \in RefLists : Write(NewObject(rev + 1, refs), FALSE)
    BY <1>11 DEF CreateCR
  <2> DEFINE o == NewObject(rev + 1, refs)
  <2>2. rev + 1 \in 1..MaxRev /\ ~Exists(obj) /\ UNCHANGED <<pc, copy, dtID>>
    BY <1>1, <1>11 DEF CreateCR, TypeOK
  <2>3. o \in CRs /\ ~o.del /\ Write(o, FALSE)
    BY <2>1, <2>2, NewObjectFacts
  <2> HIDE DEF o
  <2>4. o \in Objects /\ ~Alive(o) /\ ~Marked
    BY <2>2, <2>3, AbsentFacts DEF Alive, Marked
  <2> QED
    BY <1>4, <1>7, <2>2, <2>3, <2>4
<1>12. CASE DeleteCR
  <2> DEFINE o == IF obj.fin THEN [obj EXCEPT !.del = TRUE] ELSE Absent
  <2>1. /\ obj \in CRs /\ ~obj.del /\ Write(o, FALSE)
        /\ UNCHANGED <<pc, copy, dtID>>
    BY <1>1, <1>12, AbsentFacts DEF DeleteCR, TypeOK
  <2>2. /\ o \in Objects
        /\ \/ o = Absent
           \/ Exists(o) /\ o.del
    BY <2>1, MarkedFacts, AbsentFacts
  <2> HIDE DEF o
  <2>3. ~Marked /\ (Alive(o) => Exists(o) /\ o.del)
    BY <2>1, <2>2, AbsentFacts DEF Marked, Alive
  <2> QED
    BY <1>4, <1>7, <2>1, <2>2, <2>3
<1> QED
  BY <1>6, <1>8, <1>9, <1>10, <1>11, <1>12, StepCases

-----------------------------------------------------------------------------
(* The refinement.                                                         *)

LEMMA PhaseFacts ==
    /\ ~Exists(obj) => Phase = "none"
    /\ Exists(obj) /\ obj.del => Phase = "leaving"
    /\ Exists(obj) /\ ~obj.del /\ obj.fin => Phase = "held"
    /\ Exists(obj) /\ ~obj.del /\ ~obj.fin => Phase = "open"
<1>1. ~Exists(obj) => Phase = "none"
  BY DEF Phase
<1>2. Exists(obj) /\ obj.del => Phase = "leaving"
  BY DEF Phase
<1>3. Exists(obj) /\ ~obj.del /\ obj.fin => Phase = "held"
  BY DEF Phase
<1>4. Exists(obj) /\ ~obj.del /\ ~obj.fin => Phase = "open"
  BY DEF Phase
<1> QED
  BY <1>1, <1>2, <1>3, <1>4

Lives == {i \in Ids : Live(i)}

LEMMA MirrorInit == Init => Mirror!Init
<1> SUFFICES ASSUME Init PROVE Mirror!Init
  OBVIOUS
<1>1. obj = Absent /\ Phase = "none" /\ 1..made = {}
  BY AbsentFacts, PhaseFacts DEF Init
<1>2. \A i \in Ids : ~Live(i)
  BY DEF Init, Live, Nothing
<1> QED
  BY <1>1, <1>2, AbsentFacts DEF Mirror!Init

LEMMA MirrorStep ==
    ASSUME Calm, LeavingInv, ManagedInv, ManagedStep \/ UNCHANGED vars
    PROVE  [Mirror!Next]_(Mirror!mirrorVars)
<1>1. /\ TypeOK /\ CurInv /\ PcInv /\ HeldInv /\ GoneInv
      /\ obj \in Objects /\ made \in 0..MaxIds
      /\ Exists(obj) => obj \in CRs
  BY StoreFacts, AbsentFacts DEF ManagedInv, TypeOK
<1>2. pc \in HeldCalls => Phase \in {"held", "leaving"} /\ Exists(obj) /\ obj.fin
  BY <1>1, PhaseFacts DEF HeldInv
<1>3. obj' = obj => Phase' = Phase
  BY DEF Phase, Exists
<1>4. LivesSame => made' = made /\ Lives' = Lives
  BY DEF LivesSame, Lives, Live
<1>5. CASE Creates
  <2>1. obj' = obj /\ pc = "apply" /\ made + 1 \in Ids
    BY <1>5 DEF Creates
  <2>2. /\ made + 1 \notin 1..made
        /\ 1..made' = (1..made) \cup {made + 1}
    BY <1>1, <1>5 DEF Creates
  <2>3. Lives' = Lives \cup {made + 1}
    BY <1>5 DEF Creates, Lives, Live
  <2>4. Mirror!Create(made + 1)
    BY <1>2, <1>3, <2>1, <2>2, <2>3 DEF Mirror!Create, Lives, HeldCalls
  <2> QED
    BY <2>1, <2>4 DEF Mirror!Next
<1>6. CASE Destroys
  <2>1. obj' = obj /\ pc = "delete" /\ made' = made /\ copy.id \in Ids
    BY <1>6 DEF Destroys
  <2>2. Lives' = Lives \ {copy.id} /\ copy.id \in Lives
    BY <1>6 DEF Destroys, Lives, Live
  <2>3. Phase = "leaving"
    BY <1>1, <1>6, <2>1, PhaseFacts DEF LeavingInv, PcInv, LeavingCalls, Destroys
  <2>4. Mirror!Destroy(copy.id)
    BY <1>3, <2>1, <2>2, <2>3 DEF Mirror!Destroy, Lives
  <2> QED
    BY <2>1, <2>4 DEF Mirror!Next
<1>7. CASE LivesSame
  <2> USE <1>7
  <2>1. ASSUME Exists(obj), Exists(obj'), obj'.id = obj.id,
               obj'.del = obj.del, obj'.fin = obj.fin
        PROVE  UNCHANGED Mirror!mirrorVars
    <3>1. Phase' = Phase
      BY <2>1 DEF Phase, Exists
    <3> QED
      BY <1>4, <2>1, <3>1 DEF Mirror!mirrorVars, Lives
  <2>2. CASE Quiet
    BY <1>3, <1>4, <2>2 DEF Quiet, Mirror!mirrorVars, Lives
  <2>3. CASE Rewrites
    <3>1. PICK o \in CRs, r \in BOOLEAN :
            /\ Write(o, r) /\ o.fin = obj.fin /\ o.del = obj.del
            /\ \/ o.id = obj.id
               \/ pc = "patch" /\ dtID # copy.id /\ o.id = dtID
      BY <2>3 DEF Rewrites
    <3>2. obj' = o /\ Exists(o) /\ Exists(obj)
      BY <2>3, <3>1, AbsentFacts DEF Write, Rewrites
    <3>3. CASE o.id = obj.id
      BY <2>1, <3>1, <3>2, <3>3
    <3>4. CASE pc = "patch" /\ dtID # copy.id /\ o.id = dtID
      <4>1. dtID \in Lives
        BY <1>1, <3>4 DEF LeavingInv, Lives, TypeOK, Ids, NoId
      <4>2. Phase' = Phase
        BY <3>1, <3>2 DEF Phase, Exists
      <4>3. Phase \in {"held", "leaving"}
        BY <1>2, <3>4 DEF HeldCalls
      <4>4. Mirror!Record(dtID)
        BY <1>4, <3>2, <3>4, <4>1, <4>2, <4>3 DEF Mirror!Record, Lives
      <4> QED
        BY <4>1, <4>4 DEF Mirror!Next, Lives
    <3> QED
      BY <3>1, <3>3, <3>4
  <2>4. CASE Holds
    <3>1. /\ obj \in CRs /\ Exists(obj) /\ ~obj.del /\ ~obj.fin
          /\ Write([obj EXCEPT !.fin = TRUE], FALSE)
      BY <1>1, <2>4 DEF Holds, UpdateAccepted, CurInv, PcInv
    <3>2. Exists(obj') /\ ~obj'.del /\ obj'.fin /\ obj'.id = obj.id
      BY <3>1, FinalizedFacts, AbsentFacts DEF Write
    <3>3. Phase = "open"
      BY <3>1, PhaseFacts
    <3>4. Phase' = "held"
      <4>1. ~(~Exists(obj')) /\ ~(Exists(obj') /\ obj'.del)
        BY <3>2
      <4> QED
        BY <3>2, <4>1 DEF Phase, Exists
    <3> QED
      BY <1>4, <3>2, <3>3, <3>4 DEF Mirror!Next, Mirror!Hold, Lives
  <2>5. CASE Unholds
    <3>1. copy = obj /\ Exists(obj) /\ obj.del /\ obj' = Absent
      BY <1>1, <2>5 DEF Unholds, UpdateAccepted, Write, CurInv, PcInv, LeavingCalls
    <3>2. obj.id \notin Lives
      BY <1>1, <2>5, <3>1 DEF Unholds, GoneInv, LeavingInv, Lives, Ids, NoId
    <3>3. Phase = "leaving"
      BY <3>1, PhaseFacts
    <3>4. Phase' = "none" /\ obj'.id = NoId
      BY <3>1, AbsentFacts DEF Phase, Exists
    <3> QED
      BY <1>4, <3>2, <3>3, <3>4 DEF Mirror!Next, Mirror!Vanish, Lives
  <2>6. CASE CreateCR
    <3>1. PICK refs \in RefLists : Write(NewObject(rev + 1, refs), FALSE)
      BY <2>6 DEF CreateCR
    <3>2. rev + 1 \in 1..MaxRev /\ obj' = NewObject(rev + 1, refs)
      BY <1>1, <2>6, <3>1 DEF CreateCR, TypeOK, Write
    <3>3. Exists(obj') /\ ~obj'.del /\ ~obj'.fin /\ obj'.id = NoId
      BY <3>2, NewObjectFacts, AbsentFacts
    <3>4. Phase = "none" /\ obj.id = NoId
      BY <1>1, <2>6, PhaseFacts, AbsentFacts DEF CreateCR
    <3>5. Phase' = "open"
      BY <3>3 DEF Phase, Exists
    <3> QED
      BY <1>4, <3>3, <3>4, <3>5 DEF Mirror!Next, Mirror!Declare, Lives
  <2>7. CASE DeleteCR
    <3>1. obj \in CRs /\ Exists(obj) /\ ~obj.del
      BY <1>1, <2>7 DEF DeleteCR
    <3>2. CASE obj.fin
      <4>1. Exists(obj') /\ obj'.del /\ obj'.id = obj.id
        BY <2>7, <3>1, <3>2, MarkedFacts, AbsentFacts DEF DeleteCR, Write
      <4>2. Phase = "held"
        BY <3>1, <3>2, PhaseFacts
      <4>3. Phase' = "leaving"
        BY <4>1 DEF Phase, Exists
      <4> QED
        BY <1>4, <4>1, <4>2, <4>3 DEF Mirror!Next, Mirror!Withdraw, Lives
    <3>3. CASE ~obj.fin
      <4>1. obj' = Absent /\ obj.id = NoId
        BY <1>1, <2>7, <3>1, <3>3 DEF DeleteCR, Write, HeldInv
      <4>2. Phase = "open"
        BY <3>1, <3>3, PhaseFacts
      <4>3. Phase' = "none" /\ obj'.id = obj.id
        BY <4>1, AbsentFacts DEF Phase, Exists
      <4> QED
        BY <1>4, <4>2, <4>3 DEF Mirror!Next, Mirror!Withdraw, Lives
    <3> QED
      BY <3>2, <3>3
  <2> QED
    BY <2>2, <2>3, <2>4, <2>5, <2>6, <2>7, StepCases
<1> QED
  BY <1>5, <1>6, <1>7, CalmTenant

=============================================================================
