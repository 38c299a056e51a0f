----------------------------- MODULE SLOProofs -----------------------------
(***************************************************************************)
(* Proofs about the DynatraceSLO controller, for every set of              *)
(* environments, every kind of trouble and all bounds.                     *)
(***************************************************************************)
EXTENDS SLOMirror, SequenceTheorems, TLAPS

USE EnvsAssumption, BoundsAssumption

-----------------------------------------------------------------------------
(* Facts about the helpers.                                                *)

LEMMA AbsentFacts ==
    /\ Absent \in Objects
    /\ ~Exists(Absent)
    /\ Absent.id = NoId /\ ~Absent.fin /\ ~Absent.del
    /\ Absent.env = NoEnv /\ Absent.envs = {NoEnv} /\ Absent.cond = <<"None", 0>>
    /\ \A o \in Objects : Exists(o) <=> o \in CRs
    /\ \A o \in Objects : ~Exists(o) => o = Absent
  BY DEF Absent, NewObject, Objects, CRs, Exists, Revs, NoId

\* A delivered or stored version adds nothing to the copies but itself.
LEMMA StreamFacts ==
    ASSUME NEW w \in Seq(Objects), NEW o \in Objects
    PROVE  LET s == Append(w, o)
           IN /\ s \in Seq(Objects) /\ s # <<>>
              /\ Head(s) \in Objects /\ Tail(s) \in Seq(Objects)
              /\ \A n \in 1..Len(s) : s[n] = o \/ \E m \in 1..Len(w) : s[n] = w[m]
              /\ Head(s) = o \/ \E m \in 1..Len(w) : Head(s) = w[m]
              /\ \A n \in 1..Len(Tail(s)) :
                   Tail(s)[n] = o \/ \E m \in 1..Len(w) : Tail(s)[n] = w[m]
<1> DEFINE s == Append(w, o)
<1>1. s \in Seq(Objects) /\ Len(s) = Len(w) + 1 /\ s # <<>>
  OBVIOUS
<1>2. \A n \in 1..Len(s) : s[n] = o \/ \E m \in 1..Len(w) : s[n] = w[m]
  OBVIOUS
<1>3. Head(s) = s[1] /\ Head(s) \in Objects
  BY <1>1
<1>4. Tail(s) \in Seq(Objects) /\ Len(Tail(s)) = Len(w)
      /\ \A n \in 1..Len(Tail(s)) : Tail(s)[n] = s[n + 1]
  BY <1>1
<1>5. \A n \in 1..Len(Tail(s)) : n + 1 \in 1..Len(s)
  BY <1>1, <1>4
<1> QED
  BY <1>1, <1>2, <1>3, <1>4, <1>5

LEMMA WriteFacts ==
    ASSUME TypeOK, NEW o \in Objects, NEW r \in BOOLEAN, Write(o, r)
    PROVE  /\ obj' = o
           /\ cache' \in Objects
           /\ watch' \in Seq(Objects)
           /\ queued' \in BOOLEAN
           /\ Copies' \subseteq Copies \cup {o}
<1> DEFINE s == Append(watch, o)
<1>1. watch \in Seq(Objects) /\ cache \in Objects
  BY DEF TypeOK
<1>2. /\ s \in Seq(Objects)
      /\ Head(s) \in Objects /\ Tail(s) \in Seq(Objects)
      /\ \A n \in 1..Len(s) : s[n] = o \/ \E m \in 1..Len(watch) : s[n] = watch[m]
      /\ Head(s) = o \/ \E m \in 1..Len(watch) : Head(s) = watch[m]
      /\ \A n \in 1..Len(Tail(s)) :
           Tail(s)[n] = o \/ \E m \in 1..Len(watch) : Tail(s)[n] = watch[m]
  BY <1>1, StreamFacts
<1>3. \/ cache' = Head(s) /\ watch' = Tail(s)
      \/ cache' = cache /\ watch' = s
  BY DEF Write
<1>4. obj' = o /\ queued' \in BOOLEAN
  BY DEF Write, TypeOK
<1> HIDE DEF s
<1>5. cache' \in Objects /\ watch' \in Seq(Objects)
  BY <1>1, <1>2, <1>3
<1>6. ASSUME NEW c \in Copies'
      PROVE  c \in Copies \cup {o}
  <2>1. \/ c = o
        \/ c = cache'
        \/ \E n \in 1..Len(watch') : c = watch'[n]
    BY <1>4 DEF Copies
  <2>2. \A m \in 1..Len(watch) : watch[m] \in Copies
    BY DEF Copies
  <2>3. cache \in Copies
    BY DEF Copies
  <2>4. CASE cache' = Head(s) /\ watch' = Tail(s)
    BY <1>2, <2>1, <2>2, <2>4
  <2>5. CASE cache' = cache /\ watch' = s
    BY <1>2, <2>1, <2>2, <2>3, <2>5
  <2> QED
    BY <1>3, <2>4, <2>5
<1> QED
  BY <1>4, <1>5, <1>6

LEMMA DeliverFacts ==
    ASSUME TypeOK, Deliver
    PROVE  /\ cache' \in Objects
           /\ watch' \in Seq(Objects)
           /\ Copies' \subseteq Copies
<1>1. watch \in Seq(Objects) /\ watch # <<>>
      /\ cache' = Head(watch) /\ watch' = Tail(watch) /\ obj' = obj
  BY DEF TypeOK, Deliver, k8sVars
<1>2. Head(watch) = watch[1] /\ 1 \in 1..Len(watch) /\ Head(watch) \in Objects
  BY <1>1
<1>3. Tail(watch) \in Seq(Objects) /\ Len(Tail(watch)) = Len(watch) - 1
      /\ \A n \in 1..Len(Tail(watch)) :
            Tail(watch)[n] = watch[n + 1] /\ n + 1 \in 1..Len(watch)
  BY <1>1
<1>4. Copies' \subseteq Copies
  BY <1>1, <1>2, <1>3 DEF Copies
<1> QED
  BY <1>1, <1>2, <1>3, <1>4

LEMMA NewObjectFacts ==
    ASSUME NEW g \in Revs, NEW e \in Envs, NEW b \in BOOLEAN
    PROVE  LET o == NewObject(g, e, b)
           IN /\ o \in CRs /\ o \in Objects /\ Exists(o)
              /\ o.env = e /\ o.envs = {e} /\ o.id = NoId /\ ~o.fin /\ ~o.del
              /\ o.cond = <<"None", 0>>
  BY DEF NewObject, CRs, Objects, Exists, Revs, NoId, Conditions

LEMMA EditedFacts ==
    ASSUME NEW o \in CRs, NEW g \in Revs, NEW e \in Envs, NEW b \in BOOLEAN
    PROVE  LET p == [o EXCEPT !.gen = g, !.env = e, !.envs = @ \cup {e}, !.ok = b]
           IN /\ p \in CRs /\ p \in Objects /\ Exists(p)
              /\ p.env = e /\ p.envs = o.envs \cup {e} /\ p.fin = o.fin /\ p.del = o.del /\ p.id = o.id
              /\ p.cond = o.cond
<1> DEFINE p == [o EXCEPT !.gen = g, !.env = e, !.envs = @ \cup {e}, !.ok = b]
<1>1. p \in CRs
  BY DEF CRs
<1>2. /\ p.env = e /\ p.envs = o.envs \cup {e} /\ p.fin = o.fin /\ p.del = o.del /\ p.id = o.id
      /\ p.cond = o.cond
  BY DEF CRs
<1>3. p \in Objects /\ Exists(p)
  <2> HIDE DEF p
  <2> QED
    BY <1>1 DEF CRs, Objects, Exists, Revs
<1> QED
  BY <1>1, <1>2, <1>3

LEMMA MarkedFacts ==
    ASSUME NEW o \in CRs
    PROVE  LET p == [o EXCEPT !.del = TRUE]
           IN /\ p \in CRs /\ p \in Objects /\ Exists(p)
              /\ p.env = o.env /\ p.envs = o.envs /\ p.fin = o.fin /\ p.del /\ p.id = o.id
              /\ p.cond = o.cond
<1> DEFINE p == [o EXCEPT !.del = TRUE]
<1>1. p \in CRs
  BY DEF CRs
<1>2. /\ p.env = o.env /\ p.envs = o.envs /\ p.fin = o.fin /\ p.del /\ p.id = o.id
      /\ p.cond = o.cond
  BY DEF CRs
<1>3. p \in Objects /\ Exists(p)
  <2> HIDE DEF p
  <2> QED
    BY <1>1 DEF CRs, Objects, Exists, Revs
<1> QED
  BY <1>1, <1>2, <1>3

LEMMA FinalizedFacts ==
    ASSUME NEW o \in CRs
    PROVE  LET p == [o EXCEPT !.fin = TRUE]
           IN /\ p \in CRs /\ p \in Objects /\ Exists(p)
              /\ p.env = o.env /\ p.envs = o.envs /\ p.fin /\ p.del = o.del /\ p.id = o.id
              /\ p.cond = o.cond
<1> DEFINE p == [o EXCEPT !.fin = TRUE]
<1>1. p \in CRs
  BY DEF CRs
<1>2. /\ p.env = o.env /\ p.envs = o.envs /\ p.fin /\ p.del = o.del /\ p.id = o.id
      /\ p.cond = o.cond
  BY DEF CRs
<1>3. p \in Objects /\ Exists(p)
  <2> HIDE DEF p
  <2> QED
    BY <1>1 DEF CRs, Objects, Exists, Revs
<1> QED
  BY <1>1, <1>2, <1>3

\* The patches of reconcileCreate and setFailed: what they may change.
LEMMA MergeFacts ==
    ASSUME obj \in CRs, NEW base, NEW new, NEW w,
           new.id \in 0..MaxIds, new.obs \in 0..MaxRev, new.cond \in Conditions
    PROVE  LET o == Merge(base, new, w)
           IN /\ o \in CRs /\ o \in Objects /\ Exists(o)
              /\ o.gen = obj.gen /\ o.env = obj.env /\ o.envs = obj.envs
              /\ o.fin = obj.fin /\ o.del = obj.del
              /\ o.id = obj.id \/ (new.id # base.id /\ o.id = new.id)
              /\ new.id # base.id => o.id = new.id
              /\ o.cond = obj.cond \/ o.cond = new.cond
<1>1. Merge(base, new, w) \in CRs
  BY DEF Merge, CRs
<1>2. /\ Merge(base, new, w).gen = obj.gen /\ Merge(base, new, w).env = obj.env
      /\ Merge(base, new, w).envs = obj.envs
      /\ Merge(base, new, w).fin = obj.fin /\ Merge(base, new, w).del = obj.del
  BY DEF Merge, CRs
<1>3. /\ \/ Merge(base, new, w).id = obj.id
         \/ new.id # base.id /\ Merge(base, new, w).id = new.id
      /\ new.id # base.id => Merge(base, new, w).id = new.id
      /\ Merge(base, new, w).cond = obj.cond \/ Merge(base, new, w).cond = new.cond
  BY DEF Merge, CRs
<1> QED
  BY <1>1, <1>2, <1>3 DEF CRs, Objects, Exists, Revs

LEMMA SyncedFacts ==
    ASSUME slo \in CRs, NEW i \in 0..MaxIds
    PROVE  LET n == Synced(i, slo.gen)
           IN /\ n.id = i /\ n.obs = slo.gen /\ n.cond = <<"True", slo.gen>>
              /\ n.obs \in 0..MaxRev /\ n.cond \in Conditions
  BY DEF Synced, CRs, Revs, Conditions

\* The status setFailed writes.
Failed == [slo EXCEPT !.cond = <<"False", slo.gen>>]

LEMMA FailedFacts ==
    ASSUME slo \in CRs
    PROVE  /\ Failed.id = slo.id /\ Failed.obs = slo.obs
           /\ Failed.cond = <<"False", slo.gen>>
           /\ Failed.id \in 0..MaxIds /\ Failed.obs \in 0..MaxRev
           /\ Failed.cond \in Conditions
  BY DEF Failed, CRs, Revs, Conditions

LEMMA SyncedMerge ==
    ASSUME obj \in CRs, slo \in CRs, dtID \in 0..MaxIds
    PROVE  LET o == Merge(slo, Synced(dtID, slo.gen), dtID # slo.id)
           IN /\ o \in CRs /\ o \in Objects /\ Exists(o)
              /\ o.env = obj.env /\ o.envs = obj.envs /\ o.fin = obj.fin /\ o.del = obj.del
              /\ o.id = obj.id \/ (dtID # slo.id /\ o.id = dtID)
              /\ dtID # slo.id => o.id = dtID
              /\ o.cond = obj.cond \/ o.cond = <<"True", slo.gen>>
<1> DEFINE n == Synced(dtID, slo.gen)
<1>1. /\ n.id = dtID /\ n.obs = slo.gen /\ n.cond = <<"True", slo.gen>>
      /\ n.id \in 0..MaxIds /\ n.obs \in 0..MaxRev /\ n.cond \in Conditions
  BY SyncedFacts
<1> HIDE DEF n
<1>2. PICK w : w = (dtID # slo.id)
  OBVIOUS
<1> DEFINE o == Merge(slo, n, w)
<1>3. /\ o \in CRs /\ o \in Objects /\ Exists(o)
      /\ o.env = obj.env /\ o.envs = obj.envs /\ o.fin = obj.fin /\ o.del = obj.del
      /\ o.id = obj.id \/ (dtID # slo.id /\ o.id = dtID)
      /\ dtID # slo.id => o.id = dtID
      /\ o.cond = obj.cond \/ o.cond = <<"True", slo.gen>>
  BY <1>1, MergeFacts
<1> QED
  BY <1>2, <1>3, Zenon DEF n

LEMMA FailedMerge ==
    ASSUME obj \in CRs, slo \in CRs, NEW w \in BOOLEAN
    PROVE  LET o == Merge(slo, Failed, w)
           IN /\ o \in CRs /\ o \in Objects /\ Exists(o)
              /\ o.env = obj.env /\ o.envs = obj.envs /\ o.fin = obj.fin /\ o.del = obj.del
              /\ o.id = obj.id
              /\ o.cond = obj.cond \/ o.cond = <<"False", slo.gen>>
  BY FailedFacts, MergeFacts

-----------------------------------------------------------------------------
(* What one request may do to the tenants.                                 *)

Tenants == [Ids -> [env : Envs \cup {NoEnv}, pay : Payloads]]

\* An SLO keeps its tenant, one that is gone stays gone, and what was once
\* accepted remains so.
TenantsEvolve ==
    /\ \A j \in Ids : tenant[j].env # NoEnv => tenant'[j].env = tenant[j].env
    /\ \A j \in Ids : tenant[j].env # NoEnv /\ tenant[j].pay = Gone
                        => tenant'[j].pay = Gone
    /\ accepted \subseteq accepted'

LEMMA LandFacts ==
    ASSUME TypeOK, NEW rq \in Requests, NEW i \in Ids, Finds(rq, i), Land(rq, i)
    PROVE  /\ tenant' \in Tenants
           /\ accepted' \subseteq Ids \X Revs
           /\ TenantsEvolve
           /\ tenant'[i] = [env |-> rq.env, pay |-> rq.pay]
           /\ \A j \in Ids : j # i => tenant'[j] = tenant[j]
           /\ rq.pay # Gone => <<i, rq.pay>> \in accepted'
<1>1. /\ rq.env \in Envs /\ rq.pay \in 0..MaxRev
      /\ [env |-> rq.env, pay |-> rq.pay] \in [env : Envs \cup {NoEnv}, pay : Payloads]
  BY DEF Requests, Payloads
<1>2. /\ tenant \in Tenants /\ accepted \subseteq Ids \X Revs
      /\ tenant' = [tenant EXCEPT ![i] = [env |-> rq.env, pay |-> rq.pay]]
      /\ accepted' = accepted \cup (IF rq.pay = Gone THEN {} ELSE {<<i, rq.pay>>})
  BY DEF TypeOK, Tenants, Land
<1>3. tenant' \in Tenants
  BY <1>1, <1>2 DEF Tenants
<1>4. tenant'[i] = [env |-> rq.env, pay |-> rq.pay]
      /\ \A j \in Ids : j # i => tenant'[j] = tenant[j]
  BY <1>2 DEF Tenants
<1>5. accepted' \subseteq Ids \X Revs /\ accepted \subseteq accepted'
      /\ (rq.pay # Gone => <<i, rq.pay>> \in accepted')
  BY <1>1, <1>2 DEF Gone, Revs
<1>6. \/ tenant[i].env = NoEnv
      \/ tenant[i].env = rq.env /\ tenant[i].pay # Gone
  BY DEF Finds, Fresh, Live
<1> QED
  BY <1>3, <1>4, <1>5, <1>6 DEF TenantsEvolve

\* The outcomes of a request that does not succeed.
LEMMA FailsFacts ==
    ASSUME TypeOK, NEW rq \in Requests, Fails(rq) \/ NotFound(rq)
    PROVE  /\ tenant' \in Tenants
           /\ accepted' \subseteq Ids \X Revs
           /\ late' \subseteq Requests
           /\ trouble' \in 0..MaxTrouble
           /\ TenantsEvolve
<1>1. trouble' \in 0..MaxTrouble
  BY DEF Fails, NotFound, Meet, TypeOK
<1>4. CASE UNCHANGED dtVars
  BY <1>1, <1>4 DEF TypeOK, Tenants, TenantsEvolve, dtVars
<1>2. CASE Meet("lost") /\ UNCHANGED late
             /\ \E i \in Ids : Finds(rq, i) /\ Land(rq, i)
  <2>1. PICK i \in Ids : Finds(rq, i) /\ Land(rq, i)
    BY <1>2
  <2>2. tenant' \in Tenants /\ accepted' \subseteq Ids \X Revs /\ TenantsEvolve
    BY <2>1, LandFacts
  <2> QED
    BY <1>1, <1>2, <2>2 DEF TypeOK
<1>3. CASE Meet("late") /\ late' = late \cup {rq} /\ UNCHANGED <<tenant, accepted>>
  BY <1>3 DEF Meet, TypeOK, Tenants, TenantsEvolve
<1> QED
  BY <1>2, <1>3, <1>4 DEF Fails, NotFound

-----------------------------------------------------------------------------
(* Type correctness.                                                       *)

\* A worker that is busy holds an object, and one that deletes an SLO an ID.
BusyInv ==
    /\ pc # "idle" => Exists(slo)
    /\ pc = "delete" => slo.id # NoId

TypeInv == TypeOK /\ BusyInv

LEMMA TypeInit == Init => TypeOK
<1> SUFFICES ASSUME Init PROVE TypeOK
  OBVIOUS
<1>1. tenant \in [Ids -> [env : Envs \cup {NoEnv}, pay : Payloads]]
  BY DEF Init, Gone, Payloads
<1>2. watch \in Seq(Objects)
  BY DEF Init
<1>3. obj \in Objects /\ cache \in Objects /\ slo \in Objects
  BY AbsentFacts DEF Init
<1>4. queued \in BOOLEAN /\ cur \in BOOLEAN /\ tokenCurrent \in BOOLEAN
  BY Zenon DEF Init
<1> QED
  BY <1>1, <1>2, <1>3, <1>4 DEF Init, TypeOK, PCs, NoId

\* The parts of the state that the end of a call of Reconcile sets.
LEMMA FinishFacts ==
    Finish => pc' \in PCs /\ slo' \in Objects /\ cur' \in BOOLEAN
              /\ dtID' \in 0..MaxIds
<1>1. Finish => slo' \in Objects
  BY AbsentFacts DEF Finish
<1>2. Finish => cur' \in BOOLEAN
  BY Zenon DEF Finish
<1> QED
  BY <1>1, <1>2 DEF Finish, PCs, NoId

LEMMA RequeueFacts ==
    ASSUME TypeOK, Requeue
    PROVE  /\ obj' \in Objects /\ rev' \in 0..MaxRev
           /\ cache' \in Objects /\ watch' \in Seq(Objects)
           /\ queued' \in BOOLEAN /\ tokenCurrent' \in BOOLEAN
           /\ pc' \in PCs /\ slo' \in Objects /\ cur' \in BOOLEAN
           /\ dtID' \in 0..MaxIds
           /\ Copies' = Copies /\ obj' = obj
           /\ BusyInv' /\ pc' = "idle"
<1>1. BusyInv' /\ pc' = "idle" /\ Copies' = Copies /\ obj' = obj
  BY DEF Requeue, BusyInv, Finish, k8sVars, informerVars, Copies
<1>2. queued' \in BOOLEAN
  BY Zenon DEF Requeue
<1> QED
  BY <1>1, <1>2, FinishFacts DEF Requeue, TypeOK, k8sVars, informerVars

LEMMA MeetFacts ==
    ASSUME TypeOK, NEW kind, Meet(kind)
    PROVE  trouble' \in 0..MaxTrouble
  BY DEF Meet, TypeOK

LEMMA PatchStatusFacts ==
    ASSUME TypeOK, NEW new, NEW w, NEW touched, PatchStatus(new, w, touched),
           new.id \in 0..MaxIds, new.obs \in 0..MaxRev, new.cond \in Conditions
    PROVE  /\ obj' \in Objects /\ rev' \in 0..MaxRev
           /\ cache' \in Objects /\ watch' \in Seq(Objects)
           /\ queued' \in BOOLEAN /\ tokenCurrent' \in BOOLEAN
           /\ pc' \in PCs /\ slo' \in Objects /\ cur' \in BOOLEAN
           /\ dtID' \in 0..MaxIds
           /\ Copies' \subseteq Copies \cup {obj'}
           /\ obj' = obj \/ (Exists(obj) /\ obj' = Merge(slo, new, w))
           /\ BusyInv' /\ pc' = "idle"
<1>1. CASE Requeue
  BY <1>1, RequeueFacts
<1>2. CASE /\ Exists(obj) /\ Write(Merge(slo, new, w), TRUE) /\ Finish
           /\ UNCHANGED <<rev, tokenCurrent>>
  <2>1. Merge(slo, new, w) \in Objects
    BY <1>2, AbsentFacts, MergeFacts DEF TypeOK
  <2>2. /\ obj' = Merge(slo, new, w) /\ cache' \in Objects /\ watch' \in Seq(Objects)
        /\ queued' \in BOOLEAN /\ Copies' \subseteq Copies \cup {Merge(slo, new, w)}
    BY <1>2, <2>1, WriteFacts
  <2> QED
    BY <1>2, <2>1, <2>2, FinishFacts DEF TypeOK, BusyInv, Finish
<1> QED
  BY <1>1, <1>2 DEF PatchStatus

\* An idle worker's copy has been reset; a busy one's is an object.
LEMMA RequestFacts ==
    ASSUME TypeOK, Exists(slo)
    PROVE  /\ ApplyRequest \in Requests
           /\ ApplyRequest.id = slo.id /\ ApplyRequest.env = slo.env
           /\ ApplyRequest.pay = slo.gen /\ slo.gen \in Revs
           /\ [id |-> slo.id, env |-> slo.env, pay |-> Gone] \in Requests
  BY AbsentFacts DEF TypeOK, ApplyRequest, Requests, CRs, Revs, Gone

LEMMA FirstCallFacts ==
    ASSUME NEW o \in Objects
    PROVE  /\ FirstCall(o) \in PCs
           /\ FirstCall(o) # "idle" => Exists(o)
           /\ FirstCall(o) = "delete" => o.del /\ o.id # NoId
           /\ FirstCall(o) = "unfinalize" => o.del /\ o.id = NoId
           /\ FirstCall(o) = "finalize" => ~o.del /\ ~o.fin
           /\ FirstCall(o) = "build" => ~o.del /\ o.fin
           /\ FirstCall(o) \notin {"apply", "patch", "fail"}
<1>1. CASE ~Exists(o)
  <2>1. FirstCall(o) = "idle"
    BY <1>1 DEF FirstCall
  <2> QED
    BY <2>1 DEF PCs
<1>2. CASE Exists(o) /\ o.del /\ o.id = NoId
  <2>1. FirstCall(o) = "unfinalize"
    BY <1>2 DEF FirstCall
  <2> QED
    BY <1>2, <2>1 DEF PCs
<1>3. CASE Exists(o) /\ o.del /\ o.id # NoId
  <2>1. FirstCall(o) = "delete"
    BY <1>3 DEF FirstCall
  <2> QED
    BY <1>3, <2>1 DEF PCs
<1>4. CASE Exists(o) /\ ~o.del /\ ~o.fin
  <2>1. FirstCall(o) = "finalize"
    BY <1>4 DEF FirstCall
  <2> QED
    BY <1>4, <2>1 DEF PCs
<1>5. CASE Exists(o) /\ ~o.del /\ o.fin
  <2>1. FirstCall(o) = "build"
    BY <1>5 DEF FirstCall
  <2> QED
    BY <1>5, <2>1 DEF PCs
<1>6. Exists(o) => o.del \in BOOLEAN /\ o.fin \in BOOLEAN
  BY AbsentFacts DEF CRs
<1> QED
  BY <1>1, <1>2, <1>3, <1>4, <1>5, <1>6

LEMMA TypeStep ==
    ASSUME TypeInv, [Next]_vars
    PROVE  TypeInv'
<1> USE DEF TypeInv
<1>1. CASE UNCHANGED vars
  BY <1>1 DEF vars, TypeOK, BusyInv
<1>2. CASE Reconcile
  <2>1. cache \in Objects
    BY DEF TypeOK
  <2>2. cur' \in BOOLEAN /\ queued' \in BOOLEAN
    BY <1>2, Zenon DEF Reconcile
  <2>3. BusyInv' /\ pc' \in PCs /\ slo' \in Objects
    BY <1>2, <2>1, FirstCallFacts DEF Reconcile, BusyInv
  <2> QED
    BY <1>2, <2>2, <2>3 DEF Reconcile, TypeOK, k8sVars, informerVars, dtVars
<1>3. CASE AddFinalizer
  <2>1. CASE Requeue /\ (UNCHANGED trouble \/ Meet("k8s"))
    BY <1>3, <2>1, RequeueFacts, MeetFacts DEF AddFinalizer, TypeOK, dtVars
  <2>2. CASE /\ UpdateAccepted
             /\ Write([obj EXCEPT !.fin = TRUE], FALSE)
             /\ slo' = [slo EXCEPT !.fin = TRUE]
             /\ pc' = "build"
             /\ UNCHANGED <<rev, cur, dtID, tokenCurrent, trouble>>
    <3>1. obj \in CRs /\ slo \in CRs
      BY <1>3, <2>2, AbsentFacts DEF UpdateAccepted, TypeOK, BusyInv, AddFinalizer
    <3>2. slo' \in Objects /\ Exists(slo') /\ [obj EXCEPT !.fin = TRUE] \in Objects
      BY <2>2, <3>1, FinalizedFacts
    <3>3. /\ obj' \in Objects /\ cache' \in Objects /\ watch' \in Seq(Objects)
          /\ queued' \in BOOLEAN
      BY <2>2, <3>2, WriteFacts
    <3> QED
      BY <1>3, <2>2, <3>2, <3>3 DEF AddFinalizer, TypeOK, BusyInv, dtVars, PCs
  <2> QED
    BY <1>3, <2>1, <2>2 DEF AddFinalizer
<1>4. CASE BuildPayload
  BY <1>4 DEF BuildPayload, TypeOK, BusyInv, Meet, PCs,
              k8sVars, informerVars, dtVars
<1>5. CASE ApplySLO
  <2>1. Exists(slo) /\ ApplyRequest \in Requests
    BY <1>5, RequestFacts DEF ApplySLO, BusyInv
  <2>2. /\ tenant' \in Tenants /\ accepted' \subseteq Ids \X Revs
        /\ late' \subseteq Requests /\ trouble' \in 0..MaxTrouble
        /\ dtID' \in 0..MaxIds /\ pc' \in {"patch", "fail"}
    <3>1. CASE /\ NotFound(ApplyRequest) \/ Fails(ApplyRequest)
               /\ pc' = "fail"
               /\ UNCHANGED dtID
      BY <2>1, <3>1, FailsFacts DEF TypeOK
    <3>2. ASSUME NEW i \in Ids, Succeeds(ApplyRequest, i), pc' = "patch",
                 \/ dtID' = i /\ UNCHANGED trouble
                 \/ dtID' = NoId /\ Meet("empty")
          PROVE  /\ tenant' \in Tenants /\ accepted' \subseteq Ids \X Revs
                 /\ late' \subseteq Requests /\ trouble' \in 0..MaxTrouble
                 /\ dtID' \in 0..MaxIds
      <4>1. tenant' \in Tenants /\ accepted' \subseteq Ids \X Revs
        BY <2>1, <3>2, LandFacts DEF Succeeds
      <4>2. late' \subseteq Requests /\ trouble' \in 0..MaxTrouble
        BY <3>2, MeetFacts DEF Succeeds, TypeOK
      <4>3. dtID' \in 0..MaxIds
        BY <3>2 DEF Ids, NoId
      <4> QED
        BY <4>1, <4>2, <4>3
    <3>3. CASE /\ \E i \in Ids :
                    /\ Succeeds(ApplyRequest, i)
                    /\ \/ dtID' = i /\ UNCHANGED trouble
                       \/ slo.id = NoId /\ dtID' = NoId /\ Meet("empty")
               /\ pc' = "patch"
      <4>1. PICK i \in Ids :
              /\ Succeeds(ApplyRequest, i)
              /\ \/ dtID' = i /\ UNCHANGED trouble
                 \/ slo.id = NoId /\ dtID' = NoId /\ Meet("empty")
        BY <3>3
      <4>2. \/ dtID' = i /\ UNCHANGED trouble
            \/ dtID' = NoId /\ Meet("empty")
        BY <4>1
      <4>3. pc' = "patch"
        BY <3>3
      <4> QED
        BY <3>2, <4>1, <4>2, <4>3
    <3> QED
      BY <1>5, <3>1, <3>3 DEF ApplySLO
  <2> QED
    BY <1>5, <2>1, <2>2
       DEF ApplySLO, TypeOK, BusyInv, Tenants, PCs, k8sVars, informerVars
<1>6. CASE RecordSync
  <2>1. slo \in CRs /\ dtID \in 0..MaxIds
    BY <1>6, AbsentFacts DEF RecordSync, TypeOK, BusyInv
  <2>2. CASE Meet("k8s") /\ Requeue
    BY <1>6, <2>2, RequeueFacts, MeetFacts DEF RecordSync, TypeOK, dtVars
  <2>3. ASSUME NEW touched \in BOOLEAN, PatchStatus(Synced(dtID, slo.gen), dtID # slo.id, touched),
               UNCHANGED trouble
        PROVE  TypeInv'
    BY <1>6, <2>1, <2>3, SyncedFacts, PatchStatusFacts
       DEF RecordSync, TypeOK, dtVars
  <2> QED
    BY <1>6, <2>2, <2>3 DEF RecordSync
<1>7. CASE SetFailed
  <2>1. slo \in CRs
    BY <1>7, AbsentFacts DEF SetFailed, TypeOK, BusyInv
  <2>2. CASE Meet("k8s") /\ Requeue
    BY <1>7, <2>2, RequeueFacts, MeetFacts DEF SetFailed, TypeOK, dtVars
  <2>3. ASSUME NEW w \in BOOLEAN, NEW touched \in BOOLEAN,
               PatchStatus(Failed, w, touched), UNCHANGED trouble
        PROVE  TypeInv'
    BY <1>7, <2>1, <2>3, FailedFacts, PatchStatusFacts
       DEF SetFailed, TypeOK, dtVars
  <2> QED
    BY <1>7, <2>2, <2>3 DEF SetFailed, Failed
<1>8. CASE DeleteSLO
  <2> DEFINE rq == [id |-> slo.id, env |-> slo.env, pay |-> Gone]
  <2>1. Exists(slo) /\ rq \in Requests /\ slo.id \in Ids
    BY <1>8, RequestFacts, AbsentFacts
       DEF DeleteSLO, BusyInv, TypeOK, CRs, Ids, NoId
  <2> HIDE DEF rq
  <2>2. CASE /\ \/ Succeeds(rq, slo.id) /\ UNCHANGED trouble
                \/ NotFound(rq)
             /\ pc' = "unfinalize"
             /\ UNCHANGED <<k8sVars, informerVars, queued, slo, cur, dtID,
                            tokenCurrent>>
    <3>1. /\ tenant' \in Tenants /\ accepted' \subseteq Ids \X Revs
          /\ late' \subseteq Requests /\ trouble' \in 0..MaxTrouble
      BY <2>1, <2>2, LandFacts, FailsFacts DEF Succeeds, TypeOK
    <3> QED
      BY <2>1, <2>2, <3>1 DEF TypeOK, BusyInv, Tenants, PCs, k8sVars, informerVars
  <2>3. CASE Fails(rq) /\ Requeue
    BY <2>1, <2>3, FailsFacts, RequeueFacts DEF TypeOK, Tenants
  <2>4. CASE Requeue /\ UNCHANGED <<dtVars, trouble>>
    BY <2>4, RequeueFacts DEF TypeOK, dtVars
  <2> QED
    BY <1>8, <2>2, <2>3, <2>4 DEF DeleteSLO, rq
<1>9. CASE RemoveFinalizer
  <2>1. CASE Requeue /\ (UNCHANGED trouble \/ Meet("k8s"))
    BY <1>9, <2>1, RequeueFacts, MeetFacts DEF RemoveFinalizer, TypeOK, dtVars
  <2>2. CASE /\ Write(Absent, FALSE)
             /\ Finish
             /\ UNCHANGED <<rev, tokenCurrent, trouble>>
    <3>1. /\ obj' \in Objects /\ cache' \in Objects /\ watch' \in Seq(Objects)
          /\ queued' \in BOOLEAN
      BY <2>2, WriteFacts, AbsentFacts
    <3> QED
      BY <1>9, <2>2, <3>1, FinishFacts
         DEF RemoveFinalizer, TypeOK, BusyInv, dtVars, Finish
  <2> QED
    BY <1>9, <2>1, <2>2 DEF RemoveFinalizer
<1>10. CASE Deliver
  BY <1>10, DeliverFacts
     DEF Deliver, TypeOK, BusyInv, k8sVars, workerVars, dtVars
<1>11. CASE LateArrives
  <2>1. PICK rq \in late :
          /\ late' = late \ {rq}
          /\ \/ \E i \in Ids : Finds(rq, i) /\ Land(rq, i)
             \/ UNCHANGED <<tenant, accepted>>
    BY <1>11 DEF LateArrives
  <2>2. rq \in Requests /\ late' \subseteq Requests
    BY <2>1 DEF TypeOK
  <2>3. tenant' \in Tenants /\ accepted' \subseteq Ids \X Revs
    BY <2>1, <2>2, LandFacts DEF TypeOK, Tenants
  <2> QED
    BY <1>11, <2>2, <2>3
       DEF LateArrives, TypeOK, Tenants, BusyInv, k8sVars, informerVars, workerVars
<1>12. CASE Restart
  <2>1. cache' \in Objects /\ watch' \in Seq(Objects)
    <3>1. CASE cache' = obj /\ watch' = <<>>
      BY <3>1 DEF TypeOK
    <3>2. CASE UNCHANGED informerVars
      BY <3>2 DEF TypeOK, informerVars
    <3> QED
      BY <1>12, <3>1, <3>2 DEF Restart
  <2>2. queued' \in BOOLEAN /\ tokenCurrent' \in BOOLEAN
    BY <1>12, Zenon DEF Restart, TypeOK
  <2>3. BusyInv' /\ trouble' \in 0..MaxTrouble
    BY <1>12, MeetFacts DEF Restart, BusyInv, Finish
  <2> QED
    BY <1>12, <2>1, <2>2, <2>3, FinishFacts DEF Restart, TypeOK, k8sVars, dtVars
<1>13. CASE CreateCR
  <2>1. PICK e \in Envs, ok \in BOOLEAN : Write(NewObject(rev + 1, e, ok), FALSE)
    BY <1>13 DEF CreateCR
  <2>2. rev + 1 \in Revs /\ NewObject(rev + 1, e, ok) \in Objects
    BY <1>13, NewObjectFacts DEF CreateCR, TypeOK, Revs
  <2>3. /\ obj' \in Objects /\ cache' \in Objects /\ watch' \in Seq(Objects)
        /\ queued' \in BOOLEAN
    BY <2>1, <2>2, WriteFacts
  <2>9. cur' \in BOOLEAN
    BY <1>13, Zenon DEF CreateCR
  <2> QED
    BY <1>13, <2>9, <2>2, <2>3 DEF CreateCR, TypeOK, BusyInv, dtVars, Revs
<1>14. CASE EditSpec
  <2>1. PICK e \in Edits(obj.env), b \in BOOLEAN :
          Write([obj EXCEPT !.gen = rev + 1, !.env = e, !.envs = @ \cup {e}, !.ok = b], FALSE)
    BY <1>14 DEF EditSpec
  <2>2. obj \in CRs /\ e \in Envs /\ rev + 1 \in Revs
    BY <1>14, AbsentFacts DEF EditSpec, TypeOK, Edits, CRs, Revs
  <2>3. [obj EXCEPT !.gen = rev + 1, !.env = e, !.envs = @ \cup {e}, !.ok = b] \in Objects
    BY <2>2, EditedFacts
  <2>4. /\ obj' \in Objects /\ cache' \in Objects /\ watch' \in Seq(Objects)
        /\ queued' \in BOOLEAN
    BY <2>1, <2>3, WriteFacts
  <2>9. cur' \in BOOLEAN
    BY <1>14, Zenon DEF EditSpec
  <2> QED
    BY <1>14, <2>9, <2>2, <2>4 DEF EditSpec, TypeOK, BusyInv, dtVars, Revs
<1>15. CASE DeleteCR
  <2>1. (IF obj.fin THEN [obj EXCEPT !.del = TRUE] ELSE Absent) \in Objects
    BY <1>15, AbsentFacts, MarkedFacts DEF DeleteCR, TypeOK
  <2>2. /\ obj' \in Objects /\ cache' \in Objects /\ watch' \in Seq(Objects)
        /\ queued' \in BOOLEAN
    BY <1>15, <2>1, WriteFacts DEF DeleteCR
  <2>9. cur' \in BOOLEAN
    BY <1>15, Zenon DEF DeleteCR
  <2> QED
    BY <1>15, <2>9, <2>2 DEF DeleteCR, TypeOK, BusyInv, dtVars
<1>16. CASE ChangeInUI
  <2>1. PICK i \in Ids : \/ tenant' = [tenant EXCEPT ![i].pay = Edited]
                         \/ tenant' = [tenant EXCEPT ![i].pay = Gone]
    BY <1>16 DEF ChangeInUI
  <2>2. tenant' \in Tenants
    <3>1. tenant \in Tenants /\ Edited \in Payloads /\ Gone \in Payloads
      BY DEF TypeOK, Tenants, Payloads, Edited, Gone
    <3> QED
      BY <2>1, <3>1 DEF Tenants
  <2>3. trouble' \in 0..MaxTrouble
    BY <1>16 DEF ChangeInUI, Meet, TypeOK
  <2> QED
    BY <1>16, <2>2, <2>3
       DEF ChangeInUI, TypeOK, Tenants, BusyInv, k8sVars, informerVars, workerVars
<1>17. CASE RotateToken
  <2>1. tokenCurrent' \in BOOLEAN
    BY <1>17, Zenon DEF RotateToken
  <2> QED
    BY <1>17, <2>1
       DEF RotateToken, Meet, TypeOK, BusyInv, k8sVars, informerVars, workerVars, dtVars
<1> QED
  BY <1>1, <1>2, <1>3, <1>4, <1>5, <1>6, <1>7, <1>8, <1>9, <1>10, <1>11,
     <1>12, <1>13, <1>14, <1>15, <1>16, <1>17 DEF Next, Work

\* Every variable stays in its type, and a busy worker holds an object.
THEOREM TypeCorrect == Spec => []TypeOK
<1>1. Init => TypeInv
  BY TypeInit DEF TypeInv, BusyInv, Init
<1>2. TypeInv /\ [Next]_vars => TypeInv'
  BY TypeStep
<1> QED
  BY <1>1, <1>2, PTL DEF Spec, TypeInv

-----------------------------------------------------------------------------
(* The steps, by what they do to the object, its copies and the worker.    *)

Quiet == UNCHANGED <<obj, cache, watch, pc, slo, cur, dtID>>

\* AddFinalizer whose Update is accepted.
Finalizes ==
    /\ pc = "finalize" /\ UpdateAccepted
    /\ Write([obj EXCEPT !.fin = TRUE], FALSE)
    /\ slo' = [slo EXCEPT !.fin = TRUE]
    /\ pc' = "build"
    /\ UNCHANGED <<cur, dtID, dtVars>>

\* DeleteSLO when the SLO is deleted, or was already.
Deletes ==
    /\ pc = "delete" /\ pc' = "unfinalize"
    /\ tenant'[slo.id].pay = Gone \/ (tenant'[slo.id] = tenant[slo.id]
                                      /\ (tenant[slo.id].env # slo.env \/ ~Live(slo.id)))
    /\ UNCHANGED <<obj, cache, watch, slo, cur, dtID>>

\* The call of Reconcile ends and nothing was written.
Returns ==
    /\ Finish
    /\ obj' = obj
    /\ \/ UNCHANGED <<cache, watch>>
       \/ cache' = obj /\ watch' = <<>>

\* The call ends with a status patch.
Patches(status, reworded) ==
    /\ Finish
    /\ Exists(obj)
    /\ Write(Merge(slo, status, reworded), TRUE)
    /\ UNCHANGED dtVars

\* RemoveFinalizer whose Update is accepted.
Vanishes ==
    /\ pc = "unfinalize" /\ UpdateAccepted
    /\ Write(Absent, FALSE)
    /\ Finish
    /\ UNCHANGED dtVars

LEMMA StepCases ==
    ASSUME TypeInv, [Next]_vars
    PROVE  \/ Quiet \/ Deliver \/ Reconcile \/ Finalizes \/ BuildPayload
           \/ ApplySLO \/ Deletes \/ Returns
           \/ pc = "patch" /\ Patches(Synced(dtID, slo.gen), dtID # slo.id)
           \/ \E w \in BOOLEAN : pc = "fail" /\ Patches(Failed, w)
           \/ Vanishes \/ CreateCR \/ EditSpec \/ DeleteCR
<1>1. Requeue => Returns
  BY DEF Requeue, Returns, k8sVars, informerVars
<1>2. CASE UNCHANGED vars \/ LateArrives \/ ChangeInUI \/ RotateToken
  BY <1>2 DEF vars, LateArrives, ChangeInUI, RotateToken, Quiet,
              k8sVars, informerVars, workerVars
<1>3. CASE AddFinalizer
  BY <1>1, <1>3 DEF AddFinalizer, Finalizes
<1>4. CASE RecordSync
  BY <1>1, <1>4 DEF RecordSync, PatchStatus, Patches
<1>5. CASE SetFailed
  BY <1>1, <1>5 DEF SetFailed, PatchStatus, Patches, Failed
<1>6. CASE DeleteSLO
  <2> DEFINE rq == [id |-> slo.id, env |-> slo.env, pay |-> Gone]
  <2>1. slo.id \in Ids /\ slo.id # NoId /\ rq.id = slo.id /\ rq.env = slo.env
        /\ rq.pay = Gone
    BY <1>6, AbsentFacts DEF DeleteSLO, TypeInv, BusyInv, TypeOK, CRs, Ids, NoId
  <2>2. rq \in Requests
    BY <1>6, RequestFacts DEF DeleteSLO, TypeInv, BusyInv
  <2> HIDE DEF rq
  <2>3. CASE Requeue
    BY <1>1, <2>3
  <2>4. CASE /\ \/ Succeeds(rq, slo.id) /\ UNCHANGED trouble
                \/ NotFound(rq)
             /\ pc' = "unfinalize"
             /\ UNCHANGED <<k8sVars, informerVars, queued, slo, cur, dtID,
                            tokenCurrent>>
    <3>1. CASE Succeeds(rq, slo.id)
      <4>1. tenant'[slo.id] = [env |-> rq.env, pay |-> rq.pay]
        BY <2>1, <2>2, <3>1, LandFacts DEF Succeeds, TypeInv
      <4>2. tenant'[slo.id].pay = Gone
        BY <2>1, <4>1
      <4> QED
        BY <1>6, <2>4, <4>2 DEF DeleteSLO, Deletes, k8sVars, informerVars
    <3>2. CASE NotFound(rq)
      <4>1. /\ tenant' = tenant
            /\ tenant[slo.id].env # slo.env \/ ~Live(slo.id)
        BY <2>1, <3>2 DEF NotFound, Finds, dtVars
      <4> QED
        BY <1>6, <2>4, <4>1 DEF DeleteSLO, Deletes, k8sVars, informerVars
    <3> QED
      BY <2>4, <3>1, <3>2
  <2> QED
    BY <1>6, <2>3, <2>4 DEF DeleteSLO, rq
<1>7. CASE RemoveFinalizer
  BY <1>1, <1>7 DEF RemoveFinalizer, Vanishes
<1>8. CASE Restart
  BY <1>8 DEF Restart, Returns, k8sVars, informerVars
<1> QED
  BY <1>2, <1>3, <1>4, <1>5, <1>6, <1>7, <1>8 DEF Next, Work

\* What any step may do to the tenants.
LEMMA TenantStep ==
    ASSUME TypeInv, [Next]_vars
    PROVE  TenantsEvolve
<1> USE DEF TypeInv
<1>1. CASE UNCHANGED <<tenant, accepted>>
  BY <1>1 DEF TenantsEvolve
<1>2. ASSUME NEW rq \in Requests, NEW i \in Ids, Finds(rq, i), Land(rq, i)
      PROVE  TenantsEvolve
  BY <1>2, LandFacts
<1>3. ASSUME NEW rq \in Requests, Fails(rq) \/ NotFound(rq)
      PROVE  TenantsEvolve
  BY <1>3, FailsFacts
<1>4. CASE ApplySLO
  <2>1. ApplyRequest \in Requests
    BY <1>4, RequestFacts DEF ApplySLO, BusyInv
  <2> QED
    BY <1>2, <1>3, <1>4, <2>1 DEF ApplySLO, Succeeds
<1>5. CASE DeleteSLO
  <2> DEFINE rq == [id |-> slo.id, env |-> slo.env, pay |-> Gone]
  <2>1. rq \in Requests /\ slo.id \in Ids
    BY <1>5, RequestFacts, AbsentFacts
       DEF DeleteSLO, BusyInv, TypeOK, CRs, Ids, NoId
  <2> HIDE DEF rq
  <2>2. \/ Succeeds(rq, slo.id) \/ NotFound(rq) \/ Fails(rq)
        \/ UNCHANGED <<dtVars, trouble>>
    BY <1>5 DEF DeleteSLO, rq
  <2> QED
    BY <1>1, <1>2, <1>3, <2>1, <2>2 DEF Succeeds, dtVars
<1>6. CASE LateArrives
  BY <1>1, <1>2, <1>6 DEF LateArrives, TypeOK
<1>7. CASE ChangeInUI
  <2>1. PICK i \in Ids : Live(i) /\ \/ tenant' = [tenant EXCEPT ![i].pay = Edited]
                                    \/ tenant' = [tenant EXCEPT ![i].pay = Gone]
    BY <1>7 DEF ChangeInUI
  <2>2. \A j \in Ids : tenant'[j].env = tenant[j].env /\ (j # i => tenant'[j] = tenant[j])
    BY <2>1 DEF TypeOK
  <2> QED
    BY <1>7, <2>1, <2>2 DEF TenantsEvolve, ChangeInUI, Live
<1>8. ASSUME UNCHANGED dtVars
      PROVE  TenantsEvolve
  BY <1>1, <1>8 DEF dtVars
<1> QED
  BY <1>1, <1>4, <1>5, <1>6, <1>7, <1>8
     DEF Next, Work, vars, Reconcile, AddFinalizer, BuildPayload, RecordSync,
         SetFailed, RemoveFinalizer, Deliver, Restart, CreateCR, EditSpec,
         DeleteCR, RotateToken

-----------------------------------------------------------------------------
(* The inductive invariant.                                                *)

LEMMA StreamWrite ==
    ASSUME TypeOK, NEW o \in Objects, NEW r \in BOOLEAN, Write(o, r)
    PROVE  StreamInv'
<1> DEFINE s == Append(watch, o)
<1>1. watch \in Seq(Objects)
  BY DEF TypeOK
<1>2. s \in Seq(Objects) /\ Len(s) = Len(watch) + 1 /\ s[Len(s)] = o /\ s # <<>>
      /\ Len(watch) \in Nat
  <2>1. Len(watch) \in Nat /\ s \in Seq(Objects) /\ Len(s) = Len(watch) + 1
    BY <1>1
  <2>2. s[Len(watch) + 1] = o
    BY <1>1
  <2>3. s # <<>>
    BY <2>1
  <2> QED
    BY <2>1, <2>2, <2>3
<1>3. obj' = o
  BY DEF Write
<1>4. CASE cache' = cache /\ watch' = s
  BY <1>2, <1>3, <1>4 DEF StreamInv
<1>5. CASE cache' = Head(s) /\ watch' = Tail(s)
  <2>1. CASE Len(watch) = 0
    <3>1. Tail(s) = <<>> /\ Head(s) = o
      BY <1>1, <1>2, <2>1
    <3> QED
      BY <1>3, <1>5, <3>1 DEF StreamInv
  <2>2. CASE Len(watch) > 0
    <3>1. /\ Tail(s) \in Seq(Objects) /\ Len(Tail(s)) = Len(watch)
          /\ Tail(s)[Len(watch)] = s[Len(watch) + 1]
      BY <1>1, <1>2, <2>2
    <3>2. Tail(s) # <<>>
      BY <3>1, <2>2
    <3> QED
      BY <1>2, <1>3, <1>5, <3>1, <3>2 DEF StreamInv
  <2> QED
    BY <1>2, <2>1, <2>2
<1> QED
  BY <1>4, <1>5 DEF Write

\* The object that each write stores.
LEMMA WrittenFacts ==
    ASSUME TypeInv
    PROVE  /\ Finalizes => [obj EXCEPT !.fin = TRUE] \in Objects
           /\ pc = "patch" /\ Patches(Synced(dtID, slo.gen), dtID # slo.id)
                => Merge(slo, Synced(dtID, slo.gen), dtID # slo.id) \in Objects
           /\ \A w \in BOOLEAN : pc = "fail" /\ Patches(Failed, w)
                => Merge(slo, Failed, w) \in Objects
           /\ CreateCR => \E e \in Envs, ok \in BOOLEAN :
                             /\ NewObject(rev + 1, e, ok) \in Objects
                             /\ rev + 1 \in Revs
                             /\ Write(NewObject(rev + 1, e, ok), FALSE)
           /\ EditSpec => \E e \in Edits(obj.env), b \in BOOLEAN :
                /\ rev + 1 \in Revs /\ e \in Envs
                /\ [obj EXCEPT !.gen = rev + 1, !.env = e, !.envs = @ \cup {e}, !.ok = b] \in Objects
                /\ Write([obj EXCEPT !.gen = rev + 1, !.env = e, !.envs = @ \cup {e}, !.ok = b], FALSE)
           /\ DeleteCR =>
                /\ (IF obj.fin THEN [obj EXCEPT !.del = TRUE] ELSE Absent) \in Objects
                /\ obj \in CRs
<1>1. Exists(obj) => obj \in CRs
  BY AbsentFacts DEF TypeInv, TypeOK
<1>2. pc # "idle" => slo \in CRs
  BY AbsentFacts DEF TypeInv, TypeOK, BusyInv
<1>3. Finalizes => [obj EXCEPT !.fin = TRUE] \in Objects
  BY <1>1, FinalizedFacts DEF Finalizes, UpdateAccepted
<1>4. pc = "patch" /\ Patches(Synced(dtID, slo.gen), dtID # slo.id)
        => Merge(slo, Synced(dtID, slo.gen), dtID # slo.id) \in Objects
  BY <1>1, <1>2, SyncedMerge DEF Patches, TypeInv, TypeOK
<1>5. \A w \in BOOLEAN : pc = "fail" /\ Patches(Failed, w) => Merge(slo, Failed, w) \in Objects
  BY <1>1, <1>2, FailedMerge DEF Patches
<1>6. ASSUME CreateCR
      PROVE  \E e \in Envs, ok \in BOOLEAN :
               /\ NewObject(rev + 1, e, ok) \in Objects
               /\ rev + 1 \in Revs
               /\ Write(NewObject(rev + 1, e, ok), FALSE)
  <2>1. rev + 1 \in Revs
    BY <1>6 DEF CreateCR, TypeInv, TypeOK, Revs
  <2> QED
    BY <1>6, <2>1, NewObjectFacts DEF CreateCR
<1>7. ASSUME EditSpec
      PROVE  \E e \in Edits(obj.env), b \in BOOLEAN :
                /\ rev + 1 \in Revs /\ e \in Envs
                /\ [obj EXCEPT !.gen = rev + 1, !.env = e, !.envs = @ \cup {e}, !.ok = b] \in Objects
                /\ Write([obj EXCEPT !.gen = rev + 1, !.env = e, !.envs = @ \cup {e}, !.ok = b], FALSE)
  <2>1. rev + 1 \in Revs /\ obj \in CRs
    BY <1>1, <1>7 DEF EditSpec, TypeInv, TypeOK, Revs
  <2>2. Edits(obj.env) \subseteq Envs
    BY <2>1 DEF Edits, CRs
  <2> QED
    BY <1>7, <2>1, <2>2, EditedFacts DEF EditSpec
<1>8. DeleteCR =>
        /\ (IF obj.fin THEN [obj EXCEPT !.del = TRUE] ELSE Absent) \in Objects
        /\ obj \in CRs
  BY <1>1, MarkedFacts, AbsentFacts DEF DeleteCR
<1> QED
  BY <1>3, <1>4, <1>5, <1>6, <1>7, <1>8

LEMMA StreamStep ==
    ASSUME IInv, TypeInv, [Next]_vars
    PROVE  StreamInv'
<1>1. CASE Quiet \/ Reconcile \/ BuildPayload \/ ApplySLO \/ Deletes
  BY <1>1 DEF IInv, StreamInv, Quiet, Reconcile, BuildPayload, ApplySLO, Deletes,
              k8sVars, informerVars
<1>2. CASE Returns
  BY <1>2 DEF IInv, StreamInv, Returns
<1>3. CASE Deliver
  <2>1. watch \in Seq(Objects) /\ watch # <<>> /\ watch' = Tail(watch)
        /\ cache' = Head(watch) /\ obj' = obj /\ watch[Len(watch)] = obj
    BY <1>3 DEF Deliver, IInv, StreamInv, TypeOK, k8sVars
  <2>2. CASE Len(watch) = 1
    <3>1. Tail(watch) = <<>> /\ Head(watch) = watch[1]
      BY <2>1, <2>2
    <3> QED
      BY <2>1, <2>2, <3>1 DEF StreamInv
  <2>3. CASE Len(watch) > 1
    <3>1. Len(watch) \in Nat /\ Len(Tail(watch)) = Len(watch) - 1
      BY <2>1
    <3>2. Tail(watch) # <<>>
      BY <2>3, <3>1
    <3>3. \A n \in 1..(Len(watch) - 1) : Tail(watch)[n] = watch[n + 1]
      BY <2>1
    <3>4. Tail(watch)[Len(watch) - 1] = watch[Len(watch)]
      BY <2>3, <3>1, <3>3
    <3> QED
      BY <2>1, <3>1, <3>2, <3>4 DEF StreamInv
  <2>4. Len(watch) \in Nat /\ Len(watch) # 0
    BY <2>1
  <2>5. Len(watch) = 1 \/ Len(watch) > 1
    <3>1. \A n \in Nat : n # 0 => n = 1 \/ n > 1
      OBVIOUS
    <3> QED
      BY <2>4, <3>1
  <2> QED
    BY <2>2, <2>3, <2>5
<1>4. TypeOK
  BY DEF TypeInv
<1>5. CASE Finalizes
  BY <1>4, <1>5, WrittenFacts, StreamWrite DEF Finalizes
<1>6. CASE pc = "patch" /\ Patches(Synced(dtID, slo.gen), dtID # slo.id)
  BY <1>4, <1>6, WrittenFacts, StreamWrite DEF Patches
<1>7. ASSUME NEW w \in BOOLEAN, pc = "fail", Patches(Failed, w)
      PROVE  StreamInv'
  BY <1>4, <1>7, WrittenFacts, StreamWrite DEF Patches
<1>8. CASE Vanishes
  BY <1>4, <1>8, AbsentFacts, StreamWrite DEF Vanishes
<1>9. CASE CreateCR
  BY <1>4, <1>9, WrittenFacts, StreamWrite
<1>10. CASE EditSpec
  BY <1>4, <1>10, WrittenFacts, StreamWrite
<1>11. CASE DeleteCR
  BY <1>4, <1>11, WrittenFacts, StreamWrite DEF DeleteCR
<1> QED
  BY <1>1, <1>2, <1>3, <1>5, <1>6, <1>7, <1>8, <1>9, <1>10, <1>11, StepCases

LEMMA CurStep ==
    ASSUME IInv, TypeInv, [Next]_vars
    PROVE  CurInv'
<1> USE DEF CurInv
<1>1. CASE Quiet
  BY <1>1 DEF IInv, Quiet
<1>2. CASE Deliver
  BY <1>2 DEF IInv, Deliver, k8sVars, workerVars
<1>3. CASE Reconcile
  <2>1. cache \in Objects
    BY DEF IInv, TypeOK
  <2>2. Exists(cache) => FirstCall(cache) # "idle"
    BY <2>1, AbsentFacts DEF FirstCall, CRs
  <2>3. cur' => Exists(cache) /\ watch = <<>> /\ cache = obj
    BY <1>3 DEF Reconcile, IInv, StreamInv
  <2> QED
    BY <1>3, <2>2, <2>3 DEF Reconcile, k8sVars, informerVars
<1>4. CASE Finalizes
  <2>1. obj \in CRs /\ slo = obj /\ pc' = "build"
    BY <1>4, AbsentFacts DEF Finalizes, UpdateAccepted, IInv, TypeOK
  <2>2. slo' = obj' /\ Exists(obj')
    BY <1>4, <2>1, FinalizedFacts DEF Finalizes, Write
  <2> QED
    BY <2>1, <2>2 DEF LeavingCalls
<1>5. CASE BuildPayload \/ ApplySLO
  BY <1>5 DEF IInv, BuildPayload, ApplySLO, k8sVars, informerVars, LeavingCalls
<1>6. CASE Deletes
  BY <1>6 DEF IInv, Deletes, LeavingCalls
<1>7. ASSUME ~cur'
      PROVE  CurInv'
  BY <1>7
<1> QED
  BY <1>1, <1>2, <1>3, <1>4, <1>5, <1>6, <1>7, StepCases
     DEF Returns, Patches, Vanishes, Finish, CreateCR, EditSpec, DeleteCR

\* A copy with an ID is an object, in a real environment.
LEMMA CopyFacts ==
    ASSUME TypeOK
    PROVE  /\ Copies \subseteq Objects
           /\ \A c \in Copies \cup {slo} :
                c.id # NoId => /\ c.id \in Ids /\ c.env \in Envs /\ Exists(c)
                               /\ c.envs \subseteq Envs /\ NoEnv \notin c.envs
<1>1. Copies \subseteq Objects /\ slo \in Objects
  BY DEF TypeOK, Copies
<1>2. \A c \in Objects : c.id # NoId => c \in CRs /\ Exists(c)
  BY AbsentFacts
<1>3. \A c \in CRs : c.id # NoId => c.id \in Ids /\ c.env \in Envs /\ c.envs \subseteq Envs
  BY DEF CRs, Ids, NoId
<1> QED
  BY <1>1, <1>2, <1>3

LEMMA PcStep ==
    ASSUME IInv, TypeInv, [Next]_vars
    PROVE  PcInv'
<1>0. TypeOK /\ PcInv /\ TenantInv /\ TenantsEvolve
  BY TenantStep DEF IInv
<1> DEFINE SloTenant == slo.id # NoId => slo.id \in Ids /\ tenant[slo.id].env \in slo.envs
                                         /\ tenant[slo.id].env # NoEnv
           DtTenant == dtID # NoId => dtID \in Ids /\ tenant[dtID].env = slo.env
                                      /\ pc = "patch" /\ tenant[dtID].env # NoEnv
<1>a. SloTenant
  BY <1>0, CopyFacts DEF PcInv
<1>b. DtTenant
  <2>1. dtID # NoId => pc = "patch" /\ dtID \in Ids
    BY <1>0 DEF PcInv, TypeOK, Ids, NoId
  <2>2. pc = "patch" => slo.env \in Envs
    BY AbsentFacts DEF TypeInv, TypeOK, BusyInv, CRs
  <2> QED
    BY <1>0, <2>1, <2>2 DEF PcInv
<1>c. /\ slo.id # NoId => tenant'[slo.id].env \in slo.envs
      /\ dtID # NoId => tenant'[dtID].env = slo.env
  BY <1>0, <1>a, <1>b DEF TenantsEvolve
<1> HIDE DEF SloTenant, DtTenant
<1>1. CASE Quiet
  BY <1>0, <1>1, <1>c DEF Quiet, PcInv
<1>2. CASE Deliver
  BY <1>0, <1>2, <1>c DEF Deliver, workerVars, PcInv
<1>3. CASE Reconcile
  <2>1. cache \in Objects /\ cache \in Copies
    BY <1>0 DEF TypeOK, Copies
  <2>2. cache.id # NoId => tenant'[cache.id].env \in cache.envs
    BY <1>0, <2>1, CopyFacts DEF TenantInv, TenantsEvolve
  <2>3. dtID = NoId
    BY <1>0, <1>3 DEF Reconcile, PcInv
  <2> QED
    BY <1>3, <2>1, <2>2, <2>3, FirstCallFacts
       DEF Reconcile, PcInv, HeldCalls, LeavingCalls
<1>4. CASE Finalizes
  <2>1. slo \in CRs /\ ~slo.del /\ dtID = NoId
    BY <1>0, <1>4, AbsentFacts DEF Finalizes, PcInv, TypeOK
  <2>2. Exists(slo') /\ slo'.fin /\ ~slo'.del /\ slo'.id = slo.id /\ slo'.env = slo.env
        /\ slo'.envs = slo.envs
    BY <1>4, <2>1, FinalizedFacts DEF Finalizes
  <2> QED
    BY <1>4, <1>c, <2>1, <2>2 DEF Finalizes, PcInv, HeldCalls, LeavingCalls
<1>5. CASE BuildPayload
  BY <1>0, <1>5, <1>c DEF BuildPayload, PcInv, HeldCalls, LeavingCalls
<1>6. CASE ApplySLO
  <2>1. /\ Exists(slo) /\ ~slo.del /\ slo.fin /\ slo' = slo
        /\ pc' \in {"patch", "fail"} /\ dtID = NoId
    BY <1>0, <1>6 DEF ApplySLO, PcInv, HeldCalls
  <2>2. ApplyRequest \in Requests /\ ApplyRequest.env = slo.env
    BY <1>0, <2>1, RequestFacts
  <2>3. ASSUME NEW i \in Ids, Succeeds(ApplyRequest, i), dtID' = i
        PROVE  tenant'[dtID'].env = slo.env
    <3>1. tenant'[i] = [env |-> ApplyRequest.env, pay |-> ApplyRequest.pay]
      BY <1>0, <2>2, <2>3, LandFacts DEF Succeeds
    <3>2. tenant'[i].env = ApplyRequest.env
      BY <3>1
    <3> QED
      BY <2>2, <2>3, <3>2
  <2>4. dtID' # NoId => pc' = "patch" /\ tenant'[dtID'].env = slo.env
    BY <1>6, <2>1, <2>3 DEF ApplySLO
  <2>5. pc' = "patch" => slo.id \in {NoId, dtID'}
    BY <1>0, <1>6, <2>1, RequestFacts DEF ApplySLO, Succeeds, Finds
  <2> QED
    BY <1>c, <2>1, <2>4, <2>5 DEF PcInv, HeldCalls, LeavingCalls
<1>7. CASE Deletes
  BY <1>0, <1>7, <1>c DEF Deletes, PcInv, HeldCalls, LeavingCalls
<1>8. ASSUME Finish
      PROVE  PcInv'
  <2>1. /\ pc' = "idle" /\ dtID' = NoId /\ slo'.id = NoId
    BY <1>8, AbsentFacts DEF Finish
  <2> QED
    BY <2>1 DEF PcInv, HeldCalls, LeavingCalls
<1>9. ASSUME UNCHANGED <<pc, slo, dtID>>
      PROVE  PcInv'
  BY <1>0, <1>9, <1>c DEF PcInv
<1> QED
  BY <1>1, <1>2, <1>3, <1>4, <1>5, <1>6, <1>7, <1>8, <1>9, StepCases
     DEF Returns, Patches, Vanishes, CreateCR, EditSpec, DeleteCR

\* What HeldInv says of one copy.
Trusted(c) == Exists(c) /\ c.fin /\ ~c.del
                => Exists(obj) /\ obj.fin /\ c.envs \subseteq obj.envs

LEMMA HeldStep ==
    ASSUME IInv, TypeInv, [Next]_vars
    PROVE  HeldInv'
<1>0. /\ TypeOK /\ PcInv /\ CurInv
      /\ \A c \in Copies : Trusted(c)
      /\ pc \in HeldCalls => Exists(obj) /\ obj.fin /\ slo.envs \subseteq obj.envs
      /\ Exists(obj) /\ obj.del => obj.fin
      /\ Exists(obj) /\ ~obj.fin => obj.id = NoId
  BY DEF IInv, HeldInv, Trusted
<1>t. /\ obj \in Objects /\ slo \in Objects
      /\ Exists(obj) => obj \in CRs
      /\ Exists(slo) => slo \in CRs
  BY <1>0, AbsentFacts DEF TypeOK
<1>1. CASE Quiet
  BY <1>0, <1>1 DEF Quiet, HeldInv, Trusted, Copies
<1>2. CASE Deliver
  BY <1>0, <1>2, DeliverFacts DEF Deliver, k8sVars, workerVars, HeldInv, Trusted
<1>3. CASE Reconcile
  <2>1. cache \in Objects /\ cache \in Copies /\ Copies' = Copies /\ obj' = obj
    BY <1>0, <1>3 DEF TypeOK, Copies, Reconcile, k8sVars, informerVars
  <2>2. pc' \in HeldCalls => Exists(cache) /\ cache.fin /\ ~cache.del /\ slo' = cache
    BY <1>3, <2>1, FirstCallFacts DEF Reconcile, HeldCalls
  <2> QED
    BY <1>0, <2>1, <2>2 DEF HeldInv, Trusted
<1>4. CASE Finalizes
  <2> DEFINE o == [obj EXCEPT !.fin = TRUE]
  <2>1. /\ o \in Objects /\ Exists(o) /\ o.envs = obj.envs /\ o.fin /\ slo = obj
        /\ obj \in CRs
    BY <1>0, <1>4, <1>t, FinalizedFacts DEF Finalizes, UpdateAccepted, CurInv
  <2>2. obj' = o /\ Copies' \subseteq Copies \cup {o}
    BY <1>0, <1>4, <2>1, WriteFacts DEF Finalizes
  <2>3. slo'.envs = o.envs
    BY <1>4, <2>1, FinalizedFacts DEF Finalizes
  <2> HIDE DEF o
  <2> QED
    BY <1>0, <2>1, <2>2, <2>3 DEF HeldInv, Trusted
<1>5. CASE BuildPayload \/ ApplySLO \/ Deletes
  <2>1. /\ UNCHANGED <<obj, cache, watch, slo>>
        /\ pc' \in HeldCalls => pc \in HeldCalls
    BY <1>5 DEF BuildPayload, ApplySLO, Deletes, HeldCalls, k8sVars, informerVars
  <2> QED
    BY <1>0, <2>1 DEF HeldInv, Trusted, Copies
<1>6. CASE Returns
  <2>1. Copies' \subseteq Copies /\ obj' = obj /\ pc' = "idle"
    BY <1>6 DEF Returns, Copies, Finish
  <2> QED
    BY <1>0, <2>1 DEF HeldInv, Trusted, HeldCalls
<1>7. ASSUME Exists(obj), NEW st, NEW w, Write(Merge(slo, st, w), TRUE), Finish,
             Merge(slo, st, w) \in Objects, Exists(Merge(slo, st, w)),
             Merge(slo, st, w).envs = obj.envs, Merge(slo, st, w).fin = obj.fin,
             Merge(slo, st, w).del = obj.del, obj.fin
      PROVE  HeldInv'
  <2>1. /\ obj' = Merge(slo, st, w) /\ pc' = "idle"
        /\ Copies' \subseteq Copies \cup {Merge(slo, st, w)}
    BY <1>0, <1>7, WriteFacts DEF Finish
  <2> QED
    BY <1>0, <1>7, <2>1 DEF HeldInv, Trusted, HeldCalls
<1>8. CASE pc = "patch" /\ Patches(Synced(dtID, slo.gen), dtID # slo.id)
  <2>1. obj \in CRs /\ slo \in CRs /\ dtID \in 0..MaxIds /\ obj.fin
    BY <1>0, <1>8, <1>t DEF Patches, PcInv, TypeOK, HeldCalls
  <2> QED
    BY <1>7, <1>8, <2>1, SyncedMerge DEF Patches
<1>9. ASSUME NEW w \in BOOLEAN, pc = "fail", Patches(Failed, w)
      PROVE  HeldInv'
  <2>1. obj \in CRs /\ slo \in CRs /\ obj.fin
    BY <1>0, <1>9, <1>t DEF Patches, PcInv, TypeOK, HeldCalls
  <2> QED
    BY <1>7, <1>9, <2>1, FailedMerge DEF Patches
<1>10. CASE Vanishes
  <2>1. slo = obj /\ obj.del /\ watch = <<>> /\ cache = obj
    BY <1>0, <1>10 DEF Vanishes, UpdateAccepted, CurInv, PcInv, LeavingCalls
  <2>2. Copies \subseteq {obj}
    BY <2>1 DEF Copies
  <2>3. obj' = Absent /\ Copies' \subseteq {obj, Absent} /\ pc' = "idle"
    BY <1>0, <1>10, <2>2, WriteFacts, AbsentFacts DEF Vanishes, Finish
  <2> QED
    BY <2>1, <2>3, AbsentFacts DEF HeldInv, Trusted, HeldCalls
<1>11. CASE CreateCR
  <2>1. PICK e \in Envs, ok \in BOOLEAN :
          /\ rev + 1 \in Revs
          /\ NewObject(rev + 1, e, ok) \in Objects
          /\ Write(NewObject(rev + 1, e, ok), FALSE)
    BY <1>11, WrittenFacts
  <2> DEFINE o == NewObject(rev + 1, e, ok)
  <2>2. ~o.fin /\ ~o.del /\ o.id = NoId
    BY <2>1, NewObjectFacts
  <2>3. obj' = o /\ Copies' \subseteq Copies \cup {o}
    BY <1>0, <2>1, WriteFacts
  <2> HIDE DEF o
  <2> QED
    BY <1>0, <1>11, <2>2, <2>3 DEF CreateCR, HeldInv, Trusted
<1>12. CASE EditSpec
  <2>1. PICK e \in Edits(obj.env), b \in BOOLEAN :
          /\ rev + 1 \in Revs /\ e \in Envs
          /\ [obj EXCEPT !.gen = rev + 1, !.env = e, !.envs = @ \cup {e}, !.ok = b] \in Objects
          /\ Write([obj EXCEPT !.gen = rev + 1, !.env = e, !.envs = @ \cup {e}, !.ok = b], FALSE)
    BY <1>12, WrittenFacts
  <2> DEFINE o == [obj EXCEPT !.gen = rev + 1, !.env = e, !.envs = @ \cup {e}, !.ok = b]
  <2>2. obj \in CRs
    BY <1>12, <1>t DEF EditSpec
  <2>3. /\ Exists(o) /\ o.envs = obj.envs \cup {e} /\ o.fin = obj.fin
        /\ o.del = obj.del /\ o.id = obj.id
    <3>1. obj \in CRs /\ rev + 1 \in Revs /\ e \in Envs /\ b \in BOOLEAN
      BY <2>1, <2>2
    <3>2. /\ o.gen = rev + 1 /\ o.envs = obj.envs \cup {e} /\ o.fin = obj.fin
          /\ o.del = obj.del /\ o.id = obj.id
      BY <3>1 DEF CRs
    <3> QED
      BY <3>1, <3>2 DEF Exists, Revs
  <2>4. obj' = o /\ Copies' \subseteq Copies \cup {o}
    BY <1>0, <2>1, WriteFacts
  <2> HIDE DEF o
  <2> QED
    BY <1>0, <1>12, <2>3, <2>4 DEF EditSpec, HeldInv, Trusted
<1>13. CASE DeleteCR
  <2> DEFINE o == IF obj.fin THEN [obj EXCEPT !.del = TRUE] ELSE Absent
  <2>1. o \in Objects /\ obj \in CRs
    BY <1>13, WrittenFacts
  <2>2. obj' = o /\ Copies' \subseteq Copies \cup {o}
    BY <1>0, <1>13, <2>1, WriteFacts DEF DeleteCR
  <2>3. CASE obj.fin
    <3>1. Exists(o) /\ o.envs = obj.envs /\ o.fin /\ o.del
      BY <2>1, <2>3, MarkedFacts
    <3> HIDE DEF o
    <3> QED
      BY <1>0, <1>13, <2>2, <3>1 DEF DeleteCR, HeldInv, Trusted
  <2>4. CASE ~obj.fin
    <3>1. ~Exists(o) /\ ~o.fin /\ o = Absent
      BY <2>4, AbsentFacts
    <3> HIDE DEF o
    <3> QED
      BY <1>0, <1>13, <2>2, <2>4, <3>1 DEF DeleteCR, HeldInv, Trusted
  <2> QED
    BY <2>3, <2>4
<1> QED
  BY <1>1, <1>2, <1>3, <1>4, <1>5, <1>6, <1>8, <1>9, <1>10, <1>11, <1>12,
     <1>13, StepCases

LEMMA EnvsStep ==
    ASSUME IInv, TypeInv, [Next]_vars
    PROVE  EnvsInv'
<1>0. TypeOK /\ PcInv
  BY DEF IInv
<1>t. /\ Exists(obj) => obj \in CRs
      /\ pc # "idle" => slo \in CRs
  BY <1>0, AbsentFacts DEF TypeOK, PcInv
<1> DEFINE Named(c) == c.env \in c.envs /\ (~EnvMutable => c.envs = {c.env})
<1>o. \A c \in Copies \cup {slo} : Named(c)
  BY DEF IInv, EnvsInv
<1>p. obj \in Copies /\ cache \in Copies /\ Named(Absent)
  BY AbsentFacts DEF Copies
<1>q. ASSUME \A c \in Copies' \cup {slo'} : Named(c)
      PROVE  EnvsInv'
  BY <1>q DEF EnvsInv
<1>s. \A c, d : c.env = d.env /\ c.envs = d.envs /\ Named(d) => Named(c)
  OBVIOUS
<1> HIDE DEF Named
\* So only the object that a write stores is left to look at.
<1>w. ASSUME NEW o \in Objects, NEW r \in BOOLEAN, Write(o, r), Named(o),
             Named(slo')
      PROVE  EnvsInv'
  <2>1. Copies' \subseteq Copies \cup {o}
    BY <1>0, <1>w, WriteFacts
  <2> QED
    BY <1>o, <1>q, <1>w, <2>1
<1>1. CASE Quiet \/ BuildPayload \/ ApplySLO \/ Deletes
  <2>1. Copies' = Copies /\ slo' = slo
    BY <1>1 DEF Quiet, BuildPayload, ApplySLO, Deletes, Copies, k8sVars, informerVars
  <2> QED
    BY <1>o, <1>q, <2>1
<1>2. CASE Deliver
  <2>1. Copies' \subseteq Copies /\ slo' = slo
    BY <1>0, <1>2, DeliverFacts DEF Deliver, workerVars
  <2> QED
    BY <1>o, <1>q, <2>1
<1>3. CASE Reconcile
  <2>1. Copies' = Copies /\ slo' = cache
    BY <1>3 DEF Reconcile, Copies, k8sVars, informerVars
  <2> QED
    BY <1>o, <1>p, <1>q, <2>1
<1>4. CASE Returns
  <2>1. Copies' \subseteq Copies /\ slo' = Absent
    BY <1>4 DEF Returns, Copies, Finish
  <2> QED
    BY <1>o, <1>p, <1>q, <2>1
<1>5. CASE Finalizes
  <2> DEFINE o == [obj EXCEPT !.fin = TRUE]
  <2>1. /\ o \in Objects /\ o.env = obj.env /\ o.envs = obj.envs /\ Write(o, FALSE)
    BY <1>5, <1>t, FinalizedFacts DEF Finalizes, UpdateAccepted
  <2>2. slo'.env = slo.env /\ slo'.envs = slo.envs
    BY <1>5, <1>t, FinalizedFacts DEF Finalizes
  <2> HIDE DEF o
  <2> QED
    BY <1>o, <1>p, <1>s, <1>w, <2>1, <2>2
<1>6. CASE pc = "patch" /\ Patches(Synced(dtID, slo.gen), dtID # slo.id)
  <2> DEFINE o == Merge(slo, Synced(dtID, slo.gen), dtID # slo.id)
  <2>1. /\ obj \in CRs /\ slo \in CRs /\ dtID \in 0..MaxIds
        /\ Write(o, TRUE) /\ slo' = Absent
    BY <1>0, <1>6, <1>t DEF Patches, Finish, TypeOK
  <2>2. o \in Objects /\ o.env = obj.env /\ o.envs = obj.envs
    BY <2>1, SyncedMerge
  <2> HIDE DEF o
  <2> QED
    BY <1>o, <1>p, <1>s, <1>w, <2>1, <2>2
<1>7. ASSUME NEW w \in BOOLEAN, pc = "fail", Patches(Failed, w)
      PROVE  EnvsInv'
  <2> DEFINE o == Merge(slo, Failed, w)
  <2>1. obj \in CRs /\ slo \in CRs /\ Write(o, TRUE) /\ slo' = Absent
    BY <1>0, <1>7, <1>t DEF Patches, Finish
  <2>2. o \in Objects /\ o.env = obj.env /\ o.envs = obj.envs
    BY <2>1, FailedMerge
  <2> HIDE DEF o
  <2> QED
    BY <1>o, <1>p, <1>s, <1>w, <2>1, <2>2
<1>8. CASE Vanishes
  BY <1>8, <1>p, <1>w, AbsentFacts DEF Vanishes, Finish
<1>9. CASE CreateCR
  <2>1. PICK e \in Envs, ok \in BOOLEAN :
          /\ rev + 1 \in Revs
          /\ NewObject(rev + 1, e, ok) \in Objects
          /\ Write(NewObject(rev + 1, e, ok), FALSE)
    BY <1>9, WrittenFacts
  <2> DEFINE o == NewObject(rev + 1, e, ok)
  <2>2. o.env = e /\ o.envs = {e}
    BY <2>1, NewObjectFacts
  <2>3. o \in Objects /\ Write(o, FALSE) /\ slo' = slo
    BY <1>9, <2>1 DEF CreateCR
  <2> HIDE DEF o
  <2>4. Named(o)
    BY <2>2 DEF Named
  <2> QED
    BY <1>o, <1>w, <2>3, <2>4
<1>10. CASE EditSpec
  <2>1. PICK e \in Edits(obj.env), b \in BOOLEAN :
          /\ rev + 1 \in Revs /\ e \in Envs
          /\ [obj EXCEPT !.gen = rev + 1, !.env = e, !.envs = @ \cup {e}, !.ok = b] \in Objects
          /\ Write([obj EXCEPT !.gen = rev + 1, !.env = e, !.envs = @ \cup {e}, !.ok = b], FALSE)
    BY <1>10, WrittenFacts
  <2> DEFINE o == [obj EXCEPT !.gen = rev + 1, !.env = e, !.envs = @ \cup {e}, !.ok = b]
  <2>2. obj \in CRs /\ slo' = slo
    BY <1>10, <1>t DEF EditSpec
  <2>3. o.env = e /\ o.envs = obj.envs \cup {e}
    BY <2>1, <2>2 DEF CRs
  <2>4. o \in Objects /\ Write(o, FALSE)
    BY <2>1
  <2> HIDE DEF o
  <2>5. ~EnvMutable => e = obj.env
    BY <2>1 DEF Edits
  <2>6. Named(o)
    BY <1>o, <1>p, <2>3, <2>5 DEF Named
  <2> QED
    BY <1>o, <1>w, <2>2, <2>4, <2>6
<1>11. CASE DeleteCR
  <2> DEFINE o == IF obj.fin THEN [obj EXCEPT !.del = TRUE] ELSE Absent
  <2>1. o \in Objects /\ obj \in CRs /\ Write(o, FALSE) /\ slo' = slo
    BY <1>11, WrittenFacts DEF DeleteCR
  <2>2. o = Absent \/ (o.env = obj.env /\ o.envs = obj.envs)
    BY <2>1, MarkedFacts
  <2> HIDE DEF o
  <2> QED
    BY <1>o, <1>p, <1>s, <1>w, <2>1, <2>2
<1> QED
  BY <1>1, <1>2, <1>3, <1>4, <1>5, <1>6, <1>7, <1>8, <1>9, <1>10, <1>11, StepCases

LEMMA TenantInvStep ==
    ASSUME IInv, TypeInv, [Next]_vars
    PROVE  TenantInv'
<1>0. TypeOK /\ PcInv /\ HeldInv /\ TenantsEvolve
  BY TenantStep DEF IInv
<1>t. /\ Exists(obj) => obj \in CRs
      /\ pc # "idle" => slo \in CRs
  BY <1>0, AbsentFacts DEF TypeOK, PcInv
\* The copies there were keep the tenant of their ID.
<1>o. \A c \in Copies : c.id # NoId => tenant'[c.id].env \in c.envs
  BY <1>0, CopyFacts DEF IInv, TenantInv, TenantsEvolve
<1>p. obj \in Copies
  BY DEF Copies
\* So only the object that a write stores is left to look at.
<1>w. ASSUME NEW o \in Objects, NEW r \in BOOLEAN, Write(o, r),
             o.id # NoId => tenant'[o.id].env \in o.envs
      PROVE  TenantInv'
  <2>1. Copies' \subseteq Copies \cup {o}
    BY <1>0, <1>w, WriteFacts
  <2> QED
    BY <1>o, <1>w, <2>1 DEF TenantInv
<1>1. CASE Quiet \/ Reconcile \/ BuildPayload \/ ApplySLO \/ Deletes
  <2>1. Copies' = Copies
    BY <1>1 DEF Quiet, Reconcile, BuildPayload, ApplySLO, Deletes, Copies,
                k8sVars, informerVars
  <2> QED
    BY <1>o, <2>1 DEF TenantInv
<1>2. CASE Deliver
  BY <1>0, <1>2, <1>o, DeliverFacts DEF TenantInv
<1>3. CASE Returns
  <2>1. Copies' \subseteq Copies
    BY <1>3 DEF Returns, Copies
  <2> QED
    BY <1>o, <2>1 DEF TenantInv
<1>4. CASE Finalizes
  <2> DEFINE o == [obj EXCEPT !.fin = TRUE]
  <2>1. o \in Objects /\ o.id = obj.id /\ o.envs = obj.envs /\ Write(o, FALSE)
    BY <1>4, <1>t, FinalizedFacts DEF Finalizes, UpdateAccepted
  <2> HIDE DEF o
  <2> QED
    BY <1>o, <1>p, <1>w, <2>1
<1>5. CASE pc = "patch" /\ Patches(Synced(dtID, slo.gen), dtID # slo.id)
  <2> DEFINE o == Merge(slo, Synced(dtID, slo.gen), dtID # slo.id)
  <2>1. obj \in CRs /\ slo \in CRs /\ dtID \in 0..MaxIds /\ Write(o, TRUE)
    BY <1>0, <1>5, <1>t DEF Patches, TypeOK
  <2>2. /\ o \in Objects /\ o.envs = obj.envs
        /\ o.id = obj.id \/ o.id = dtID
    BY <2>1, SyncedMerge
  <2>3. slo.envs \subseteq obj.envs /\ slo.env \in slo.envs
    BY <1>0, <1>5 DEF HeldInv, HeldCalls, IInv, EnvsInv
  <2>4. dtID # NoId => tenant'[dtID].env = slo.env
    BY <1>0, <1>5 DEF PcInv, Patches, dtVars
  <2> HIDE DEF o
  <2> QED
    BY <1>o, <1>p, <1>w, <2>1, <2>2, <2>3, <2>4
<1>6. ASSUME NEW w \in BOOLEAN, pc = "fail", Patches(Failed, w)
      PROVE  TenantInv'
  <2> DEFINE o == Merge(slo, Failed, w)
  <2>1. obj \in CRs /\ slo \in CRs /\ Write(o, TRUE)
    BY <1>0, <1>6, <1>t DEF Patches
  <2>2. o \in Objects /\ o.envs = obj.envs /\ o.id = obj.id
    BY <2>1, FailedMerge
  <2> HIDE DEF o
  <2> QED
    BY <1>o, <1>p, <1>w, <2>1, <2>2
<1>7. CASE Vanishes
  BY <1>7, <1>w, AbsentFacts DEF Vanishes
<1>8. CASE CreateCR
  <2>1. PICK e \in Envs, ok \in BOOLEAN :
          /\ rev + 1 \in Revs
          /\ NewObject(rev + 1, e, ok) \in Objects
          /\ Write(NewObject(rev + 1, e, ok), FALSE)
    BY <1>8, WrittenFacts
  <2> DEFINE o == NewObject(rev + 1, e, ok)
  <2>2. o.id = NoId
    BY <2>1, NewObjectFacts
  <2> HIDE DEF o
  <2>3. o \in Objects /\ Write(o, FALSE)
    BY <2>1 DEF o
  <2> QED
    BY <1>w, <2>2, <2>3
<1>9. CASE EditSpec
  <2>1. PICK e \in Edits(obj.env), b \in BOOLEAN :
          /\ rev + 1 \in Revs /\ e \in Envs
          /\ [obj EXCEPT !.gen = rev + 1, !.env = e, !.envs = @ \cup {e}, !.ok = b] \in Objects
          /\ Write([obj EXCEPT !.gen = rev + 1, !.env = e, !.envs = @ \cup {e}, !.ok = b], FALSE)
    BY <1>9, WrittenFacts
  <2> DEFINE o == [obj EXCEPT !.gen = rev + 1, !.env = e, !.envs = @ \cup {e}, !.ok = b]
  <2>2. obj \in CRs
    BY <1>9, <1>t DEF EditSpec
  <2>3. o.envs = obj.envs \cup {e} /\ o.id = obj.id
    BY <2>1, <2>2 DEF CRs
  <2> HIDE DEF o
  <2>4. o \in Objects /\ Write(o, FALSE)
    BY <2>1 DEF o
  <2> QED
    BY <1>o, <1>p, <1>w, <2>2, <2>3, <2>4
<1>10. CASE DeleteCR
  <2> DEFINE o == IF obj.fin THEN [obj EXCEPT !.del = TRUE] ELSE Absent
  <2>1. o \in Objects /\ obj \in CRs /\ Write(o, FALSE)
    BY <1>10, WrittenFacts DEF DeleteCR
  <2>2. o.id = NoId \/ (o.id = obj.id /\ o.envs = obj.envs)
    BY <2>1, AbsentFacts, MarkedFacts
  <2> HIDE DEF o
  <2> QED
    BY <1>o, <1>p, <1>w, <2>1, <2>2
<1> QED
  BY <1>1, <1>2, <1>3, <1>4, <1>5, <1>6, <1>7, <1>8, <1>9, <1>10, StepCases

LEMMA GoneStep ==
    ASSUME IInv, TypeInv, [Next]_vars
    PROVE  GoneInv'
<1>0. TypeOK /\ PcInv /\ TenantsEvolve
  BY TenantStep DEF IInv
<1>1. slo.id # NoId => slo.id \in Ids /\ tenant[slo.id].env # NoEnv
  BY <1>0, CopyFacts DEF PcInv
<1>2. ASSUME UNCHANGED <<pc, slo>>
      PROVE  GoneInv'
  BY <1>0, <1>1, <1>2 DEF IInv, GoneInv, TenantsEvolve, Live
<1>3. CASE Reconcile
  <2>1. cache \in Objects
    BY <1>0 DEF TypeOK
  <2>2. pc' = "unfinalize" => slo'.id = NoId
    BY <1>3, <2>1, FirstCallFacts DEF Reconcile
  <2> QED
    BY <2>2 DEF GoneInv
<1>4. CASE Deletes
  BY <1>0, <1>1, <1>4 DEF Deletes, GoneInv, PcInv, Live
<1>5. ASSUME pc' # "unfinalize"
      PROVE  GoneInv'
  BY <1>5 DEF GoneInv
<1> QED
  BY <1>2, <1>3, <1>4, <1>5, StepCases
     DEF Quiet, Deliver, workerVars, Finalizes, BuildPayload, ApplySLO, Returns,
         Patches, Vanishes, Finish, CreateCR, EditSpec, DeleteCR

LEMMA IInit == Init => IInv
<1> SUFFICES ASSUME Init PROVE IInv
  OBVIOUS
<1>1. Copies = {Absent} /\ slo = Absent /\ obj = Absent /\ cache = Absent
  BY DEF Init, Copies
<1>2. pc = "idle" /\ watch = <<>> /\ dtID = NoId /\ ~cur
  BY DEF Init
<1>3. HeldInv
  BY <1>1, <1>2, AbsentFacts DEF HeldInv, HeldCalls
<1>4. TenantInv /\ EnvsInv
  BY <1>1, AbsentFacts DEF TenantInv, EnvsInv
<1>5. PcInv
  BY <1>1, <1>2, AbsentFacts DEF PcInv, HeldCalls, LeavingCalls
<1>6. StreamInv /\ CurInv /\ GoneInv
  BY <1>1, <1>2 DEF StreamInv, CurInv, GoneInv
<1> QED
  BY <1>3, <1>4, <1>5, <1>6, TypeInit DEF IInv

LEMMA IStep == IInv /\ TypeInv /\ [Next]_vars => IInv'
  BY TypeStep, StreamStep, CurStep, PcStep, HeldStep, EnvsStep, TenantInvStep,
     GoneStep DEF IInv, TypeInv

\* The inductive invariant holds under every trouble and every edit, those of
\* spec.environment included: what the worker has read, however stale, and what
\* it has been told by Dynatrace stay good enough to act on.
THEOREM Inductive == Spec => [](IInv /\ TypeInv)
<1>1. Init => TypeInv
  BY TypeInit DEF TypeInv, BusyInv, Init
<1>2. TypeInv /\ [Next]_vars => TypeInv'
  BY TypeStep
<1>3. IInv /\ TypeInv /\ [Next]_vars => IInv'
  BY IStep
<1> QED
  BY <1>1, <1>2, <1>3, IInit, PTL DEF Spec

-----------------------------------------------------------------------------
(* What follows from it.                                                   *)

\* The recorded ID belongs to a tenant that this very object has named, whatever
\* stale copy of which object a worker patched from (ApplySLO and RecordSync,
\* lines 105-135).
THEOREM IDsMatchTenants == Spec => []RecordedInItsTenant
<1>1. IInv => RecordedInItsTenant
  BY DEF IInv, TenantInv, RecordedInItsTenant, Copies
<1> QED
  BY <1>1, Inductive, PTL

\* reconcileDelete lets the object go only after the SLO its status names is gone
\* from the tenant its spec names: the Update that drops the finalizer is refused
\* unless the worker's copy is the stored one, and then the SLO it deleted, or
\* was told is not there, is the recorded one (lines 144-164).
THEOREM DeletesAreClean == Spec => CleanDelete
<1> DEFINE Step == Exists(obj) /\ obj.fin /\ ~Exists(obj')
                     => \/ obj.id = NoId
                        \/ tenant'[obj.id].pay = Gone
                        \/ tenant'[obj.id].env # obj.env
<1>1. ASSUME IInv, TypeInv, [Next]_vars
      PROVE  [Step]_vars
  <2>0. obj \in Objects /\ (Exists(obj) => obj \in CRs) /\ TypeOK
    BY <1>1, AbsentFacts DEF TypeInv, TypeOK
  <2>t. obj.id # NoId => obj.id \in Ids
    BY <1>1, <2>0, CopyFacts DEF Copies
  <2>1. ASSUME obj' = obj
        PROVE  Step
    BY <2>1
  <2>2. ASSUME Exists(obj')
        PROVE  Step
    BY <2>2
  <2>3. CASE Vanishes
    <3>1. slo = obj /\ tenant' = tenant /\ pc = "unfinalize"
      BY <1>1, <2>3 DEF Vanishes, UpdateAccepted, IInv, CurInv, dtVars
    <3> QED
      BY <1>1, <2>0, <2>t, <3>1 DEF IInv, GoneInv, Live, TypeOK
  <2>4. CASE Finalizes
    <3>1. Exists(obj')
      BY <2>0, <2>4, FinalizedFacts DEF Finalizes, UpdateAccepted, Write
    <3> QED
      BY <2>2, <3>1
  <2>5. CASE pc = "patch" /\ Patches(Synced(dtID, slo.gen), dtID # slo.id)
    <3>1. obj \in CRs /\ slo \in CRs /\ dtID \in 0..MaxIds
      BY <1>1, <2>0, <2>5, AbsentFacts DEF Patches, TypeOK, TypeInv, BusyInv
    <3>2. Exists(Merge(slo, Synced(dtID, slo.gen), dtID # slo.id))
      BY <3>1, SyncedMerge
    <3> QED
      BY <2>2, <2>5, <3>2 DEF Patches, Write
  <2>6. ASSUME NEW w \in BOOLEAN, pc = "fail", Patches(Failed, w)
        PROVE  Step
    <3>1. obj \in CRs /\ slo \in CRs
      BY <1>1, <2>0, <2>6, AbsentFacts DEF Patches, TypeOK, TypeInv, BusyInv
    <3>2. Exists(Merge(slo, Failed, w))
      BY <3>1, FailedMerge
    <3> QED
      BY <2>2, <2>6, <3>2 DEF Patches, Write
  <2>7. CASE CreateCR
    BY <2>7 DEF CreateCR
  <2>8. CASE EditSpec
    <3>1. PICK e \in Edits(obj.env), b \in BOOLEAN :
            /\ rev + 1 \in Revs
            /\ obj' = [obj EXCEPT !.gen = rev + 1, !.env = e, !.envs = @ \cup {e}, !.ok = b]
      BY <1>1, <2>8, WrittenFacts DEF Write
    <3>2. obj \in CRs
      BY <2>0, <2>8 DEF EditSpec
    <3>3. obj'.gen = rev + 1
      BY <3>1, <3>2 DEF CRs
    <3> QED
      BY <2>2, <3>1, <3>3 DEF Exists, Revs
  <2>9. CASE DeleteCR
    <3>1. CASE obj.fin
      <4>1. obj \in CRs /\ obj' = [obj EXCEPT !.del = TRUE]
        BY <2>0, <2>9, <3>1 DEF DeleteCR, Write
      <4> QED
        BY <2>2, <4>1, MarkedFacts
    <3> QED
      BY <3>1
  <2> HIDE DEF Step
  <2> QED
    BY <1>1, <2>1, <2>3, <2>4, <2>5, <2>6, <2>7, <2>8, <2>9, StepCases
       DEF Quiet, Deliver, Reconcile, BuildPayload, ApplySLO, Deletes, Returns,
           k8sVars
<1> QED
  BY <1>1, Inductive, PTL DEF Spec, CleanDelete

\* What a request does to the tenants, whatever its caller is told.
LEMMA OutcomeFacts ==
    ASSUME NEW rq, (\E i \in Ids : Succeeds(rq, i)) \/ NotFound(rq) \/ Fails(rq)
    PROVE  \/ UNCHANGED <<tenant, accepted>>
           \/ \E j \in Ids : Finds(rq, j) /\ Land(rq, j)
  BY DEF Succeeds, NotFound, Fails, dtVars

\* Only ApplySLO and late requests bring a new SLO into being.
LEMMA CreationStep ==
    ASSUME IInv, TypeInv, [Next]_vars, NEW i \in Ids,
           tenant[i].env = NoEnv, tenant'[i].env # NoEnv
    PROVE  \/ LateArrives
           \/ ApplySLO /\ tenant'[i].env = slo.env /\ slo.id = NoId
              /\ tenant'[i].pay = slo.gen
              /\ \A j \in Ids : j # i => tenant'[j] = tenant[j]
<1>0. TypeOK /\ BusyInv
  BY DEF TypeInv
<1>1. CASE ApplySLO
  <2>1. ApplyRequest \in Requests /\ ApplyRequest.env = slo.env
        /\ ApplyRequest.id = slo.id /\ ApplyRequest.pay = slo.gen
    BY <1>0, <1>1, RequestFacts DEF ApplySLO, BusyInv
  <2>2. PICK j \in Ids : Finds(ApplyRequest, j) /\ Land(ApplyRequest, j)
    BY <1>1, OutcomeFacts DEF ApplySLO
  <2>3. /\ tenant'[j] = [env |-> ApplyRequest.env, pay |-> ApplyRequest.pay]
        /\ \A k \in Ids : k # j => tenant'[k] = tenant[k]
    BY <1>0, <2>1, <2>2, LandFacts
  <2>4. j = i
    BY <2>3
  <2>5. ApplyRequest.id = NoId
    BY <2>1, <2>2, <2>4 DEF Finds, Requests
  <2> QED
    BY <1>1, <2>1, <2>3, <2>4, <2>5
<1>2. CASE DeleteSLO
  <2> DEFINE rq == [id |-> slo.id, env |-> slo.env, pay |-> Gone]
  <2>1. rq \in Requests /\ slo.id \in Ids /\ rq.id # NoId
    BY <1>0, <1>2, RequestFacts, AbsentFacts
       DEF DeleteSLO, BusyInv, TypeOK, CRs, Ids, NoId
  <2> HIDE DEF rq
  <2>2. \/ Succeeds(rq, slo.id) \/ NotFound(rq) \/ Fails(rq)
        \/ UNCHANGED <<dtVars, trouble>>
    BY <1>2 DEF DeleteSLO, rq
  <2>3. PICK j \in Ids : Finds(rq, j) /\ Land(rq, j)
    BY <2>1, <2>2, OutcomeFacts DEF dtVars
  <2>4. /\ tenant'[j] = [env |-> rq.env, pay |-> rq.pay]
        /\ \A k \in Ids : k # j => tenant'[k] = tenant[k]
    BY <1>0, <2>1, <2>3, LandFacts
  <2>5. tenant[j].env = rq.env
    BY <2>1, <2>3 DEF Finds
  <2> QED
    BY <2>4, <2>5
<1>3. CASE ChangeInUI
  <2>1. PICK k \in Ids : \/ tenant' = [tenant EXCEPT ![k].pay = Edited]
                         \/ tenant' = [tenant EXCEPT ![k].pay = Gone]
    BY <1>3 DEF ChangeInUI
  <2>2. tenant'[i].env = tenant[i].env
    BY <1>0, <2>1 DEF TypeOK
  <2> QED
    BY <2>2
<1>4. tenant' # tenant
  BY DEF IInv
<1> QED
  BY <1>1, <1>2, <1>3, <1>4
     DEF Next, Work, vars, Reconcile, AddFinalizer, BuildPayload, RecordSync,
         SetFailed, RemoveFinalizer, Deliver, Restart, CreateCR, EditSpec,
         DeleteCR, RotateToken, dtVars

\* No SLO is created but for an object that holds the finalizer, in a tenant that
\* object has named, however stale the copy was that the worker acted on
\* (Reconcile, lines 62-70).  Late requests are the exception the property makes.
THEOREM FinalizerGuards == Spec => FinalizerFirst
<1> DEFINE Step == \A i \in Ids :
                     tenant[i].env = NoEnv /\ tenant'[i].env # NoEnv /\ late' = late
                       => Exists(obj) /\ obj.fin /\ tenant'[i].env \in obj.envs
<1>1. ASSUME IInv, TypeInv, [Next]_vars
      PROVE  Step
  <2> SUFFICES ASSUME NEW i \in Ids, tenant[i].env = NoEnv, tenant'[i].env # NoEnv,
                      late' = late
               PROVE  Exists(obj) /\ obj.fin /\ tenant'[i].env \in obj.envs
    OBVIOUS
  <2>1. ~LateArrives
    BY DEF LateArrives
  <2>2. ApplySLO /\ tenant'[i].env = slo.env
    BY <1>1, <2>1, CreationStep
  <2> QED
    BY <1>1, <2>2 DEF ApplySLO, IInv, HeldInv, EnvsInv, HeldCalls
<1> HIDE DEF Step
<1>2. IInv /\ TypeInv /\ [Next]_vars => [Step]_vars
  BY <1>1
<1> QED
  BY <1>2, Inductive, PTL DEF Spec, FinalizerFirst, Step

\* A live SLO that was not live before was just made by a POST that succeeded,
\* trouble and late requests aside, and the worker holds its ID.
LEMMA WakeStep ==
    ASSUME IInv, TypeInv, [Next]_vars, NEW i \in Ids,
           ~Live(i), tenant'[i].pay # Gone, late' = late, trouble' = trouble
    PROVE  pc' = "patch" /\ slo'.id = NoId /\ dtID' = i
<1>0. TypeOK /\ BusyInv /\ trouble \in Nat
  BY DEF TypeInv, TypeOK
<1>m. \A kind : ~Meet(kind)
  BY <1>0 DEF Meet
<1>1. CASE ApplySLO
  <2>1. /\ ApplyRequest \in Requests /\ ApplyRequest.id = slo.id
        /\ slo' = slo
    BY <1>0, <1>1, RequestFacts DEF ApplySLO, BusyInv
  <2>2. tenant' # tenant
    BY DEF Live
  <2>3. ~NotFound(ApplyRequest) /\ ~Fails(ApplyRequest)
    BY <1>m, <2>2 DEF NotFound, Fails, dtVars
  <2>4. PICK j \in Ids : /\ Succeeds(ApplyRequest, j)
                         /\ dtID' = j
    BY <1>1, <1>m, <2>3 DEF ApplySLO
  <2>5. pc' = "patch"
    BY <1>1, <2>3 DEF ApplySLO
  <2>6. \A k \in Ids : k # j => tenant'[k] = tenant[k]
    BY <1>0, <2>1, <2>4, LandFacts DEF Succeeds
  <2>7. j = i
    BY <2>6 DEF Live
  <2>8. slo.id = NoId
    BY <2>1, <2>4, <2>7 DEF Succeeds, Finds
  <2> QED
    BY <2>1, <2>4, <2>5, <2>7, <2>8
<1>2. CASE DeleteSLO
  <2> DEFINE rq == [id |-> slo.id, env |-> slo.env, pay |-> Gone]
  <2>1. rq \in Requests /\ slo.id \in Ids /\ rq.pay = Gone
    BY <1>0, <1>2, RequestFacts, AbsentFacts
       DEF DeleteSLO, BusyInv, TypeOK, CRs, Ids, NoId
  <2> HIDE DEF rq
  <2>2. \/ Succeeds(rq, slo.id) \/ NotFound(rq) \/ Fails(rq)
        \/ UNCHANGED <<dtVars, trouble>>
    BY <1>2 DEF DeleteSLO, rq
  <2>3. tenant' # tenant
    BY DEF Live
  <2>4. Succeeds(rq, slo.id)
    BY <1>m, <2>2, <2>3 DEF NotFound, Fails, dtVars
  <2>5. /\ tenant'[slo.id] = [env |-> rq.env, pay |-> rq.pay]
        /\ \A k \in Ids : k # slo.id => tenant'[k] = tenant[k]
    BY <1>0, <2>1, <2>4, LandFacts DEF Succeeds
  <2>6. tenant'[slo.id].pay = Gone
    BY <2>1, <2>5
  <2> QED
    BY <2>5, <2>6 DEF Live
<1>3. ~LateArrives /\ ~ChangeInUI /\ tenant' # tenant
  BY <1>m DEF LateArrives, ChangeInUI, Live
<1> QED
  BY <1>1, <1>2, <1>3
     DEF Next, Work, vars, Reconcile, AddFinalizer, BuildPayload, RecordSync,
         SetFailed, RemoveFinalizer, Deliver, Restart, CreateCR, EditSpec,
         DeleteCR, RotateToken, dtVars

\* The ID of an SLO just made is recorded, trouble aside.
LEMMA RecordStep ==
    ASSUME IInv, TypeInv, [Next]_vars, pc = "patch", slo.id = NoId, dtID # NoId,
           trouble' = trouble
    PROVE  obj'.id = dtID \/ UNCHANGED <<pc, slo, dtID>>
<1>0. /\ obj \in CRs /\ slo \in CRs /\ dtID \in 0..MaxIds /\ Exists(obj)
      /\ trouble \in Nat
  BY AbsentFacts DEF IInv, TypeInv, BusyInv, TypeOK, HeldInv, HeldCalls
<1>m. \A kind : ~Meet(kind)
  BY <1>0 DEF Meet
<1>1. CASE RecordSync
  <2> DEFINE o == Merge(slo, Synced(dtID, slo.gen), dtID # slo.id)
  <2>1. o.id = dtID
    BY <1>0, SyncedMerge
  <2>2. PICK touched \in BOOLEAN :
          PatchStatus(Synced(dtID, slo.gen), dtID # slo.id, touched)
    BY <1>1, <1>m DEF RecordSync
  <2>3. obj' = o
    BY <1>0, <2>2 DEF PatchStatus, Requeue, Write, k8sVars
  <2> QED
    BY <2>1, <2>3
<1>2. ~Restart
  BY <1>m DEF Restart
<1> QED
  BY <1>1, <1>2
     DEF Next, Work, vars, Reconcile, AddFinalizer, BuildPayload, ApplySLO,
         SetFailed, DeleteSLO, RemoveFinalizer, Deliver, LateArrives, CreateCR,
         EditSpec, DeleteCR, ChangeInUI, RotateToken, workerVars

\* The object stops recording an ID only in a patch from a copy that has another,
\* or none, and when it goes, with no SLO of that ID in the tenant it names.
LEMMA ForgetStep ==
    ASSUME IInv, TypeInv, [Next]_vars, obj.id # NoId, obj'.id # obj.id
    PROVE  \/ pc = "patch" /\ slo.id # obj.id
           \/ tenant' = tenant /\ ~(Live(obj.id) /\ tenant[obj.id].env = obj.env)
<1>0. TypeOK /\ BusyInv /\ PcInv /\ HeldInv /\ CurInv /\ GoneInv
  BY DEF IInv, TypeInv
<1>t. /\ obj \in CRs /\ Exists(obj)
      /\ pc # "idle" => slo \in CRs
  BY <1>0, AbsentFacts DEF TypeOK, BusyInv
<1>1. CASE Finalizes
  BY <1>1, <1>t, FinalizedFacts DEF Finalizes, Write
<1>2. CASE pc = "patch" /\ Patches(Synced(dtID, slo.gen), dtID # slo.id)
  <2>1. obj'.id = obj.id \/ dtID # slo.id
    BY <1>0, <1>2, <1>t, SyncedMerge DEF Patches, Write, TypeOK
  <2> QED
    BY <1>0, <1>2, <2>1 DEF PcInv
<1>3. ASSUME NEW w \in BOOLEAN, pc = "fail", Patches(Failed, w)
      PROVE  FALSE
  BY <1>3, <1>t, FailedMerge DEF Patches, Write
<1>4. CASE Vanishes
  BY <1>0, <1>4 DEF Vanishes, UpdateAccepted, CurInv, GoneInv, dtVars
<1>5. CASE EditSpec
  <2>1. PICK e \in Edits(obj.env), b \in BOOLEAN :
          obj' = [obj EXCEPT !.gen = rev + 1, !.env = e, !.envs = @ \cup {e}, !.ok = b]
    BY <1>5 DEF EditSpec, Write
  <2> QED
    BY <1>t, <2>1 DEF CRs
<1>6. CASE DeleteCR
  <2>1. obj.fin
    BY <1>0, <1>t DEF HeldInv, CRs
  <2>2. obj' = [obj EXCEPT !.del = TRUE]
    BY <1>6, <2>1 DEF DeleteCR, Write
  <2> QED
    BY <1>t, <2>2, MarkedFacts
<1> QED
  BY <1>1, <1>2, <1>3, <1>4, <1>5, <1>6, <1>t, StepCases
     DEF Quiet, Deliver, Reconcile, BuildPayload, ApplySLO, Deletes, Returns,
         CreateCR, k8sVars

\* reconcileCreate and reconcileDelete (lines 105-163) lose track of an SLO only in
\* the ways StraysExplained lists, in every behaviour: edits of any field, stale
\* reads, refused Updates and requeues on their own never cost one.
THEOREM StraysAreExplained == Spec => StraysExplained
<1> DEFINE Step == \A i \in Ids : ~Stray(i) /\ Stray(i)' =>
                     \/ trouble' # trouble
                     \/ late' # late
                     \/ pc = "patch" /\ i = obj.id /\ slo.id # obj.id
                     \/ i = obj.id /\ tenant[i].env # obj.env
<1>1. ASSUME IInv, TypeInv, [Next]_vars
      PROVE  Step
  <2> SUFFICES ASSUME NEW i \in Ids, ~Stray(i), Stray(i)',
                      trouble' = trouble, late' = late
               PROVE  \/ pc = "patch" /\ i = obj.id /\ slo.id # obj.id
                      \/ i = obj.id /\ tenant[i].env # obj.env
    OBVIOUS
  <2>0. i # NoId
    BY DEF Ids, NoId
  <2>1. /\ tenant'[i].pay # Gone /\ i # obj'.id
        /\ ~(pc' = "patch" /\ slo'.id = NoId /\ i = dtID')
    BY DEF Stray, Live
  <2>2. Live(i)
    BY <1>1, <2>1, WakeStep
  <2>3. i = obj.id \/ (pc = "patch" /\ slo.id = NoId /\ i = dtID)
    BY <2>2 DEF Stray
  <2>4. CASE i = obj.id
    <3>1. \/ pc = "patch" /\ slo.id # obj.id
          \/ tenant' = tenant /\ ~(Live(obj.id) /\ tenant[obj.id].env = obj.env)
      BY <1>1, <2>0, <2>1, <2>4, ForgetStep
    <3> QED
      BY <2>2, <2>4, <3>1
  <2>5. CASE pc = "patch" /\ slo.id = NoId /\ i = dtID
    BY <1>1, <2>0, <2>1, <2>5, RecordStep
  <2> QED
    BY <2>3, <2>4, <2>5
<1> HIDE DEF Step
<1>2. IInv /\ TypeInv /\ [Next]_vars => [Step]_vars
  BY <1>1
<1> QED
  BY <1>2, Inductive, PTL DEF Spec, StraysExplained, Step

-----------------------------------------------------------------------------
(* The Synced condition.                                                   *)

LEMMA AcceptedStep ==
    ASSUME TypeInv, AcceptedInv, [Next]_vars
    PROVE  AcceptedInv'
<1>0. TypeOK /\ BusyInv /\ TenantsEvolve
  BY TenantStep DEF TypeInv
<1>t. /\ Exists(obj) => obj \in CRs
      /\ pc # "idle" => slo \in CRs
  BY <1>0, AbsentFacts DEF TypeOK, BusyInv
<1> DEFINE Stored(g) == \E i \in Ids : <<i, g>> \in accepted'
           Truthful(c) == c.cond[1] = "True" => Stored(c.cond[2])
\* The copies there were stay truthful.
<1>o. /\ \A c \in Copies \cup {slo} : Truthful(c)
      /\ pc = "patch" => Stored(slo.gen)
  BY <1>0 DEF AcceptedInv, TenantsEvolve
<1>p. obj \in Copies /\ cache \in Copies /\ Truthful(Absent)
  BY AbsentFacts DEF Copies
<1>q. ASSUME \A c \in Copies' \cup {slo'} : Truthful(c),
             pc' = "patch" => Stored(slo'.gen)
      PROVE  AcceptedInv'
  BY <1>q DEF AcceptedInv
<1> HIDE DEF Stored, Truthful
\* So only the object that a write stores is left to look at.
<1>w. ASSUME NEW o \in Objects, NEW r \in BOOLEAN, Write(o, r), Truthful(o),
             Truthful(slo'), pc' # "patch" \/ UNCHANGED <<pc, slo>>
      PROVE  AcceptedInv'
  <2>1. Copies' \subseteq Copies \cup {o}
    BY <1>0, <1>w, WriteFacts
  <2> QED
    BY <1>o, <1>q, <1>w, <2>1
<1>1. CASE Quiet \/ BuildPayload \/ Deletes
  <2>1. Copies' = Copies /\ slo' = slo /\ (pc' = "patch" => pc = "patch")
    BY <1>1 DEF Quiet, BuildPayload, Deletes, Copies, k8sVars, informerVars
  <2> QED
    BY <1>o, <1>q, <2>1
<1>2. CASE Deliver
  <2>1. Copies' \subseteq Copies /\ slo' = slo /\ pc' = pc
    BY <1>0, <1>2, DeliverFacts DEF Deliver, workerVars
  <2> QED
    BY <1>o, <1>q, <2>1
<1>3. CASE Reconcile
  <2>1. Copies' = Copies /\ slo' = cache /\ pc' = FirstCall(cache)
    BY <1>3 DEF Reconcile, Copies, k8sVars, informerVars
  <2>2. pc' # "patch"
    BY <1>0, <2>1, FirstCallFacts DEF TypeOK
  <2> QED
    BY <1>o, <1>p, <1>q, <2>1, <2>2
<1>4. CASE ApplySLO
  <2>1. Copies' = Copies /\ slo' = slo /\ Exists(slo)
    BY <1>0, <1>4 DEF ApplySLO, Copies, k8sVars, informerVars, BusyInv
  <2>2. ApplyRequest \in Requests /\ ApplyRequest.pay = slo.gen /\ slo.gen # Gone
    BY <1>0, <2>1, RequestFacts DEF Revs, Gone
  <2>3. ASSUME NEW i \in Ids, Succeeds(ApplyRequest, i)
        PROVE  Stored(slo.gen)
    BY <1>0, <2>2, <2>3, LandFacts DEF Succeeds, Stored
  <2>4. pc' = "patch" => Stored(slo.gen)
    BY <1>4, <2>3 DEF ApplySLO
  <2> QED
    BY <1>o, <1>q, <2>1, <2>4
<1>5. CASE Returns
  <2>1. Copies' \subseteq Copies /\ slo' = Absent /\ pc' # "patch"
    BY <1>5 DEF Returns, Copies, Finish
  <2> QED
    BY <1>o, <1>p, <1>q, <2>1
<1>6. CASE Finalizes
  <2> DEFINE o == [obj EXCEPT !.fin = TRUE]
  <2>1. o \in Objects /\ o.cond = obj.cond /\ Write(o, FALSE) /\ pc' # "patch"
    BY <1>6, <1>t, FinalizedFacts DEF Finalizes, UpdateAccepted
  <2>2. slo'.cond = slo.cond
    BY <1>6, <1>t, FinalizedFacts DEF Finalizes
  <2> HIDE DEF o
  <2>3. Truthful(o) /\ Truthful(slo')
    BY <1>o, <1>p, <2>1, <2>2 DEF Truthful
  <2> QED
    BY <1>w, <2>1, <2>3
<1>7. CASE pc = "patch" /\ Patches(Synced(dtID, slo.gen), dtID # slo.id)
  <2> DEFINE o == Merge(slo, Synced(dtID, slo.gen), dtID # slo.id)
  <2>1. /\ obj \in CRs /\ slo \in CRs /\ dtID \in 0..MaxIds
        /\ Write(o, TRUE) /\ slo' = Absent /\ pc' # "patch"
    BY <1>0, <1>7, <1>t DEF Patches, Finish, TypeOK
  <2>2. o \in Objects /\ (o.cond = obj.cond \/ o.cond = <<"True", slo.gen>>)
    BY <2>1, SyncedMerge
  <2> HIDE DEF o
  <2>3. Truthful(o)
    BY <1>o, <1>p, <1>7, <2>2 DEF Truthful
  <2> QED
    BY <1>p, <1>w, <2>1, <2>2, <2>3
<1>8. ASSUME NEW w \in BOOLEAN, pc = "fail", Patches(Failed, w)
      PROVE  AcceptedInv'
  <2> DEFINE o == Merge(slo, Failed, w)
  <2>1. /\ obj \in CRs /\ slo \in CRs
        /\ Write(o, TRUE) /\ slo' = Absent /\ pc' # "patch"
    BY <1>0, <1>8, <1>t DEF Patches, Finish
  <2>2. o \in Objects /\ (o.cond = obj.cond \/ o.cond = <<"False", slo.gen>>)
    BY <2>1, FailedMerge
  <2> HIDE DEF o
  <2>3. Truthful(o)
    BY <1>o, <1>p, <2>2 DEF Truthful
  <2> QED
    BY <1>p, <1>w, <2>1, <2>2, <2>3
<1>9. CASE Vanishes
  BY <1>9, <1>p, <1>w, AbsentFacts DEF Vanishes, Finish
<1>10. CASE CreateCR
  <2>1. PICK e \in Envs, ok \in BOOLEAN :
          /\ rev + 1 \in Revs
          /\ NewObject(rev + 1, e, ok) \in Objects
          /\ Write(NewObject(rev + 1, e, ok), FALSE)
    BY <1>10, WrittenFacts
  <2> DEFINE o == NewObject(rev + 1, e, ok)
  <2>2. o.cond = <<"None", 0>>
    BY <2>1, NewObjectFacts
  <2> HIDE DEF o
  <2>3. o \in Objects /\ Write(o, FALSE)
    BY <2>1 DEF o
  <2>4. Truthful(o)
    BY <2>2 DEF Truthful
  <2> QED
    BY <1>o, <1>w, <1>10, <2>3, <2>4 DEF CreateCR
<1>11. CASE EditSpec
  <2>1. PICK e \in Edits(obj.env), b \in BOOLEAN :
          /\ rev + 1 \in Revs /\ e \in Envs
          /\ [obj EXCEPT !.gen = rev + 1, !.env = e, !.envs = @ \cup {e}, !.ok = b] \in Objects
          /\ Write([obj EXCEPT !.gen = rev + 1, !.env = e, !.envs = @ \cup {e}, !.ok = b], FALSE)
    BY <1>11, WrittenFacts
  <2> DEFINE o == [obj EXCEPT !.gen = rev + 1, !.env = e, !.envs = @ \cup {e}, !.ok = b]
  <2>2. obj \in CRs
    BY <1>11, <1>t DEF EditSpec
  <2>3. o.cond = obj.cond
    BY <2>1, <2>2 DEF CRs
  <2> HIDE DEF o
  <2>4. o \in Objects /\ Write(o, FALSE)
    BY <2>1 DEF o
  <2>5. Truthful(o)
    BY <1>o, <1>p, <2>3 DEF Truthful
  <2> QED
    BY <1>o, <1>w, <1>11, <2>4, <2>5 DEF EditSpec
<1>12. CASE DeleteCR
  <2> DEFINE o == IF obj.fin THEN [obj EXCEPT !.del = TRUE] ELSE Absent
  <2>1. o \in Objects /\ obj \in CRs /\ Write(o, FALSE)
    BY <1>12, WrittenFacts DEF DeleteCR
  <2>2. o = Absent \/ o.cond = obj.cond
    BY <2>1, MarkedFacts
  <2> HIDE DEF o
  <2>3. Truthful(o)
    BY <1>o, <1>p, <2>2 DEF Truthful
  <2> QED
    BY <1>o, <1>w, <1>12, <2>1, <2>3 DEF DeleteCR
<1> QED
  BY <1>1, <1>2, <1>3, <1>4, <1>5, <1>6, <1>7, <1>8, <1>9, <1>10, <1>11,
     <1>12, StepCases

\* Whatever copy of the object is looked at, stored, cached, under way or in the
\* worker's hands, its Synced=True was earned, and a worker about to report
\* success (reconcileCreate, line 130) has it.
THEOREM AcceptedHolds == Spec => []AcceptedInv
<1>1. Init => TypeInv
  BY TypeInit DEF TypeInv, BusyInv, Init
<1>2. Init => AcceptedInv
  BY AbsentFacts DEF Init, AcceptedInv, Copies
<1>3. TypeInv /\ [Next]_vars => TypeInv'
  BY TypeStep
<1>4. TypeInv /\ AcceptedInv /\ [Next]_vars => AcceptedInv'
  BY AcceptedStep
<1> QED
  BY <1>1, <1>2, <1>3, <1>4, PTL DEF Spec

\* Synced=True for a generation means that a tenant stored the payload of that
\* generation (reconcileCreate, line 130): patches based on stale copies mix
\* fields of several reconciles, but never into a condition that was not earned.
THEOREM SyncedIsEarned == Spec => []SyncedWasAccepted
<1>1. AcceptedInv => SyncedWasAccepted
  BY DEF AcceptedInv, SyncedWasAccepted, Copies
<1> QED
  BY <1>1, AcceptedHolds, PTL

=============================================================================
