--------------------------- MODULE SLOReconciler ---------------------------
(***************************************************************************)
(* The DynatraceSLO controller (operator/controllers/                      *)
(* dynatraceslo_controller.go) reconciling one DynatraceSLO object through *)
(* an informer cache that lags behind the API server, against Dynatrace    *)
(* tenants reached over HTTP (operator/internal/dynatrace/client.go).      *)
(*                                                                         *)
(* Every call that crosses a process boundary (API server, Dynatrace) is   *)
(* one action, so edits, deletions, cache deliveries, lost replies and     *)
(* restarts may fall between any two of them.  A spec is known by the      *)
(* revision number rev under which the user wrote it: obj.gen is that      *)
(* number and the payload built from the spec is the same number.          *)
(***************************************************************************)
EXTENDS Naturals, Sequences

CONSTANTS
    Envs,        \* environments, one Dynatrace tenant each
    NoEnv,       \* the tenant of an SLO that was never created
    Clients,     \* environments for which BuildDTClients found credentials
    EnvMutable,  \* may an edit change spec.environment?
    Troubles,    \* the kinds of trouble this instance may meet
    MaxRev,      \* bound: specs written by users (creations and edits)
    MaxIds,      \* bound: SLOs the tenants ever create
    MaxLag,      \* bound: writes the informer cache may be behind
    MaxTrouble   \* bound: occurrences of trouble

TroubleKinds ==
    { "reject",    \* Dynatrace refuses a request, or it never gets there
      "lost",      \* a request is executed and its reply is lost
      "late",      \* the client times out, the request may execute later
      "empty",     \* a create succeeds with an empty response body
      "k8s",       \* a write to the API server fails
      "crash",     \* the operator process dies, or loses its lease
      "uiEdit",    \* somebody changes the SLO in the Dynatrace UI
      "uiDelete",  \* somebody deletes the SLO in the Dynatrace UI
      "rotate" }   \* the API token is rotated, the old one is revoked

ASSUME EnvsAssumption ==
    /\ NoEnv \notin Envs
    /\ Clients \subseteq Envs
    /\ EnvMutable \in BOOLEAN
    /\ Troubles \subseteq TroubleKinds

ASSUME BoundsAssumption ==
    /\ MaxRev \in Nat \ {0}
    /\ MaxIds \in Nat \ {0}
    /\ MaxLag \in Nat
    /\ MaxTrouble \in Nat

VARIABLES
    obj,           \* the DynatraceSLO as the API server stores it
    rev,           \* revisions of the spec written so far
    cache,         \* the informer's copy of obj
    watch,         \* versions of obj on their way to the informer
    queued,        \* the object's key is in the workqueue, now or after a delay
    pc,            \* the call the worker makes next
    slo,           \* the worker's copy of the object, base of its patch
    cur,           \* slo still carries the stored resourceVersion
    dtID,          \* the ID ApplySLO returned
    tokenCurrent,  \* the clients hold tokens that Dynatrace accepts
    tenant,        \* the SLOs of all tenants, by Dynatrace ID
    late,          \* requests the client gave up on that may still execute
    accepted,      \* history: <<ID, revision>> a tenant stored
    trouble        \* occurrences of trouble so far

k8sVars == <<obj, rev>>
informerVars == <<cache, watch>>
workerVars == <<pc, slo, cur, dtID>>
dtVars == <<tenant, late, accepted>>
vars == <<obj, rev, cache, watch, queued, pc, slo, cur, dtID,
          tokenCurrent, tenant, late, accepted, trouble>>

-----------------------------------------------------------------------------
(* Data.                                                                   *)

Revs == 1..MaxRev
Ids == 1..MaxIds
NoId == 0              \* status.dynatraceId = ""

\* What a tenant stores under an ID: a revision, a value set in the UI, nothing.
Gone == 0
Edited == MaxRev + 1
Payloads == 0..(MaxRev + 1)

\* The Synced condition: its status, and the generation it speaks of.
Conditions == {"None", "True", "False"} \X (0..MaxRev)

\* ok says whether buildSLOPayload accepts the spec.  envs is a history, read by
\* the properties only: the environments this object's spec has named so far.
CRs == [gen : Revs, env : Envs, envs : SUBSET Envs, ok : BOOLEAN, fin : BOOLEAN,
        del : BOOLEAN, id : 0..MaxIds, obs : 0..MaxRev, cond : Conditions]

\* A spec just created: no finalizer, an empty status.
NewObject(g, e, ok) ==
    [gen |-> g, env |-> e, envs |-> {e}, ok |-> ok, fin |-> FALSE, del |-> FALSE,
     id |-> NoId, obs |-> 0, cond |-> <<"None", 0>>]

Absent == NewObject(0, NoEnv, FALSE)
Exists(o) == o.gen # 0
Objects == CRs \cup {Absent}

Requests == [id : 0..MaxIds, env : Envs, pay : 0..MaxRev]

PCs == {"idle", "finalize", "build", "apply", "patch", "fail",
        "delete", "unfinalize"}

TypeOK ==
    /\ obj \in Objects
    /\ rev \in 0..MaxRev
    /\ cache \in Objects
    /\ watch \in Seq(Objects)
    /\ queued \in BOOLEAN
    /\ pc \in PCs
    /\ slo \in Objects
    /\ cur \in BOOLEAN
    /\ dtID \in 0..MaxIds
    /\ tokenCurrent \in BOOLEAN
    /\ tenant \in [Ids -> [env : Envs \cup {NoEnv}, pay : Payloads]]
    /\ late \subseteq Requests
    /\ accepted \subseteq Ids \X Revs
    /\ trouble \in 0..MaxTrouble

Init ==
    /\ obj = Absent
    /\ rev = 0
    /\ cache = Absent
    /\ watch = <<>>
    /\ queued = FALSE
    /\ pc = "idle"
    /\ slo = Absent
    /\ cur = FALSE
    /\ dtID = NoId
    /\ tokenCurrent = TRUE
    /\ tenant = [i \in Ids |-> [env |-> NoEnv, pay |-> Gone]]
    /\ late = {}
    /\ accepted = {}
    /\ trouble = 0

-----------------------------------------------------------------------------
(* The API server and the informer.                                        *)

\* The API server stores o and sends it down the watch; an informer that would
\* fall more than MaxLag versions behind takes the oldest one off the stream.
\* A delivery enqueues the key, and so does a reconcile that ends in a requeue.
Write(o, requeue) ==
    LET stream == Append(watch, o)
        full == Len(watch) >= MaxLag
    IN /\ obj' = o
       /\ cache' = IF full THEN Head(stream) ELSE cache
       /\ watch' = IF full THEN Tail(stream) ELSE stream
       /\ queued' = (queued \/ requeue \/ full)

UpdateAccepted_AnyVersion == Exists(obj)    \* mutant: resourceVersion ignored

\* An Update carries a resourceVersion: it is refused when the object changed.
UpdateAccepted == cur /\ Exists(obj)

\* client.MergeFrom: a patch carries the fields that differ from its base and
\* nothing else, no resourceVersion in particular.  reworded: the condition's
\* message differs, even if its status and generation do not.
Merge(base, new, reworded) ==
    [obj EXCEPT !.id   = IF new.id   # base.id   THEN new.id   ELSE @,
                !.obs  = IF new.obs  # base.obs  THEN new.obs  ELSE @,
                !.cond = IF reworded \/ new.cond # base.cond
                         THEN new.cond ELSE @]

\* The informer takes the next version off the watch and enqueues the key.
Deliver ==
    /\ watch # <<>>
    /\ cache' = Head(watch)
    /\ watch' = Tail(watch)
    /\ queued' = TRUE
    /\ UNCHANGED <<k8sVars, workerVars, tokenCurrent, dtVars, trouble>>

Meet(kind) ==
    /\ kind \in Troubles
    /\ trouble < MaxTrouble
    /\ trouble' = trouble + 1

-----------------------------------------------------------------------------
(* Dynatrace.                                                              *)

Live(i) == tenant[i].pay # Gone

\* The ID the tenants assign next (they never assign one twice).
Fresh(i) ==
    /\ tenant[i].env = NoEnv
    /\ \A j \in Ids : tenant[j].env = NoEnv => i <= j

\* POST creates under a fresh ID; PUT and DELETE need the ID in that tenant.
Finds(rq, i) ==
    IF rq.id = NoId THEN Fresh(i)
                    ELSE i = rq.id /\ tenant[i].env = rq.env /\ Live(i)

Land(rq, i) ==
    /\ tenant' = [tenant EXCEPT ![i] = [env |-> rq.env, pay |-> rq.pay]]
    /\ accepted' = accepted \cup (IF rq.pay = Gone THEN {} ELSE {<<i, rq.pay>>})

\* A request the client timed out on is executed after all.
LateArrives ==
    /\ \E rq \in late :
        /\ late' = late \ {rq}
        /\ \/ \E i \in Ids : Finds(rq, i) /\ Land(rq, i)
           \/ /\ rq.id # NoId /\ ~Finds(rq, rq.id)
              /\ UNCHANGED <<tenant, accepted>>
    /\ UNCHANGED <<k8sVars, informerVars, queued, workerVars, tokenCurrent,
                   trouble>>

\* A request that fails other than with 404: refused (an invalid token is), or
\* executed with the reply lost, or timed out and possibly executed later.
Fails(rq) ==
    \/ /\ \/ ~tokenCurrent /\ UNCHANGED trouble
          \/ Meet("reject")
       /\ UNCHANGED dtVars
    \/ /\ tokenCurrent
       /\ Meet("lost")
       /\ \E i \in Ids : Finds(rq, i) /\ Land(rq, i)
       /\ UNCHANGED late
    \/ /\ tokenCurrent
       /\ Meet("late")
       /\ late' = late \cup {rq}
       /\ UNCHANGED <<tenant, accepted>>

Succeeds(rq, i) ==
    /\ tokenCurrent
    /\ Finds(rq, i)
    /\ Land(rq, i)
    /\ UNCHANGED late

NotFound(rq) ==
    /\ tokenCurrent
    /\ rq.id # NoId
    /\ ~Finds(rq, rq.id)
    /\ UNCHANGED <<dtVars, trouble>>

-----------------------------------------------------------------------------
(* The worker.  MaxConcurrentReconciles is 1 and the workqueue never hands *)
(* out a key twice, so one worker describes the controller.                *)

\* The end of a call of Reconcile.
Finish ==
    /\ pc' = "idle"
    /\ slo' = Absent
    /\ cur' = FALSE
    /\ dtID' = NoId

Requeue_Forgotten ==                        \* mutant: the error is swallowed
    /\ Finish
    /\ UNCHANGED <<queued, k8sVars, informerVars, tokenCurrent>>

\* Reconcile returns an error or a RequeueAfter without another write.
Requeue ==
    /\ Finish
    /\ queued' = TRUE
    /\ UNCHANGED <<k8sVars, informerVars, tokenCurrent>>

FirstCall_NoFinalizer(o) ==                 \* mutant: no finalizer first
    CASE ~Exists(o)                               -> "idle"
      [] Exists(o) /\ o.del /\ o.id = NoId        -> "unfinalize"
      [] Exists(o) /\ o.del /\ o.id # NoId        -> "delete"
      [] Exists(o) /\ ~o.del                      -> "build"

FirstCall_NoDelete(o) ==                    \* mutant: the SLO is not deleted
    CASE ~Exists(o)                               -> "idle"
      [] Exists(o) /\ o.del                       -> "unfinalize"
      [] Exists(o) /\ ~o.del /\ ~o.fin            -> "finalize"
      [] Exists(o) /\ ~o.del /\ o.fin             -> "build"

FirstCall(o) ==
    CASE ~Exists(o)                               -> "idle"
      [] Exists(o) /\ o.del /\ o.id = NoId        -> "unfinalize"
      [] Exists(o) /\ o.del /\ o.id # NoId        -> "delete"
      [] Exists(o) /\ ~o.del /\ ~o.fin            -> "finalize"
      [] Exists(o) /\ ~o.del /\ o.fin             -> "build"

\* Get from the informer cache, and the branch Reconcile takes.
Reconcile ==
    /\ pc = "idle"
    /\ queued
    /\ queued' = FALSE
    /\ pc' = FirstCall(cache)
    /\ slo' = cache
    /\ cur' = (Exists(cache) /\ watch = <<>>)
    /\ UNCHANGED <<k8sVars, informerVars, dtID, tokenCurrent, dtVars, trouble>>

AddFinalizer ==
    /\ pc = "finalize"
    /\ UNCHANGED dtVars
    /\ \/ /\ UpdateAccepted
          /\ Write([obj EXCEPT !.fin = TRUE], FALSE)
          /\ slo' = [slo EXCEPT !.fin = TRUE]
          /\ pc' = "build"
          /\ UNCHANGED <<rev, cur, dtID, tokenCurrent, trouble>>
       \/ /\ \/ ~UpdateAccepted /\ UNCHANGED trouble
             \/ Meet("k8s")
          /\ Requeue

\* dtClient, resolveEntityFilter and buildSLOPayload: nothing is written.
BuildPayload ==
    /\ pc = "build"
    /\ UNCHANGED <<k8sVars, informerVars, queued, slo, cur, dtID,
                   tokenCurrent, dtVars>>
    /\ \/ /\ slo.env \in Clients
          /\ slo.ok
          /\ pc' = "apply"
          /\ UNCHANGED trouble
       \/ /\ \/ /\ slo.env \notin Clients \/ ~slo.ok \/ ~tokenCurrent
                /\ UNCHANGED trouble
             \/ Meet("reject")
          /\ pc' = "fail"

ApplyRequest_AlwaysPost ==                  \* mutant: POST, ID or not
    [id |-> NoId, env |-> slo.env, pay |-> slo.gen]

ApplyRequest == [id |-> slo.id, env |-> slo.env, pay |-> slo.gen]

\* PUT when the worker's copy has an ID, POST when it has none.  (GetSLO,
\* which follows a success, only reads; its failure is ignored.)
ApplySLO ==
    /\ pc = "apply"
    /\ \/ /\ \E i \in Ids :
              /\ Succeeds(ApplyRequest, i)
              /\ \/ dtID' = i /\ UNCHANGED trouble
                 \/ slo.id = NoId /\ dtID' = NoId /\ Meet("empty")
          /\ pc' = "patch"
       \/ /\ NotFound(ApplyRequest) \/ Fails(ApplyRequest)
          /\ pc' = "fail"
          /\ UNCHANGED dtID
    /\ UNCHANGED <<k8sVars, informerVars, queued, slo, cur, tokenCurrent>>

PatchStatus_NoRequeue(new, reworded, touched) ==    \* mutant: no RequeueAfter
    LET o == Merge(slo, new, reworded)
    IN IF Exists(obj) /\ (o # obj \/ touched)
       THEN Write(o, FALSE) /\ Finish /\ UNCHANGED <<rev, tokenCurrent>>
       ELSE Finish /\ UNCHANGED <<queued, k8sVars, informerVars, tokenCurrent>>

\* The status subresource is patched, no resourceVersion involved.  touched: the
\* patch changes a message, or lastSyncTime, which counts seconds.
PatchStatus(new, reworded, touched) ==
    LET o == Merge(slo, new, reworded)
    IN IF Exists(obj) /\ (o # obj \/ touched)
       THEN Write(o, TRUE) /\ Finish /\ UNCHANGED <<rev, tokenCurrent>>
       ELSE Requeue

\* The status written after generation g was applied under the ID i.
Synced(i, g) == [slo EXCEPT !.id = i, !.obs = g, !.cond = <<"True", g>>]

RecordSync_LatestGeneration ==              \* mutant: generation read afresh
    /\ pc = "patch"
    /\ UNCHANGED dtVars
    /\ \/ /\ \E touched \in BOOLEAN :
              PatchStatus(Synced(dtID, obj.gen), dtID # slo.id, touched)
          /\ UNCHANGED trouble
       \/ Meet("k8s") /\ Requeue

\* Success: RequeueAfter 5 minutes.  A failed patch is returned as an error.
\* The message quotes the ID and nothing else that varies.
RecordSync ==
    /\ pc = "patch"
    /\ UNCHANGED dtVars
    /\ \/ /\ \E touched \in BOOLEAN :
              PatchStatus(Synced(dtID, slo.gen), dtID # slo.id, touched)
          /\ UNCHANGED trouble
       \/ Meet("k8s") /\ Requeue

\* The error of the patch is ignored, the error that led here is returned.
SetFailed ==
    /\ pc = "fail"
    /\ UNCHANGED dtVars
    /\ \/ /\ \E reworded, touched \in BOOLEAN :
              PatchStatus([slo EXCEPT !.cond = <<"False", slo.gen>>],
                          reworded, touched)
          /\ UNCHANGED trouble
       \/ Meet("k8s") /\ Requeue

\* reconcileDelete with a recorded ID: 404 counts as deleted.
DeleteSLO ==
    /\ pc = "delete"
    /\ LET rq == [id |-> slo.id, env |-> slo.env, pay |-> Gone]
       IN \/ /\ slo.env \in Clients
             /\ \/ Succeeds(rq, slo.id) /\ UNCHANGED trouble
                \/ NotFound(rq)
             /\ pc' = "unfinalize"
             /\ UNCHANGED <<k8sVars, informerVars, queued, slo, cur, dtID,
                            tokenCurrent>>
          \/ /\ slo.env \in Clients /\ Fails(rq)
             /\ Requeue
          \/ /\ slo.env \notin Clients
             /\ Requeue
             /\ UNCHANGED <<dtVars, trouble>>

\* The API server removes a deleted object that has no finalizer left.
RemoveFinalizer ==
    /\ pc = "unfinalize"
    /\ UNCHANGED dtVars
    /\ \/ /\ UpdateAccepted
          /\ Write(Absent, FALSE)
          /\ Finish
          /\ UNCHANGED <<rev, tokenCurrent, trouble>>
       \/ /\ \/ ~UpdateAccepted /\ UNCHANGED trouble
             \/ Meet("k8s")
          /\ Requeue

\* The process starts again, or a replica takes the lease over.  A fresh
\* process lists the objects and reads the token Secrets; a replica has been
\* watching, no further behind than the leader was, with the tokens it read.
Restart ==
    /\ Meet("crash")
    /\ Finish
    /\ queued' = TRUE
    /\ \/ cache' = obj /\ watch' = <<>> /\ tokenCurrent' = TRUE
       \/ UNCHANGED <<informerVars, tokenCurrent>>
    /\ UNCHANGED <<k8sVars, dtVars>>

-----------------------------------------------------------------------------
(* Users: of the cluster, and of the Dynatrace UI.                         *)

Edits(e) == IF EnvMutable THEN Envs ELSE {e}

CreateCR ==
    /\ ~Exists(obj)
    /\ rev < MaxRev
    /\ rev' = rev + 1
    /\ \E e \in Envs, ok \in BOOLEAN : Write(NewObject(rev + 1, e, ok), FALSE)
    /\ cur' = FALSE
    /\ UNCHANGED <<pc, slo, dtID, tokenCurrent, dtVars, trouble>>

EditSpec ==
    /\ Exists(obj) /\ ~obj.del
    /\ rev < MaxRev
    /\ rev' = rev + 1
    /\ \E e \in Edits(obj.env), b \in BOOLEAN :
         Write([obj EXCEPT !.gen = rev + 1, !.env = e, !.envs = @ \cup {e},
                           !.ok = b], FALSE)
    /\ cur' = FALSE
    /\ UNCHANGED <<pc, slo, dtID, tokenCurrent, dtVars, trouble>>

\* kubectl delete: with a finalizer the object stays, marked.
DeleteCR ==
    /\ Exists(obj) /\ ~obj.del
    /\ Write(IF obj.fin THEN [obj EXCEPT !.del = TRUE] ELSE Absent, FALSE)
    /\ cur' = FALSE
    /\ UNCHANGED <<rev, pc, slo, dtID, tokenCurrent, dtVars, trouble>>

ChangeInUI ==
    /\ \E i \in Ids :
        /\ Live(i)
        /\ \/ Meet("uiEdit") /\ tenant' = [tenant EXCEPT ![i].pay = Edited]
           \/ Meet("uiDelete") /\ tenant' = [tenant EXCEPT ![i].pay = Gone]
    /\ UNCHANGED <<k8sVars, informerVars, queued, workerVars, tokenCurrent,
                   late, accepted>>

RotateToken ==
    /\ Meet("rotate")
    /\ tokenCurrent' = FALSE
    /\ UNCHANGED <<k8sVars, informerVars, queued, workerVars, dtVars>>

-----------------------------------------------------------------------------
(* The specification.  The workqueue hands the key out, the calls return   *)
(* (the HTTP client has a 30 s timeout) and the watch delivers: each is    *)
(* weakly fair.  Users, trouble and late requests are not.                 *)

Work == \/ Reconcile \/ AddFinalizer \/ BuildPayload \/ ApplySLO
        \/ RecordSync \/ SetFailed \/ DeleteSLO \/ RemoveFinalizer

Next == \/ Work
        \/ Deliver
        \/ LateArrives
        \/ Restart
        \/ CreateCR \/ EditSpec \/ DeleteCR
        \/ ChangeInUI \/ RotateToken

Fairness == WF_vars(Work) /\ WF_vars(Deliver)

Spec == Init /\ [][Next]_vars
FairSpec == Spec /\ Fairness

-----------------------------------------------------------------------------
(* Properties.                                                             *)

\* Every version of the object that is stored, cached or on its way.
Copies == {obj, cache} \cup {watch[n] : n \in 1..Len(watch)}

\* reconcileDelete: when the finalizer goes and the object with it, the SLO the
\* object's status names is no longer live in the tenant the object's spec names,
\* although the worker decided on a copy that may have been stale (lines
\* 144-164).  An SLO in the tenant of an environment the spec named before is
\* another matter: DeletionSucceedsFirst.
CleanDelete ==
    [][Exists(obj) /\ obj.fin /\ ~Exists(obj')
         => \/ obj.id = NoId
            \/ tenant'[obj.id].pay = Gone
            \/ tenant'[obj.id].env # obj.env]_vars

\* docs/operator/README.md 175-176: "The object stays in the cluster until
\* deletion succeeds."  It does not when spec.environment was edited: DELETE goes
\* to the new tenant and its 404 counts as deleted (lines 151-163).
DeletionSucceedsFirst ==
    [][Exists(obj) /\ obj.fin /\ ~Exists(obj')
         => obj.id = NoId \/ tenant'[obj.id].pay = Gone]_vars

\* Reconcile registers the finalizer before the first Dynatrace call (62-70):
\* an SLO is only ever created, late requests aside, while the stored object
\* holds the finalizer, and in a tenant that this very object has named.
FinalizerFirst ==
    [][\A i \in Ids :
         tenant[i].env = NoEnv /\ tenant'[i].env # NoEnv /\ late' = late
           => Exists(obj) /\ obj.fin /\ tenant'[i].env \in obj.envs]_vars

\* reconcileCreate reports Synced=True for a generation (line 130) only if a
\* tenant once stored the payload of that very generation, whatever edits,
\* stale reads and partial patches happened since.
SyncedWasAccepted ==
    obj.cond[1] = "True" => \E i \in Ids : <<i, obj.cond[2]>> \in accepted

\* The recorded ID was assigned by a tenant that this object's spec has named:
\* never by one that only an earlier object of that name did (lines 106, 156).
RecordedInItsTenant ==
    obj.id # NoId => tenant[obj.id].env \in obj.envs

\* A live SLO that the object does not record and the worker is not about to.
Stray(i) ==
    Live(i) /\ i # obj.id /\ ~(pc = "patch" /\ slo.id = NoId /\ i = dtID)

\* reconcileCreate and reconcileDelete lose track of an SLO in four ways only:
\* trouble, a late request, a patch by a worker whose copy had not seen the ID
\* yet, and a deletion sent to the tenant the spec has moved to.  Edits, stale
\* reads, refused Updates and requeues on their own never do (lines 105-163).
StraysExplained ==
    [][\A i \in Ids : ~Stray(i) /\ Stray(i)' =>
         \/ trouble' # trouble
         \/ late' # late
         \/ pc = "patch" /\ i = obj.id /\ slo.id # obj.id
         \/ i = obj.id /\ tenant[i].env # obj.env]_vars

\* docs/operator/development.md 241: "every reconcile call must be safe to
\* repeat."  Repeated from a copy that has not seen the ID yet, ApplySLO makes a
\* second SLO next to the live one (line 106; client.go 127-144).
AtMostOneLive ==
    \A i, j \in Ids : Live(i) /\ Live(j) => i = j

\* docs/operator/README.md 161-177, of the finalizer: "This prevents orphaned
\* resources in Dynatrace."  It cannot know of an SLO whose POST was executed and
\* whose reply was lost (lines 106-113, 145-149).
NoOrphans ==
    ~Exists(obj) /\ late = {} => \A i \in Ids : ~Live(i)

\* What the status and the tenants say when the controller has caught up.
InSync ==
    Exists(obj) /\ ~obj.del =>
        IF obj.ok /\ obj.env \in Clients
        THEN /\ obj.cond = <<"True", obj.gen>>
             /\ obj.obs = obj.gen
             /\ obj.id # NoId
             /\ tenant[obj.id].pay = obj.gen
        ELSE obj.cond = <<"False", obj.gen>>

\* The requeue is the drift detector: once edits and trouble end, the tenant
\* holds the latest spec under the recorded ID and the condition says so, or
\* says that the latest spec cannot be applied.
EventuallyInSync == <>[]InSync

\* A deleted object does not hang on its finalizer.
DeletionCompletes == obj.del ~> ~Exists(obj)

\* docs/operator/development.md 260-262: "token rotation takes effect on the next
\* reconcile without a pod restart."  The clients are built once, in main (62-68).
RotationTakesEffect == Exists(obj) /\ ~tokenCurrent ~> ~Exists(obj) \/ tokenCurrent

-----------------------------------------------------------------------------
(* The inductive invariant behind the safety properties.                   *)

HeldCalls == {"build", "apply", "patch", "fail"}
LeavingCalls == {"delete", "unfinalize"}

\* The watch ends with the stored version.
StreamInv ==
    IF watch = <<>> THEN cache = obj ELSE watch[Len(watch)] = obj

\* cur means what it says; and while the worker acts on the latest version of
\* a deleted object, that version is the last one the informer has to see.
CurInv ==
    cur => /\ pc # "idle"
           /\ Exists(obj)
           /\ slo = obj
           /\ pc \in LeavingCalls => watch = <<>> /\ cache = obj

\* The branch the worker is in fits the copy it works on.
PcInv ==
    /\ pc # "idle" => Exists(slo)
    /\ pc = "finalize" => ~slo.del /\ ~slo.fin
    /\ pc \in HeldCalls => ~slo.del /\ slo.fin
    /\ pc \in LeavingCalls => slo.del
    /\ pc = "delete" => slo.id # NoId
    /\ pc # "patch" => dtID = NoId
    /\ pc = "patch" => slo.id \in {NoId, dtID}
    /\ dtID # NoId => tenant[dtID].env = slo.env
    /\ slo.id # NoId => tenant[slo.id].env \in slo.envs

\* A copy that shows the finalizer and no deletion can be trusted, however
\* stale it is: the object it was made of is still there, held, and has since
\* named more environments at most.
HeldInv ==
    /\ \A c \in Copies : Exists(c) /\ c.fin /\ ~c.del
                           => Exists(obj) /\ obj.fin /\ c.envs \subseteq obj.envs
    /\ pc \in HeldCalls => Exists(obj) /\ obj.fin /\ slo.envs \subseteq obj.envs
    /\ Exists(obj) /\ obj.del => obj.fin
    /\ Exists(obj) /\ ~obj.fin => obj.id = NoId

\* The environment a copy names is one it has named, and the only one when no
\* edit can change it.
EnvsInv ==
    \A c \in Copies \cup {slo} :
        c.env \in c.envs /\ (~EnvMutable => c.envs = {c.env})

\* Every copy's ID is an SLO of a tenant that copy has named.
TenantInv ==
    \A c \in Copies : c.id # NoId => tenant[c.id].env \in c.envs

\* By the time the finalizer is about to go, the recorded SLO is gone from the
\* tenant that the copy being acted on names.
GoneInv ==
    pc = "unfinalize" /\ slo.id # NoId
      => ~(Live(slo.id) /\ tenant[slo.id].env = slo.env)

IInv ==
    /\ TypeOK /\ StreamInv /\ CurInv /\ PcInv
    /\ HeldInv /\ EnvsInv /\ TenantInv /\ GoneInv

\* What the Synced condition of any copy says was true at some time.
AcceptedInv ==
    /\ \A c \in Copies \cup {slo} :
         c.cond[1] = "True" => \E i \in Ids : <<i, c.cond[2]>> \in accepted
    /\ pc = "patch" => \E i \in Ids : <<i, slo.gen>> \in accepted

\* What the controller's promise rests on beyond that, when no request outlives
\* its timeout and nobody deletes in the UI: a copy marked deleted whose SLO is
\* still live is a copy of an object that is still there, marked; an ID about
\* to be recorded is live.
LeavingInv ==
    /\ late = {}
    /\ \A c \in Copies \cup {slo} :
         c.del /\ c.id # NoId /\ Live(c.id) => Exists(obj) /\ obj.del
    /\ pc = "patch" /\ dtID # slo.id => dtID # NoId /\ Live(dtID)

=============================================================================
