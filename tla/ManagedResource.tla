-------------------------- MODULE ManagedResource --------------------------
(***************************************************************************)
(* What the DynatraceAlert and the DynatraceDashboard controller share:    *)
(* one custom resource as the API server and the informer have it, the     *)
(* DynatraceSLOs it names as the informer shows them, and the resources of *)
(* its kind in the tenant of its environment, reached through              *)
(* operator/internal/dynatrace/client.go.  The worker's steps are in       *)
(* AlertReconciler and DashboardReconciler.                                *)
(*                                                                         *)
(* Compared with SLOReconciler the informer moves to the stored version at *)
(* once when it moves, the environment is fixed, and no request outlives   *)
(* its timeout; instead the credentials may come and go with restarts.     *)
(***************************************************************************)
EXTENDS Naturals, Sequences

CONSTANTS
    SLONames,    \* names of DynatraceSLOs in the resource's namespace
    RefLists,    \* what spec.sloRef or spec.sloRefs may list
    Troubles,    \* the kinds of trouble this instance may meet
    MaxRev,      \* bound: specs written by users (creations and edits)
    MaxIds,      \* bound: resources the tenant ever creates
    MaxChanges,  \* bound: changes of the DynatraceSLOs
    MaxLag,      \* bound: writes the informer cache may be behind
    MaxTrouble   \* bound: occurrences of trouble

TroubleKinds ==
    { "reject",    \* Dynatrace refuses a request, or it never gets there
      "lost",      \* a request is executed and its reply is lost
      "empty",     \* a create succeeds with an empty response body
      "k8s",       \* a write to the API server fails
      "crash",     \* the operator process dies, or loses its lease
      "secret",    \* after a restart BuildDTClients finds other credentials
      "uiEdit",    \* somebody changes the resource in the Dynatrace UI
      "uiDelete" } \* somebody deletes the resource in the Dynatrace UI

ASSUME RefsAssumption ==
    /\ RefLists \subseteq Seq(SLONames)
    /\ Troubles \subseteq TroubleKinds

ASSUME BoundsAssumption ==
    /\ MaxRev \in Nat \ {0}
    /\ MaxIds \in Nat \ {0}
    /\ MaxChanges \in Nat
    /\ MaxLag \in Nat \ {0}
    /\ MaxTrouble \in Nat

VARIABLES
    obj,       \* the custom resource as the API server stores it
    rev,       \* revisions of the spec written so far
    cache,     \* the informer's copy of obj
    behind,    \* writes the informer has not shown
    queued,    \* the object's key is in the workqueue, now or after a delay
    pc,        \* the call the worker makes next
    copy,      \* the worker's copy of the object, base of its patch
    cur,       \* copy still carries the stored resourceVersion
    sloIDs,    \* the IDs the worker has read from the DynatraceSLOs
    dtID,      \* the ID the apply call returned
    client,    \* DTClients has a client for the environment
    slos,      \* the DynatraceSLOs in the informer: missing, or their ID
    changes,   \* changes of slos so far; also the source of their IDs
    assigned,  \* history: <<name, ID>> that slos ever showed
    tenant,    \* the resources of this kind in the tenant, by ID
    made,      \* IDs the tenant has assigned
    trouble    \* occurrences of trouble so far

k8sVars == <<obj, rev>>
informerVars == <<cache, behind>>
workerVars == <<pc, copy, cur, sloIDs, dtID>>
sloVars == <<slos, changes, assigned>>
dtVars == <<tenant, made>>
vars == <<obj, rev, cache, behind, queued, pc, copy, cur, sloIDs, dtID,
          client, slos, changes, assigned, tenant, made, trouble>>

-----------------------------------------------------------------------------
(* Data.                                                                   *)

Ids == 1..MaxIds
NoId == 0                  \* status.dynatraceId = ""
Missing == MaxChanges + 1  \* there is no DynatraceSLO of that name
SLOIds == 1..MaxChanges

\* What the tenant stores under an ID: the payload built from a revision of the
\* spec, its labels and the SLO IDs in it; a revision that is none was set in
\* the UI, or there is nothing.
Gone == 0
Edited == MaxRev + 1
Payloads == [gen : 0..(MaxRev + 1), labels : Seq(SLONames), ids : Seq(SLOIds)]
Nothing == [gen |-> Gone, labels |-> <<>>, ids |-> <<>>]

\* The Synced condition: its status, and the generation it speaks of.
Conditions == {"None", "True", "False"} \X (0..MaxRev)

CRs == [gen : 1..MaxRev, refs : Seq(SLONames), fin : BOOLEAN, del : BOOLEAN,
        id : 0..MaxIds, obs : 0..MaxRev, cond : Conditions]

NewObject(g, refs) ==
    [gen |-> g, refs |-> refs, fin |-> FALSE, del |-> FALSE,
     id |-> NoId, obs |-> 0, cond |-> <<"None", 0>>]

Absent == NewObject(0, <<>>)
Exists(o) == o.gen # 0
Objects == CRs \cup {Absent}

PCs == {"idle", "finalize", "resolve", "apply", "patch", "fail",
        "delete", "unfinalize"}

TypeOK ==
    /\ obj \in Objects
    /\ rev \in 0..MaxRev
    /\ cache \in Objects
    /\ behind \in 0..MaxLag
    /\ queued \in BOOLEAN
    /\ pc \in PCs
    /\ copy \in Objects
    /\ cur \in BOOLEAN
    /\ sloIDs \in Seq(SLOIds \cup {NoId})
    /\ dtID \in 0..MaxIds
    /\ client \in BOOLEAN
    /\ slos \in [SLONames -> 0..Missing]
    /\ changes \in 0..MaxChanges
    /\ assigned \subseteq SLONames \X SLOIds
    /\ tenant \in [Ids -> Payloads]
    /\ made \in 0..MaxIds
    /\ trouble \in 0..MaxTrouble

Init ==
    /\ obj = Absent
    /\ rev = 0
    /\ cache = Absent
    /\ behind = 0
    /\ queued = FALSE
    /\ pc = "idle"
    /\ copy = Absent
    /\ cur = FALSE
    /\ sloIDs = <<>>
    /\ dtID = NoId
    /\ client = TRUE
    /\ slos = [r \in SLONames |-> Missing]
    /\ changes = 0
    /\ assigned = {}
    /\ tenant = [i \in Ids |-> Nothing]
    /\ made = 0
    /\ trouble = 0

-----------------------------------------------------------------------------
(* The API server and the informer.                                        *)

Meet(kind) ==
    /\ kind \in Troubles
    /\ trouble < MaxTrouble
    /\ trouble' = trouble + 1

\* The API server stores o.  An informer that would fall more than MaxLag
\* versions behind takes the version before and enqueues the key.
Write(o, requeue) ==
    LET full == behind = MaxLag
    IN /\ obj' = o
       /\ cache' = IF full THEN obj ELSE cache
       /\ behind' = IF full THEN 1 ELSE behind + 1
       /\ queued' = (queued \/ requeue \/ full)

UpdateAccepted_Patch == Exists(obj)         \* mutant: no resourceVersion

\* An Update carries a resourceVersion: it is refused when the object changed.
UpdateAccepted == cur /\ Exists(obj)

\* client.MergeFrom: a patch carries the fields that differ from its base and
\* nothing else, no resourceVersion in particular.
Merge(base, new, reworded) ==
    [obj EXCEPT !.id   = IF new.id   # base.id   THEN new.id   ELSE @,
                !.obs  = IF new.obs  # base.obs  THEN new.obs  ELSE @,
                !.cond = IF reworded \/ new.cond # base.cond
                         THEN new.cond ELSE @]

\* The informer catches up with the API server and enqueues the key.
Deliver ==
    /\ behind # 0
    /\ behind' = 0
    /\ cache' = obj
    /\ queued' = TRUE
    /\ UNCHANGED <<k8sVars, workerVars, client, sloVars, dtVars, trouble>>

\* A DynatraceSLO of this namespace appears, gets an ID from its tenant, has
\* its ID replaced, or goes (what SLOReconciler does to its object).
SLOStep(r) ==
    /\ changes < MaxChanges
    /\ changes' = changes + 1
    /\ \/ /\ slos[r] = Missing
          /\ slos' = [slos EXCEPT ![r] = NoId]
          /\ UNCHANGED assigned
       \/ /\ slos[r] # Missing
          /\ slos' = [slos EXCEPT ![r] = changes + 1]
          /\ assigned' = assigned \cup {<<r, changes + 1>>}
       \/ /\ slos[r] # Missing
          /\ slos' = [slos EXCEPT ![r] = Missing]
          /\ UNCHANGED assigned
    /\ UNCHANGED <<k8sVars, informerVars, workerVars, client, dtVars, trouble>>

-----------------------------------------------------------------------------
(* Dynatrace.                                                              *)

Live(i) == tenant[i].gen # Gone

\* POST creates under the next ID; PUT and DELETE need the ID to be live.
Finds(rq, i) ==
    IF rq.id = NoId THEN i = made + 1 ELSE i = rq.id /\ Live(i)

Land(rq, i) ==
    /\ tenant' = [tenant EXCEPT ![i] = rq.pay]
    /\ made' = IF rq.id = NoId THEN i ELSE made

Succeeds(rq, i) == Finds(rq, i) /\ Land(rq, i)

NotFound(rq) ==
    /\ rq.id # NoId
    /\ ~Finds(rq, rq.id)
    /\ UNCHANGED <<dtVars, trouble>>

\* A request that fails other than with 404: refused, or executed with the
\* reply lost.
Fails(rq) ==
    \/ Meet("reject") /\ UNCHANGED dtVars
    \/ Meet("lost") /\ \E i \in Ids : Succeeds(rq, i)

-----------------------------------------------------------------------------
(* What both workers do in the same way.                                   *)

\* The end of a call of Reconcile.
Finish ==
    /\ pc' = "idle"
    /\ copy' = Absent
    /\ cur' = FALSE
    /\ sloIDs' = <<>>
    /\ dtID' = NoId

Requeue_Forgotten ==                        \* mutant: the error is swallowed
    /\ Finish
    /\ UNCHANGED <<queued, k8sVars, informerVars>>

\* Reconcile returns an error or a RequeueAfter without another write.
Requeue ==
    /\ Finish
    /\ queued' = TRUE
    /\ UNCHANGED <<k8sVars, informerVars>>

PatchStatus_NoRequeue(new, reworded, touched) ==    \* mutant: no RequeueAfter
    LET o == Merge(copy, new, reworded)
    IN IF Exists(obj) /\ (o # obj \/ touched)
       THEN Write(o, FALSE) /\ Finish /\ UNCHANGED rev
       ELSE Finish /\ UNCHANGED <<queued, k8sVars, informerVars>>

\* The status subresource is patched.  touched: the patch changes a message, or
\* lastSyncTime, which counts seconds.
PatchStatus(new, reworded, touched) ==
    LET o == Merge(copy, new, reworded)
    IN IF Exists(obj) /\ (o # obj \/ touched)
       THEN Write(o, TRUE) /\ Finish /\ UNCHANGED rev
       ELSE Requeue

-----------------------------------------------------------------------------
(* The process, and users.                                                 *)

\* A fresh process lists the objects; a replica that takes the lease over has
\* been watching.  Each has the clients BuildDTClients found when it started.
Restart ==
    /\ Meet("crash")
    /\ Finish
    /\ queued' = TRUE
    /\ \/ UNCHANGED client
       \/ "secret" \in Troubles /\ client' = ~client
    /\ \/ cache' = obj /\ behind' = 0
       \/ UNCHANGED informerVars
    /\ UNCHANGED <<k8sVars, sloVars, dtVars>>

CreateCR ==
    /\ ~Exists(obj)
    /\ rev < MaxRev
    /\ rev' = rev + 1
    /\ \E refs \in RefLists : Write(NewObject(rev + 1, refs), FALSE)
    /\ cur' = FALSE
    /\ UNCHANGED <<pc, copy, sloIDs, dtID, client, sloVars, dtVars, trouble>>

EditSpec ==
    /\ Exists(obj) /\ ~obj.del
    /\ rev < MaxRev
    /\ rev' = rev + 1
    /\ \E refs \in RefLists :
         Write([obj EXCEPT !.gen = rev + 1, !.refs = refs], FALSE)
    /\ cur' = FALSE
    /\ UNCHANGED <<pc, copy, sloIDs, dtID, client, sloVars, dtVars, trouble>>

\* kubectl delete: with a finalizer the object stays, marked.
DeleteCR ==
    /\ Exists(obj) /\ ~obj.del
    /\ Write(IF obj.fin THEN [obj EXCEPT !.del = TRUE] ELSE Absent, FALSE)
    /\ cur' = FALSE
    /\ UNCHANGED <<rev, pc, copy, sloIDs, dtID, client, sloVars, dtVars,
                   trouble>>

ChangeInUI ==
    /\ \E i \in Ids :
        /\ Live(i)
        /\ \/ Meet("uiEdit") /\ tenant' = [tenant EXCEPT ![i].gen = Edited]
           \/ Meet("uiDelete") /\ tenant' = [tenant EXCEPT ![i] = Nothing]
    /\ UNCHANGED <<k8sVars, informerVars, queued, workerVars, client, sloVars,
                   made>>

Surroundings ==
    Deliver \/ Restart \/ CreateCR \/ EditSpec \/ DeleteCR \/ ChangeInUI

-----------------------------------------------------------------------------
(* What both read, and what both promise.                                  *)

\* The names an object lists.
Named(o) == {o.refs[k] : k \in 1..Len(o.refs)}

\* The IDs its DynatraceSLOs show now, in the order it lists them.
SLOIDsOf(o) == [k \in 1..Len(o.refs) |-> slos[o.refs[k]]]

Phase ==
    CASE ~Exists(obj)                                -> "none"
      [] Exists(obj) /\ obj.del                      -> "leaving"
      [] Exists(obj) /\ ~obj.del /\ obj.fin          -> "held"
      [] Exists(obj) /\ ~obj.del /\ ~obj.fin         -> "open"

Mirror == INSTANCE TenantMirror WITH
            phase <- Phase,
            ref   <- obj.id,
            spent <- 1..made,
            live  <- {i \in Ids : Live(i)}

-----------------------------------------------------------------------------
(* The inductive invariant behind what both promise, as far as it speaks   *)
(* of the variables above only.                                            *)

HeldCalls == {"resolve", "apply", "patch", "fail"}
LeavingCalls == {"delete", "unfinalize"}

\* An informer that is not behind shows the stored version.
StreamInv == behind = 0 => cache = obj

\* cur means what it says; and while the worker acts on the latest version of
\* a deleted object, the informer has seen that version.
CurInv ==
    cur => /\ pc # "idle"
           /\ Exists(obj)
           /\ copy = obj
           /\ pc \in LeavingCalls => behind = 0

\* The branch the worker is in fits the copy it works on.
PcInv ==
    /\ pc # "idle" => Exists(copy)
    /\ pc = "finalize" => ~copy.del /\ ~copy.fin
    /\ pc \in HeldCalls => ~copy.del /\ copy.fin
    /\ pc \in LeavingCalls => copy.del
    /\ pc = "delete" => copy.id # NoId
    /\ pc # "patch" => dtID = NoId
    /\ pc \notin HeldCalls => sloIDs = <<>>

\* A copy that shows the finalizer and no deletion can be trusted, however
\* stale it is: the object is still there, held.  Without the finalizer the
\* object has recorded no ID.
HeldInv ==
    /\ Exists(cache) /\ cache.fin /\ ~cache.del => Exists(obj) /\ obj.fin
    /\ pc \in HeldCalls => Exists(obj) /\ obj.fin
    /\ Exists(obj) /\ obj.del => obj.fin
    /\ Exists(obj) /\ ~obj.fin => obj.id = NoId

\* Every ID in a copy, or in the worker's hands, was assigned.
IdsInv == \A i \in {obj.id, cache.id, copy.id, dtID} : i <= made

\* By the time the finalizer is about to go, the recorded resource is gone.
GoneInv ==
    pc = "unfinalize" /\ client /\ copy.id # NoId => ~Live(copy.id)

ManagedInv ==
    TypeOK /\ StreamInv /\ CurInv /\ PcInv /\ HeldInv /\ IdsInv /\ GoneInv

\* What the refinement of TenantMirror needs besides, when nobody deletes in
\* the UI and the credentials stay: a copy marked deleted whose resource is
\* still live is a copy of an object that is still there, marked; an ID about
\* to be recorded is live.
LeavingInv ==
    /\ client
    /\ \A c \in {obj, cache, copy} :
         c.del /\ c.id # NoId /\ Live(c.id) => Exists(obj) /\ obj.del
    /\ pc = "patch" /\ dtID # copy.id => dtID # NoId /\ Live(dtID)

=============================================================================
