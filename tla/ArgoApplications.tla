-------------------------- MODULE ArgoApplications --------------------------
(***************************************************************************)
(* The Argo CD applications of one repository, one for each environment    *)
(* (manifests/argocd): the sentinel ConfigMap that the Monaco plugin       *)
(* generates from Git, the one in the cluster, and the sync operations     *)
(* between the two.  Argo CD and Kubernetes are not in the repository:     *)
(* they do here what its manifests ask for.                                *)
(***************************************************************************)
EXTENDS Integers, Sequences, FiniteSets

CONSTANTS
    Apps,         \* the applications of the repository
    Automated,    \* those with syncPolicy.automated: all but prod's
    HashOf,       \* the hash of the *.yaml files of each revision, in order
    MaxTrouble    \* bound: failed calls and syncs, edits of the sentinel

None == 0         \* no sentinel in the cluster
Foreign == -1     \* a hash somebody typed

ASSUME ApplicationsAssumption ==
    /\ IsFiniteSet(Apps) /\ Apps # {}
    /\ Automated \subseteq Apps
    /\ HashOf \in Seq(Nat \ {None}) /\ HashOf # <<>>
    /\ MaxTrouble \in Nat

VARIABLES
    desired,   \* the revision Argo CD has generated the sentinel from
    live,      \* oac/manifest-hash of the sentinel in the cluster
    op,        \* the revision of the sync operation in progress, or None
    trouble

argoVars == <<desired, live, op>>

Revisions == DOMAIN HashOf

\* What generate writes into the sentinel.
DesiredHash(a) == HashOf[desired[a]]

ArgoTypeOK ==
    /\ desired \in [Apps -> Revisions]
    /\ live \in [Apps -> {None, Foreign} \cup {HashOf[r] : r \in Revisions}]
    /\ op \in [Apps -> {None} \cup Revisions]
    /\ trouble \in 0..MaxTrouble

\* The sentinel is the only object of an application.
OutOfSync(a) == live[a] # DesiredHash(a)
Drifted(a) == OutOfSync(a) /\ live[a] # None

GoesWrong == trouble < MaxTrouble /\ trouble' = trouble + 1

-----------------------------------------------------------------------------

\* A commit is there and the plugin's init and generate succeed.
Refresh(a) ==
    /\ desired[a] + 1 \in Revisions
    /\ desired' = [desired EXCEPT ![a] = @ + 1]
    /\ UNCHANGED <<live, op, trouble>>

\* A sync operation is for what is desired now; there is one at a time.
CanSync(a) == op[a] = None
Synced(a) == [op EXCEPT ![a] = desired[a]]

\* selfHeal included.
AutoSync(a) ==
    /\ a \in Automated
    /\ CanSync(a) /\ OutOfSync(a)
    /\ op' = Synced(a)
    /\ UNCHANGED <<desired, live, trouble>>

\* Somebody presses the button.
ManualSync(a) ==
    /\ CanSync(a) /\ OutOfSync(a)
    /\ op' = Synced(a)
    /\ UNCHANGED <<desired, live, trouble>>

\* The operation applies the sentinel it was started for.
Apply(a) ==
    /\ op[a] # None
    /\ live' = [live EXCEPT ![a] = HashOf[op[a]]]
    /\ op' = [op EXCEPT ![a] = None]
    /\ UNCHANGED <<desired, trouble>>

\* The operation has used up its retries.
SyncFails(a) ==
    /\ op[a] # None
    /\ GoesWrong
    /\ op' = [op EXCEPT ![a] = None]
    /\ UNCHANGED <<desired, live>>

\* The sentinel is deleted, or changed with the annotation set, which the
\* Kyverno policy lets pass.
SentinelEdited(a) ==
    /\ GoesWrong
    /\ \E h \in {None, Foreign} \ {live[a]} :
          live' = [live EXCEPT ![a] = h]
    /\ UNCHANGED <<desired, op>>

ArgoInit ==
    /\ desired = [a \in Apps |-> 1]
    /\ live = [a \in Apps |-> None]
    /\ op = [a \in Apps |-> None]
    /\ trouble = 0

ArgoNext ==
    \E a \in Apps :
        \/ Refresh(a) \/ AutoSync(a) \/ ManualSync(a)
        \/ Apply(a) \/ SyncFails(a) \/ SentinelEdited(a)

=============================================================================
