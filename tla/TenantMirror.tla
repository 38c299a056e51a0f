---------------------------- MODULE TenantMirror ----------------------------
(***************************************************************************)
(* What a controller of this operator promises of one custom resource and  *)
(* the Dynatrace resources made for it, with nothing said about caches,    *)
(* queues, patches or requests (docs/operator/README.md, "Finalizers").    *)
(***************************************************************************)
CONSTANTS
    Ids,    \* IDs of Dynatrace resources
    NoId    \* no ID

VARIABLES
    phase,  \* of the custom resource: "none", "open" (no finalizer yet),
            \* "held" (finalizer), "leaving" (deleted, finalizer still there)
    ref,    \* the ID its status records
    spent,  \* IDs ever assigned
    live    \* IDs of the resources that exist

mirrorVars == <<phase, ref, spent, live>>

Init ==
    /\ phase = "none"
    /\ ref = NoId
    /\ spent = {}
    /\ live = {}

Declare ==
    /\ phase = "none"
    /\ phase' = "open"
    /\ UNCHANGED <<ref, spent, live>>

Hold ==
    /\ phase = "open"
    /\ phase' = "held"
    /\ UNCHANGED <<ref, spent, live>>

Withdraw ==
    /\ \/ phase = "open" /\ phase' = "none"
       \/ phase = "held" /\ phase' = "leaving"
    /\ UNCHANGED <<ref, spent, live>>

\* A resource is made only under the finalizer, with an ID never used before.
Create(i) ==
    /\ phase \in {"held", "leaving"}
    /\ i \notin spent
    /\ spent' = spent \cup {i}
    /\ live' = live \cup {i}
    /\ UNCHANGED <<phase, ref>>

\* Only what exists is recorded.
Record(i) ==
    /\ phase \in {"held", "leaving"}
    /\ i \in live
    /\ ref' = i
    /\ UNCHANGED <<phase, spent, live>>

\* Nothing is destroyed under a custom resource that is to stay.
Destroy(i) ==
    /\ phase = "leaving"
    /\ i \in live
    /\ live' = live \ {i}
    /\ UNCHANGED <<phase, ref, spent>>

\* The custom resource goes only after the resource it records.
Vanish ==
    /\ phase = "leaving"
    /\ ref \notin live
    /\ phase' = "none"
    /\ ref' = NoId
    /\ UNCHANGED <<spent, live>>

Next ==
    \/ Declare \/ Hold \/ Withdraw \/ Vanish
    \/ \E i \in Ids : Create(i) \/ Record(i) \/ Destroy(i)

Spec == Init /\ [][Next]_mirrorVars

=============================================================================
