--------------------------- MODULE DriftDetector ---------------------------
(***************************************************************************)
(* scripts/drift_detector.py, run by its CronJob one run at a time, over   *)
(* the applications of ArgoApplications.  A step is one call to Argo CD's  *)
(* API: the list, for each application the desired and then the live hash, *)
(* and, since AUTO_REMEDIATE is "true", the sync of one that has drifted.  *)
(***************************************************************************)
EXTENDS ArgoApplications, SequencesExt

VARIABLE det   \* the run in progress

vars == <<argoVars, trouble, det>>

Run ==
    [ pc       : {"idle", "list", "desired", "live", "sync", "slack"},
      todo     : Seq(Apps),             \* applications left
      hash     : {None} \cup {HashOf[r] : r \in Revisions},  \* desired_hash
      drifted  : SUBSET Apps,
      \* history: was the application out of sync since hash was read; the
      \* ones counted as drifted that were; those with the same drift since
      \* the run began, and no failed call
      apart    : BOOLEAN,
      real     : SUBSET Apps,
      standing : SUBSET Apps ]

Idle == [pc |-> "idle", todo |-> <<>>, hash |-> None, drifted |-> {},
         apart |-> FALSE, real |-> {}, standing |-> {}]

TypeOK == ArgoTypeOK /\ det \in Run /\ (det = Idle <=> det.pc = "idle")

This == det.todo[1]

\* The history keeps up with what the applications do.
Observed(d) ==
    [d EXCEPT
       !.apart = /\ d.pc = "live"
                 /\ @ \/ \E a \in Apps : a = d.todo[1] /\ OutOfSync(a)',
       !.standing = {a \in @ : UNCHANGED <<desired[a], live[a]>>}]

Goes(d) == det' = Observed(d)

\* mutant: leaves the loop at the first application that is in order.
NextApp_Breaks(d) ==
    [d EXCEPT !.todo = Tail(@),
              !.pc = IF Len(d.todo) = 1 \/ d.pc = "live"
                     THEN "slack" ELSE "desired"]

\* The loop of main takes the next application, or the run reports.
NextApp(d) ==
    [d EXCEPT !.todo = Tail(@),
              !.pc = IF Len(d.todo) = 1 THEN "slack" ELSE "desired"]

-----------------------------------------------------------------------------

\* The schedule; a run that is still going is not joined by another.
Start ==
    /\ det.pc = "idle"
    /\ UNCHANGED <<argoVars, trouble>>
    /\ Goes([Idle EXCEPT !.pc = "list",
                         !.standing = {a \in Apps : Drifted(a)}])

ListApplications ==
    /\ det.pc = "list"
    /\ UNCHANGED <<argoVars, trouble>>
    /\ \E order \in SetToSeqs(Apps) :
          Goes([det EXCEPT !.pc = "desired", !.todo = order])

GetDesiredHash ==
    /\ det.pc = "desired"
    /\ UNCHANGED <<argoVars, trouble>>
    /\ Goes([det EXCEPT !.pc = "live", !.hash = DesiredHash(This)])

\* Nothing is compared when either hash is None.
Differs(d, hash) == None \notin {d.hash, hash} /\ d.hash # hash

GetLiveHash ==
    /\ det.pc = "live"
    /\ UNCHANGED <<argoVars, trouble>>
    /\ Goes(IF Differs(det, live[This])
            THEN [det EXCEPT !.pc = "sync",
                             !.drifted = @ \cup {This},
                             !.real = IF det.apart THEN @ \cup {This} ELSE @]
            ELSE NextApp(det))

\* mutant: a hard refresh only, which the function's name suggests.
TriggerSync_RefreshOnly ==
    /\ det.pc = "sync"
    /\ UNCHANGED <<op, desired, live, trouble>>
    /\ Goes(NextApp(det))

\* trigger_hard_refresh; refused while another operation is in progress.
TriggerSync ==
    /\ det.pc = "sync"
    /\ op' = IF CanSync(This) THEN Synced(This) ELSE op
    /\ UNCHANGED <<desired, live, trouble>>
    /\ Goes(NextApp(det))

\* mutant: the lists belong to the process, which stays for the next run.
Report_KeepsLists ==
    /\ det.pc = "slack"
    /\ UNCHANGED <<argoVars, trouble>>
    /\ Goes([det EXCEPT !.pc = "idle"])

\* The message to Slack is sent or fails; either way the run ends.
Report ==
    /\ det.pc = "slack"
    /\ UNCHANGED <<argoVars, trouble>>
    /\ Goes(Idle)

\* mutant: the hash of the application before stays.
CallFails_KeepsHash ==
    /\ GoesWrong
    /\ UNCHANGED argoVars
    /\ \/ det.pc = "list" /\ Goes(Idle)
       \/ /\ det.pc = "desired"
          /\ Goes([det EXCEPT !.pc = "live", !.standing = @ \ {This}])
       \/ /\ det.pc \in {"live", "sync"}
          /\ Goes(NextApp([det EXCEPT !.standing = @ \ {This}]))

\* An answer other than 200: the list ends the run, a hash is None, a sync
\* does not take place.
CallFails ==
    /\ GoesWrong
    /\ UNCHANGED argoVars
    /\ \/ det.pc = "list" /\ Goes(Idle)
       \/ /\ det.pc = "desired"
          /\ Goes([det EXCEPT !.pc = "live", !.hash = None,
                              !.standing = @ \ {This}])
       \/ /\ det.pc \in {"live", "sync"}
          /\ Goes(NextApp([det EXCEPT !.standing = @ \ {This}]))

\* A timeout, or a POST cut off after Argo CD took it: nothing catches the
\* exception, the message is not sent and the Job is not retried.
Dies ==
    /\ det.pc \in {"desired", "live", "sync"}
    /\ GoesWrong
    /\ \/ UNCHANGED op
       \/ det.pc = "sync" /\ CanSync(This) /\ op' = Synced(This)
    /\ UNCHANGED <<desired, live>>
    /\ Goes(Idle)

Step ==
    \/ ListApplications \/ GetDesiredHash \/ GetLiveHash \/ TriggerSync
    \/ Report

Init == ArgoInit /\ det = Idle

ArgoStep == ArgoNext /\ Goes(det)

Next == ArgoStep \/ Start \/ Step \/ CallFails \/ Dies

Spec == Init /\ [][Next]_vars

\* The CronJob starts runs, every request of a run ends, and so does a sync
\* operation.  That Argo CD starts one by itself is not needed.
FairSpec ==
    /\ Spec
    /\ WF_vars(Start) /\ WF_vars(Step)
    /\ \A a \in Apps : WF_vars(Apply(a) /\ Goes(det))

-----------------------------------------------------------------------------
(* Properties.                                                             *)

\* An application counted as drifted was out of sync at some moment between
\* the two calls that read its hashes, although commits and syncs come in
\* between and calls fail.
NoFalseAlarm == det.drifted = det.real

\* A run that reports names every application that was drifted in the same
\* way all the while and whose calls were answered, whatever happened to the
\* applications before it in the list.
StandingDriftReported == det.pc = "slack" => det.standing \subseteq det.drifted

\* The detector alone makes the drift of an automated application go away, with
\* whatever sync comes in its way: one for an older revision, one that refuses
\* it, one that fails, or its own run cut off.
DriftGoes == \A a \in Automated : Drifted(a) ~> ~Drifted(a)

\* "Prod sync is manual to prevent accidental SLO changes"
\* (applicationset-oac.yaml:4): the detector starts no sync of it.
ProdSyncIsManual ==
    [][\A a \in Apps \ Automated :
          op[a] = None /\ op'[a] # None => det'.pc = det.pc]_vars

=============================================================================
