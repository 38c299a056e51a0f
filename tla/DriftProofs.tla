---------------------------- MODULE DriftProofs ----------------------------
(***************************************************************************)
(* Theorems about DriftDetector: its types, and that what a run counts as  *)
(* drifted is neither too much (NoFalseAlarm) nor too little               *)
(* (StandingDriftReported), for any number of applications.                *)
(***************************************************************************)
EXTENDS DriftDetector, FiniteSetTheorems, SequenceTheorems, TLAPS

USE ApplicationsAssumption

InTurn == {"desired", "live", "sync"}

\* The application a is still to come in the run d.
Left(d, a) ==
    \/ d.pc = "list"
    \/ d.pc \in InTurn /\ \E i \in 1..Len(d.todo) : d.todo[i] = a

\* There is an application whose turn it is.
TurnIn(d) ==
    /\ d.pc \in InTurn => d.todo # <<>>
    /\ d.pc = "sync" => d.todo[1] \in d.drifted

\* An application with standing drift is counted or still to come, and its
\* desired hash is the one that was read.
StandIn(d) ==
    \A a \in d.standing :
        /\ Drifted(a)
        /\ a \in d.drifted \/ Left(d, a)
        /\ d.pc = "live" /\ a = d.todo[1] => d.hash = DesiredHash(a)

\* What the steps of a run keep, whatever happens to the applications.
Sound(d) ==
    /\ d \in Run
    /\ d.pc = "idle" => d = Idle
    /\ TurnIn(d)
    /\ StandIn(d)
    /\ d.drifted = d.real

\* As long as the application has not been out of sync, neither of its hashes
\* can have moved away from the one that was read.
AgreeInv ==
    det.pc = "live" /\ ~det.apart /\ det.hash # None =>
        live[This] = det.hash /\ DesiredHash(This) = det.hash

IInv == ArgoTypeOK /\ Sound(det) /\ AgreeInv

-----------------------------------------------------------------------------
(* The applications.                                                       *)

LEMMA RevisionsFacts ==
    /\ Revisions = 1..Len(HashOf)
    /\ 1 \in Revisions
    /\ \A r \in Revisions : HashOf[r] \in Nat \ {None}
    /\ None \notin Revisions
<1>1. HashOf \in Seq(Nat \ {None}) /\ HashOf # <<>>
  OBVIOUS
<1>2. Revisions = 1..Len(HashOf) /\ Len(HashOf) \in Nat /\ Len(HashOf) # 0
  BY <1>1 DEF Revisions
<1>3. \A r \in Revisions : HashOf[r] \in Nat \ {None}
  BY <1>1, <1>2
<1> QED
  BY <1>2, <1>3 DEF None

\* A sync operation that is started leaves op well typed.
LEMMA SyncedType ==
    ASSUME ArgoTypeOK, NEW a \in Apps
    PROVE  Synced(a) \in [Apps -> {None} \cup Revisions]
BY DEF ArgoTypeOK, Synced

LEMMA ArgoSteps ==
    ASSUME ArgoTypeOK, ArgoNext
    PROVE  ArgoTypeOK' /\ (UNCHANGED live \/ UNCHANGED desired)
<1>1. PICK a \in Apps :
         \/ Refresh(a) \/ AutoSync(a) \/ ManualSync(a)
         \/ Apply(a) \/ SyncFails(a) \/ SentinelEdited(a)
  BY DEF ArgoNext
<1>2. CASE Refresh(a)
  BY <1>2 DEF ArgoTypeOK, Refresh
<1>3. CASE AutoSync(a)
  BY <1>3, SyncedType DEF ArgoTypeOK, AutoSync
<1>4. CASE ManualSync(a)
  BY <1>4, SyncedType DEF ArgoTypeOK, ManualSync
<1>5. CASE Apply(a)
  <2>1. op[a] \in Revisions
    BY <1>5 DEF ArgoTypeOK, Apply
  <2>2. HashOf[op[a]] \in {None, Foreign} \cup {HashOf[r] : r \in Revisions}
    BY <2>1
  <2> QED
    BY <1>5, <2>2 DEF ArgoTypeOK, Apply
<1>6. CASE SyncFails(a)
  BY <1>6 DEF ArgoTypeOK, SyncFails, GoesWrong
<1>7. CASE SentinelEdited(a)
  BY <1>7 DEF ArgoTypeOK, SentinelEdited, GoesWrong
<1> QED
  BY <1>1, <1>2, <1>3, <1>4, <1>5, <1>6, <1>7

-----------------------------------------------------------------------------
(* What every step of the detector has in common.                          *)

\* The history of a step in which the run becomes d, field by field.
LEMMA ObservedFacts ==
    ASSUME NEW d \in Run, Goes(d)
    PROVE  /\ det' \in Run
           /\ det'.pc = d.pc /\ det'.todo = d.todo /\ det'.hash = d.hash
           /\ det'.drifted = d.drifted /\ det'.real = d.real
           /\ det'.standing =
                {a \in d.standing : live'[a] = live[a] /\ desired'[a] = desired[a]}
           /\ det'.apart <=>
                /\ d.pc = "live"
                /\ d.apart \/ \E a \in Apps : a = d.todo[1] /\ OutOfSync(a)'
<1> DEFINE apart == /\ d.pc = "live"
                    /\ d.apart \/ \E a \in Apps : a = d.todo[1] /\ OutOfSync(a)'
           standing == {a \in d.standing : UNCHANGED <<desired[a], live[a]>>}
<1>1. det' = [d EXCEPT !.apart = apart, !.standing = standing]
  BY DEF Goes, Observed
<1>2. apart \in BOOLEAN
  BY Zenon
<1>3. standing \in SUBSET Apps
  BY DEF Run
<1>4. standing =
        {a \in d.standing : live'[a] = live[a] /\ desired'[a] = desired[a]}
  BY Zenon
<1> HIDE DEF apart, standing
<1>5. det' \in Run
  BY <1>1, <1>2, <1>3 DEF Run
<1>6. det'.apart = apart /\ det'.standing = standing
  BY <1>1 DEF Run
<1>7. /\ det'.pc = d.pc /\ det'.todo = d.todo /\ det'.hash = d.hash
      /\ det'.drifted = d.drifted /\ det'.real = d.real
  BY <1>1 DEF Run
<1> QED
  BY <1>2, <1>4, <1>5, <1>6, <1>7 DEF apart

\* A run that is sound stays so when the history is brought up to date: one of
\* the two hashes is still the one that was read, and the other is compared.
LEMMA Settles ==
    ASSUME ArgoTypeOK, ArgoTypeOK', NEW d, Sound(d), Goes(d),
           d.pc = "live" /\ ~d.apart /\ d.hash # None =>
               d.hash \in {live'[d.todo[1]], HashOf[desired'[d.todo[1]]]}
    PROVE  IInv'
<1>0. d \in Run
  BY DEF Sound
<1>1. /\ det' \in Run
      /\ det'.pc = d.pc /\ det'.todo = d.todo /\ det'.hash = d.hash
      /\ det'.drifted = d.drifted /\ det'.real = d.real
  BY <1>0, ObservedFacts
<1>2. det'.standing =
        {a \in d.standing : live'[a] = live[a] /\ desired'[a] = desired[a]}
  BY <1>0, ObservedFacts
<1>3. det'.apart <=>
        /\ d.pc = "live"
        /\ d.apart \/ \E a \in Apps : a = d.todo[1] /\ OutOfSync(a)'
  BY <1>0, ObservedFacts
<1>4. (det.pc = "idle" => det = Idle)'
  <2>1. SUFFICES ASSUME d.pc = "idle" PROVE det' = Idle
    BY <1>1
  <2>2. d = Idle
    BY <2>1 DEF Sound
  <2>3. det'.standing = {}
    BY <1>2, <2>2 DEF Idle
  <2>4. det'.apart = FALSE
    BY <1>1, <1>3, <2>1 DEF Run
  <2> QED
    BY <1>1, <2>2, <2>3, <2>4 DEF Idle, Run
<1>5. TurnIn(det)'
  BY <1>1 DEF Sound, TurnIn
<1>6. StandIn(det)'
  <2> SUFFICES ASSUME NEW a \in det'.standing
               PROVE  /\ Drifted(a)'
                      /\ a \in det'.drifted \/ Left(det, a)'
                      /\ det'.pc = "live" /\ a = det'.todo[1] =>
                            det'.hash = DesiredHash(a)'
    BY DEF StandIn
  <2>1. a \in d.standing /\ live'[a] = live[a] /\ desired'[a] = desired[a]
    BY <1>2
  <2>2. /\ Drifted(a)
        /\ a \in d.drifted \/ Left(d, a)
        /\ d.pc = "live" /\ a = d.todo[1] => d.hash = DesiredHash(a)
    BY <2>1 DEF Sound, StandIn
  <2>3. Drifted(a)'
    BY <2>1, <2>2 DEF Drifted, OutOfSync, DesiredHash
  <2>4. a \in det'.drifted \/ Left(det, a)'
    BY <1>1, <2>2 DEF Left
  <2>5. det'.pc = "live" /\ a = det'.todo[1] => det'.hash = DesiredHash(a)'
    BY <1>1, <2>1, <2>2 DEF DesiredHash
  <2> QED
    BY <2>3, <2>4, <2>5
<1>7. AgreeInv'
  <2> SUFFICES ASSUME d.pc = "live", ~det'.apart, d.hash # None
               PROVE  /\ live'[d.todo[1]] = d.hash
                      /\ HashOf[desired'[d.todo[1]]] = d.hash
    BY <1>1 DEF AgreeInv, This, DesiredHash
  <2>1. d.todo \in Seq(Apps) /\ d.todo # <<>>
    BY <1>0 DEF Sound, TurnIn, InTurn, Run
  <2>2. d.todo[1] \in Apps
    BY <2>1
  <2>3. ~d.apart /\ ~OutOfSync(d.todo[1])'
    BY <1>3, <2>2
  <2>4. live'[d.todo[1]] = HashOf[desired'[d.todo[1]]]
    BY <2>3 DEF OutOfSync, DesiredHash
  <2> QED
    BY <2>3, <2>4
<1>8. Sound(det)'
  BY <1>1, <1>4, <1>5, <1>6 DEF Sound
<1> QED
  BY <1>7, <1>8 DEF IInv

\* The loop may go on when no standing drift is lost with the application whose
\* turn is over.
LEMMA Advances ==
    ASSUME NEW d \in Run, d.pc \in {"live", "sync"}, d.todo # <<>>,
           d.drifted = d.real,
           \A a \in d.standing :
               /\ Drifted(a)
               /\ a \in d.drifted \/ (Left(d, a) /\ a # d.todo[1])
    PROVE  Sound(NextApp(d)) /\ NextApp(d).pc # "live"
<1> DEFINE n == NextApp(d)
<1>1. d.todo \in Seq(Apps)
  BY DEF Run
<1>2. /\ Tail(d.todo) \in Seq(Apps)
      /\ Len(Tail(d.todo)) = Len(d.todo) - 1
      /\ \A i \in 1..Len(Tail(d.todo)) : Tail(d.todo)[i] = d.todo[i + 1]
  BY <1>1, HeadTailProperties
<1>3. n \in Run
  BY <1>2 DEF NextApp, Run
<1>4. /\ n.todo = Tail(d.todo)
      /\ n.pc = IF Len(d.todo) = 1 THEN "slack" ELSE "desired"
      /\ n.drifted = d.drifted /\ n.real = d.real /\ n.standing = d.standing
  BY DEF NextApp, Run
<1> HIDE DEF n
<1>5. n.pc \notin {"idle", "live", "sync"}
  BY <1>4
<1>6. TurnIn(n)
  <2>1. SUFFICES ASSUME n.pc = "desired" PROVE n.todo # <<>>
    BY <1>4, <1>5 DEF TurnIn, InTurn
  <2>2. Len(d.todo) # 1
    BY <1>4, <2>1
  <2>3. Len(d.todo) \in Nat /\ Len(d.todo) # 0
    BY <1>1
  <2>4. Len(n.todo) # 0
    BY <1>2, <1>4, <2>2, <2>3
  <2> QED
    BY <2>4
<1>7. StandIn(n)
  <2> SUFFICES ASSUME NEW a \in d.standing, a \notin d.drifted
               PROVE  Left(n, a)
    BY <1>4, <1>5 DEF StandIn
  <2>1. PICK i \in 1..Len(d.todo) : d.todo[i] = a
    BY DEF Left
  <2>2. i # 1
    BY <2>1
  <2>3. Len(d.todo) \in Nat /\ i - 1 \in 1..Len(n.todo)
    BY <1>1, <1>2, <1>4, <2>2
  <2>4. n.todo[i - 1] = a
    BY <1>2, <1>4, <2>1, <2>3
  <2>5. Len(d.todo) # 1
    <3>1. \A l \in Nat : i \in 1..l /\ i # 1 => l # 1
      OBVIOUS
    <3> QED
      BY <2>2, <2>3, <3>1
  <2>6. n.pc = "desired"
    BY <1>4, <2>5
  <2> QED
    BY <2>3, <2>4, <2>6 DEF Left, InTurn
<1>8. Sound(n)
  BY <1>3, <1>4, <1>5, <1>6, <1>7 DEF Sound
<1> QED
  BY <1>5, <1>8 DEF n

\* The list of ListApplications names every application.
LEMMA OrderFacts ==
    ASSUME NEW order \in SetToSeqs(Apps)
    PROVE  /\ order \in Seq(Apps) /\ order # <<>>
           /\ \A a \in Apps : \E i \in 1..Len(order) : order[i] = a
<1> DEFINE n == Cardinality(Apps)
<1>1. n \in Nat /\ n # 0
  BY FS_CardinalityType, FS_EmptySet
<1>2. /\ order \in [1..n -> Apps]
      /\ \A i, j \in 1..n : i # j => order[i] # order[j]
  BY DEF SetToSeqs
<1> HIDE DEF n
<1>3. order \in Seq(Apps) /\ Len(order) = n
  BY <1>1, <1>2
<1>4. order \in Injection(1..n, Apps)
  BY <1>2 DEF Injection, IsInjective
<1>5. IsFiniteSet(1..n) /\ Cardinality(1..n) = n
  <2>1. 1 \in Int /\ n \in Int /\ ~(1 > n) /\ n - 1 + 1 = n
    BY <1>1
  <2>2. /\ IsFiniteSet(1..n)
        /\ Cardinality(1..n) = IF 1 > n THEN 0 ELSE n - 1 + 1
    BY <2>1, FS_Interval
  <2> QED
    BY <2>1, <2>2
<1>6. order \in Surjection(1..n, Apps)
  BY <1>4, <1>5, FS_Injection DEF n
<1>7. \A a \in Apps : \E i \in 1..n : order[i] = a
  BY <1>6 DEF Surjection
<1> QED
  BY <1>1, <1>3, <1>7

-----------------------------------------------------------------------------
(* The invariant, action by action.                                        *)

LEMMA Initial == Init => IInv
<1> SUFFICES ASSUME Init PROVE IInv
  OBVIOUS
<1>1. ArgoTypeOK
  BY RevisionsFacts DEF Init, ArgoInit, ArgoTypeOK
<1>2. Idle \in Run
  BY DEF Idle, Run
<1>3. /\ Idle.pc = "idle" /\ Idle.standing = {}
      /\ Idle.drifted = {} /\ Idle.real = {}
  BY DEF Idle
<1>4. TurnIn(Idle) /\ StandIn(Idle)
  BY <1>3 DEF TurnIn, StandIn, InTurn
<1>5. det = Idle
  BY DEF Init
<1> QED
  BY <1>1, <1>2, <1>3, <1>4, <1>5 DEF IInv, Sound, AgreeInv

\* The run ends: nothing is left that could be wrong.
LEMMA Ends ==
    ASSUME ArgoTypeOK, ArgoTypeOK', Goes(Idle)
    PROVE  IInv'
<1>1. Idle \in Run
  BY DEF Idle, Run
<1>2. /\ Idle.pc = "idle" /\ Idle.standing = {}
      /\ Idle.drifted = {} /\ Idle.real = {}
  BY DEF Idle
<1>3. TurnIn(Idle) /\ StandIn(Idle)
  BY <1>2 DEF TurnIn, StandIn, InTurn
<1>4. Sound(Idle)
  BY <1>1, <1>2, <1>3 DEF Sound
<1> QED
  BY <1>2, <1>4, Settles

LEMMA ArgoStepKeeps == IInv /\ ArgoStep => IInv'
<1> SUFFICES ASSUME IInv, ArgoStep PROVE IInv'
  OBVIOUS
<1>1. ArgoTypeOK' /\ (UNCHANGED live \/ UNCHANGED desired)
  BY ArgoSteps DEF IInv, ArgoStep
<1>2. det.pc = "live" /\ ~det.apart /\ det.hash # None =>
        det.hash \in {live'[det.todo[1]], HashOf[desired'[det.todo[1]]]}
  BY <1>1 DEF IInv, AgreeInv, This, DesiredHash
<1> QED
  BY <1>1, <1>2, Settles DEF IInv, ArgoStep

LEMMA StartKeeps == IInv /\ Start => IInv'
<1> SUFFICES ASSUME IInv, Start PROVE IInv'
  OBVIOUS
<1> DEFINE d == [Idle EXCEPT !.pc = "list",
                             !.standing = {a \in Apps : Drifted(a)}]
<1>1. ArgoTypeOK' /\ Goes(d)
  BY DEF IInv, Start, argoVars, ArgoTypeOK
<1>2. {a \in Apps : Drifted(a)} \in SUBSET Apps
  OBVIOUS
<1>3. d \in Run
  <2>1. Idle \in Run
    BY DEF Idle, Run
  <2> QED
    BY <1>2, <2>1 DEF Run
<1>4. /\ d.pc = "list" /\ d.drifted = {} /\ d.real = {}
      /\ d.standing = {a \in Apps : Drifted(a)}
  BY DEF Idle
<1> HIDE DEF d
<1>5. TurnIn(d) /\ StandIn(d)
  BY <1>4 DEF TurnIn, StandIn, Left, InTurn
<1>6. Sound(d)
  BY <1>3, <1>4, <1>5 DEF Sound
<1> QED
  BY <1>1, <1>4, <1>6, Settles DEF IInv

LEMMA ListApplicationsKeeps == IInv /\ ListApplications => IInv'
<1> SUFFICES ASSUME IInv, ListApplications PROVE IInv'
  OBVIOUS
<1>1. PICK order \in SetToSeqs(Apps) :
         Goes([det EXCEPT !.pc = "desired", !.todo = order])
  BY DEF ListApplications
<1> DEFINE d == [det EXCEPT !.pc = "desired", !.todo = order]
<1>2. ArgoTypeOK' /\ Goes(d) /\ det.pc = "list"
  BY <1>1 DEF IInv, ListApplications, argoVars, ArgoTypeOK
<1>3. Sound(det) /\ det \in Run
  BY DEF IInv, Sound
<1>4. /\ order \in Seq(Apps) /\ order # <<>>
      /\ \A a \in Apps : \E i \in 1..Len(order) : order[i] = a
  BY OrderFacts
<1>5. d \in Run
  BY <1>3, <1>4 DEF Run
<1>6. /\ d.pc = "desired" /\ d.todo = order /\ d.standing = det.standing
      /\ d.drifted = det.drifted /\ d.real = det.real
  BY <1>3 DEF Run
<1> HIDE DEF d
<1>7. TurnIn(d)
  BY <1>4, <1>6 DEF TurnIn, InTurn
<1>8. StandIn(d)
  <2> SUFFICES ASSUME NEW a \in det.standing PROVE Drifted(a) /\ Left(d, a)
    BY <1>6 DEF StandIn
  <2>1. Drifted(a)
    BY <1>3 DEF Sound, StandIn
  <2>2. a \in Apps
    BY <1>3 DEF Run
  <2>3. \E i \in 1..Len(d.todo) : d.todo[i] = a
    BY <1>4, <1>6, <2>2
  <2> QED
    BY <1>6, <2>1, <2>3 DEF Left, InTurn
<1>9. Sound(d)
  BY <1>3, <1>5, <1>6, <1>7, <1>8 DEF Sound
<1> QED
  BY <1>2, <1>6, <1>9, Settles DEF IInv

LEMMA GetDesiredHashKeeps == IInv /\ GetDesiredHash => IInv'
<1> SUFFICES ASSUME IInv, GetDesiredHash PROVE IInv'
  OBVIOUS
<1> DEFINE d == [det EXCEPT !.pc = "live", !.hash = DesiredHash(This)]
<1>1. ArgoTypeOK' /\ Goes(d) /\ det.pc = "desired" /\ UNCHANGED desired
  BY DEF IInv, GetDesiredHash, argoVars, ArgoTypeOK
<1>2. Sound(det) /\ det \in Run /\ ArgoTypeOK
  BY DEF IInv, Sound
<1>3. det.todo \in Seq(Apps) /\ det.todo # <<>>
  BY <1>1, <1>2 DEF Sound, TurnIn, InTurn, Run
<1>4. This \in Apps
  BY <1>3 DEF This
<1>5. DesiredHash(This) \in {HashOf[r] : r \in Revisions}
  BY <1>2, <1>4 DEF DesiredHash, ArgoTypeOK
<1>6. d \in Run
  BY <1>2, <1>5 DEF Run
<1>7. /\ d.pc = "live" /\ d.todo = det.todo /\ d.hash = DesiredHash(This)
      /\ d.standing = det.standing
      /\ d.drifted = det.drifted /\ d.real = det.real
  BY <1>2 DEF Run
<1> HIDE DEF d
<1>8. TurnIn(d)
  BY <1>3, <1>7 DEF TurnIn
<1>9. StandIn(d)
  <2> SUFFICES ASSUME NEW a \in det.standing
               PROVE  Drifted(a) /\ (a \in det.drifted \/ Left(d, a))
    BY <1>7 DEF StandIn, This
  <2>1. Drifted(a) /\ (a \in det.drifted \/ Left(det, a))
    BY <1>2 DEF Sound, StandIn
  <2> QED
    BY <1>1, <1>7, <2>1 DEF Left, InTurn
<1>10. Sound(d)
  BY <1>2, <1>6, <1>7, <1>8, <1>9 DEF Sound
<1>11. d.hash = HashOf[desired'[d.todo[1]]]
  BY <1>1, <1>7 DEF DesiredHash, This
<1> QED
  BY <1>1, <1>2, <1>10, <1>11, Settles

\* The comparison: hashes that differ have been apart, and hashes that do not
\* leave no standing drift behind.
LEMMA GetLiveHashKeeps == IInv /\ GetLiveHash => IInv'
<1> SUFFICES ASSUME IInv, GetLiveHash PROVE IInv'
  OBVIOUS
<1>1. /\ ArgoTypeOK' /\ ArgoTypeOK /\ det.pc = "live"
      /\ Sound(det) /\ det \in Run /\ AgreeInv
  BY DEF IInv, Sound, GetLiveHash, argoVars, ArgoTypeOK
<1>2. det.todo \in Seq(Apps) /\ det.todo # <<>>
  BY <1>1 DEF Sound, TurnIn, InTurn, Run
<1>3. This \in Apps /\ This = det.todo[1]
  BY <1>2 DEF This
<1>4. \A a \in det.standing :
         /\ Drifted(a)
         /\ a \in det.drifted \/ Left(det, a)
         /\ a = det.todo[1] => det.hash = DesiredHash(a)
  BY <1>1 DEF Sound, StandIn
<1>5. det.drifted = det.real
  BY <1>1 DEF Sound
<1>6. CASE Differs(det, live[This])
  <2> DEFINE d == [det EXCEPT !.pc = "sync",
                              !.drifted = @ \cup {This},
                              !.real = IF det.apart THEN @ \cup {This} ELSE @]
  <2>1. Goes(d)
    BY <1>6 DEF GetLiveHash
  <2>2. det.apart
    BY <1>1, <1>6 DEF AgreeInv, Differs
  <2>3. d \in Run
    BY <1>1, <1>3 DEF Run
  <2>4. /\ d.pc = "sync" /\ d.todo = det.todo /\ d.standing = det.standing
        /\ d.drifted = det.drifted \cup {This}
        /\ d.real = det.real \cup {This}
    BY <1>1, <2>2 DEF Run
  <2> HIDE DEF d
  <2>5. TurnIn(d)
    BY <1>2, <1>3, <2>4 DEF TurnIn
  <2>6. StandIn(d)
    BY <1>1, <1>4, <2>4 DEF StandIn, Left, InTurn
  <2>7. Sound(d)
    BY <1>5, <2>3, <2>4, <2>5, <2>6 DEF Sound
  <2> QED
    BY <1>1, <2>1, <2>4, <2>7, Settles
<1>7. CASE ~Differs(det, live[This])
  <2>1. Goes(NextApp(det))
    BY <1>7 DEF GetLiveHash
  <2>2. This \notin det.standing
    <3> SUFFICES ASSUME This \in det.standing PROVE FALSE
      OBVIOUS
    <3>1. Drifted(This) /\ det.hash = DesiredHash(This)
      BY <1>3, <1>4
    <3>2. DesiredHash(This) # None
      BY <1>1, <1>3, RevisionsFacts DEF DesiredHash, ArgoTypeOK
    <3> QED
      BY <1>7, <3>1, <3>2 DEF Differs, Drifted, OutOfSync
  <2>3. Sound(NextApp(det)) /\ NextApp(det).pc # "live"
    BY <1>1, <1>2, <1>3, <1>4, <1>5, <2>2, Advances
  <2> QED
    BY <1>1, <2>1, <2>3, Settles
<1> QED
  BY <1>6, <1>7

LEMMA TriggerSyncKeeps == IInv /\ TriggerSync => IInv'
<1> SUFFICES ASSUME IInv, TriggerSync PROVE IInv'
  OBVIOUS
<1>1. /\ ArgoTypeOK /\ det.pc = "sync" /\ Goes(NextApp(det))
      /\ Sound(det) /\ det \in Run
  BY DEF IInv, Sound, TriggerSync
<1>2. det.todo \in Seq(Apps) /\ det.todo # <<>> /\ This \in det.drifted
  BY <1>1 DEF Sound, TurnIn, InTurn, Run, This
<1>3. This \in Apps /\ This = det.todo[1]
  BY <1>2 DEF This
<1>4. ArgoTypeOK'
  BY <1>1, <1>3, SyncedType DEF TriggerSync, ArgoTypeOK
<1>5. \A a \in det.standing :
         Drifted(a) /\ (a \in det.drifted \/ Left(det, a))
  BY <1>1 DEF Sound, StandIn
<1>6. det.drifted = det.real
  BY <1>1 DEF Sound
<1>7. Sound(NextApp(det)) /\ NextApp(det).pc # "live"
  BY <1>1, <1>2, <1>3, <1>5, <1>6, Advances
<1> QED
  BY <1>1, <1>4, <1>7, Settles

LEMMA ReportKeeps == IInv /\ Report => IInv'
BY Ends DEF IInv, Report, argoVars, ArgoTypeOK

LEMMA DiesKeeps == IInv /\ Dies => IInv'
<1> SUFFICES ASSUME IInv, Dies PROVE IInv'
  OBVIOUS
<1>1. ArgoTypeOK /\ Goes(Idle)
  BY DEF IInv, Dies
<1>2. CASE UNCHANGED op
  <2>1. ArgoTypeOK'
    BY <1>1, <1>2 DEF Dies, ArgoTypeOK, GoesWrong
  <2> QED
    BY <1>1, <2>1, Ends
<1>3. CASE det.pc = "sync" /\ op' = Synced(This)
  <2>1. This \in Apps
    BY <1>3 DEF IInv, Sound, TurnIn, InTurn, Run, This
  <2>2. ArgoTypeOK'
    BY <1>1, <1>3, <2>1, SyncedType DEF Dies, ArgoTypeOK, GoesWrong
  <2> QED
    BY <1>1, <2>2, Ends
<1> QED
  BY <1>2, <1>3 DEF Dies

\* A call that fails takes its application out of the standing ones.
LEMMA CallFailsKeeps == IInv /\ CallFails => IInv'
<1> SUFFICES ASSUME IInv, CallFails PROVE IInv'
  OBVIOUS
<1>1. ArgoTypeOK /\ ArgoTypeOK' /\ Sound(det) /\ det \in Run
  BY DEF IInv, Sound, CallFails, argoVars, ArgoTypeOK, GoesWrong
<1>2. \A a \in det.standing :
         Drifted(a) /\ (a \in det.drifted \/ Left(det, a))
  BY <1>1 DEF Sound, StandIn
<1>3. det.drifted = det.real
  BY <1>1 DEF Sound
<1>4. CASE det.pc = "list" /\ Goes(Idle)
  BY <1>1, <1>4, Ends
<1> DEFINE rest == det.standing \ {This}
<1>5. rest \in SUBSET Apps
  BY <1>1 DEF Run
<1>6. det.pc \in InTurn => det.todo \in Seq(Apps) /\ det.todo # <<>>
  BY <1>1 DEF Sound, TurnIn, Run
<1>7. CASE det.pc = "desired"
  <2> DEFINE d == [det EXCEPT !.pc = "live", !.hash = None,
                              !.standing = @ \ {This}]
  <2>1. Goes(d)
    BY <1>7 DEF CallFails
  <2>2. d \in Run
    BY <1>1, <1>5 DEF Run
  <2>3. /\ d.pc = "live" /\ d.todo = det.todo /\ d.hash = None
        /\ d.standing = rest
        /\ d.drifted = det.drifted /\ d.real = det.real
    BY <1>1 DEF Run
  <2> HIDE DEF d
  <2>4. TurnIn(d)
    BY <1>6, <1>7, <2>3 DEF TurnIn, InTurn
  <2>5. StandIn(d)
    BY <1>2, <1>7, <2>3 DEF StandIn, Left, InTurn, This
  <2>6. Sound(d)
    BY <1>3, <2>2, <2>3, <2>4, <2>5 DEF Sound
  <2> QED
    BY <1>1, <2>1, <2>3, <2>6, Settles
<1>8. CASE det.pc \in {"live", "sync"}
  <2> DEFINE d == [det EXCEPT !.standing = @ \ {This}]
  <2>1. Goes(NextApp(d))
    BY <1>8 DEF CallFails
  <2>2. d \in Run
    BY <1>1, <1>5 DEF Run
  <2>3. /\ d.pc = det.pc /\ d.todo = det.todo /\ d.standing = rest
        /\ d.drifted = det.drifted /\ d.real = det.real
    BY <1>1 DEF Run
  <2> HIDE DEF d
  <2>4. \A a \in d.standing :
           /\ Drifted(a)
           /\ a \in d.drifted \/ (Left(d, a) /\ a # d.todo[1])
    BY <1>2, <2>3 DEF Left, This
  <2>5. Sound(NextApp(d)) /\ NextApp(d).pc # "live"
    BY <1>3, <1>6, <1>8, <2>2, <2>3, <2>4, Advances DEF InTurn
  <2> QED
    BY <1>1, <2>1, <2>5, Settles
<1> QED
  BY <1>4, <1>7, <1>8 DEF CallFails

LEMMA Stutters == IInv /\ UNCHANGED vars => IInv'
<1> SUFFICES ASSUME IInv, UNCHANGED vars PROVE IInv'
  OBVIOUS
<1>1. UNCHANGED <<desired, live, op, trouble, det>>
  BY DEF vars, argoVars
<1>2. ArgoTypeOK' /\ AgreeInv'
  BY <1>1 DEF IInv, ArgoTypeOK, AgreeInv, This, DesiredHash
<1>3. Sound(det)'
  BY <1>1 DEF IInv, Sound, TurnIn, StandIn, Drifted, OutOfSync, DesiredHash,
              Left
<1> QED
  BY <1>2, <1>3 DEF IInv

-----------------------------------------------------------------------------
(* The theorems.                                                           *)

THEOREM Invariant == Spec => []IInv
<1>1. Init => IInv
  BY Initial
<1>2. IInv /\ [Next]_vars => IInv'
  BY ArgoStepKeeps, StartKeeps, ListApplicationsKeeps, GetDesiredHashKeeps,
     GetLiveHashKeeps, TriggerSyncKeeps, ReportKeeps, CallFailsKeeps,
     DiesKeeps, Stutters DEF Next, Step
<1> QED
  BY <1>1, <1>2, PTL DEF Spec

\* The variables of the applications and the run keep their types, and a run
\* that is over has left nothing behind for the next (the lists of main are
\* local variables).
THEOREM TypeCorrect == Spec => []TypeOK
<1>1. IInv => TypeOK
  BY DEF IInv, Sound, TypeOK, Idle
<1> QED
  BY <1>1, Invariant, PTL

\* What check_app_drift counts as drift was out of sync while the two hashes
\* were being read, for any number of applications and revisions, whatever
\* commits, syncs, edits and failed calls come between the two requests.
THEOREM NoFalseAlarms == Spec => []NoFalseAlarm
<1>1. IInv => NoFalseAlarm
  BY DEF IInv, Sound, NoFalseAlarm
<1> QED
  BY <1>1, Invariant, PTL

\* The message to Slack names every application with standing drift whose calls
\* were answered: the loop of main passes over none of them, whatever the list
\* Argo CD returns and whatever happened to the applications before it.
THEOREM StandingReported == Spec => []StandingDriftReported
<1>1. IInv => StandingDriftReported
  BY DEF IInv, Sound, StandIn, Left, InTurn, StandingDriftReported
<1> QED
  BY <1>1, Invariant, PTL

=============================================================================
