--------------------------- MODULE RolloutProofs ---------------------------
(***************************************************************************)
(* Proofs about the roll-out of the scaffold, for all constants: any       *)
(* number of repositories, files, templates and overlapping runs, any      *)
(* number of edits and of calls that go wrong.                             *)
(***************************************************************************)
EXTENDS ScaffoldRollout, FiniteSetTheorems, SequenceTheorems, TLAPS

-----------------------------------------------------------------------------
(* The constants, sequences, and object IDs.                               *)

LEMMA TemplateFacts ==
    /\ Pushes \subseteq Nat \ {0} /\ 1 \in Pushes
    /\ \A v \in Pushes : /\ Templates[v].content \in [Files -> Nat]
                         /\ Templates[v].changed \subseteq Files
                         /\ 1..v \subseteq Pushes
<1>1. /\ Templates \in Seq([content : [Files -> Nat], changed : SUBSET Files])
      /\ Templates # <<>>
  BY ReposAssumption
<1> DEFINE Template == [content : [Files -> Nat], changed : SUBSET Files]
<1>2. /\ Len(Templates) \in Nat \ {0} /\ DOMAIN Templates = 1..Len(Templates)
      /\ \A v \in 1..Len(Templates) : Templates[v] \in Template
  <2>1. Templates \in Seq(Template)
    BY <1>1
  <2> HIDE DEF Template
  <2> QED
    BY <1>1, <2>1
<1>3. \A l \in Nat \ {0} : /\ 1..l \subseteq Nat \ {0} /\ 1 \in 1..l
                           /\ \A v \in 1..l : 1..v \subseteq 1..l
  OBVIOUS
<1> QED
  BY <1>2, <1>3 DEF Pushes

LEMMA BranchFacts ==
    /\ BootstrapBranch \in Branches /\ BootstrapBranch \notin Pushes
    /\ Pushes \subseteq Branches /\ BootstrapBranch = 0
  BY TemplateFacts DEF Branches, BootstrapBranch

LEMMA ContentFacts ==
    /\ Nothing \in Contents
    /\ [Files -> Nat] \subseteq Contents
    /\ \A c, d \in Contents : Over(c, d) \in Contents
  BY DEF Nothing, Contents, Absent, Over, Own

\* The list of what is left, when its first repository has been dealt with.
LEMMA TailFacts ==
    ASSUME NEW S, NEW s \in Seq(S), s # <<>>
    PROVE  /\ Tail(s) \in Seq(S) /\ s[1] \in S
           /\ Len(s) = 1 <=> Tail(s) = <<>>
           /\ ToSet(s) \subseteq {s[1]} \cup ToSet(Tail(s))
<1>1. /\ Tail(s) \in Seq(S) /\ s[1] \in S
      /\ Len(s) \in Nat /\ Len(s) # 0 /\ Len(Tail(s)) = Len(s) - 1
      /\ DOMAIN s = 1..Len(s) /\ DOMAIN Tail(s) = 1..(Len(s) - 1)
  OBVIOUS
<1>2. Len(s) = 1 <=> Tail(s) = <<>>
  <2>1. Tail(s) = <<>> <=> Len(Tail(s)) = 0
    BY <1>1, EmptySeq
  <2> QED
    BY <1>1, <2>1
<1>3. ASSUME NEW i \in DOMAIN s, i # 1
      PROVE  s[i] \in ToSet(Tail(s))
  <2>1. i - 1 \in DOMAIN Tail(s) /\ Tail(s)[i - 1] = s[i]
    BY <1>1, <1>3
  <2> QED
    BY <2>1 DEF ToSet
<1> QED
  BY <1>1, <1>2, <1>3 DEF ToSet

LEMMA NobodysList == ToSet(<<>>) = {}
  BY DEF ToSet

\* There is always an object ID that no run remembers.
LEMMA NewCommitFacts ==
    ASSUME run \in [Runs -> Run]
    PROVE  NewCommit \in Nat \ {0}
<1> DEFINE n == Cardinality(Runs)
           IDs == 1..(n + 1)
           holder == [oid \in IDs |-> CHOOSE k \in Runs : run[k].old = oid]
<1>1. n \in Nat
  BY RolloutAssumption, FS_CardinalityType
<1>2. \E oid \in IDs : \A k \in Runs : run[k].old # oid
  <2> SUFFICES ASSUME \A oid \in IDs : \E k \in Runs : run[k].old = oid
               PROVE  FALSE
    OBVIOUS
  <2>1. holder \in [IDs -> Runs]
    OBVIOUS
  <2>2. \A oid \in IDs : run[holder[oid]].old = oid
    OBVIOUS
  <2>3. IsFiniteSet(IDs) /\ Cardinality(IDs) = n + 1
    BY <1>1, FS_Interval
  <2>4. \E x, y \in IDs : x # y /\ holder[x] = holder[y]
    <3> HIDE DEF n, IDs, holder
    <3> QED
      BY <1>1, <2>1, <2>3, RolloutAssumption, FS_PigeonHole DEF n
  <2> QED
    BY <2>2, <2>4
<1>3. NewCommit \in IDs
  BY <1>2 DEF NewCommit
<1> QED
  BY <1>1, <1>3

-----------------------------------------------------------------------------
(* What Observed adds to the record of a run.                              *)

\* The reasons a repository lacks after the step, for a run of this kind.
Lacking(kind, r) ==
    {x \in Reasons :
        \/ x = "optOut" /\ ~repo'[r].optOut
        \/ x = "manifest" /\ kind # "propagate"
                          /\ repo'[r].main[Manifest] = Absent}

LEMMA ObservedFields ==
    ASSUME NEW s \in Run
    PROVE  LET o == Observed(s)
           IN  /\ o \in Run
               /\ o.kind = s.kind /\ o.dry = s.dry /\ o.push = s.push
               /\ o.todo = s.todo /\ o.pc = s.pc /\ o.old = s.old
               /\ o.files = s.files /\ o.failed = s.failed
               /\ o.misread = s.misread
               /\ o.unseen \subseteq s.unseen
               /\ \A r \in o.unseen : ~SettledFor(repo'[r], s.kind, s.push)
               /\ s.lacked \subseteq o.lacked
               /\ s.pc \in Calls \ {"ref"} =>
                     Lacking(s.kind, s.todo[1]) \subseteq o.lacked
               /\ s.pc \notin Calls \ {"ref"} => o.lacked = s.lacked
<1> DEFINE lacks(r) ==
               (IF repo'[r].optOut THEN {} ELSE {"optOut"})
               \cup (IF s.kind = "propagate" \/ repo'[r].main[Manifest] # Absent
                     THEN {} ELSE {"manifest"})
           unseen == {r \in s.unseen : ~SettledFor(repo'[r], s.kind, s.push)}
           lacked == IF s.pc \in Calls \ {"ref"}
                     THEN s.lacked \cup lacks(s.todo[1]) ELSE s.lacked
<1>1. Observed(s) = [s EXCEPT !.unseen = unseen, !.lacked = lacked]
  BY DEF Observed
<1>2. \A r : lacks(r) = Lacking(s.kind, r)
  BY DEF Lacking, Reasons
<1>3. unseen \subseteq s.unseen /\ unseen \in SUBSET Repos
  BY DEF Run
<1>4. lacked \in SUBSET Reasons
  BY DEF Run, Reasons
<1>5. /\ s.lacked \subseteq lacked
      /\ s.pc \in Calls \ {"ref"} => Lacking(s.kind, s.todo[1]) \subseteq lacked
      /\ s.pc \notin Calls \ {"ref"} => lacked = s.lacked
  <2> HIDE DEF lacks
  <2> QED
    BY <1>2
<1>6. \A r \in unseen : ~SettledFor(repo'[r], s.kind, s.push)
  OBVIOUS
<1> HIDE DEF unseen, lacked
<1>7. [s EXCEPT !.unseen = unseen, !.lacked = lacked] \in Run
  BY <1>3, <1>4 DEF Run
<1> QED
  BY <1>1, <1>3, <1>5, <1>6, <1>7 DEF Run

\* Watching does not change what is said of a run.
LEMMA ObservedKeeps ==
    ASSUME NEW s \in Run, Sane(s)
    PROVE  Observed(s) \in Run /\ Sane(Observed(s))
<1> DEFINE o == Observed(s)
<1>1. /\ o \in Run
      /\ o.kind = s.kind /\ o.dry = s.dry /\ o.push = s.push
      /\ o.todo = s.todo /\ o.pc = s.pc
      /\ o.files = s.files /\ o.failed = s.failed
      /\ o.misread = s.misread
      /\ o.unseen \subseteq s.unseen
      /\ s.lacked \subseteq o.lacked
  BY ObservedFields
<1> HIDE DEF o
<1>2. /\ FoundLacking(s) \subseteq FoundLacking(o)
      /\ \A r : HidItsScaffold(o, r) <=> HidItsScaffold(s, r)
  BY <1>1 DEF FoundLacking, HidItsScaffold
<1>3. s.pc \in {"base", "push", "create"} => Carries(o)
  BY <1>1 DEF Sane, Carries
<1>4. Sane(o)
  BY <1>1, <1>2, <1>3 DEF Sane
<1> QED
  BY <1>1, <1>4 DEF o

\* The next repository's turn: the last one has failed or has been settled, or
\* hid its scaffold.
LEMMA NextTurn ==
    ASSUME NEW s \in Run, Sane(s), s.pc \in Calls,
           NEW t \in Run,
           t.kind = s.kind, t.dry = s.dry, t.push = s.push,
           t.todo = Tail(s.todo),
           t.pc = IF Len(s.todo) = 1 THEN "done" ELSE "ref",
           t.unseen \subseteq s.unseen, t.misread = s.misread,
           \/ t.failed
           \/ ~s.failed /\ (s.todo[1] \notin t.unseen
                            \/ HidItsScaffold(s, s.todo[1]))
    PROVE  Sane(t)
<1>1. s.todo \in Seq(Repos) /\ s.todo # <<>>
  BY DEF Run, Sane
<1>2. /\ Len(s.todo) = 1 <=> t.todo = <<>>
      /\ ToSet(s.todo) \subseteq {s.todo[1]} \cup ToSet(t.todo)
  BY <1>1, TailFacts
<1>3. s.kind # "idle"
  BY DEF Sane, Calls
<1>4. ASSUME ~t.failed, NEW r \in t.unseen
      PROVE  r \in ToSet(t.todo) \/ HidItsScaffold(t, r)
  <2>1. s.pc # "raised" /\ ~s.failed
    BY <1>4 DEF Calls
  <2>2. r \in ToSet(s.todo) \/ HidItsScaffold(s, r)
    BY <1>4, <2>1 DEF Sane
  <2>3. HidItsScaffold(s, r) => HidItsScaffold(t, r)
    BY DEF HidItsScaffold
  <2>4. r = s.todo[1] => HidItsScaffold(s, r)
    BY <1>4
  <2> QED
    BY <1>2, <2>2, <2>3, <2>4
<1>5. s.dry => t.unseen = {}
  BY DEF Sane
<1> QED
  BY <1>2, <1>3, <1>4, <1>5 DEF Sane, Calls, InTry, BeforeTry

-----------------------------------------------------------------------------
(* What each action does to the runs.                                      *)

RunsKept == run' \in [Runs -> Run] /\ RunsInv'

LEMMA BecomesKeeps ==
    ASSUME run \in [Runs -> Run], RunsInv, pushed' = pushed,
           NEW j \in Runs, NEW s \in Run, Sane(Observed(s)),
           s.kind = "idle" \/ s.push \in 1..pushed,
           Becomes(j, s)
    PROVE  RunsKept
<1>1. ASSUME NEW k \in Runs
      PROVE  /\ run'[k] \in Run /\ Sane(run'[k])
             /\ run'[k].kind # "idle" => run'[k].push \in 1..pushed
  <2>1. CASE k = j
    <3>1. run'[k] = Observed(s)
      BY <2>1 DEF Becomes
    <3> QED
      BY <3>1, ObservedFields
  <2>2. CASE k # j
    <3>1. run'[k] = Observed(run[k])
      BY <2>2 DEF Becomes
    <3>2. run[k] \in Run /\ Sane(run[k])
      BY DEF RunsInv
    <3>3. Observed(run[k]) \in Run /\ Sane(Observed(run[k]))
      BY <3>2, ObservedKeeps
    <3>4. /\ Observed(run[k]).kind = run[k].kind
          /\ Observed(run[k]).push = run[k].push
      BY <3>2, ObservedFields
    <3> QED
      BY <3>1, <3>3, <3>4 DEF RunsInv
  <2> QED
    BY <2>1, <2>2
<1>2. run' \in [Runs -> Run]
  BY <1>1 DEF Becomes
<1> QED
  BY <1>1, <1>2 DEF RunsKept, RunsInv

\* The same with nothing to learn from what is observed.
LEMMA BecomesSane ==
    ASSUME run \in [Runs -> Run], RunsInv, pushed' = pushed,
           NEW j \in Runs, NEW s \in Run, Sane(s),
           s.kind = "idle" \/ s.push \in 1..pushed,
           Becomes(j, s)
    PROVE  RunsKept
<1>1. Sane(Observed(s))
  BY ObservedKeeps
<1> QED
  BY <1>1, BecomesKeeps

\* A run that is at one of its calls.
LEMMA Working ==
    ASSUME run \in [Runs -> Run], RunsInv, NEW j \in Runs, run[j].pc \in Calls
    PROVE  /\ run[j] \in Run /\ Sane(run[j])
           /\ run[j].kind \in {"bootstrap", "propagate"}
           /\ run[j].push \in 1..pushed
           /\ run[j].todo \in Seq(Repos) /\ run[j].todo # <<>>
           /\ Current(j) = run[j].todo[1] /\ Current(j) \in Repos
           /\ Tail(run[j].todo) \in Seq(Repos)
<1>1. run[j] \in Run /\ Sane(run[j])
  BY DEF RunsInv
<1>2. run[j].kind # "idle"
  BY <1>1 DEF Sane, Calls
<1>3. run[j].todo \in Seq(Repos) /\ run[j].todo # <<>>
  BY <1>1 DEF Sane, Run
<1>4. Current(j) \in Repos /\ Tail(run[j].todo) \in Seq(Repos)
  BY <1>3, TailFacts DEF Current
<1> QED
  BY <1>1, <1>2, <1>3, <1>4 DEF RunsInv, Run, Current

\* process_repo has returned.  What it skipped has to be settled, or to have
\* hidden its scaffold.
LEMMA AdvancedFrom ==
    ASSUME run \in [Runs -> Run], RunsInv, pushed' = pushed,
           NEW j \in Runs,
           NEW s \in Run, Sane(s), s.pc \in Calls, s.push \in 1..pushed,
           NEW failed \in BOOLEAN,
           \/ failed \/ s.unseen = {}
           \/ SettledFor(repo'[s.todo[1]], s.kind, s.push)
           \/ HidItsScaffold(s, s.todo[1]),
           Becomes(j, Advanced(s, failed))
    PROVE  RunsKept
<1> DEFINE t == Advanced(s, failed)
           o == Observed(t)
<1>1. Tail(s.todo) \in Seq(Repos)
  <2>1. s.todo \in Seq(Repos) /\ s.todo # <<>>
    BY DEF Run, Sane
  <2> QED
    BY <2>1, TailFacts
<1>2. /\ t \in Run
      /\ t.kind = s.kind /\ t.dry = s.dry /\ t.push = s.push
      /\ t.todo = Tail(s.todo)
      /\ t.pc = IF Len(s.todo) = 1 THEN "done" ELSE "ref"
      /\ t.unseen = s.unseen /\ t.misread = s.misread
      /\ failed \/ s.failed <=> t.failed
  <2>1. (s.failed \/ failed) \in BOOLEAN
    BY Zenon
  <2>2. Nothing \in Contents /\ {} \subseteq Reasons
    BY ContentFacts
  <2>3. /\ t \in Run
        /\ t.kind = s.kind /\ t.dry = s.dry /\ t.push = s.push
        /\ t.todo = Tail(s.todo)
        /\ t.pc = IF Len(s.todo) = 1 THEN "done" ELSE "ref"
        /\ t.unseen = s.unseen /\ t.misread = s.misread
    BY <1>1, <2>1, <2>2 DEF Advanced, Run, Ends, Calls, NoCommit
  <2>4. t.failed = (s.failed \/ failed)
    BY <1>1 DEF Advanced, Run
  <2> QED
    BY <2>3, <2>4
<1> HIDE DEF t
<1>3. /\ o \in Run
      /\ o.kind = t.kind /\ o.dry = t.dry /\ o.push = t.push
      /\ o.todo = t.todo /\ o.pc = t.pc
      /\ o.failed = t.failed /\ o.misread = t.misread
      /\ o.unseen \subseteq t.unseen
      /\ \A r \in o.unseen : ~SettledFor(repo'[r], t.kind, t.push)
  BY <1>2, ObservedFields
<1> HIDE DEF o
<1>4. \/ o.failed
      \/ ~s.failed /\ (s.todo[1] \notin o.unseen
                       \/ HidItsScaffold(s, s.todo[1]))
  BY <1>1, <1>2, <1>3
<1>5. Sane(o)
  BY <1>1, <1>2, <1>3, <1>4, NextTurn
<1>6. Becomes(j, t) /\ Sane(Observed(t))
  BY <1>5 DEF o, t
<1>7. t.push \in 1..pushed
  BY <1>1, <1>2
<1> QED
  BY <1>2, <1>6, <1>7, BecomesKeeps

LEMMA AdvancedKeeps ==
    ASSUME run \in [Runs -> Run], RunsInv, pushed' = pushed,
           NEW j \in Runs, run[j].pc \in Calls,
           NEW failed \in BOOLEAN,
           \/ failed \/ run[j].unseen = {}
           \/ SettledFor(repo'[Current(j)], run[j].kind, run[j].push),
           Becomes(j, Advanced(run[j], failed))
    PROVE  RunsKept
  BY Working, AdvancedFrom

LEMMA RaisedKeeps ==
    ASSUME run \in [Runs -> Run], RunsInv, pushed' = pushed,
           NEW j \in Runs, run[j].pc \in Calls, Raised(j)
    PROVE  RunsKept
<1> DEFINE s == run[j]
           t == [s EXCEPT !.pc = "raised", !.todo = <<>>, !.old = NoCommit,
                          !.files = Nothing, !.lacked = {}]
<1>1. /\ s \in Run /\ Sane(s) /\ s.kind # "idle" /\ s.push \in 1..pushed
  BY Working
<1>2. t \in Run
  <2>1. Nothing \in Contents /\ {} \subseteq Reasons /\ <<>> \in Seq(Repos)
    BY ContentFacts
  <2> QED
    BY <1>1, <2>1 DEF Run, Ends, NoCommit
<1>3. /\ t.kind = s.kind /\ t.dry = s.dry /\ t.push = s.push
      /\ t.todo = <<>> /\ t.pc = "raised" /\ t.unseen = s.unseen
  BY <1>1 DEF Run
<1>4. Becomes(j, t)
  BY DEF Raised
<1> HIDE DEF t
<1>5. Sane(t)
  BY <1>1, <1>3 DEF Sane, Calls, InTry, BeforeTry
<1> QED
  BY <1>1, <1>2, <1>3, <1>4, <1>5, BecomesSane

\* The run makes another call for the same repository.
LEMMA NextCall ==
    ASSUME run \in [Runs -> Run], RunsInv, pushed' = pushed,
           NEW j \in Runs, run[j].pc \in Calls,
           NEW t \in Run,
           t.kind = run[j].kind, t.dry = run[j].dry, t.push = run[j].push,
           t.todo = run[j].todo, t.unseen = run[j].unseen,
           t.failed = run[j].failed, run[j].misread \subseteq t.misread,
           t.pc \in Calls \ {"ref"},
           t.pc = "optOut" => t.kind = "bootstrap",
           t.pc = "compare" => t.kind = "propagate",
           t.pc \in {"base", "push", "create"} => Carries(t),
           t.dry => t.pc \notin InTry,
           t.kind = "bootstrap" /\ t.pc = "manifest" =>
               "optOut" \in FoundLacking(t) \cup Lacking(t.kind, Current(j)),
           t.kind = "bootstrap" /\ t.pc \in InTry \cup {"prs"} =>
               Reasons \subseteq
                   FoundLacking(t) \cup Lacking(t.kind, Current(j)),
           Becomes(j, t)
    PROVE  RunsKept
<1> DEFINE s == run[j]
           o == Observed(t)
<1>1. /\ s \in Run /\ Sane(s) /\ s.push \in 1..pushed
      /\ s.todo[1] = Current(j) /\ s.kind # "idle" /\ s.todo # <<>>
  BY Working
<1>2. /\ o \in Run
      /\ o.kind = t.kind /\ o.dry = t.dry /\ o.push = t.push
      /\ o.todo = t.todo /\ o.pc = t.pc
      /\ o.files = t.files /\ o.failed = t.failed
      /\ o.misread = t.misread
      /\ o.unseen \subseteq t.unseen
      /\ t.lacked \cup Lacking(t.kind, Current(j)) \subseteq o.lacked
  <2>1. t.pc \in Calls \ {"ref"} /\ t.todo[1] = Current(j)
    BY <1>1
  <2> QED
    BY <2>1, ObservedFields
<1> HIDE DEF o
<1>3. FoundLacking(t) \cup Lacking(t.kind, Current(j)) \subseteq FoundLacking(o)
  BY <1>2 DEF FoundLacking
<1>4. t.pc \in {"base", "push", "create"} => Carries(o)
  BY <1>2 DEF Carries
<1>5. ~o.failed =>
        \A r \in o.unseen : r \in ToSet(o.todo) \/ HidItsScaffold(o, r)
  BY <1>1, <1>2 DEF Sane, Calls, HidItsScaffold
<1>6. /\ o.dry => o.pc \notin InTry /\ o.unseen = {}
      /\ o.kind = "bootstrap" =>
            /\ o.pc = "manifest" => "optOut" \in FoundLacking(o)
            /\ o.pc \in InTry \cup {"prs"} => Reasons \subseteq FoundLacking(o)
  BY <1>1, <1>2, <1>3 DEF Sane
<1>7. /\ o.kind # "idle" /\ o.pc # "idle" /\ o.pc \in Calls /\ o.todo # <<>>
      /\ o.pc = "optOut" => o.kind = "bootstrap"
      /\ o.pc = "compare" => o.kind = "propagate"
      /\ o.pc \in {"base", "push", "create"} => Carries(o)
  BY <1>1, <1>2, <1>4 DEF Calls
<1>8. Sane(o)
  BY <1>5, <1>6, <1>7 DEF Sane
<1>9. Sane(Observed(t)) /\ t.push \in 1..pushed
  BY <1>1, <1>8 DEF o
<1> QED
  BY <1>9, BecomesKeeps

\* The same for a call that needs nothing more.
LEMMA GoesKeeps ==
    ASSUME run \in [Runs -> Run], RunsInv, pushed' = pushed,
           NEW j \in Runs, run[j].pc \in Calls,
           NEW call \in Calls \ {"ref"}, Goes(j, call),
           call = "optOut" => run[j].kind = "bootstrap",
           call = "compare" => run[j].kind = "propagate",
           call \in {"base", "push", "create"} => Carries(run[j]),
           run[j].dry => call \notin InTry,
           run[j].kind = "bootstrap" /\ call = "manifest" =>
               "optOut" \in FoundLacking(run[j])
                           \cup Lacking(run[j].kind, Current(j)),
           run[j].kind = "bootstrap" /\ call \in InTry \cup {"prs"} =>
               Reasons \subseteq FoundLacking(run[j])
                                 \cup Lacking(run[j].kind, Current(j))
    PROVE  RunsKept
<1> DEFINE s == run[j]
           t == [s EXCEPT !.pc = call]
<1>1. s \in Run
  BY Working
<1>2. /\ t \in Run /\ t.pc = call
      /\ t.kind = s.kind /\ t.dry = s.dry /\ t.push = s.push
      /\ t.todo = s.todo /\ t.unseen = s.unseen /\ t.files = s.files
      /\ t.failed = s.failed /\ t.misread = s.misread
      /\ FoundLacking(t) = FoundLacking(s)
  BY <1>1 DEF Run, Calls, FoundLacking
<1>3. Becomes(j, t)
  BY DEF Goes
<1> HIDE DEF t
<1>4. t.pc \in {"base", "push", "create"} => Carries(t)
  BY <1>2 DEF Carries
<1> QED
  BY <1>2, <1>3, <1>4, NextCall

LEMMA GetDefaultBranchKeeps ==
    ASSUME TypeOK, RunsInv, NEW j \in Runs, GetDefaultBranch(j)
    PROVE  RunsKept
<1>1. /\ run \in [Runs -> Run] /\ pushed' = pushed /\ repo' = repo
      /\ run[j].pc = "ref" /\ run[j].pc \in Calls
  BY DEF TypeOK, GetDefaultBranch, Quiet, outside, Calls
<1>2. CASE repo[Current(j)].exists
  <2> DEFINE c == IF Bootstrapping(j) THEN "optOut" ELSE "manifest"
  <2>1. Goes(j, c)
    BY <1>2 DEF GetDefaultBranch, Goes
  <2>2. /\ c \in {"optOut", "manifest"}
        /\ run[j].kind = "bootstrap" <=> c = "optOut"
    BY DEF Bootstrapping
  <2> HIDE DEF c
  <2> QED
    BY <1>1, <2>1, <2>2, GoesKeeps DEF Calls, InTry, BeforeTry
<1>3. CASE ~repo[Current(j)].exists
  <2>1. Becomes(j, Advanced(run[j], FALSE))
    BY <1>3 DEF GetDefaultBranch, Skipped
  <2>2. SettledFor(repo'[Current(j)], run[j].kind, run[j].push)
    BY <1>1, <1>3 DEF SettledFor
  <2> QED
    BY <1>1, <2>1, <2>2, AdvancedKeeps
<1> QED
  BY <1>2, <1>3

LEMMA CheckOptOutKeeps ==
    ASSUME TypeOK, RunsInv, NEW j \in Runs, CheckOptOut(j)
    PROVE  RunsKept
<1>1. /\ run \in [Runs -> Run] /\ pushed' = pushed /\ repo' = repo
      /\ run[j].pc = "optOut" /\ run[j].pc \in Calls
  BY DEF TypeOK, CheckOptOut, Quiet, outside, Calls
<1>2. run[j].kind = "bootstrap"
  BY <1>1 DEF RunsInv, Sane
<1>3. CASE repo[Current(j)].optOut
  <2>1. Becomes(j, Advanced(run[j], FALSE))
    BY <1>3 DEF CheckOptOut, Skipped
  <2>2. SettledFor(repo'[Current(j)], run[j].kind, run[j].push)
    BY <1>1, <1>2, <1>3 DEF SettledFor
  <2> QED
    BY <1>1, <2>1, <2>2, AdvancedKeeps
<1>4. CASE ~repo[Current(j)].optOut
  <2>1. Goes(j, "manifest")
    BY <1>4 DEF CheckOptOut
  <2>2. "optOut" \in Lacking(run[j].kind, Current(j))
    BY <1>1, <1>4 DEF Lacking, Reasons
  <2> QED
    BY <1>1, <2>1, <2>2, GoesKeeps DEF Calls, InTry, BeforeTry
<1> QED
  BY <1>3, <1>4

LEMMA CheckManifestKeeps ==
    ASSUME TypeOK, RunsInv, NEW j \in Runs, CheckManifest(j)
    PROVE  RunsKept
<1>1. /\ run \in [Runs -> Run] /\ pushed' = pushed /\ repo' = repo
      /\ run[j].pc = "manifest" /\ run[j].pc \in Calls
  BY DEF TypeOK, CheckManifest, Quiet, outside, Calls
<1>2. /\ run[j].kind \in {"bootstrap", "propagate"}
      /\ run[j].kind = "bootstrap" => "optOut" \in FoundLacking(run[j])
  BY <1>1, Working DEF Sane
<1>3. CASE HasFile(Current(j), Manifest) = Bootstrapping(j)
  <2>1. Becomes(j, Advanced(run[j], FALSE))
    BY <1>3 DEF CheckManifest, Skipped
  <2>2. SettledFor(repo'[Current(j)], run[j].kind, run[j].push)
    BY <1>1, <1>2, <1>3 DEF SettledFor, HasFile, Bootstrapping
  <2> QED
    BY <1>1, <2>1, <2>2, AdvancedKeeps
<1>4. CASE HasFile(Current(j), Manifest) # Bootstrapping(j)
  <2>1. Goes(j, "prs")
    BY <1>4 DEF CheckManifest
  <2>2. run[j].kind = "bootstrap" =>
           "manifest" \in Lacking(run[j].kind, Current(j))
    BY <1>1, <1>4 DEF Lacking, Reasons, HasFile, Bootstrapping
  <2>3. run[j].kind = "bootstrap" =>
           Reasons \subseteq FoundLacking(run[j])
                             \cup Lacking(run[j].kind, Current(j))
    BY <1>2, <2>2 DEF Reasons
  <2> QED
    BY <1>1, <2>1, <2>3, GoesKeeps DEF Calls, InTry, BeforeTry
<1> QED
  BY <1>3, <1>4

\* The files a run is about to carry.
LEMMA FilesFacts ==
    ASSUME TypeOK, RunsInv, NEW j \in Runs, run[j].pc \in Calls
    PROVE  /\ Rendered(j) \in Contents
           /\ Changed(j) \in Contents
           /\ Differing(j) \in Contents
           /\ \A f \in Files :
                 /\ Changed(j)[f] # Absent =>
                       /\ f \in Templates[run[j].push].changed
                       /\ Changed(j)[f] = Rendered(j)[f]
                 /\ Differing(j)[f] # Absent => Differing(j)[f] = Changed(j)[f]
<1>1. run[j].push \in 1..pushed /\ pushed \in Pushes
  BY Working DEF TypeOK
<1>2. run[j].push \in Pushes
  BY <1>1, TemplateFacts
<1>3. Rendered(j) \in [Files -> Nat]
  BY <1>2, TemplateFacts DEF Rendered
<1>4. Changed(j) \in [Files -> Nat]
  BY <1>3 DEF Changed, Absent
<1>5. Differing(j) \in [Files -> Nat]
  BY <1>4 DEF Differing, Absent
<1>6. \A f \in Files :
         /\ Changed(j)[f] # Absent =>
               /\ f \in Templates[run[j].push].changed
               /\ Changed(j)[f] = Rendered(j)[f]
         /\ Differing(j)[f] # Absent => Differing(j)[f] = Changed(j)[f]
  BY DEF Changed, Differing, Absent
<1> QED
  BY <1>3, <1>4, <1>5, <1>6, ContentFacts

LEMMA CheckPullRequestKeeps ==
    ASSUME TypeOK, RunsInv, NEW j \in Runs, CheckPullRequest(j)
    PROVE  RunsKept
<1>1. /\ run \in [Runs -> Run] /\ pushed' = pushed /\ repo' = repo
      /\ run[j].pc = "prs" /\ run[j].pc \in Calls
  BY DEF TypeOK, CheckPullRequest, Quiet, outside, Calls
<1>2. /\ run[j].kind \in {"bootstrap", "propagate"}
      /\ run[j].kind = "bootstrap" => Reasons \subseteq FoundLacking(run[j])
      /\ run[j].dry => run[j].unseen = {}
      /\ run[j] \in Run
  BY <1>1, Working DEF Sane
<1>3. CASE PrExists(Current(j), BranchOf(j)) \/ run[j].dry
  <2>1. Becomes(j, Advanced(run[j], FALSE))
    BY <1>3 DEF CheckPullRequest, Skipped
  <2>2. CASE PrExists(Current(j), BranchOf(j))
    <3>1. SettledFor(repo'[Current(j)], run[j].kind, run[j].push)
      BY <1>1, <1>2, <2>2 DEF SettledFor, PrExists, BranchOf
    <3> QED
      BY <1>1, <2>1, <3>1, AdvancedKeeps
  <2>3. CASE run[j].dry
    BY <1>1, <1>2, <2>1, <2>3, AdvancedKeeps
  <2> QED
    BY <1>3, <2>2, <2>3
<1>4. CASE ~(PrExists(Current(j), BranchOf(j)) \/ run[j].dry) /\ Bootstrapping(j)
  <2> DEFINE t == [run[j] EXCEPT !.pc = "base", !.files = Rendered(j)]
  <2>1. Becomes(j, t)
    BY <1>4 DEF CheckPullRequest
  <2>2. Rendered(j) \in Contents
    BY <1>1, FilesFacts
  <2>3. /\ t \in Run /\ t.pc = "base" /\ t.files = Rendered(j)
        /\ t.kind = run[j].kind /\ t.dry = run[j].dry /\ t.push = run[j].push
        /\ t.todo = run[j].todo /\ t.unseen = run[j].unseen
        /\ t.failed = run[j].failed /\ t.misread = run[j].misread
        /\ FoundLacking(t) = FoundLacking(run[j])
    BY <1>2, <2>2 DEF Run, Calls, FoundLacking
  <2> HIDE DEF t
  <2>4. Carries(t)
    BY <1>4, <2>3 DEF Carries, Bootstrapping, Rendered
  <2>5. t.dry = FALSE
    BY <1>2, <1>4, <2>3 DEF Run
  <2> QED
    BY <1>1, <1>2, <2>1, <2>3, <2>4, <2>5, NextCall DEF Calls
<1>5. CASE ~(PrExists(Current(j), BranchOf(j)) \/ run[j].dry) /\ ~Bootstrapping(j)
  <2>1. Goes(j, "compare") /\ run[j].kind = "propagate" /\ ~run[j].dry
    BY <1>2, <1>5 DEF CheckPullRequest, Bootstrapping
  <2> QED
    BY <1>1, <2>1, GoesKeeps DEF Calls
<1> QED
  BY <1>3, <1>4, <1>5

LEMMA CompareKeeps ==
    ASSUME TypeOK, RunsInv, NEW j \in Runs, Compare(j)
    PROVE  RunsKept
<1>1. /\ run \in [Runs -> Run] /\ pushed' = pushed /\ repo' = repo
      /\ run[j].pc = "compare" /\ run[j].pc \in Calls
  BY DEF TypeOK, Compare, Quiet, outside, Calls
<1>2. /\ run[j] \in Run /\ run[j].kind = "propagate" /\ ~run[j].dry
  BY <1>1, Working DEF Sane, InTry, BeforeTry, Calls
<1>3. CASE Differing(j) = Nothing
  <2>1. Becomes(j, Advanced(run[j], FALSE))
    BY <1>3 DEF Compare, Skipped
  <2>2. ASSUME NEW f \in Files, f \in Templates[run[j].push].changed
        PROVE  Templates[run[j].push].content[f]
                  \in {Absent, repo[Current(j)].main[f]}
    <3>1. Differing(j)[f] = Absent
      BY <1>3 DEF Nothing
    <3>2. Changed(j)[f] = Templates[run[j].push].content[f]
      BY <2>2 DEF Changed, Rendered
    <3> QED
      BY <3>1, <3>2 DEF Differing
  <2>3. Templates[run[j].push].changed \subseteq Files
    <3>1. run[j].push \in 1..pushed /\ pushed \in Pushes
      BY <1>1, Working DEF TypeOK
    <3> QED
      BY <3>1, TemplateFacts
  <2>4. SettledFor(repo'[Current(j)], run[j].kind, run[j].push)
    BY <1>1, <1>2, <2>2, <2>3 DEF SettledFor
  <2> QED
    BY <1>1, <2>1, <2>4, AdvancedKeeps
<1>4. CASE Differing(j) # Nothing
  <2> DEFINE t == [run[j] EXCEPT !.pc = "base", !.files = Differing(j)]
  <2>1. Becomes(j, t)
    BY <1>4 DEF Compare
  <2>2. Differing(j) \in Contents
    BY <1>1, FilesFacts
  <2>3. /\ t \in Run /\ t.pc = "base" /\ t.files = Differing(j)
        /\ t.kind = run[j].kind /\ t.dry = run[j].dry /\ t.push = run[j].push
        /\ t.todo = run[j].todo /\ t.unseen = run[j].unseen
        /\ t.failed = run[j].failed /\ t.misread = run[j].misread
    BY <1>2, <2>2 DEF Run, Calls
  <2> HIDE DEF t
  <2>4. Carries(t)
    BY <1>1, <1>2, <2>3, FilesFacts DEF Carries, Rendered
  <2> QED
    BY <1>1, <1>2, <2>1, <2>3, <2>4, NextCall DEF Calls
<1> QED
  BY <1>3, <1>4

\* The branch a run works on.
LEMMA BranchOfFacts ==
    ASSUME TypeOK, RunsInv, NEW j \in Runs, run[j].pc \in Calls
    PROVE  /\ BranchOf(j) \in Branches
           /\ BranchOf(j) = BootstrapBranch <=> run[j].kind = "bootstrap"
           /\ run[j].kind = "propagate" =>
                 BranchOf(j) = run[j].push /\ run[j].push \in Pushes
<1>1. /\ run[j].push \in 1..pushed /\ pushed \in Pushes
      /\ run[j].kind \in {"bootstrap", "propagate"}
  BY Working DEF TypeOK
<1>2. run[j].push \in Pushes
  BY <1>1, TemplateFacts
<1> QED
  BY <1>1, <1>2, BranchFacts DEF BranchOf

LEMMA RepoFacts ==
    ASSUME AdoTypeOK, NEW r \in Repos
    PROVE  /\ repo[r] \in Repo
           /\ repo[r].head \in [Branches -> Nat]
           /\ repo[r].tree \in [Branches -> Contents]
           /\ repo[r].main \in Contents
           /\ repo[r].active \subseteq Branches
  BY DEF AdoTypeOK, Repo

LEMMA ReadHeadsKeeps ==
    ASSUME TypeOK, RunsInv, NEW j \in Runs, ReadHeads(j)
    PROVE  RunsKept
<1>1. /\ run \in [Runs -> Run] /\ pushed' = pushed /\ repo' = repo
      /\ run[j].pc = "base" /\ run[j].pc \in Calls /\ AdoTypeOK
  BY DEF TypeOK, ReadHeads, Quiet, outside, Calls
<1>2. /\ run[j] \in Run /\ ~run[j].dry /\ Carries(run[j])
      /\ run[j].kind = "bootstrap" => Reasons \subseteq FoundLacking(run[j])
  BY <1>1, Working DEF Sane, InTry, BeforeTry, Calls
<1>3. PICK old \in BranchObjectIds(Current(j), BranchOf(j)) :
         Becomes(j, [run[j] EXCEPT !.pc = "push", !.old = old])
  BY DEF ReadHeads
<1>4. old \in Nat
  <2>1. Current(j) \in Repos /\ BranchOf(j) \in Branches
    BY <1>1, Working, BranchOfFacts
  <2>2. repo[Current(j)].head \in [Branches -> Nat]
    BY <1>1, <2>1, RepoFacts
  <2> QED
    BY <1>3, <2>1, <2>2 DEF BranchObjectIds
<1> DEFINE t == [run[j] EXCEPT !.pc = "push", !.old = old]
<1>5. /\ t \in Run /\ t.pc = "push" /\ t.files = run[j].files
      /\ t.kind = run[j].kind /\ t.dry = run[j].dry /\ t.push = run[j].push
      /\ t.todo = run[j].todo /\ t.unseen = run[j].unseen
      /\ t.failed = run[j].failed /\ t.misread = run[j].misread
      /\ FoundLacking(t) = FoundLacking(run[j])
  BY <1>2, <1>4 DEF Run, Calls, FoundLacking
<1>6. Becomes(j, t)
  BY <1>3
<1> HIDE DEF t
<1>7. Carries(t)
  BY <1>2, <1>5 DEF Carries
<1> QED
  BY <1>1, <1>2, <1>5, <1>6, <1>7, NextCall DEF Calls

LEMMA FailedKeeps ==
    ASSUME run \in [Runs -> Run], RunsInv, pushed' = pushed,
           NEW j \in Runs, run[j].pc \in Calls, Failed(j)
    PROVE  RunsKept
  BY AdvancedKeeps DEF Failed

LEMMA PushFilesKeeps ==
    ASSUME TypeOK, RunsInv, NEW j \in Runs, PushFiles(j)
    PROVE  RunsKept
<1>1. /\ run \in [Runs -> Run] /\ pushed' = pushed
      /\ run[j].pc = "push" /\ run[j].pc \in Calls
  BY DEF TypeOK, PushFiles, outside, Calls
<1>2. /\ ~run[j].dry /\ Carries(run[j])
      /\ run[j].kind = "bootstrap" => Reasons \subseteq FoundLacking(run[j])
  BY <1>1, Working DEF Sane, InTry, BeforeTry, Calls
<1>3. CASE Goes(j, "create")
  BY <1>1, <1>2, <1>3, GoesKeeps DEF Calls
<1>4. CASE Failed(j)
  BY <1>1, <1>4, FailedKeeps
<1> QED
  BY <1>3, <1>4 DEF PushFiles

\* A pull request that was opened is open.
LEMMA OpenedFacts ==
    ASSUME AdoTypeOK, NEW r \in Repos, NEW b \in Branches,
           repo' = PrOpened(r, b)
    PROVE  /\ repo' \in [Repos -> Repo]
           /\ \A q \in Repos : /\ repo'[q].head = repo[q].head
                               /\ repo'[q].tree = repo[q].tree
                               /\ q # r => repo'[q] = repo[q]
           /\ repo'[r].active = repo[r].active \cup {b}
<1>1. repo \in [Repos -> Repo] /\ repo[r] \in Repo
  BY DEF AdoTypeOK
<1> DEFINE rec == [repo[r] EXCEPT !.active = @ \cup {b}]
<1>2. repo' = [repo EXCEPT ![r] = rec]
  BY <1>1 DEF PrOpened
<1>3. /\ rec \in Repo /\ rec.head = repo[r].head /\ rec.tree = repo[r].tree
      /\ rec.active = repo[r].active \cup {b}
  BY <1>1 DEF Repo
<1> HIDE DEF rec
<1> QED
  BY <1>1, <1>2, <1>3

LEMMA CreatePrKeeps ==
    ASSUME TypeOK, RunsInv, NEW j \in Runs, CreatePr(j)
    PROVE  RunsKept
<1>1. /\ run \in [Runs -> Run] /\ pushed' = pushed /\ AdoTypeOK
      /\ run[j].pc = "create" /\ run[j].pc \in Calls
  BY DEF TypeOK, CreatePr, outside, Calls
<1>2. CASE /\ repo' = PrOpened(Current(j), BranchOf(j))
           /\ Becomes(j, Advanced(run[j], FALSE))
  <2>1. /\ Current(j) \in Repos /\ BranchOf(j) \in Branches
        /\ run[j].kind \in {"bootstrap", "propagate"}
    BY <1>1, Working, BranchOfFacts
  <2>2. BranchOf(j) \in repo'[Current(j)].active
    BY <1>1, <1>2, <2>1, OpenedFacts
  <2>3. SettledFor(repo'[Current(j)], run[j].kind, run[j].push)
    BY <2>1, <2>2 DEF SettledFor, BranchOf
  <2> QED
    BY <1>1, <1>2, <2>3, AdvancedKeeps
<1>3. CASE Failed(j)
  BY <1>1, <1>3, FailedKeeps
<1> QED
  BY <1>2, <1>3 DEF CreatePr

LEMMA StepKeeps ==
    ASSUME TypeOK, RunsInv, NEW j \in Runs, Step(j)
    PROVE  RunsKept
  BY GetDefaultBranchKeeps, CheckOptOutKeeps, CheckManifestKeeps,
     CheckPullRequestKeeps, CompareKeeps, ReadHeadsKeeps, PushFilesKeeps,
     CreatePrKeeps DEF Step

LEMMA CallFailsKeeps ==
    ASSUME TypeOK, RunsInv, NEW j \in Runs, CallFails(j)
    PROVE  RunsKept
<1>1. /\ run \in [Runs -> Run] /\ pushed' = pushed /\ run[j].pc \in Calls
      /\ Raised(j) \/ Failed(j)
  BY DEF TypeOK, CallFails, outside
<1> QED
  BY <1>1, RaisedKeeps, FailedKeeps

LEMMA KilledKeeps ==
    ASSUME TypeOK, RunsInv, NEW j \in Runs, Killed(j)
    PROVE  RunsKept
<1>1. /\ run \in [Runs -> Run] /\ pushed' = pushed /\ run[j].pc \in Calls
      /\ Raised(j)
  BY DEF TypeOK, Killed, outside
<1> QED
  BY <1>1, RaisedKeeps

\* A file that is not read is one more that was found lacking.
LEMMA MissedFacts ==
    ASSUME run \in [Runs -> Run], RunsInv, NEW j \in Runs, run[j].pc \in Calls,
           NEW file \in Reasons
    PROVE  LET s == run[j]
               m == Missed(j, file)
           IN  /\ m \in Run /\ Sane(m)
               /\ m.kind = s.kind /\ m.dry = s.dry /\ m.push = s.push
               /\ m.todo = s.todo /\ m.pc = s.pc /\ m.files = s.files
               /\ m.unseen = s.unseen /\ m.failed = s.failed
               /\ s.misread \subseteq m.misread
               /\ <<m.todo[1], file>> \in m.misread
               /\ FoundLacking(m) = FoundLacking(s) \cup {file}
<1> DEFINE s == run[j]
           m == Missed(j, file)
<1>1. s \in Run /\ Sane(s) /\ s.todo[1] = Current(j) /\ Current(j) \in Repos
  BY Working
<1>2. s.misread \cup {<<Current(j), file>>} \in SUBSET (Repos \X Reasons)
  BY <1>1 DEF Run
<1>3. /\ m \in Run
      /\ m.kind = s.kind /\ m.dry = s.dry /\ m.push = s.push
      /\ m.todo = s.todo /\ m.pc = s.pc /\ m.files = s.files
      /\ m.unseen = s.unseen /\ m.failed = s.failed
      /\ m.lacked = s.lacked
      /\ m.misread = s.misread \cup {<<Current(j), file>>}
  BY <1>1, <1>2 DEF Missed, Run
<1> HIDE DEF m
<1>4. FoundLacking(m) = FoundLacking(s) \cup {file}
  BY <1>1, <1>3 DEF FoundLacking
<1>5. \A r : HidItsScaffold(s, r) => HidItsScaffold(m, r)
  BY <1>3 DEF HidItsScaffold
<1>6. s.pc \in {"base", "push", "create"} => Carries(m)
  BY <1>1, <1>3 DEF Sane, Carries
<1>7. Sane(m)
  BY <1>1, <1>3, <1>4, <1>5, <1>6 DEF Sane
<1> QED
  BY <1>1, <1>3, <1>4, <1>7 DEF m

LEMMA FileMisreadKeeps ==
    ASSUME TypeOK, RunsInv, NEW j \in Runs, FileMisread(j)
    PROVE  RunsKept
<1>1. run \in [Runs -> Run] /\ pushed' = pushed
  BY DEF TypeOK, FileMisread, outside
<1>2. CASE /\ run[j].pc = "optOut"
           /\ Becomes(j, [Missed(j, "optOut") EXCEPT !.pc = "manifest"])
  <2> DEFINE m == Missed(j, "optOut")
             t == [m EXCEPT !.pc = "manifest"]
  <2>1. run[j].pc \in Calls
    BY <1>2 DEF Calls
  <2>2. /\ m \in Run
        /\ m.kind = run[j].kind /\ m.dry = run[j].dry /\ m.push = run[j].push
        /\ m.todo = run[j].todo /\ m.unseen = run[j].unseen
        /\ m.failed = run[j].failed /\ run[j].misread \subseteq m.misread
        /\ "optOut" \in FoundLacking(m)
    BY <1>1, <2>1, MissedFacts DEF Reasons
  <2> HIDE DEF m
  <2>3. /\ t \in Run /\ t.pc = "manifest"
        /\ t.kind = m.kind /\ t.dry = m.dry /\ t.push = m.push
        /\ t.todo = m.todo /\ t.unseen = m.unseen
        /\ t.failed = m.failed /\ t.misread = m.misread
        /\ FoundLacking(t) = FoundLacking(m)
    BY <2>2 DEF Run, Calls, FoundLacking
  <2>4. Becomes(j, t)
    BY <1>2 DEF m
  <2> HIDE DEF t
  <2> QED
    BY <1>1, <2>1, <2>2, <2>3, <2>4, NextCall DEF Calls, InTry, BeforeTry
<1>3. CASE /\ run[j].pc = "manifest" /\ Bootstrapping(j)
           /\ Becomes(j, [Missed(j, "manifest") EXCEPT !.pc = "prs"])
  <2> DEFINE m == Missed(j, "manifest")
             t == [m EXCEPT !.pc = "prs"]
  <2>1. run[j].pc \in Calls
    BY <1>3 DEF Calls
  <2>2. /\ m \in Run /\ Sane(m) /\ m.pc = "manifest"
        /\ m.kind = run[j].kind /\ m.dry = run[j].dry /\ m.push = run[j].push
        /\ m.todo = run[j].todo /\ m.unseen = run[j].unseen
        /\ m.failed = run[j].failed /\ run[j].misread \subseteq m.misread
        /\ "manifest" \in FoundLacking(m)
    BY <1>1, <1>3, <2>1, MissedFacts DEF Reasons
  <2>3. m.kind = "bootstrap"
    BY <1>3, <2>2 DEF Bootstrapping
  <2>4. Reasons \subseteq FoundLacking(m)
    BY <2>2, <2>3 DEF Sane, Reasons
  <2> HIDE DEF m
  <2>5. /\ t \in Run /\ t.pc = "prs"
        /\ t.kind = m.kind /\ t.dry = m.dry /\ t.push = m.push
        /\ t.todo = m.todo /\ t.unseen = m.unseen
        /\ t.failed = m.failed /\ t.misread = m.misread
        /\ FoundLacking(t) = FoundLacking(m)
    BY <2>2 DEF Run, Calls, FoundLacking
  <2>6. Becomes(j, t)
    BY <1>3 DEF m
  <2> HIDE DEF t
  <2> QED
    BY <1>1, <2>1, <2>2, <2>4, <2>5, <2>6, NextCall DEF Calls, InTry, BeforeTry
<1>4. CASE /\ run[j].pc = "manifest" /\ ~Bootstrapping(j)
           /\ Becomes(j, Advanced(Missed(j, "manifest"), FALSE))
  <2> DEFINE m == Missed(j, "manifest")
  <2>1. run[j].pc \in Calls
    BY <1>4 DEF Calls
  <2>2. /\ m \in Run /\ Sane(m) /\ m.pc \in Calls /\ m.kind = run[j].kind
        /\ m.push \in 1..pushed /\ <<m.todo[1], "manifest">> \in m.misread
    BY <1>1, <2>1, Working, MissedFacts DEF Reasons
  <2>3. run[j].kind = "propagate"
    BY <1>1, <1>4, <2>1, Working DEF Bootstrapping
  <2> HIDE DEF m
  <2>4. HidItsScaffold(m, m.todo[1])
    BY <2>2, <2>3 DEF HidItsScaffold
  <2>5. Becomes(j, Advanced(m, FALSE))
    BY <1>4 DEF m
  <2> QED
    BY <1>1, <2>2, <2>4, <2>5, AdvancedFrom
<1>5. CASE /\ run[j].pc = "compare"
           /\ \E unread \in SUBSET Files :
                 Becomes(j, [run[j] EXCEPT !.pc = "base",
                                          !.files = WithUnread(j, unread)])
  <2>1. /\ run[j].pc \in Calls /\ run[j] \in Run
        /\ run[j].kind = "propagate" /\ ~run[j].dry
    BY <1>1, <1>5, Working DEF Calls, Sane, InTry, BeforeTry
  <2>2. PICK unread \in SUBSET Files :
           Becomes(j, [run[j] EXCEPT !.pc = "base",
                                    !.files = WithUnread(j, unread)])
    BY <1>5
  <2> DEFINE w == WithUnread(j, unread)
             t == [run[j] EXCEPT !.pc = "base", !.files = w]
  <2>3. /\ w \in Contents
        /\ \A f \in Files : w[f] \in {Changed(j)[f], Differing(j)[f]}
    BY <2>1, FilesFacts DEF WithUnread, Contents
  <2> HIDE DEF w
  <2>4. /\ t \in Run /\ t.pc = "base" /\ t.files = w
        /\ t.kind = run[j].kind /\ t.dry = run[j].dry /\ t.push = run[j].push
        /\ t.todo = run[j].todo /\ t.unseen = run[j].unseen
        /\ t.failed = run[j].failed /\ t.misread = run[j].misread
    BY <2>1, <2>3 DEF Run, Calls
  <2>5. Becomes(j, t)
    BY <2>2 DEF w
  <2> HIDE DEF t
  <2>6. Carries(t)
    BY <2>1, <2>3, <2>4, FilesFacts DEF Carries, Rendered
  <2> QED
    BY <1>1, <2>1, <2>4, <2>5, <2>6, NextCall DEF Calls
<1>6. \/ /\ run[j].pc = "optOut"
         /\ Becomes(j, [Missed(j, "optOut") EXCEPT !.pc = "manifest"])
      \/ /\ run[j].pc = "manifest"
         /\ Becomes(j, IF Bootstrapping(j)
                       THEN [Missed(j, "manifest") EXCEPT !.pc = "prs"]
                       ELSE Advanced(Missed(j, "manifest"), FALSE))
      \/ /\ run[j].pc = "compare"
         /\ \E unread \in SUBSET Files :
               Becomes(j, [run[j] EXCEPT !.pc = "base",
                                        !.files = WithUnread(j, unread)])
  BY DEF FileMisread
<1> QED
  BY <1>2, <1>3, <1>4, <1>5, <1>6

LEMMA AnsweredWithErrorKeeps ==
    ASSUME TypeOK, RunsInv, NEW j \in Runs, AnsweredWithError(j)
    PROVE  RunsKept
<1>1. /\ run \in [Runs -> Run] /\ pushed' = pushed /\ run[j].pc \in Calls
      /\ Becomes(j, run[j])
  BY DEF TypeOK, AnsweredWithError, outside, Calls
<1>2. run[j] \in Run /\ Sane(run[j]) /\ run[j].push \in 1..pushed
  BY <1>1, Working
<1> QED
  BY <1>1, <1>2, BecomesSane

LEMMA IdleFacts == IdleRun \in Run /\ Sane(IdleRun)
<1>1. /\ Nothing \in Contents /\ {} \subseteq Reasons /\ {} \subseteq Repos
      /\ <<>> \in Seq(Repos) /\ {} \subseteq Repos \X Reasons
  BY ContentFacts
<1> DEFINE i == IdleRun
<1>2. i \in Run
  BY <1>1 DEF IdleRun, Run, NoCommit
<1>3. /\ i.kind = "idle" /\ i.pc = "idle" /\ i.todo = <<>> /\ ~i.dry
      /\ i.unseen = {}
  BY DEF IdleRun
<1> HIDE DEF i
<1>4. Sane(i)
  BY <1>3 DEF Sane, Calls
<1> QED
  BY <1>2, <1>4 DEF i

LEMMA BeginsKeeps ==
    ASSUME TypeOK, RunsInv, NEW j \in Runs,
           NEW kind \in {"bootstrap", "propagate"}, NEW push \in 1..pushed,
           NEW todo \in Seq(Repos), NEW dry \in BOOLEAN,
           Begins(j, kind, push, todo, dry)
    PROVE  RunsKept
<1> DEFINE pc == IF todo = <<>> THEN "done" ELSE "ref"
           unseen == IF dry THEN {} ELSE ToSet(todo)
           t == [IdleRun EXCEPT !.kind = kind, !.push = push, !.todo = todo,
                                !.dry = dry, !.pc = pc, !.unseen = unseen]
<1>1. run \in [Runs -> Run] /\ pushed' = pushed /\ Becomes(j, t)
  BY DEF TypeOK, Begins
<1>2. unseen \subseteq ToSet(todo) /\ unseen \subseteq Repos
  BY DEF ToSet
<1>3. /\ push \in Nat /\ pc \in {"done", "ref"}
      /\ dry => unseen = {}
      /\ pc = "ref" <=> todo # <<>>
  <2>1. pushed \in Nat
    BY TemplateFacts DEF TypeOK
  <2> QED
    BY <2>1
<1> HIDE DEF pc, unseen
<1>4. /\ t \in Run /\ t.kind = kind /\ t.push = push /\ t.todo = todo
      /\ t.dry = dry /\ t.pc = pc /\ t.unseen = unseen
  BY <1>2, <1>3, IdleFacts DEF Run, Calls, Ends
<1> HIDE DEF t
<1>5. Sane(t)
  BY <1>2, <1>3, <1>4 DEF Sane, Calls, InTry, BeforeTry
<1> QED
  BY <1>1, <1>4, <1>5, BecomesSane

LEMMA FilteredFacts == Filtered(RepoList) \subseteq Seq(Repos)
<1> DEFINE L == 1..Len(RepoList)
           ways(n) == {at \in [1..n -> L] :
                          \A a, b \in 1..n : a < b => at[a] < at[b]}
           picks(n) == {[k \in 1..n |-> RepoList[at[k]]] : at \in ways(n)}
<1>1. ASSUME NEW n \in 0..Len(RepoList), NEW some \in picks(n)
      PROVE  some \in Seq(Repos)
  <2>1. PICK at \in ways(n) : some = [k \in 1..n |-> RepoList[at[k]]]
    OBVIOUS
  <2>2. RepoList \in Seq(Repos) /\ n \in Nat
    BY RolloutAssumption
  <2>3. \A k \in 1..n : at[k] \in L
    OBVIOUS
  <2>4. \A k \in 1..n : RepoList[at[k]] \in Repos
    BY <2>2, <2>3
  <2>5. some \in [1..n -> Repos]
    BY <2>1, <2>4
  <2> QED
    BY <2>2, <2>5
<1>2. Filtered(RepoList) = UNION {picks(n) : n \in 0..Len(RepoList)}
  BY DEF Filtered
<1> HIDE DEF picks
<1> QED
  BY <1>1, <1>2

LEMMA BootstrapKeeps ==
    ASSUME TypeOK, RunsInv, NEW j \in Runs, Bootstrap(j)
    PROVE  RunsKept
<1>1. pushed \in 1..pushed /\ RepoList \in Seq(Repos)
  BY TemplateFacts, RolloutAssumption DEF TypeOK
<1> QED
  BY <1>1, BeginsKeeps DEF Bootstrap

LEMMA BootstrapSomeKeeps ==
    ASSUME TypeOK, RunsInv, NEW j \in Runs, BootstrapSome(j)
    PROVE  RunsKept
<1>1. pushed \in 1..pushed /\ RepoList \in Seq(Repos)
  BY TemplateFacts, RolloutAssumption DEF TypeOK
<1> QED
  BY <1>1, FilteredFacts, BeginsKeeps DEF BootstrapSome

LEMMA BuildKeeps ==
    ASSUME TypeOK, RunsInv, NEW j \in Runs, NEW b \in Builds, Build(j, b)
    PROVE  RunsKept
<1>1. b \in 1..pushed /\ RepoList \in Seq(Repos)
  BY TemplateFacts, RolloutAssumption DEF TypeOK, Build, Builds
<1> QED
  BY <1>1, BeginsKeeps DEF Build

LEMMA RunEndsKeeps ==
    ASSUME TypeOK, RunsInv, NEW j \in Runs, RunEnds(j)
    PROVE  RunsKept
<1>1. /\ run \in [Runs -> Run] /\ pushed' = pushed
      /\ run' = [run EXCEPT ![j] = IdleRun]
  BY DEF TypeOK, RunEnds, outside
<1>2. IdleRun.kind = "idle"
  BY DEF IdleRun
<1> QED
  BY <1>1, <1>2, IdleFacts DEF RunsKept, RunsInv

LEMMA TemplatesPushedKeeps ==
    ASSUME TypeOK, RunsInv, TemplatesPushed
    PROVE  RunsKept
<1>1. /\ run' = run /\ pushed' = pushed + 1 /\ pushed \in Nat
      /\ run \in [Runs -> Run]
  BY TemplateFacts DEF TypeOK, TemplatesPushed
<1> QED
  BY <1>1 DEF RunsKept, RunsInv

LEMMA TeamActsKeeps ==
    ASSUME TypeOK, RunsInv, NEW r \in Repos, TeamActs(r)
    PROVE  RunsKept
<1>1. /\ run \in [Runs -> Run] /\ pushed' = pushed
      /\ run' = [k \in Runs |-> Observed(run[k])]
  BY DEF TypeOK, TeamActs
<1>2. ASSUME NEW k \in Runs
      PROVE  /\ run'[k] \in Run /\ Sane(run'[k])
             /\ run'[k].kind # "idle" => run'[k].push \in 1..pushed
  <2>1. run[k] \in Run /\ Sane(run[k])
    BY <1>1 DEF RunsInv
  <2>2. /\ Observed(run[k]) \in Run /\ Sane(Observed(run[k]))
        /\ Observed(run[k]).kind = run[k].kind
        /\ Observed(run[k]).push = run[k].push
    BY <2>1, ObservedKeeps, ObservedFields
  <2> QED
    BY <1>1, <2>2 DEF RunsInv
<1> QED
  BY <1>1, <1>2 DEF RunsKept, RunsInv

-----------------------------------------------------------------------------
(* What each action does to the repositories.                              *)

ReposKept == AdoTypeOK' /\ BranchesInv'

\* What BranchesInv says of one branch, with the pushes up to last.
Versioned(rec, b, last) ==
    /\ rec.head[b] # NoCommit =>
          IF b = BootstrapBranch
          THEN \E v \in 1..last : \A f \in Files :
                  Templates[v].content[f] \in {Absent, rec.tree[b][f]}
          ELSE \A f \in Files :
                  rec.tree[b][f] # Absent =>
                      /\ f \in Templates[b].changed
                      /\ rec.tree[b][f] = Templates[b].content[f]
    /\ rec.head[b] = NoCommit => rec.tree[b] = Nothing

LEMMA BranchesAre ==
    BranchesInv <=> \A r \in Repos, b \in Branches :
                       Versioned(repo[r], b, pushed)
  BY DEF BranchesInv, OneVersionPerBranch, Versioned

LEMMA BranchesWillBe ==
    BranchesInv' <=> \A r \in Repos, b \in Branches :
                        Versioned(repo'[r], b, pushed')
  BY DEF BranchesInv, OneVersionPerBranch, Versioned

\* A branch is left as it is, or deleted.
LEMMA LeftOrDeleted ==
    ASSUME AdoTypeOK, BranchesInv, pushed \in Nat, pushed' \in Nat,
           pushed <= pushed',
           AdoTypeOK',
           \A r \in Repos, b \in Branches :
              \/ /\ repo'[r].head[b] = repo[r].head[b]
                 /\ repo'[r].tree[b] = repo[r].tree[b]
              \/ repo'[r].head[b] = NoCommit /\ repo'[r].tree[b] = Nothing
    PROVE  ReposKept
<1>1. ASSUME NEW r \in Repos, NEW b \in Branches
      PROVE  Versioned(repo'[r], b, pushed')
  <2>1. Versioned(repo[r], b, pushed)
    BY BranchesAre
  <2>2. 1..pushed \subseteq 1..pushed'
    OBVIOUS
  <2>3. CASE /\ repo'[r].head[b] = repo[r].head[b]
             /\ repo'[r].tree[b] = repo[r].tree[b]
    BY <2>1, <2>2, <2>3 DEF Versioned
  <2>4. CASE repo'[r].head[b] = NoCommit /\ repo'[r].tree[b] = Nothing
    BY <2>4 DEF Versioned
  <2> QED
    BY <2>3, <2>4
<1> QED
  BY <1>1, BranchesWillBe DEF ReposKept

LEMMA UnchangedKeeps ==
    ASSUME AdoTypeOK, BranchesInv, pushed \in Nat, pushed' \in Nat,
           pushed <= pushed', UNCHANGED <<repo, addOverwrites>>
    PROVE  ReposKept
<1>1. AdoTypeOK'
  BY DEF AdoTypeOK
<1> QED
  BY <1>1, LeftOrDeleted

LEMMA OpenedKeeps ==
    ASSUME AdoTypeOK, BranchesInv, pushed \in Nat,
           NEW r \in Repos, NEW b \in Branches, repo' = PrOpened(r, b),
           UNCHANGED <<addOverwrites, pushed>>
    PROVE  ReposKept
<1>1. /\ repo' \in [Repos -> Repo]
      /\ \A q \in Repos : /\ repo'[q].head = repo[q].head
                          /\ repo'[q].tree = repo[q].tree
  BY OpenedFacts
<1>2. AdoTypeOK'
  BY <1>1 DEF AdoTypeOK
<1> QED
  BY <1>1, <1>2, LeftOrDeleted

\* A push of the files a run carries, to the run's branch.
LEMMA PushedKeeps ==
    ASSUME TypeOK, RunsInv, BranchesInv,
           NEW j \in Runs, run[j].pc = "push",
           repo' = Pushed(Current(j), BranchOf(j), run[j].files, NewCommit),
           UNCHANGED <<addOverwrites, pushed>>
    PROVE  ReposKept
<1> DEFINE r == Current(j)
           b == BranchOf(j)
           files == run[j].files
           tree == Over(files, repo[r].tree[b])
           rec == [repo[r] EXCEPT !.head[b] = NewCommit, !.tree[b] = tree]
<1>1. /\ run \in [Runs -> Run] /\ AdoTypeOK /\ run[j].pc \in Calls
      /\ repo \in [Repos -> Repo] /\ pushed \in Nat
  BY TemplateFacts DEF TypeOK, AdoTypeOK, Calls
<1>2. /\ r \in Repos /\ b \in Branches /\ Carries(run[j])
      /\ run[j] \in Run /\ run[j].push \in 1..pushed
      /\ run[j].kind \in {"bootstrap", "propagate"}
  BY <1>1, Working, BranchOfFacts DEF Sane
<1>3. /\ b = BootstrapBranch <=> run[j].kind = "bootstrap"
      /\ run[j].kind = "propagate" => b = run[j].push
  BY <1>1, BranchOfFacts
<1>4. /\ repo[r] \in Repo /\ repo[r].head \in [Branches -> Nat]
      /\ repo[r].tree \in [Branches -> Contents]
  BY <1>1, <1>2, RepoFacts
<1>5. files \in Contents /\ repo[r].tree[b] \in Contents
  BY <1>2, <1>4 DEF Run
<1>6. tree \in Contents
  BY <1>5, ContentFacts
<1>7. NewCommit \in Nat /\ NewCommit # NoCommit
  BY <1>1, NewCommitFacts DEF NoCommit
<1>8. \A f \in Files : tree[f] = IF files[f] = Absent THEN repo[r].tree[b][f]
                                                      ELSE files[f]
  BY DEF Over
<1>9. repo' = [repo EXCEPT ![r] = rec]
  BY <1>1, <1>2, <1>4 DEF Pushed
<1> HIDE DEF tree, r, b, files
<1>10. /\ rec \in Repo
       /\ rec.head = [repo[r].head EXCEPT ![b] = NewCommit]
       /\ rec.tree = [repo[r].tree EXCEPT ![b] = tree]
  BY <1>2, <1>4, <1>6, <1>7 DEF Repo
<1> HIDE DEF rec
<1>11. AdoTypeOK'
  BY <1>1, <1>9, <1>10 DEF AdoTypeOK
<1>12. Versioned(rec, b, pushed)
  <2>1. rec.head[b] # NoCommit /\ rec.tree[b] = tree
    BY <1>2, <1>4, <1>7, <1>10
  <2>2. CASE b = BootstrapBranch
    <3>1. files = Templates[run[j].push].content
      BY <1>2, <1>3, <2>2 DEF Carries, files
    <3>2. \A f \in Files :
             Templates[run[j].push].content[f] \in {Absent, tree[f]}
      BY <1>8, <3>1
    <3> QED
      BY <1>2, <2>1, <2>2, <3>2 DEF Versioned
  <2>3. CASE b # BootstrapBranch
    <3>1. run[j].kind = "propagate" /\ b = run[j].push
      BY <1>2, <1>3, <2>3
    <3>2. ASSUME NEW f \in Files, files[f] # Absent
          PROVE  /\ f \in Templates[b].changed
                 /\ files[f] = Templates[b].content[f]
      BY <1>2, <3>1, <3>2 DEF Carries, files
    <3>3. Versioned(repo[r], b, pushed)
      BY <1>2, BranchesAre
    <3>4. ASSUME NEW f \in Files, repo[r].tree[b][f] # Absent
          PROVE  /\ f \in Templates[b].changed
                 /\ repo[r].tree[b][f] = Templates[b].content[f]
      <4>1. repo[r].head[b] # NoCommit
        BY <3>3, <3>4 DEF Versioned, Nothing
      <4> QED
        BY <2>3, <3>3, <3>4, <4>1 DEF Versioned
    <3>5. ASSUME NEW f \in Files, tree[f] # Absent
          PROVE  /\ f \in Templates[b].changed
                 /\ tree[f] = Templates[b].content[f]
      BY <1>8, <3>2, <3>4, <3>5
    <3> QED
      BY <2>1, <2>3, <3>5 DEF Versioned
  <2> QED
    BY <2>2, <2>3
<1>13. ASSUME NEW q \in Repos, NEW c \in Branches
       PROVE  Versioned(repo'[q], c, pushed')
  <2>1. Versioned(repo[q], c, pushed)
    BY BranchesAre
  <2>2. CASE q # r
    BY <1>1, <1>9, <2>1, <2>2
  <2>3. CASE q = r /\ c = b
    BY <1>1, <1>9, <1>12, <2>3
  <2>4. CASE q = r /\ c # b
    <3>1. /\ repo'[q] = rec /\ rec.head[c] = repo[q].head[c]
          /\ rec.tree[c] = repo[q].tree[c]
      BY <1>1, <1>4, <1>9, <1>10, <2>4
    <3> QED
      BY <2>1, <3>1 DEF Versioned
  <2> QED
    BY <2>2, <2>3, <2>4
<1> QED
  BY <1>11, <1>13, BranchesWillBe DEF ReposKept

\* People delete branches and close pull requests, but they push to no branch
\* of the scripts and open no pull request from one.
LEMMA TeamEditsFacts ==
    ASSUME AdoTypeOK, NEW r \in Repos, NEW rec \in TeamEdits(r)
    PROVE  /\ rec \in Repo /\ rec.active \subseteq repo[r].active
           /\ \A b \in Branches :
                 \/ rec.head[b] = repo[r].head[b] /\ rec.tree[b] = repo[r].tree[b]
                 \/ rec.head[b] = NoCommit /\ rec.tree[b] = Nothing
<1> DEFINE old == repo[r]
<1>1. /\ old \in Repo /\ old.head \in [Branches -> Nat]
      /\ old.tree \in [Branches -> Contents] /\ old.main \in Contents
      /\ old.active \subseteq Branches
  BY RepoFacts
<1>2. CASE rec = [old EXCEPT !.exists = TRUE]
  BY <1>1, <1>2 DEF Repo
<1>3. CASE rec = [old EXCEPT !.optOut = TRUE]
  BY <1>1, <1>3 DEF Repo
<1>4. CASE \E f \in Files, c \in {Absent, Own} : rec = [old EXCEPT !.main[f] = c]
  <2>1. PICK f \in Files, c \in {Absent, Own} : rec = [old EXCEPT !.main[f] = c]
    BY <1>4
  <2>2. [old.main EXCEPT ![f] = c] \in Contents
    BY <1>1 DEF Contents, Absent, Own
  <2> QED
    BY <1>1, <2>1, <2>2 DEF Repo
<1>5. CASE \E b \in old.active : rec = MergedTo(old, b)
  <2>1. PICK b \in old.active : rec = MergedTo(old, b)
    BY <1>5
  <2>2. Over(old.tree[b], old.main) \in Contents
    BY <1>1, ContentFacts
  <2> DEFINE main == Over(old.tree[b], old.main)
             active == old.active \ {b}
  <2>3. rec = [old EXCEPT !.main = main, !.active = active]
    BY <1>1, <2>1 DEF MergedTo
  <2> HIDE DEF main
  <2> QED
    BY <1>1, <2>2, <2>3 DEF Repo, main
<1>6. CASE \E b \in old.active : rec = [old EXCEPT !.active = @ \ {b}]
  BY <1>1, <1>6 DEF Repo
<1>7. CASE \E b \in Branches \ old.active : rec = WithoutBranch(old, b)
  <2>1. PICK b \in Branches : rec = WithoutBranch(old, b)
    BY <1>7
  <2> DEFINE head == [old.head EXCEPT ![b] = NoCommit]
             tree == [old.tree EXCEPT ![b] = Nothing]
  <2>2. rec = [old EXCEPT !.head = head, !.tree = tree]
    BY <1>1, <2>1 DEF WithoutBranch, Repo
  <2>3. /\ head \in [Branches -> Nat] /\ tree \in [Branches -> Contents]
        /\ \A c \in Branches :
              \/ head[c] = old.head[c] /\ tree[c] = old.tree[c]
              \/ head[c] = NoCommit /\ tree[c] = Nothing
    BY <1>1, <2>1, ContentFacts DEF NoCommit
  <2> HIDE DEF head, tree
  <2>4. rec \in Repo /\ rec.head = head /\ rec.tree = tree
        /\ rec.active = old.active
    BY <1>1, <2>2, <2>3 DEF Repo
  <2> QED
    BY <2>3, <2>4
<1> QED
  BY <1>2, <1>3, <1>4, <1>5, <1>6, <1>7 DEF TeamEdits

LEMMA TeamActsRepos ==
    ASSUME TypeOK, BranchesInv, NEW r \in Repos, TeamActs(r)
    PROVE  ReposKept
<1>1. /\ AdoTypeOK /\ repo \in [Repos -> Repo] /\ pushed \in Nat
      /\ pushed' = pushed /\ addOverwrites' = addOverwrites
  BY TemplateFacts DEF TypeOK, AdoTypeOK, TeamActs
<1>2. PICK rec \in TeamEdits(r) : repo' = [repo EXCEPT ![r] = rec]
  BY DEF TeamActs
<1>3. /\ rec \in Repo
      /\ \A b \in Branches :
            \/ rec.head[b] = repo[r].head[b] /\ rec.tree[b] = repo[r].tree[b]
            \/ rec.head[b] = NoCommit /\ rec.tree[b] = Nothing
  BY <1>1, TeamEditsFacts
<1>4. AdoTypeOK'
  BY <1>1, <1>2, <1>3 DEF AdoTypeOK
<1>5. \A q \in Repos, b \in Branches :
         \/ /\ repo'[q].head[b] = repo[q].head[b]
            /\ repo'[q].tree[b] = repo[q].tree[b]
         \/ repo'[q].head[b] = NoCommit /\ repo'[q].tree[b] = Nothing
  BY <1>1, <1>2, <1>3
<1> QED
  BY <1>1, <1>4, <1>5, LeftOrDeleted

LEMMA TemplatesPushedRepos ==
    ASSUME TypeOK, BranchesInv, TemplatesPushed
    PROVE  ReposKept
<1>1. /\ AdoTypeOK /\ pushed \in Nat /\ pushed' \in Nat /\ pushed <= pushed'
      /\ UNCHANGED <<repo, addOverwrites>>
  BY TemplateFacts DEF TypeOK, TemplatesPushed
<1> QED
  BY <1>1, UnchangedKeeps

\* Every step of a run changes the repositories by a push, by a pull request,
\* or not at all.
Writes(j) ==
    \/ UNCHANGED repo
    \/ /\ run[j].pc = "push"
       /\ repo' = Pushed(Current(j), BranchOf(j), run[j].files, NewCommit)
    \/ /\ run[j].pc = "create"
       /\ repo' = PrOpened(Current(j), BranchOf(j))

LEMMA RunWrites ==
    ASSUME NEW j \in Runs,
           \/ Step(j) \/ CallFails(j) \/ FileMisread(j)
           \/ AnsweredWithError(j) \/ Killed(j)
           \/ Bootstrap(j) \/ BootstrapSome(j) \/ RunEnds(j)
           \/ \E b \in Builds : Build(j, b)
    PROVE  Writes(j) /\ UNCHANGED <<addOverwrites, pushed>>
<1>1. CASE Step(j)
  BY <1>1 DEF Step, GetDefaultBranch, CheckOptOut, CheckManifest,
     CheckPullRequest, Compare, ReadHeads, PushFiles, CreatePr, Quiet, outside,
     Writes
<1>2. CASE CallFails(j) \/ FileMisread(j) \/ AnsweredWithError(j) \/ Killed(j)
  BY <1>2 DEF CallFails, FileMisread, AnsweredWithError, Killed, outside, Writes
<1>3. CASE Bootstrap(j) \/ BootstrapSome(j) \/ \E b \in Builds : Build(j, b)
  BY <1>3 DEF Bootstrap, BootstrapSome, Build, Begins, Writes
<1>4. CASE RunEnds(j)
  BY <1>4 DEF RunEnds, outside, Writes
<1> QED
  BY <1>1, <1>2, <1>3, <1>4

LEMMA RunRepos ==
    ASSUME TypeOK, RunsInv, BranchesInv, NEW j \in Runs, Writes(j),
           UNCHANGED <<addOverwrites, pushed>>
    PROVE  ReposKept
<1>1. AdoTypeOK /\ run \in [Runs -> Run] /\ pushed \in Nat
  BY TemplateFacts DEF TypeOK
<1>2. CASE UNCHANGED repo
  BY <1>1, <1>2, UnchangedKeeps
<1>3. CASE /\ run[j].pc = "push"
           /\ repo' = Pushed(Current(j), BranchOf(j), run[j].files, NewCommit)
  BY <1>3, PushedKeeps
<1>4. CASE /\ run[j].pc = "create"
           /\ repo' = PrOpened(Current(j), BranchOf(j))
  <2>1. run[j].pc \in Calls
    BY <1>4 DEF Calls
  <2>2. Current(j) \in Repos /\ BranchOf(j) \in Branches
    BY <1>1, <2>1, Working, BranchOfFacts
  <2> QED
    BY <1>1, <1>4, <2>2, OpenedKeeps
<1> QED
  BY <1>2, <1>3, <1>4 DEF Writes

-----------------------------------------------------------------------------
(* The counters.                                                           *)

CountersKept ==
    /\ pushed' \in Pushes
    /\ passed' \subseteq 1..pushed'
    /\ edits' \in 0..MaxEdits
    /\ trouble' \in 0..MaxTrouble

LEMMA Counters ==
    ASSUME TypeOK, RunsInv, Next
    PROVE  CountersKept
<1>1. /\ pushed \in Pushes /\ pushed \in Nat /\ passed \subseteq 1..pushed
      /\ edits \in 0..MaxEdits /\ trouble \in 0..MaxTrouble
      /\ MaxEdits \in Nat /\ MaxTrouble \in Nat
  BY TemplateFacts, RolloutAssumption DEF TypeOK
<1>2. CASE \E j \in Runs : Step(j)
  BY <1>1, <1>2 DEF Step, GetDefaultBranch, CheckOptOut, CheckManifest,
     CheckPullRequest, Compare, ReadHeads, PushFiles, CreatePr, Quiet, outside,
     CountersKept
<1>3. CASE \E j \in Runs : \/ CallFails(j) \/ FileMisread(j)
                           \/ AnsweredWithError(j) \/ Killed(j)
  <2>1. /\ UNCHANGED <<pushed, passed, edits>>
        /\ trouble < MaxTrouble /\ trouble' = trouble + 1
    <3>1. ASSUME NEW j \in Runs, FileMisread(j)
          PROVE  UNCHANGED <<outside, passed>> /\ GoesWrong
      BY <3>1 DEF FileMisread
    <3>2. ASSUME NEW j \in Runs, CallFails(j) \/ AnsweredWithError(j) \/ Killed(j)
          PROVE  UNCHANGED <<outside, passed>> /\ GoesWrong
      BY <3>2 DEF CallFails, AnsweredWithError, Killed
    <3> QED
      BY <1>3, <3>1, <3>2 DEF outside, GoesWrong
  <2> QED
    BY <1>1, <2>1 DEF CountersKept
<1>4. CASE \E j \in Runs : \/ Bootstrap(j) \/ BootstrapSome(j)
                           \/ \E b \in Builds : Build(j, b)
  <2>1. UNCHANGED <<pushed, passed, trouble>>
    BY <1>4 DEF Bootstrap, BootstrapSome, Build, Begins
  <2>2. edits' = edits \/ (edits < MaxEdits /\ edits' = edits + 1)
    BY <1>4 DEF Bootstrap, BootstrapSome, Build
  <2> QED
    BY <1>1, <2>1, <2>2 DEF CountersKept
<1>5. CASE \E j \in Runs : RunEnds(j)
  <2>1. PICK j \in Runs : RunEnds(j)
    BY <1>5
  <2>2. run[j].kind = "propagate" => run[j].push \in 1..pushed
    BY DEF RunsInv
  <2> QED
    BY <1>1, <2>1, <2>2 DEF RunEnds, outside, CountersKept
<1>6. CASE TemplatesPushed
  <2>1. 1..pushed \subseteq 1..(pushed + 1)
    BY <1>1
  <2> QED
    BY <1>1, <1>6, <2>1 DEF TemplatesPushed, CountersKept
<1>7. CASE \E r \in Repos : TeamActs(r)
  BY <1>1, <1>7 DEF TeamActs, CountersKept
<1> QED
  BY <1>2, <1>3, <1>4, <1>5, <1>6, <1>7 DEF Next

-----------------------------------------------------------------------------
(* The inductive invariant.                                                *)

LEMMA InitKeeps == Init => IInv
<1> SUFFICES ASSUME Init PROVE IInv
  OBVIOUS
<1>1. PICK how \in Starts : repo = [r \in Repos |-> Started(how[r])]
  BY DEF Init
<1>2. ASSUME NEW r \in Repos
      PROVE  /\ Started(how[r]) \in Repo
             /\ Started(how[r]).head = [b \in Branches |-> NoCommit]
             /\ Started(how[r]).tree = [b \in Branches |-> Nothing]
  <2>1. Nothing \in Contents /\ Templates[1].content \in Contents
    BY ContentFacts, TemplateFacts
  <2> QED
    BY <2>1 DEF Started, Repo, NoCommit
<1> HIDE DEF Started
<1>3. AdoTypeOK
  BY <1>1, <1>2 DEF AdoTypeOK, Init
<1>4. TypeOK
  BY <1>3, IdleFacts, TemplateFacts, RolloutAssumption DEF TypeOK, Init
<1>5. RunsInv
  <2>1. IdleRun.kind = "idle"
    BY DEF IdleRun
  <2> QED
    BY <2>1, IdleFacts DEF RunsInv, Init
<1>6. \A r \in Repos, b \in Branches : Versioned(repo[r], b, pushed)
  BY <1>1, <1>2 DEF Versioned
<1> QED
  BY <1>4, <1>5, <1>6, BranchesAre DEF IInv

LEMMA NextKeeps == IInv /\ [Next]_vars => IInv'
<1> SUFFICES ASSUME IInv, [Next]_vars PROVE IInv'
  OBVIOUS
<1>1. TypeOK /\ RunsInv /\ BranchesInv
  BY DEF IInv
<1>2. CASE UNCHANGED vars
  <2>1. UNCHANGED <<repo, addOverwrites, run, pushed, passed, edits, trouble>>
    BY <1>2 DEF vars
  <2>2. TypeOK' /\ RunsInv'
    BY <1>1, <2>1 DEF TypeOK, AdoTypeOK, RunsInv
  <2>3. BranchesInv'
    BY <1>1, <2>1 DEF BranchesInv, OneVersionPerBranch
  <2> QED
    BY <2>2, <2>3 DEF IInv
<1>3. CASE Next
  <2>1. CountersKept
    BY <1>1, <1>3, Counters
  <2>2. RunsKept /\ ReposKept
    <3>1. ASSUME NEW j \in Runs,
                 \/ Step(j) \/ CallFails(j) \/ FileMisread(j)
                 \/ AnsweredWithError(j) \/ Killed(j)
                 \/ Bootstrap(j) \/ BootstrapSome(j) \/ RunEnds(j)
                 \/ \E b \in Builds : Build(j, b)
          PROVE  RunsKept /\ ReposKept
      <4>1. RunsKept
        BY <1>1, <3>1, StepKeeps, CallFailsKeeps, FileMisreadKeeps,
           AnsweredWithErrorKeeps, KilledKeeps, BootstrapKeeps,
           BootstrapSomeKeeps, RunEndsKeeps, BuildKeeps
      <4>2. ReposKept
        BY <1>1, <3>1, RunWrites, RunRepos
      <4> QED
        BY <4>1, <4>2
    <3>2. CASE TemplatesPushed
      BY <1>1, <3>2, TemplatesPushedKeeps, TemplatesPushedRepos
    <3>3. ASSUME NEW r \in Repos, TeamActs(r)
          PROVE  RunsKept /\ ReposKept
      BY <1>1, <3>3, TeamActsKeeps, TeamActsRepos
    <3> QED
      BY <1>3, <3>1, <3>2, <3>3 DEF Next
  <2> QED
    BY <2>1, <2>2 DEF IInv, TypeOK, RunsKept, ReposKept, CountersKept
<1> QED
  BY <1>2, <1>3

\* The inductive invariant of the roll-out: what run, repo and the counters
\* may be, for any number of overlapping runs, edits and failed calls.
THEOREM Inductive == Spec => []IInv
<1> QED
  BY InitKeeps, NextKeeps, PTL DEF Spec

\* A run of bootstrap.py or propagate.py that returns exit code 0 has seen
\* each repository it listed settled, but for those whose manifest a build
\* could not read: neither script takes for skipped or updated what it gave up
\* on.
THEOREM ExitZeroMeansSettledHolds == Spec => []ExitZeroMeansSettled
<1>1. IInv => ExitZeroMeansSettled
  <2> SUFFICES ASSUME IInv, NEW j \in Runs,
                      run[j].pc = "done", ~run[j].failed,
                      NEW r \in run[j].unseen
               PROVE  HidItsScaffold(run[j], r)
    BY DEF ExitZeroMeansSettled
  <2>1. Sane(run[j])
    BY DEF IInv, RunsInv
  <2>2. /\ run[j].todo = <<>>
        /\ r \in ToSet(run[j].todo) \/ HidItsScaffold(run[j], r)
    BY <2>1 DEF Sane, Calls
  <2> QED
    BY <2>2, NobodysList
<1> QED
  BY <1>1, Inductive, PTL

\* However many runs push to a branch one after the other, push_files leaves on
\* a build's branch its own push only, and on the bootstrap branch every
\* template of some one push, if with files that push no longer has.
THEOREM OneVersionPerBranchHolds == Spec => []OneVersionPerBranch
<1>1. IInv => OneVersionPerBranch
  BY DEF IInv, BranchesInv
<1> QED
  BY <1>1, Inductive, PTL

\* A pull request from b is new only by create_pr of a run on that branch.
LEMMA ProposedBy ==
    ASSUME IInv, Next, NEW r \in Repos,
           NEW b \in repo'[r].active \ repo[r].active
    PROVE  \E j \in Runs : /\ run[j].pc = "create" /\ Current(j) = r
                           /\ BranchOf(j) = b
<1>1. /\ TypeOK /\ RunsInv /\ AdoTypeOK /\ repo \in [Repos -> Repo]
      /\ run \in [Runs -> Run]
  BY DEF IInv, TypeOK, AdoTypeOK
<1>2. ASSUME NEW j \in Runs, Writes(j)
      PROVE  run[j].pc = "create" /\ Current(j) = r /\ BranchOf(j) = b
  <2>1. CASE UNCHANGED repo
    BY <2>1
  <2>2. CASE /\ run[j].pc = "push"
             /\ repo' = Pushed(Current(j), BranchOf(j), run[j].files, NewCommit)
    BY <1>1, <2>2 DEF Pushed, Repo
  <2>3. CASE /\ run[j].pc = "create"
             /\ repo' = PrOpened(Current(j), BranchOf(j))
    <3>1. Current(j) \in Repos /\ BranchOf(j) \in Branches
      BY <1>1, <2>3, Working, BranchOfFacts DEF Calls
    <3>2. /\ r # Current(j) => repo'[r] = repo[r]
          /\ repo'[Current(j)].active = repo[Current(j)].active \cup {BranchOf(j)}
      BY <1>1, <2>3, <3>1, OpenedFacts
    <3> QED
      BY <2>3, <3>2
  <2> QED
    BY <1>2, <2>1, <2>2, <2>3 DEF Writes
<1>3. CASE TemplatesPushed
  BY <1>3 DEF TemplatesPushed
<1>4. CASE \E q \in Repos : TeamActs(q)
  <2>1. PICK q \in Repos : TeamActs(q)
    BY <1>4
  <2>2. PICK rec \in TeamEdits(q) : repo' = [repo EXCEPT ![q] = rec]
    BY <2>1 DEF TeamActs
  <2>3. rec.active \subseteq repo[q].active
    BY <1>1, TeamEditsFacts
  <2> QED
    BY <1>1, <2>2, <2>3
<1> QED
  BY <1>2, <1>3, <1>4, RunWrites DEF Next

\* bootstrap.py opens a pull request only in a repository that lacked each
\* reason to be left alone at some moment of its turn, or did not let it read
\* that one; and never in a dry run.
THEOREM RespectsTheTeamHolds == Spec => RespectsTheTeam
<1>1. IInv /\ [Next]_vars =>
        [\A r \in Repos :
            BootstrapBranch \in repo'[r].active \ repo[r].active =>
                \E j \in Runs : /\ Proposes(j, r, BootstrapBranch)
                               /\ Reasons \subseteq FoundLacking(run[j])]_vars
  <2> SUFFICES ASSUME IInv, Next, NEW r \in Repos,
                      BootstrapBranch \in repo'[r].active \ repo[r].active
               PROVE  \E j \in Runs : /\ Proposes(j, r, BootstrapBranch)
                                      /\ Reasons \subseteq FoundLacking(run[j])
    OBVIOUS
  <2>1. PICK j \in Runs : /\ run[j].pc = "create" /\ Current(j) = r
                          /\ BranchOf(j) = BootstrapBranch
    BY ProposedBy
  <2>2. TypeOK /\ RunsInv /\ run \in [Runs -> Run] /\ run[j].pc \in Calls
    BY <2>1 DEF IInv, TypeOK, Calls
  <2>3. Sane(run[j]) /\ run[j].kind = "bootstrap"
    BY <2>1, <2>2, Working, BranchOfFacts
  <2>4. Reasons \subseteq FoundLacking(run[j]) /\ ~run[j].dry
    BY <2>1, <2>3 DEF Sane, InTry, BeforeTry, Calls
  <2> QED
    BY <2>1, <2>4 DEF Proposes
<1> QED
  BY <1>1, Inductive, PTL DEF Spec, RespectsTheTeam

=============================================================================
