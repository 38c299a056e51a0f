-------------------------- MODULE ScaffoldRollout --------------------------
(***************************************************************************)
(* scripts/bootstrap.py and scripts/propagate.py, as the two pipelines run *)
(* them: bootstrap.py by hand over the repositories of the project,        *)
(* propagate.py once for each push to the template repository, and again   *)
(* when somebody re-runs a build that failed.  Runs overlap with each      *)
(* other and with the teams that merge, close, edit and opt out.           *)
(*                                                                         *)
(* A step of a run is one call of AdoClient and what the script does up to *)
(* the next one.  Reading the current content of the changed files is one  *)
(* step although it is one call for each file.                             *)
(***************************************************************************)
EXTENDS AdoRepos, FiniteSets, SequencesExt

CONSTANTS
    Runs,         \* places for pipeline runs: how many may overlap
    Starts,       \* how the repositories may be to begin with
    RepoList,     \* the repositories in the order list_repos returns them
    MaxEdits,     \* bound: changes made by people
    MaxTrouble    \* bound: calls that go wrong, and killed runs

ASSUME RolloutAssumption ==
    /\ Starts \subseteq [Repos -> {"empty", "bare", "scaffolded"}]
    /\ RepoList \in Seq(Repos)
    /\ IsFiniteSet(Runs)
    /\ MaxEdits \in Nat
    /\ MaxTrouble \in Nat

VARIABLES
    run,      \* what each run is doing
    pushed,   \* pushes to the template repository
    passed,   \* the pushes whose build ended with exit code 0
    edits,
    trouble

vars == <<repo, addOverwrites, run, pushed, passed, edits, trouble>>
outside == <<addOverwrites, pushed, edits>>   \* no step of a run changes them

-----------------------------------------------------------------------------
(* Runs.                                                                   *)

Calls == {"ref", "optOut", "manifest", "prs", "compare", "base", "push",
          "create"}
Ends == {"done", "raised"}   \* main returned; an exception left it

\* The first push was rolled out before.
Builds == Pushes \ {1}

Reasons == {"optOut", "manifest"}

Run ==
    [ kind   : {"idle", "bootstrap", "propagate"},
      dry    : BOOLEAN,          \* --dry-run
      push   : Nat,              \* the checkout: templates as of this push
      todo   : Seq(Repos),       \* repositories left, the current one first
      pc     : Calls \cup Ends \cup {"idle"},
      old    : Nat,              \* oldObjectId of the push to be made
      files  : Contents,         \* what will be pushed
      failed : BOOLEAN,          \* some repository's outcome is "failed"
      unseen : SUBSET Repos,     \* history: listed, never settled since
      lacked : SUBSET Reasons,   \* history: see Observed
      misread : SUBSET (Repos \X Reasons) ]   \* history: see FileMisread

IdleRun == [kind |-> "idle", dry |-> FALSE, push |-> 0, todo |-> <<>>,
            pc |-> "idle", old |-> NoCommit, files |-> Nothing,
            failed |-> FALSE, unseen |-> {}, lacked |-> {}, misread |-> {}]

TypeOK ==
    /\ AdoTypeOK
    /\ run \in [Runs -> Run]
    /\ pushed \in Pushes
    /\ passed \subseteq 1..pushed
    /\ edits \in 0..MaxEdits
    /\ trouble \in 0..MaxTrouble

Current(j) == run[j].todo[1]

BranchOf_Shared(j) == BootstrapBranch           \* mutant: one name for all

BranchOf(j) == IF run[j].kind = "bootstrap" THEN BootstrapBranch
                                            ELSE run[j].push
Bootstrapping(j) == run[j].kind = "bootstrap"

\* render_templates, at the run's checkout.
Rendered(j) == Templates[run[j].push].content

\* What a run is there to bring about in repository r holds already.
SettledFor(rec, kind, push) ==
    \/ ~rec.exists
    \/ /\ kind = "bootstrap"
       /\ \/ rec.optOut
          \/ rec.main[Manifest] # Absent
          \/ BootstrapBranch \in rec.active
    \/ /\ kind = "propagate"
       /\ \/ rec.main[Manifest] = Absent
          \/ push \in rec.active
          \/ \A f \in Templates[push].changed :
                Templates[push].content[f] \in {Absent, rec.main[f]}

-----------------------------------------------------------------------------
(* The parts every step of a run has.                                      *)

\* The history of a run after a step in which it becomes s: the repositories
\* that have not been settled yet, and which reasons to leave the current
\* repository alone it has lacked at some moment of its turn.  To be scaffolded
\* is a reason for bootstrap.py only.
Observed(s) ==
    LET lacks(r) ==
            (IF repo'[r].optOut THEN {} ELSE {"optOut"})
            \cup (IF s.kind = "propagate" \/ repo'[r].main[Manifest] # Absent
                  THEN {} ELSE {"manifest"})
    IN  [s EXCEPT !.unseen = {r \in @ : ~SettledFor(repo'[r], s.kind, s.push)},
                  !.lacked = IF s.pc \in Calls \ {"ref"}
                             THEN @ \cup lacks(s.todo[1]) ELSE @]

Becomes(j, s) ==
    run' = [k \in Runs |-> Observed(IF k = j THEN s ELSE run[k])]

Goes(j, call) == Becomes(j, [run[j] EXCEPT !.pc = call])

Advanced_LastOutcome(s, failed) ==              \* mutant: failed is reset
    [s EXCEPT !.todo = Tail(@),
              !.pc = IF Len(s.todo) = 1 THEN "done" ELSE "ref",
              !.failed = failed,
              !.old = NoCommit, !.files = Nothing, !.lacked = {}]

\* process_repo returned: the loop of main takes the next repository.
Advanced(s, failed) ==
    [s EXCEPT !.todo = Tail(@),
              !.pc = IF Len(s.todo) = 1 THEN "done" ELSE "ref",
              !.failed = @ \/ failed,
              !.old = NoCommit, !.files = Nothing, !.lacked = {}]

Skipped(j) == Becomes(j, Advanced(run[j], FALSE))
Failed(j) == Becomes(j, Advanced(run[j], TRUE))

\* An exception that nothing catches ends the run.
Raised(j) ==
    Becomes(j, [run[j] EXCEPT !.pc = "raised", !.todo = <<>>,
                              !.old = NoCommit, !.files = Nothing,
                              !.lacked = {}])

Quiet == UNCHANGED <<repo, outside, passed, trouble>>
GoesWrong == trouble < MaxTrouble /\ trouble' = trouble + 1

-----------------------------------------------------------------------------
(* process_repo, first the queries.                                        *)

GetDefaultBranch(j) ==
    /\ run[j].pc = "ref"
    /\ Quiet
    /\ IF repo[Current(j)].exists
       THEN Becomes(j, [run[j] EXCEPT
                !.pc = IF Bootstrapping(j) THEN "optOut" ELSE "manifest"])
       ELSE Skipped(j)

\* bootstrap.py only.
CheckOptOut(j) ==
    /\ run[j].pc = "optOut"
    /\ Quiet
    /\ IF repo[Current(j)].optOut THEN Skipped(j) ELSE Goes(j, "manifest")

\* bootstrap.py wants the manifest missing, propagate.py wants it there.
CheckManifest(j) ==
    /\ run[j].pc = "manifest"
    /\ Quiet
    /\ IF HasFile(Current(j), Manifest) = Bootstrapping(j)
       THEN Skipped(j) ELSE Goes(j, "prs")

CheckPullRequest_NotDry(j) ==         \* mutant: --dry-run is not looked at
    /\ run[j].pc = "prs"
    /\ Quiet
    /\ IF PrExists(Current(j), BranchOf(j))
       THEN Skipped(j)
       ELSE IF Bootstrapping(j)
       THEN Becomes(j, [run[j] EXCEPT !.pc = "base", !.files = Rendered(j)])
       ELSE Goes(j, "compare")

CheckPullRequest(j) ==
    /\ run[j].pc = "prs"
    /\ Quiet
    /\ IF PrExists(Current(j), BranchOf(j)) \/ run[j].dry
       THEN Skipped(j)
       ELSE IF Bootstrapping(j)
       THEN Becomes(j, [run[j] EXCEPT !.pc = "base", !.files = Rendered(j)])
       ELSE Goes(j, "compare")

-----------------------------------------------------------------------------
(* process_repo, inside its try block.                                     *)

\* propagate.py: the changed templates that have a rendering, and whose
\* rendering differs from the file on the default branch.
Changed(j) ==
    [f \in Files |-> IF f \in Templates[run[j].push].changed
                     THEN Rendered(j)[f] ELSE Absent]

Differing(j) ==
    [f \in Files |-> IF Changed(j)[f] = repo[Current(j)].main[f]
                     THEN Absent ELSE Changed(j)[f]]

Compare(j) ==
    /\ run[j].pc = "compare"
    /\ Quiet
    /\ IF Differing(j) = Nothing
       THEN Skipped(j)
       ELSE Becomes(j, [run[j] EXCEPT !.pc = "base", !.files = Differing(j)])

\* push_files reads the head of the base branch, which it only tests, and
\* the head the target branch has.
ReadHeads(j) ==
    /\ run[j].pc = "base"
    /\ Quiet
    /\ \E old \in BranchObjectIds(Current(j), BranchOf(j)) :
          Becomes(j, [run[j] EXCEPT !.pc = "push", !.old = old])

\* An object ID is only ever compared with the ones that runs have read:
\* one that none of them remembers is as good as new.
NewCommit == CHOOSE oid \in 1..(Cardinality(Runs) + 1) :
                \A k \in Runs : run[k].old # oid

PushFiles(j) ==
    /\ run[j].pc = "push"
    /\ IF PushAccepted(Current(j), BranchOf(j), run[j].old, run[j].files)
       THEN /\ repo' = Pushed(Current(j), BranchOf(j), run[j].files, NewCommit)
            /\ Goes(j, "create")
       ELSE UNCHANGED repo /\ Failed(j)
    /\ UNCHANGED <<outside, passed, trouble>>

CreatePr(j) ==
    /\ run[j].pc = "create"
    /\ IF PrAccepted(Current(j), BranchOf(j))
       THEN /\ repo' = PrOpened(Current(j), BranchOf(j))
            /\ Becomes(j, Advanced(run[j], FALSE))
       ELSE UNCHANGED repo /\ Failed(j)
    /\ UNCHANGED <<outside, passed, trouble>>

Step(j) ==
    \/ GetDefaultBranch(j) \/ CheckOptOut(j) \/ CheckManifest(j)
    \/ CheckPullRequest(j) \/ Compare(j) \/ ReadHeads(j) \/ PushFiles(j)
    \/ CreatePr(j)

-----------------------------------------------------------------------------
(* What may go wrong with a call.                                          *)

BeforeTry == {"ref", "optOut", "manifest", "prs"}
InTry == Calls \ BeforeTry

\* The call is not executed, or its answer is an error: five 5xx answers,
\* a 4xx, a broken connection.  Before the try block nothing catches it.
CallFails(j) ==
    /\ run[j].pc \in Calls
    /\ GoesWrong
    /\ UNCHANGED <<repo, outside, passed>>
    /\ IF run[j].pc \in BeforeTry THEN Raised(j) ELSE Failed(j)

Missed(j, file) == [run[j] EXCEPT !.misread = @ \cup {<<Current(j), file>>}]

\* propagate.py pushes a file it cannot read although it is up to date.
WithUnread(j, unread) ==
    [f \in Files |-> IF f \in unread THEN Changed(j)[f] ELSE Differing(j)[f]]

\* file_exists and get_file_content take every other answer than 200 for a
\* missing file: the step taken is the one for a repository that has not the
\* file.
FileMisread(j) ==
    /\ GoesWrong
    /\ UNCHANGED <<repo, outside, passed>>
    /\ \/ /\ run[j].pc = "optOut" /\ repo[Current(j)].optOut
          /\ Becomes(j, [Missed(j, "optOut") EXCEPT !.pc = "manifest"])
       \/ /\ run[j].pc = "manifest" /\ HasFile(Current(j), Manifest)
          /\ Becomes(j, IF Bootstrapping(j)
                        THEN [Missed(j, "manifest") EXCEPT !.pc = "prs"]
                        ELSE Advanced(Missed(j, "manifest"), FALSE))
       \/ /\ run[j].pc = "compare"
          /\ \E unread \in SUBSET {f \in Files : Changed(j)[f] # Differing(j)[f]} :
                /\ unread # {}
                /\ Becomes(j, [run[j] EXCEPT !.pc = "base",
                                             !.files = WithUnread(j, unread)])

\* A POST is executed and answered with a 5xx: _request sends it again.
AnsweredWithError(j) ==
    /\ GoesWrong
    /\ \/ /\ run[j].pc = "push"
          /\ PushAccepted(Current(j), BranchOf(j), run[j].old, run[j].files)
          /\ repo' = Pushed(Current(j), BranchOf(j), run[j].files, NewCommit)
       \/ /\ run[j].pc = "create"
          /\ PrAccepted(Current(j), BranchOf(j))
          /\ repo' = PrOpened(Current(j), BranchOf(j))
    /\ Becomes(j, run[j])
    /\ UNCHANGED <<outside, passed>>

\* The pipeline run is cancelled or its agent lost.
Killed(j) ==
    /\ run[j].pc \in Calls
    /\ GoesWrong
    /\ UNCHANGED <<repo, outside, passed>>
    /\ Raised(j)

-----------------------------------------------------------------------------
(* Pipelines and people.                                                   *)

Begins(j, kind, push, todo, dry) ==
    /\ run[j].kind = "idle"
    /\ UNCHANGED <<repo, addOverwrites, pushed, passed, trouble>>
    /\ Becomes(j, [IdleRun EXCEPT
            !.kind = kind, !.push = push, !.todo = todo, !.dry = dry,
            !.pc = IF todo = <<>> THEN "done" ELSE "ref",
            !.unseen = IF dry THEN {} ELSE ToSet(todo)])

\* Everything is scaffolded: no filter, no dry run.
Bootstrap(j) ==
    Begins(j, "bootstrap", pushed, RepoList, FALSE) /\ UNCHANGED edits

\* What --repo-filter may leave of a list, in the order of the list.
Filtered(list) ==
    UNION { LET ways == {at \in [1..n -> 1..Len(list)] :
                            \A a, b \in 1..n : a < b => at[a] < at[b]}
            IN  {[k \in 1..n |-> list[at[k]]] : at \in ways}
            : n \in 0..Len(list) }

\* Somebody asks for less.
BootstrapSome(j) ==
    /\ edits < MaxEdits /\ edits' = edits + 1
    /\ \/ Begins(j, "bootstrap", pushed, RepoList, TRUE)
       \/ \E some \in Filtered(RepoList) :
             Begins(j, "bootstrap", pushed, some, FALSE)

\* A push starts a build of its own; a build that failed is run again, with
\* the BuildId it had and so with the same branch.
Build(j, b) ==
    /\ b <= pushed /\ b \notin passed
    /\ \A k \in Runs : run[k].kind = "propagate" => run[k].push # b
    /\ Begins(j, "propagate", b, RepoList, FALSE)
    /\ UNCHANGED edits

\* A run is over: exit code 0 if no repository failed.
RunEnds(j) ==
    /\ run[j].pc \in Ends
    /\ passed' = IF /\ run[j].kind = "propagate" /\ run[j].pc = "done"
                    /\ ~run[j].failed
                 THEN passed \cup {run[j].push} ELSE passed
    /\ run' = [run EXCEPT ![j] = IdleRun]
    /\ UNCHANGED <<repo, outside, trouble>>

TemplatesPushed ==
    /\ pushed + 1 \in Pushes
    /\ pushed' = pushed + 1
    /\ UNCHANGED <<repo, addOverwrites, run, passed, edits, trouble>>

TeamActs(r) ==
    /\ edits < MaxEdits /\ edits' = edits + 1
    /\ \E rec \in TeamEdits(r) :
          /\ rec # repo[r]
          /\ repo' = [repo EXCEPT ![r] = rec]
    /\ run' = [k \in Runs |-> Observed(run[k])]
    /\ UNCHANGED <<addOverwrites, pushed, passed, trouble>>

-----------------------------------------------------------------------------

Started(how) ==
    [ exists |-> how # "empty", optOut |-> FALSE,
      main   |-> IF how = "scaffolded" THEN Templates[1].content ELSE Nothing,
      head   |-> [b \in Branches |-> NoCommit],
      tree   |-> [b \in Branches |-> Nothing],
      active |-> {} ]

Init ==
    /\ \E how \in Starts : repo = [r \in Repos |-> Started(how[r])]
    /\ addOverwrites \in Overwriting
    /\ run = [j \in Runs |-> IdleRun]
    /\ pushed = 1
    /\ passed = {1}
    /\ edits = 0
    /\ trouble = 0

Next ==
    \/ \E j \in Runs :
          \/ Step(j) \/ CallFails(j) \/ FileMisread(j)
          \/ AnsweredWithError(j) \/ Killed(j)
          \/ Bootstrap(j) \/ BootstrapSome(j) \/ RunEnds(j)
          \/ \E b \in Builds : Build(j, b)
    \/ TemplatesPushed
    \/ \E r \in Repos : TeamActs(r)

Spec == Init /\ [][Next]_vars

\* A run that was started goes on.  Nothing in the repository makes anybody
\* start bootstrap.py, or a build a second time.
Fairness == \A j \in Runs : WF_vars(Step(j)) /\ WF_vars(RunEnds(j))

FairSpec == Spec /\ Fairness

-----------------------------------------------------------------------------
(* Properties.                                                             *)

\* What a run may have found its current repository to lack.
FoundLacking(s) ==
    s.lacked \cup {file \in Reasons : <<s.todo[1], file>> \in s.misread}

\* A build could not read the manifest of r.
HidItsScaffold(s, r) == s.kind = "propagate" /\ <<r, "manifest">> \in s.misread

\* A run of bootstrap.py without a filter and not a dry one, at its beginning.
BootstrapsAll(s) ==
    s.kind = "bootstrap" /\ ~s.dry /\ s.pc = "ref" /\ s.todo = RepoList

\* A run that ends with exit code 0 has done what it is for: each repository
\* it listed was, at some moment of the run, settled, that is empty, opted
\* out, scaffolded or with an open pull request; for a build, without a
\* scaffold, up to date or with an open pull request.  process_repo must
\* therefore never count as skipped or updated what it gave up on.  The one
\* exception is a build that could not read the manifest of a repository:
\* it skips that repository as if there were no scaffold.
ExitZeroMeansSettled ==
    \A j \in Runs :
        run[j].pc = "done" /\ ~run[j].failed =>
            \A r \in run[j].unseen : HidItsScaffold(run[j], r)

\* "Push template updates to repos that already have OaC scaffolded"
\* (propagate.py:3): the same of a build without the exception.
ScaffoldsUpdated ==
    \A j \in Runs :
        run[j].kind = "propagate" /\ run[j].pc = "done" /\ ~run[j].failed =>
            run[j].unseen = {}

\* The run that opens the pull request from branch b of r.
Proposes(j, r, b) ==
    /\ run[j].pc = "create" /\ ~run[j].dry
    /\ Current(j) = r /\ BranchOf(j) = b

\* bootstrap.py proposes nothing to a repository that has been opted out, or
\* has been scaffolded, for the whole of its turn, whatever other runs and the
\* teams do meanwhile, unless it could not read the very file that says so; and
\* nothing in a dry run.
RespectsTheTeam ==
    [][\A r \in Repos :
          BootstrapBranch \in repo'[r].active \ repo[r].active =>
              \E j \in Runs : /\ Proposes(j, r, BootstrapBranch)
                             /\ Reasons \subseteq FoundLacking(run[j])]_vars

\* "Bootstrap and propagation scripts skip repos with this file"
\* (README.md:484, of .no-oac): the same of every pull request of both.
OptOutRespected ==
    [][\A r \in Repos, b \in Branches :
          b \in repo'[r].active \ repo[r].active =>
              \E j \in Runs : /\ Proposes(j, r, b)
                             /\ "optOut" \in run[j].lacked]_vars

\* No branch proposes a mixture of two versions of the templates in the files
\* they share, also when several runs pushed to it one after the other: a
\* build's branch carries renderings of its own push only, and of files that
\* push changed; the bootstrap branch carries every template of some one push,
\* and beside them may keep files that push no longer has.
OneVersionPerBranch ==
    \A r \in Repos, b \in Branches :
        repo[r].head[b] # NoCommit =>
            LET tree == repo[r].tree[b]
            IN  IF b = BootstrapBranch
                THEN \E v \in 1..pushed : \A f \in Files :
                        Templates[v].content[f] \in {Absent, tree[f]}
                ELSE \A f \in Files :
                        tree[f] # Absent =>
                            /\ f \in Templates[b].changed
                            /\ tree[f] = Templates[b].content[f]

\* Repeating helps, where "add" replaces files.  Whatever calls failed and
\* whatever was left half done, if bootstrap.py is run over all repositories
\* again and again, each comes to have the scaffold, an open pull request or an
\* opt-out for good; and no build has to be run again for ever: it ends with
\* exit code 0 at last.  A build whose branch name another one continues is
\* left out, since its lookup may find that other branch.
RepeatingHelps ==
    addOverwrites =>
        /\ ([]<>(\E j \in Runs : BootstrapsAll(run[j])))
              => \A r \in Repos : <>[]SettledFor(repo[r], "bootstrap", 0)
        /\ \A b \in Builds :
              (\A c \in Branches : <<b, c>> \notin LongerNames)
                 => <>[](\A j \in Runs : run[j].kind = "propagate"
                                             => run[j].push # b)

\* "Safe to run multiple times" (bootstrap.py:6): what an earlier run left on
\* the branch is no reason to refuse the push of a later one.  If nobody has
\* moved the branch since bootstrap.py read its head, the push is accepted.
SafeToRunAgain ==
    \A j \in Runs :
        /\ run[j].kind = "bootstrap" /\ run[j].pc = "push"
        /\ run[j].old = repo[Current(j)].head[BootstrapBranch]
        => PushAccepted(Current(j), BootstrapBranch, run[j].old, run[j].files)

\* "Return the HEAD commit objectId for *branch*, or None if missing"
\* (oac_utils.py:157, of get_branch_object_id): what push_files takes for the
\* head of its branch is that branch's.
ReadsItsOwnHead ==
    [][\A j \in Runs :
          run[j].pc = "base" /\ run'[j].pc = "push" =>
              run'[j].old = repo[Current(j)].head[BranchOf(j)]]_vars

-----------------------------------------------------------------------------
(* The inductive invariant behind them.                                    *)

\* The files a run carries from "base" on are what its push says they are.
Carries(s) ==
    LET t == Templates[s.push]
    IN  IF s.kind = "bootstrap"
        THEN s.files = t.content
        ELSE \A f \in Files : s.files[f] # Absent =>
                f \in t.changed /\ s.files[f] = t.content[f]

\* What the record of a run may say.  A repository it listed has not had its
\* turn, or was settled, or failed, or hid its scaffold; and by the time bootstrap.py looks for pull
\* requests it has found neither reason to leave the repository alone.
Sane(s) ==
    /\ s.kind = "idle" <=> s.pc = "idle"
    /\ s.pc \in Calls <=> s.todo # <<>>
    /\ s.pc = "optOut" => s.kind = "bootstrap"
    /\ s.pc = "compare" => s.kind = "propagate"
    /\ s.pc \in {"base", "push", "create"} => Carries(s)
    /\ s.dry => s.pc \notin InTry /\ s.unseen = {}
    /\ s.pc # "raised" /\ ~s.failed =>
          \A r \in s.unseen : r \in ToSet(s.todo) \/ HidItsScaffold(s, r)
    /\ s.kind = "bootstrap" =>
          /\ s.pc = "manifest" => "optOut" \in FoundLacking(s)
          /\ s.pc \in InTry \cup {"prs"} => Reasons \subseteq FoundLacking(s)

RunsInv ==
    \A j \in Runs :
        /\ Sane(run[j])
        /\ run[j].kind # "idle" => run[j].push \in 1..pushed

\* A branch that is not there carries nothing.
BranchesInv ==
    /\ OneVersionPerBranch
    /\ \A r \in Repos, b \in Branches :
          repo[r].head[b] = NoCommit => repo[r].tree[b] = Nothing

IInv == TypeOK /\ RunsInv /\ BranchesInv

=============================================================================
