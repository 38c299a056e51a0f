------------------------------ MODULE AdoRepos ------------------------------
(***************************************************************************)
(* The repositories of the Azure DevOps project and the calls AdoClient    *)
(* (scripts/oac_utils.py) makes on them.  A call either reads `repo' or is *)
(* an operator that returns the new `repo'; who makes it, in which order,  *)
(* and what happens when it fails is in ScaffoldRollout.                   *)
(*                                                                         *)
(* The service itself is not in the repository: what it accepts is taken   *)
(* from the fields AdoClient sends.  Two things it leaves open are chosen  *)
(* here: whether a change of type "add" may replace a file the branch has  *)
(* (addOverwrites), and which branch names begin with which others, since  *)
(* a ref is looked up by a prefix of its name.                             *)
(***************************************************************************)
EXTENDS Integers, Sequences

CONSTANTS
    Repos,        \* the repositories of the project
    Files,        \* the scaffold's files, by destination path
    Manifest,     \* observability/manifest.yaml, one of Files
    Templates,    \* pushes to the template repository: [content, changed]
    LongerNames,  \* <<b, c>>: branch c's name begins with branch b's
    Overwriting   \* whether "add" may replace a file: TRUE, FALSE or both

Absent == 0       \* content of a file that is not there
Own == -1         \* content a team wrote itself
NoCommit == 0     \* object ID of a branch that does not exist

\* Branch 0 is feat/add-oac-scaffold; branch b > 0 is the one of the build
\* that the b-th push to the template repository triggers.
BootstrapBranch == 0
Pushes == DOMAIN Templates
Branches == Pushes \cup {BootstrapBranch}

ASSUME ReposAssumption ==
    /\ Manifest \in Files
    /\ Templates \in Seq([content : [Files -> Nat], changed : SUBSET Files])
    /\ Templates # <<>>
    /\ LongerNames \subseteq Branches \X Branches
    /\ Overwriting \subseteq BOOLEAN

VARIABLES
    repo,           \* the repositories
    addOverwrites   \* "add" replaces a file, and is not refused

Contents == [Files -> Nat \cup {Own}]

Repo ==
    [ exists  : BOOLEAN,                  \* it has a default branch
      optOut  : BOOLEAN,                  \* /.no-oac is on it
      main    : Contents,                 \* the scaffold's files on it
      head    : [Branches -> Nat],        \* object IDs of the other branches
      tree    : [Branches -> Contents],   \* what was pushed to them
      active  : SUBSET Branches ]         \* those with an open pull request

Nothing == [f \in Files |-> Absent]

\* The files of new, and those of old that new has not.
Over(new, old) ==
    [f \in Files |-> IF new[f] = Absent THEN old[f] ELSE new[f]]

-----------------------------------------------------------------------------
(* Queries.                                                                *)

HasFile_OnBranch(r, f) ==                     \* mutant: on the wrong branch
    repo[r].tree[BootstrapBranch][f] # Absent

HasFile(r, f) == repo[r].main[f] # Absent

\* get_branch_object_id takes the first ref whose name begins with the
\* branch's: the branch itself, or when that is missing one with a longer
\* name.
BranchObjectIds(r, b) ==
    LET longer == { c \in Branches : <<b, c>> \in LongerNames
                                     /\ repo[r].head[c] # NoCommit }
    IN  IF repo[r].head[b] # NoCommit \/ longer = {}
        THEN { repo[r].head[b] }
        ELSE { repo[r].head[c] : c \in longer }

PrExists_Branch(r, b) == repo[r].head[b] # NoCommit   \* mutant: branch_exists

\* Only active pull requests are counted.
PrExists(r, b) == b \in repo[r].active

-----------------------------------------------------------------------------
(* Writes.  The service compares oldObjectId with the branch's head, and   *)
(* allows one active pull request from a branch.                           *)

PushAccepted(r, b, old, files) ==
    /\ repo[r].head[b] = old
    /\ addOverwrites \/ \A f \in Files : Absent \in {files[f],
                                                     repo[r].tree[b][f]}

\* The branch gets a commit with the object ID oid.
Pushed(r, b, files, oid) ==
    [repo EXCEPT ![r].head[b] = oid, ![r].tree[b] = Over(files, @)]

PrAccepted(r, b) == repo[r].head[b] # NoCommit /\ b \notin repo[r].active

PrOpened(r, b) == [repo EXCEPT ![r].active = @ \cup {b}]

-----------------------------------------------------------------------------
(* What people do with a repository.                                       *)

\* The pull request from b is completed; the branch may be deleted with it.
MergedTo(rec, b) ==
    [rec EXCEPT !.main = Over(rec.tree[b], @), !.active = @ \ {b}]

WithoutBranch(rec, b) ==
    [rec EXCEPT !.head[b] = NoCommit, !.tree[b] = Nothing]

TeamEdits(r) ==
    {[repo[r] EXCEPT !.exists = TRUE]}
    \cup (IF repo[r].exists
          THEN {[repo[r] EXCEPT !.optOut = TRUE]}
               \cup {[repo[r] EXCEPT !.main[f] = c] :
                        f \in Files, c \in {Absent, Own}}
          ELSE {})
    \cup {MergedTo(repo[r], b) : b \in repo[r].active}
    \cup {[repo[r] EXCEPT !.active = @ \ {b}] : b \in repo[r].active}
    \cup {WithoutBranch(repo[r], b) : b \in Branches \ repo[r].active}

AdoTypeOK ==
    /\ repo \in [Repos -> Repo]
    /\ addOverwrites \in Overwriting

=============================================================================
