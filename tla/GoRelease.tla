------------------------------ MODULE GoRelease ------------------------------
(***************************************************************************)
(* The eksGoRelease tool (cmd/eksGoRelease, pkg/eksGoRelease, with         *)
(* pkg/prManager and pkg/git).  A run clones the user's fork into memory,  *)
(* and for each Go version asked for makes a branch, edits the files of    *)
(* the minor version, commits, pushes to the fork and opens a pull request *)
(* upstream.  Several runs share the fork; maintainers merge the pull      *)
(* requests and the user brings the fork up to date, or does not.          *)
(*                                                                         *)
(* A commit is its files and the commits it descends from, itself included.*)
(* A file is the value the tool puts in it.                                *)
(***************************************************************************)
EXTENDS Integers, Sequences, FiniteSets

CONSTANTS
  Runs,         \* executions of the tool
  Invocations,  \* what a run may be asked for
  Originals,    \* the files upstream main may start with
  Template,     \* what the spec file of a new minor version builds
  MaxTries,     \* calls the retrier makes to create a pull request
  MaxMerges,    \* bound on merged pull requests
  Nil           \* no file, no invocation, no branch

Cmds == {"release", "update", "patch", "new"}
InvocationType == [cmd : Cmds, patches : Seq(Nat), dryrun : BOOLEAN]

Value == Nat \cup {Nil}
\* RELEASE before there is a file.
NoRelease == -1
FilesType ==
  [rel : Nat \cup {NoRelease}, tag : Value, spec : Value, readme : (Nat \X Nat) \cup {Nil}]

ASSUME InvocationsAssumption == Invocations \subseteq InvocationType
ASSUME FilesAssumption == Originals \subseteq FilesType /\ Template \in Nat
ASSUME BoundsAssumption == MaxTries \in Nat \ {0} /\ MaxMerges \in Nat
ASSUME NilAssumption == Nil \notin Nat /\ Nil \notin Nat \X Nat /\ Nil \notin Invocations

VARIABLES
  commits,  \* every commit made, wherever it is
  main,     \* upstream main
  fork,     \* main of the user's fork
  branch,   \* the other branches of the fork
  open,     \* open pull requests: their branch, and the commit their run had made
  merges,   \* pull requests merged
  job,      \* job[r]: what run r was asked for
  pc,       \* pc[r]: where r is
  idx,      \* idx[r]: index of r's loop over the versions
  base,     \* base[r]: main of r's clone
  name,     \* name[r]: the branch r works on
  head,     \* head[r]: that branch in r's clone
  calls,    \* calls[r]: createReleasePR calls left, "held" for a patch that failed
  tries     \* tries[r]: calls of the retrier that failed

clone == <<base, name, head>>
upstream == <<main, open, merges>>
vars == <<commits, upstream, fork, branch, job, pc, idx, clone, calls, tries>>

Ended == {"done", "failed", "crashed"}

-----------------------------------------------------------------------------
(* Commits and branches *)

Files(c) == commits[c].files
Ancestors(c) == commits[c].anc
\* Adding a commit that descends from those in anc.
Commit(files, anc) ==
  commits' = Append(commits, [files |-> files, anc |-> anc \cup {Len(commits) + 1}])
NewCommit == Len(commits) + 1

\* The commit of a branch of the fork, 0 if there is none.
Ref(n) == IF n \in DOMAIN branch THEN branch[n] ELSE 0

\* Fault: the push is forced.
Forced(old, new) == TRUE
FastForward(old, new) == old = 0 \/ old \in Ancestors(new)

\* What a field becomes when it is merged; the base decides who changed it.
MergedField(b, ours, theirs) == IF ours = b THEN theirs ELSE ours
MergeBase(a, b) ==
  CHOOSE c \in Ancestors(a) \cap Ancestors(b) : \A d \in Ancestors(a) \cap Ancestors(b) : d <= c
Clean(a, b) ==
  LET o == Files(MergeBase(a, b)) IN
    \A f \in DOMAIN o : Files(a)[f] = o[f] \/ Files(b)[f] = o[f] \/ Files(a)[f] = Files(b)[f]
MergedFiles(a, b) ==
  LET o == Files(MergeBase(a, b)) IN
    [f \in DOMAIN Files(a) |-> MergedField(o[f], Files(a)[f], Files(b)[f])]

-----------------------------------------------------------------------------
(* Building blocks of a run *)

Goto(r, label) == pc' = [pc EXCEPT ![r] = label]
Patch(r) == job[r].patches[idx[r]]

\* The run is over: its clone was in memory.
End(r, how) ==
  /\ Goto(r, how)
  /\ idx' = [idx EXCEPT ![r] = 1]
  /\ base' = [base EXCEPT ![r] = 1] /\ head' = [head EXCEPT ![r] = 1]
  /\ name' = [name EXCEPT ![r] = Nil]
  /\ calls' = [calls EXCEPT ![r] = <<>>]
  /\ tries' = [tries EXCEPT ![r] = 0]

\* The next version.
NextVersion(r) ==
  /\ Goto(r, "clone")
  /\ idx' = [idx EXCEPT ![r] = @ + 1]
  /\ calls' = [calls EXCEPT ![r] = <<>>]
  /\ tries' = [tries EXCEPT ![r] = 0]
  /\ UNCHANGED clone

\* createReleasePR returns: the commands only log its error, but for the call
\* that follows a patch that failed, after which another call is made.
Ends(r, ok) == ~ok /\ Head(calls[r]) = "held"
Return(r, ok) ==
  IF Ends(r, ok) THEN End(r, "failed")
  ELSE IF Head(calls[r]) = "held"
       THEN /\ Goto(r, "commit")
            /\ calls' = [calls EXCEPT ![r] = Tail(calls[r])]
            /\ tries' = [tries EXCEPT ![r] = 0]
            /\ UNCHANGED <<idx, clone>>
       ELSE NextVersion(r)

\* Fault: the number is not incremented.
NumberAsIs(cmd, c) == IF cmd = "new" THEN 0 ELSE Files(c).rel
\* bumpRelease: from the clone's main; NewMinorRelease does not call it.
Number(cmd, c) == IF cmd = "new" THEN 0 ELSE Files(c).rel + 1

BranchName(cmd, p, n) == <<IF cmd = "release" THEN "release" ELSE "version", p, n>>

\* updateGoSpecPatchVersion replaces the number before p, if it is there.
SpecAfter(f, p) == IF f.spec = p - 1 THEN p ELSE f.spec

\* Fault: the number is taken once more, from the branch that was pulled.
EditsFromBranch(f, cmd, p, n) ==
  IF cmd = "release" THEN [f EXCEPT !.readme = <<p, f.rel + 1>>, !.rel = f.rel + 1] ELSE f
\* Fault: the README is written before the number is incremented.
EditsReadmeFirst(f, cmd, p, n) ==
  IF cmd = "release" THEN [f EXCEPT !.readme = <<p, n - 1>>, !.rel = n] ELSE f
\* What the commands write.
Edits(f, cmd, p, n) ==
  CASE cmd = "release" -> [f EXCEPT !.readme = <<p, n>>, !.rel = n]
    [] cmd = "update"  -> [f EXCEPT !.spec = SpecAfter(f, p), !.tag = p]
    [] cmd = "patch"   -> [f EXCEPT !.readme = <<p, n>>, !.tag = p]
    [] cmd = "new"     -> [f EXCEPT !.readme = <<p, 0>>, !.tag = p, !.spec = Template]

\* Fault: a pull request is asked for although the push failed.
OpensAfterAlways(pushed) == TRUE
OpensAfter(pushed) == pushed

TriesLeft(r) == tries[r] + 1 < MaxTries

-----------------------------------------------------------------------------
(* One version *)

\* `new` is for a minor version upstream does not have.
Start(r, inv) ==
  /\ pc[r] = "idle"
  /\ inv.cmd = "new" => Files(main).tag = Nil
  /\ job' = [job EXCEPT ![r] = inv]
  /\ Goto(r, "clone")
  /\ UNCHANGED <<commits, upstream, fork, branch, idx, clone, calls, tries>>

\* The loop over the versions; Clone and bumpRelease.
Clone(r) ==
  /\ pc[r] = "clone"
  /\ IF idx[r] > Len(job[r].patches)
     THEN End(r, "done")
     ELSE \/ End(r, "failed")
          \/ /\ base' = [base EXCEPT ![r] = fork]
             /\ head' = [head EXCEPT ![r] = fork]
             /\ name' = [name EXCEPT ![r] =
                  BranchName(job[r].cmd, Patch(r), Number(job[r].cmd, fork))]
             /\ Goto(r, "branch")
             /\ UNCHANGED <<idx, calls, tries>>
  /\ UNCHANGED <<commits, upstream, fork, branch, job>>

\* Branch: from the clone's main, pulling the branch if the fork has it.
Branch(r) ==
  /\ pc[r] = "branch"
  /\ LET there == Ref(name[r]) IN
       \/ End(r, "failed")
       \/ /\ there = 0 \/ there \in Ancestors(head[r])
          /\ Goto(r, "edit")
          /\ UNCHANGED <<idx, clone, calls, tries>>
       \/ /\ there # 0 /\ head[r] \in Ancestors(there) /\ there # head[r]
          /\ head' = [head EXCEPT ![r] = there]
          /\ Goto(r, "edit")
          /\ UNCHANGED <<idx, base, name, calls, tries>>
  /\ UNCHANGED <<commits, upstream, fork, branch, job>>

\* An update needs the spec; createPatchFile may fail.  A dry run stops here,
\* with the edits only in memory.
Edit(r) ==
  /\ pc[r] = "edit"
  /\ IF job[r].cmd = "update" /\ Files(head[r]).spec = Nil
     THEN End(r, "failed")
     ELSE IF job[r].dryrun
     THEN NextVersion(r)
     ELSE /\ \/ calls' = [calls EXCEPT ![r] = <<"plain">>]
             \/ /\ job[r].cmd = "patch"
                /\ calls' = [calls EXCEPT ![r] = <<"held", "plain">>]
          /\ Goto(r, "commit")
          /\ UNCHANGED <<idx, clone, tries>>
  /\ UNCHANGED <<commits, upstream, fork, branch, job>>

-----------------------------------------------------------------------------
(* createReleasePR: commit, push, pull request *)

\* A commit without changes may be refused; `new` always adds a line to the
\* project's README.
MakeCommit(r) ==
  /\ pc[r] = "commit"
  /\ LET old == Files(head[r])
         new == Edits(old, job[r].cmd, Patch(r), name[r][3])
     IN  \/ /\ new = old /\ job[r].cmd # "new"
            /\ Return(r, FALSE)
            /\ UNCHANGED commits
         \/ /\ Commit(new, Ancestors(head[r]))
            /\ head' = [head EXCEPT ![r] = NewCommit]
            /\ Goto(r, "push")
            /\ UNCHANGED <<idx, base, name, calls, tries>>
  /\ UNCHANGED <<upstream, fork, branch, job>>

\* Push sends the clone's main too: it fails once the fork's main has moved.
\* It may fail anyway, or be done with its answer lost.
Push(r) ==
  /\ pc[r] = "push"
  /\ \E pushed, answered \in BOOLEAN :
       /\ IF pushed
          THEN /\ FastForward(Ref(name[r]), head[r]) /\ FastForward(fork, base[r])
               /\ branch' = [n \in DOMAIN branch \cup {name[r]} |->
                               IF n = name[r] THEN head[r] ELSE branch[n]]
          ELSE ~answered /\ UNCHANGED branch
       /\ IF OpensAfter(answered)
          THEN Goto(r, "pr") /\ UNCHANGED <<idx, clone, calls, tries>>
          ELSE Return(r, FALSE)
  /\ UNCHANGED <<commits, upstream, fork, job>>

\* GitHub opens one pull request per branch, and none without commits of its own.
Opens(r) ==
  /\ Ref(name[r]) # 0 /\ Ref(name[r]) \notin Ancestors(main)
  /\ \A x \in open : x.head # name[r]
  /\ open' = open \cup {[head |-> name[r], carries |-> head[r]]}

\* One call of the retrier in createPR: the pull request is opened, or is found
\* open, or there is an error though it may be open; CreatePr's error is logged
\* only.  Without any answer the status of a nil response is read: a panic.
CreatePr(r) ==
  /\ pc[r] = "pr"
  /\ \/ Opens(r) /\ Return(r, TRUE)
     \/ /\ \E x \in open : x.head = name[r]
        /\ Return(r, TRUE) /\ UNCHANGED open
     \/ /\ Opens(r) \/ UNCHANGED open
        /\ IF TriesLeft(r)
           THEN /\ tries' = [tries EXCEPT ![r] = tries[r] + 1]
                /\ UNCHANGED <<pc, idx, clone, calls>>
           ELSE Return(r, TRUE)
     \/ /\ Opens(r) \/ UNCHANGED open
        /\ End(r, "crashed")
  /\ UNCHANGED <<commits, main, merges, fork, branch, job>>

Step(r) == \/ Clone(r) \/ Branch(r) \/ Edit(r)
           \/ MakeCommit(r) \/ Push(r) \/ CreatePr(r)

-----------------------------------------------------------------------------
(* Maintainers, the user and the machine *)

\* A pull request is merged, by a merge commit or squashed, if git can; its
\* branch may be deleted, but not under a run that uses it.
Merge(x, squash) ==
  /\ merges < MaxMerges
  /\ Clean(main, branch[x.head])
  /\ Commit(MergedFiles(main, branch[x.head]),
            Ancestors(main) \cup (IF squash THEN {} ELSE Ancestors(branch[x.head])))
  /\ main' = NewCommit
  /\ open' = open \ {x}
  /\ merges' = merges + 1
  /\ \/ UNCHANGED branch
     \/ /\ \A r \in Runs : name[r] # x.head
        /\ branch' = [n \in DOMAIN branch \ {x.head} |-> branch[n]]
  /\ UNCHANGED <<fork, job, pc, idx, clone, calls, tries>>

SyncFork ==
  /\ fork # main
  /\ fork' = main
  /\ UNCHANGED <<commits, upstream, branch, job, pc, idx, clone, calls, tries>>

Init ==
  /\ \E f \in Originals : commits = <<[files |-> f, anc |-> {1}]>>
  /\ main = 1 /\ fork = 1
  /\ branch = [n \in {} |-> 0]
  /\ open = {} /\ merges = 0
  /\ job = [r \in Runs |-> Nil]
  /\ pc = [r \in Runs |-> "idle"]
  /\ idx = [r \in Runs |-> 1]
  /\ base = [r \in Runs |-> 1] /\ head = [r \in Runs |-> 1]
  /\ name = [r \in Runs |-> Nil]
  /\ calls = [r \in Runs |-> <<>>]
  /\ tries = [r \in Runs |-> 0]

Next == \/ \E r \in Runs, inv \in Invocations : Start(r, inv)
        \/ \E r \in Runs : Step(r)
        \/ \E x \in open, squash \in BOOLEAN : Merge(x, squash)
        \/ SyncFork

Spec == Init /\ [][Next]_vars

-----------------------------------------------------------------------------
(* Properties *)

Names == {"release", "version"} \X Nat \X Nat

\* Every variable has its type, and refers to commits that exist.
TypeOK ==
  /\ \A c \in DOMAIN commits : /\ Files(c) \in FilesType
                               /\ Ancestors(c) \subseteq 1..c /\ c \in Ancestors(c)
  /\ main \in DOMAIN commits /\ fork \in Ancestors(main)
  /\ DOMAIN branch \subseteq Names /\ \A n \in DOMAIN branch : branch[n] \in DOMAIN commits
  /\ open \subseteq [head : DOMAIN branch, carries : DOMAIN commits]
  /\ merges \in 0..MaxMerges
  /\ job \in [Runs -> Invocations \cup {Nil}]
  /\ pc \in [Runs -> {"idle", "clone", "branch", "edit", "commit", "push", "pr"} \cup Ended]
  /\ idx \in [Runs -> Nat \ {0}]
  /\ base \in [Runs -> DOMAIN commits] /\ head \in [Runs -> DOMAIN commits]
  /\ name \in [Runs -> Names \cup {Nil}]
  /\ calls \in [Runs -> {<<>>, <<"plain">>, <<"held", "plain">>}]
  /\ tries \in [Runs -> 0..MaxTries]

(* No push throws away commits of the fork: a branch only moves to a         *)
(* descendant of what it was, although the release, update and patch runs of *)
(* one version race for it (update and patch under one name).                *)
PushKept ==
  [][\A n \in DOMAIN branch : n \in DOMAIN branch' => branch[n] \in commits'[branch'[n]].anc]_vars

(* An open pull request shows at least the work of the run that opened it:   *)
(* one whose push failed, or lost a race, opens none for its branch.         *)
OpenedCarriesWork == \A x \in open : x.carries \in Ancestors(branch[x.head])

(* RELEASE on main is never stepped by more than one and never goes back,    *)
(* whatever forks are stale and runs concurrent: the number names artifacts. *)
ReleaseSteps == [][commits'[main'].files.rel \in {Files(main).rel, Files(main).rel + 1}]_vars

(* The README on main announces the release RELEASE holds, or, after a patch *)
(* run, which does not write RELEASE, the next one: merges of concurrent or  *)
(* stale runs never tear the two files further apart.  A `new` run writes 0. *)
ReadmeFollows ==
  /\ \A r \in Runs : job[r] # Nil => job[r].cmd # "new"
  /\ Files(main).readme # Nil
  => Files(main).readme[2] \in {Files(main).rel, Files(main).rel + 1}

(* versionReadmeFmt.txt:22, the README of a version: the spec is "modified   *)
(* to include the relevant patches and build the `go%s` source", the version *)
(* the README and GIT_TAG name.                                              *)
SpecBuilds ==
  LET f == Files(main) IN f.readme # Nil /\ f.readme[1] = f.tag => f.spec = f.tag
=============================================================================
