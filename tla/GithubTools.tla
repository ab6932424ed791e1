----------------------------- MODULE GithubTools -----------------------------
(***************************************************************************)
(* The one-shot tools over GitHub's API: eksGoTool's `backport issue` and  *)
(* `createCveIssue` (with pkg/issueManager and pkg/repoManager), and       *)
(* pkg/prManager's CreatePr, which commits a file to a branch through the  *)
(* API if it is given a message, and opens a pull request for the branch.  *)
(* Several of them run at once, people push and merge in between.  A call  *)
(* of the API is answered, fails, or is done with its answer lost.         *)
(*                                                                         *)
(* A commit is its files and the commits it descends from, itself          *)
(* included; a file is the commit that wrote it last.                      *)
(***************************************************************************)
EXTENDS Naturals, Sequences, FiniteSets

CONSTANTS
  Runs,      \* executions of a tool
  Jobs,      \* what one may be asked for
  Titles,    \* what an issue is about: a version, or "toplevel"; "" for an empty line
  Lists,     \* what MAINTAINED_EOL_VERSIONS may hold, line by line
  Branches,  \* branches of the repository the commits go to
  Paths,     \* its files
  MaxTries,  \* calls the retrier makes
  MaxEvents, \* bound on what people do
  Nil        \* nothing

VersionLists == Seq(Titles)
IssueJobs == [cmd : {"backport"}, versions : VersionLists \cup {Nil}] \cup [cmd : {"cve"}]
\* base: a new branch starts there.  into: PrBranch.  fork: prRepoOwner is another's.
PrJobs == [cmd : {"pr"}, branch : Branches, base : Branches, into : Branches,
           path : Paths, message : BOOLEAN, fork : BOOLEAN]

ASSUME JobsAssumption == Jobs \subseteq IssueJobs \cup PrJobs
ASSUME ListsAssumption == {"", "toplevel"} \subseteq Titles /\ Lists \subseteq VersionLists
ASSUME BranchesAssumption == "main" \in Branches
ASSUME BoundsAssumption == MaxTries \in Nat \ {0} /\ MaxEvents \in Nat
ASSUME NilAssumption == Nil \notin VersionLists /\ Nil \notin Jobs

VARIABLES
  issues,   \* issues filed, oldest first
  commits,  \* every commit made, on a branch or not
  refs,     \* refs[b]: the commit of branch b
  open,     \* open pull requests
  opened,   \* history: every pull request ever opened
  closed,   \* history: pull requests that were closed
  deleted,  \* history: branches that were deleted
  events,   \* pushes and merges of people so far
  job,      \* job[r]: what run r was asked for
  pc,       \* pc[r]: where r is
  list,     \* list[r]: the versions r loops over
  pos,      \* pos[r]: index of that loop
  seen,     \* seen[r]: the commit r's reference pointed at when r read it
  made,     \* made[r]: r's commit
  tries,    \* tries[r]: calls of the retrier that failed
  url       \* url[r]: the pull request r names at its end

issueVars == <<issues, list, pos>>
repo == <<commits, refs>>
pulls == <<open, opened>>
past == <<closed, deleted, events>>
prVars == <<seen, made, tries, url>>
vars == <<issueVars, repo, pulls, past, job, pc, prVars>>

Outcomes == {"done", "failed", "lost"}  \* lost: done, but the caller sees an error

-----------------------------------------------------------------------------
(* Building blocks *)

Goto(r, label) == pc' = [pc EXCEPT ![r] = label]

Files(c) == commits[c].files
Ancestors(c) == commits[c].anc
NewCommit == Len(commits) + 1
Commit(files, anc) == commits' = Append(commits, [files |-> files, anc |-> anc \cup {NewCommit}])

HasRef(b) == b \in DOMAIN refs
SetRef(b, c) == refs' = [x \in DOMAIN refs \cup {b} |-> IF x = b THEN c ELSE refs[x]]

\* Fault: force is true.
Forced(old, new) == TRUE
\* GitHub moves a reference to a descendant only.
FastForward(old, new) == old \in Ancestors(new)

\* Fault: the tree of the base branch.
TreeOfBase(r) == [Files(refs[job[r].base]) EXCEPT ![job[r].path] = NewCommit]
\* getTree: based on the commit the reference was read at.
Tree(r) == [Files(seen[r]) EXCEPT ![job[r].path] = NewCommit]

\* The positions of the list that hold a version.
Named(r) == {k \in DOMAIN list[r] : list[r][k] # ""}

\* Fault: the loop goes on after an error.
AfterAlways(o) == "create"
After(o) == IF o = "done" THEN "create" ELSE "failed"

PullOf(j) == [upstream |-> j.fork, head |-> j.branch, into |-> j.into]
\* getPr lists by "prRepoOwner:CommitBranch" and base main; createPR has put the
\* fork's owner before CommitBranch, so a fork's pull request is never listed.
Listed(j) == ~j.fork /\ j.into = "main" /\ PullOf(j) \in open

-----------------------------------------------------------------------------
(* eksGoTool *)

\* What the command goes over: createCveIssue files one issue.
Asked(j) == CASE j.cmd = "backport" /\ j.versions # Nil -> j.versions
              [] j.cmd = "cve" -> <<"toplevel">>
              [] OTHER -> <<>>
FirstStep(j) == CASE j.cmd = "backport" -> IF j.versions = Nil THEN "file" ELSE "issue"
                  [] j.cmd = "cve" -> "issue"
                  [] j.cmd = "pr" -> IF j.message THEN "ref" ELSE "open"

\* The token and the client, or the end.
Start(r, j) ==
  /\ pc[r] = "idle"
  /\ job' = [job EXCEPT ![r] = j]
  /\ \/ Goto(r, "failed") /\ UNCHANGED list
     \/ Goto(r, FirstStep(j)) /\ list' = [list EXCEPT ![r] = Asked(j)]
  /\ UNCHANGED <<issues, pos, repo, pulls, past, prVars>>

\* GetFile and its content
GetFile(r) ==
  /\ pc[r] = "file"
  /\ \/ Goto(r, "failed") /\ UNCHANGED list
     \/ \E l \in Lists : list' = [list EXCEPT ![r] = l] /\ Goto(r, "issue")
  /\ UNCHANGED <<issues, pos, repo, pulls, past, job, prVars>>

\* A toplevel issue without a body is a nil dereference at the first version.
BareEnds(r) == IF Named(r) = {} THEN "done" ELSE "crashed"

GetIssue(r) ==
  /\ pc[r] = "issue"
  /\ \/ Goto(r, "failed")
     \/ Goto(r, "create")
     \/ job[r].cmd = "backport" /\ Goto(r, BareEnds(r))
  /\ UNCHANGED <<issueVars, repo, pulls, past, job, prVars>>

\* The loop; CreateIssue's errors, rate limits included, are all returned.
CreateIssue(r) ==
  /\ pc[r] = "create"
  /\ IF pos[r] > Len(list[r])
     THEN Goto(r, "done") /\ UNCHANGED <<issues, pos>>
     ELSE IF list[r][pos[r]] = ""
     THEN pos' = [pos EXCEPT ![r] = @ + 1] /\ UNCHANGED <<issues, pc>>
     ELSE \E o \in Outcomes :
            /\ issues' = IF o = "failed" THEN issues ELSE Append(issues, [by |-> r, item |-> pos[r]])
            /\ Goto(r, After(o))
            /\ pos' = [pos EXCEPT ![r] = @ + 1]
  /\ UNCHANGED <<list, repo, pulls, past, job, prVars>>

-----------------------------------------------------------------------------
(* CreatePr: the commit *)

\* getRef's first call.  Any error is taken for a branch that is not there.
GetRef(r) ==
  /\ pc[r] = "ref"
  /\ \/ /\ HasRef(job[r].branch)
        /\ seen' = [seen EXCEPT ![r] = refs[job[r].branch]]
        /\ Goto(r, "commit")
     \/ /\ Goto(r, IF job[r].branch = job[r].base THEN "failed" ELSE "base")
        /\ UNCHANGED seen
  /\ UNCHANGED <<issueVars, repo, pulls, past, job, made, tries, url>>

GetBase(r) ==
  /\ pc[r] = "base"
  /\ \/ Goto(r, "failed") /\ UNCHANGED seen
     \/ /\ HasRef(job[r].base)
        /\ seen' = [seen EXCEPT ![r] = refs[job[r].base]]
        /\ Goto(r, "newRef")
  /\ UNCHANGED <<issueVars, repo, pulls, past, job, made, tries, url>>

Free(b) == ~HasRef(b)

CreateRef(r) ==
  /\ pc[r] = "newRef"
  /\ \/ /\ Free(job[r].branch) /\ SetRef(job[r].branch, seen[r])
        /\ Goto(r, "commit") \/ Goto(r, "failed")
     \/ Goto(r, "failed") /\ UNCHANGED refs
  /\ UNCHANGED <<issueVars, commits, pulls, past, job, prVars>>

\* getTree, GetCommit and CreateCommit make objects nobody sees yet.
CreateCommit(r) ==
  /\ pc[r] = "commit"
  /\ \/ Goto(r, "failed") /\ UNCHANGED <<commits, made>>
     \/ /\ Commit(Tree(r), Ancestors(seen[r]))
        /\ made' = [made EXCEPT ![r] = NewCommit]
        /\ Goto(r, "update")
  /\ UNCHANGED <<issueVars, refs, pulls, past, job, seen, tries, url>>

Updated(o) == IF o = "done" THEN "open" ELSE "failed"

UpdateRef(r) ==
  /\ pc[r] = "update"
  /\ \E o \in Outcomes :
       /\ IF o = "failed" THEN UNCHANGED refs
          ELSE /\ HasRef(job[r].branch) /\ FastForward(refs[job[r].branch], made[r])
               /\ SetRef(job[r].branch, made[r])
       /\ Goto(r, Updated(o))
  /\ UNCHANGED <<issueVars, commits, pulls, past, job, prVars>>

-----------------------------------------------------------------------------
(* CreatePr: the pull request *)

\* GitHub opens one pull request for a branch of a repository into a branch.
Opens(j) ==
  /\ HasRef(j.branch) /\ PullOf(j) \notin open
  /\ open' = open \cup {PullOf(j)}
  /\ opened' = opened \cup {PullOf(j)}

\* The retrier calls again, or gives up.
Again(r) ==
  IF tries[r] + 1 < MaxTries
  THEN tries' = [tries EXCEPT ![r] = @ + 1] /\ Goto(r, "open")
  ELSE Goto(r, "failed") /\ UNCHANGED tries

\* CreatePr returns a URL, "" for none.
Answer(r, u) == Goto(r, "done") /\ url' = [url EXCEPT ![r] = u]

\* Fault: any refusal is taken for a pull request that exists.
ExistsAlways(j) == TRUE
Exists(j) == PullOf(j) \in open

\* One call of createPR's closure.  No answer at all is a nil response: a panic.
OpenPull(r) ==
  /\ pc[r] = "open"
  /\ \/ Opens(job[r]) /\ Answer(r, "url") /\ UNCHANGED tries
     \/ /\ Exists(job[r])
        /\ Goto(r, "find") /\ UNCHANGED <<pulls, tries, url>>
     \/ /\ Opens(job[r]) \/ UNCHANGED pulls
        /\ Again(r) /\ UNCHANGED url
     \/ /\ Opens(job[r]) \/ UNCHANGED pulls
        /\ Goto(r, "crashed") /\ UNCHANGED <<tries, url>>
  /\ UNCHANGED <<issueVars, repo, past, job, seen, made>>

\* Fault: the empty answer is handed on.
FoundNil(j) == IF Listed(j) THEN "url" ELSE Nil
\* getPr: what it lists, it gets; an empty list is no error.
FoundUrl(j) == IF Listed(j) THEN "url" ELSE ""

FindPull(r) ==
  /\ pc[r] = "find"
  /\ \/ Answer(r, FoundUrl(job[r])) /\ UNCHANGED tries
     \/ Again(r) /\ UNCHANGED url
  /\ UNCHANGED <<issueVars, repo, pulls, past, job, seen, made>>

Step(r) == \/ GetFile(r) \/ GetIssue(r) \/ CreateIssue(r)
           \/ GetRef(r) \/ GetBase(r) \/ CreateRef(r) \/ CreateCommit(r) \/ UpdateRef(r)
           \/ OpenPull(r) \/ FindPull(r)

-----------------------------------------------------------------------------
(* People *)

\* Of two versions of a file the one that descends from the other, else a new one.
Newer(x, y) == IF x \in Ancestors(y) THEN y ELSE IF y \in Ancestors(x) THEN x ELSE NewCommit

\* A commit to a branch.
PersonPushes(b, p) ==
  /\ events < MaxEvents /\ events' = events + 1
  /\ HasRef(b)
  /\ Commit([Files(refs[b]) EXCEPT ![p] = NewCommit], Ancestors(refs[b]))
  /\ SetRef(b, NewCommit)
  /\ UNCHANGED <<issueVars, pulls, closed, deleted, job, pc, prVars>>

\* A pull request is merged, in its repository, and its branch deleted, or not.
Merge(x) ==
  /\ events < MaxEvents /\ events' = events + 1
  /\ HasRef(x.head) /\ HasRef(x.into) /\ x.head # x.into
  /\ open' = open \ {x} /\ closed' = closed \cup {x}
  /\ LET ours == refs[x.into]
         theirs == refs[x.head]
         files == [p \in Paths |-> Newer(Files(ours)[p], Files(theirs)[p])]
         kept == IF x.upstream THEN refs ELSE [refs EXCEPT ![x.into] = NewCommit]
     IN  /\ IF x.upstream THEN UNCHANGED commits
            ELSE Commit(files, Ancestors(ours) \cup Ancestors(theirs))
         /\ \/ refs' = kept /\ UNCHANGED deleted
            \/ /\ refs' = [b \in DOMAIN refs \ {x.head} |-> kept[b]]
               /\ deleted' = deleted \cup {x.head}
  /\ UNCHANGED <<issueVars, opened, job, pc, prVars>>

Init ==
  /\ issues = <<>>
  /\ commits = <<[files |-> [p \in Paths |-> 1], anc |-> {1}]>>
  /\ \E there \in SUBSET Branches : "main" \in there /\ refs = [b \in there |-> 1]
  /\ open = {} /\ opened = {} /\ closed = {} /\ deleted = {} /\ events = 0
  /\ job = [r \in Runs |-> Nil] /\ pc = [r \in Runs |-> "idle"]
  /\ list = [r \in Runs |-> <<>>] /\ pos = [r \in Runs |-> 1]
  /\ seen = [r \in Runs |-> 1] /\ made = [r \in Runs |-> 1]
  /\ tries = [r \in Runs |-> 0] /\ url = [r \in Runs |-> ""]

Next == \/ \E r \in Runs, j \in Jobs : Start(r, j)
        \/ \E r \in Runs : Step(r)
        \/ \E b \in Branches, p \in Paths : PersonPushes(b, p)
        \/ \E x \in open : Merge(x)

Spec == Init /\ [][Next]_vars

-----------------------------------------------------------------------------
(* Properties *)

Pulls == [upstream : BOOLEAN, head : Branches, into : Branches]
Labels == {"idle", "file", "issue", "create", "ref", "base", "newRef", "commit", "update",
           "open", "find", "done", "failed", "crashed"}

\* Every variable has its type, and refers to commits that exist.
TypeOK ==
  /\ issues \in Seq([by : Runs, item : Nat])
  /\ \A c \in DOMAIN commits : /\ Files(c) \in [Paths -> 1..c]
                               /\ Ancestors(c) \subseteq 1..c /\ c \in Ancestors(c)
  /\ DOMAIN refs \subseteq Branches /\ \A b \in DOMAIN refs : refs[b] \in DOMAIN commits
  /\ open \subseteq opened /\ opened \subseteq Pulls /\ closed \subseteq opened
  /\ deleted \subseteq Branches /\ events \in 0..MaxEvents
  /\ job \in [Runs -> Jobs \cup {Nil}] /\ pc \in [Runs -> Labels]
  /\ list \in [Runs -> VersionLists] /\ pos \in [Runs -> Nat \ {0}]
  /\ seen \in [Runs -> DOMAIN commits] /\ made \in [Runs -> DOMAIN commits]
  /\ tries \in [Runs -> Nat] /\ url \in [Runs -> {"", "url"}]

Filed(r) == {issues[i].item : i \in {j \in DOMAIN issues : issues[j].by = r}}

\* The issues of a run are those of the first versions of its list, in order and none
\* twice: all of them if it reports success, none if it panicked, and one that failed
\* is followed by none.
FiledInOrder ==
  /\ \A i, j \in DOMAIN issues :
       i < j /\ issues[i].by = issues[j].by => issues[i].item < issues[j].item
  /\ \A r \in Runs :
       /\ \E k \in 1..(Len(list[r]) + 1) : Filed(r) = {n \in Named(r) : n < k}
       /\ pc[r] = "done" => Filed(r) = Named(r)
       /\ pc[r] = "crashed" => Filed(r) = {}

\* No commit takes another's work back: what a commit has of a file is at least as
\* recent as what any commit before it had, although branches are read, moved and
\* merged by others while a run builds its commit.
NothingTakenBack ==
  \A c \in DOMAIN commits : \A a \in Ancestors(c), p \in Paths :
    Files(a)[p] \in Ancestors(Files(c)[p])

\* A run that asks for a pull request has its commit on its branch, and it stays there
\* until the branch is deleted, whatever the other runs on that branch do.
Landed ==
  \A r \in Runs :
    /\ job[r] # Nil /\ job[r].cmd = "pr" /\ job[r].message
    /\ pc[r] \in {"open", "find", "done"}
    => LET b == job[r].branch IN b \in deleted \/ (HasRef(b) /\ made[r] \in Ancestors(refs[b]))

\* CreatePr reports success only for a pull request that was opened, by it or before,
\* and names none only if it could not be listed: a fork's, one that is not into main,
\* or one closed since.
NamedWhenListed ==
  \A r \in Runs : job[r] # Nil /\ job[r].cmd = "pr" /\ pc[r] = "done" =>
    /\ PullOf(job[r]) \in opened
    /\ url[r] = "" => job[r].fork \/ job[r].into # "main" \/ PullOf(job[r]) \in closed
=============================================================================
