--------------------------- MODULE GithubToolsProofs ---------------------------
(***************************************************************************)
(* Theorems about GithubTools, for any number of runs, jobs, branches,     *)
(* files and people's commits: commits that take nothing back, that land   *)
(* and stay, pull requests that are named, issues filed in order.          *)
(***************************************************************************)
EXTENDS GithubTools, SequenceTheorems, TLAPS

IssueLabels == {"file", "issue", "create"}
PrLabels == {"ref", "base", "newRef", "commit", "update", "open", "find"}

\* A run is at a step of what it was asked for.
Types ==
  /\ job \in [Runs -> Jobs \cup {Nil}] /\ pc \in [Runs -> Labels]
  /\ tries \in [Runs -> Nat] /\ url \in [Runs -> {"", "url"}] /\ events \in 0..MaxEvents
Place(r) == /\ pc[r] = "idle" \/ job[r] \in Jobs
            /\ pc[r] \in IssueLabels => job[r].cmd # "pr"
            /\ pc[r] \in PrLabels => job[r].cmd = "pr"
Control == Types /\ \A r \in Runs : Place(r)

\* A commit descends from the writers of its files and from what these descend from.
CommitOK(c) ==
  /\ Files(c) \in [Paths -> Ancestors(c)] /\ Ancestors(c) \subseteq 1..c /\ c \in Ancestors(c)
  /\ \A a \in Ancestors(c) : Ancestors(a) \subseteq Ancestors(c)
Commits == [files : [Paths -> Nat], anc : SUBSET Nat]
Graph == /\ commits \in Seq(Commits) /\ commits # <<>>
         /\ \A c \in DOMAIN commits : CommitOK(c)

\* Branches and runs refer to commits that exist.
Pointing ==
  /\ DOMAIN refs \subseteq Branches /\ \A b \in DOMAIN refs : refs[b] \in DOMAIN commits
  /\ seen \in [Runs -> DOMAIN commits] /\ made \in [Runs -> DOMAIN commits]
  /\ deleted \subseteq Branches

\* A pull request that is not open any more was closed.
PullSets == /\ open \subseteq opened /\ opened \subseteq Pulls /\ closed \subseteq opened
            /\ opened \subseteq open \cup closed
PullBy(r) ==
  /\ pc[r] = "find" => PullOf(job[r]) \in opened
  /\ pc[r] = "done" /\ job[r].cmd = "pr" =>
       /\ PullOf(job[r]) \in opened
       /\ url[r] = "" => job[r].fork \/ job[r].into # "main" \/ PullOf(job[r]) \in closed
Pulling == PullSets /\ \A r \in Runs : PullBy(r)

\* The issues of a run are those before its position, but for the last if that failed.
Before(r, k) == {n \in Named(r) : n < k}
Filing(r) ==
  /\ list[r] \in VersionLists /\ pos[r] \in 1..(Len(list[r]) + 1)
  /\ pc[r] \in PrLabels => list[r] = <<>>
  /\ pc[r] \in {"idle", "file", "issue"} \cup PrLabels => pos[r] = 1
  /\ pc[r] = "idle" => list[r] = <<>>
  /\ pc[r] \in Labels \ {"done", "failed", "crashed"} => Filed(r) = Before(r, pos[r])
  /\ pc[r] = "done" => Filed(r) = Named(r)
  /\ pc[r] = "crashed" => Filed(r) = {}
  /\ \E k \in 1..(Len(list[r]) + 1) : Filed(r) = Before(r, k)
  /\ \A n \in Filed(r) : n < pos[r]
Issuing ==
  /\ issues \in Seq([by : Runs, item : Nat])
  /\ list \in [Runs -> VersionLists] /\ pos \in [Runs -> Nat \ {0}]
  /\ \A r \in Runs : Filing(r)
  /\ \A i, j \in DOMAIN issues :
       i < j /\ issues[i].by = issues[j].by => issues[i].item < issues[j].item

\* Landed, of one run.
LandedBy(r) ==
  job[r] # Nil /\ job[r].cmd = "pr" /\ job[r].message /\ pc[r] \in {"open", "find", "done"}
  => \/ job[r].branch \in deleted
     \/ HasRef(job[r].branch) /\ made[r] \in Ancestors(refs[job[r].branch])
Repo == Graph /\ NothingTakenBack /\ Pointing /\ \A r \in Runs : LandedBy(r)

Inv == Control /\ Repo /\ Pulling /\ Issuing

-----------------------------------------------------------------------------
(* The graph of commits *)

\* A step makes commits, and moves branches to descendants.
Grows == /\ DOMAIN commits \subseteq DOMAIN commits'
         /\ \A c \in DOMAIN commits : commits'[c] = commits[c]
Advances == \A b \in DOMAIN refs :
  b \in deleted' \/ (b \in DOMAIN refs' /\ refs[b] \in commits'[refs'[b]].anc)

\* A commit whose files are its own or those of newer writers joins the graph.
LEMMA CommitJoins ==
  ASSUME Graph, NothingTakenBack, NEW f \in [Paths -> Nat], NEW A, NEW N, N = NewCommit,
         A \subseteq DOMAIN commits, \A a \in A : Ancestors(a) \subseteq A,
         \A p \in Paths :
           \/ f[p] = N
           \/ f[p] \in A /\ \A a \in A : Files(a)[p] \in Ancestors(f[p]),
         Commit(f, A)
  PROVE  /\ Graph' /\ NothingTakenBack' /\ Grows
         /\ N \in DOMAIN commits' /\ commits'[N].anc = A \cup {N}
<1> DEFINE new == [files |-> f, anc |-> A \cup {N}]
<1>1. /\ commits \in Seq(Commits) /\ commits' = Append(commits, new)
      /\ N = Len(commits) + 1 /\ DOMAIN commits = 1..Len(commits) /\ Len(commits) \in Nat
  BY DEF Graph, Commit, NewCommit
<1>2. new \in Commits
  BY <1>1 DEF Commits
<1>3. /\ commits' \in Seq(Commits) /\ DOMAIN commits' = 1..N /\ Len(commits') = N
      /\ commits'[N] = new /\ \A c \in DOMAIN commits : commits'[c] = commits[c]
  <2> HIDE DEF new
  <2>1. /\ commits' \in Seq(Commits) /\ Len(commits') = N /\ commits'[N] = new
        /\ \A c \in 1..Len(commits) : commits'[c] = commits[c]
    BY <1>1, <1>2, AppendProperties
  <2> QED BY <1>1, <2>1
<1>4. /\ commits'[N].files = f /\ commits'[N].anc = A \cup {N}
      /\ \A c \in DOMAIN commits : commits'[c] = commits[c] /\ c \in Nat /\ c < N
      /\ DOMAIN commits' = DOMAIN commits \cup {N} /\ N \in Nat /\ N \notin DOMAIN commits
  <2>1. new.files = f /\ new.anc = A \cup {N}
    OBVIOUS
  <2>2. N \in Nat /\ DOMAIN commits' = DOMAIN commits \cup {N} /\ N \notin DOMAIN commits
        /\ \A c \in DOMAIN commits : c \in Nat /\ c < N
    <3> HIDE DEF new
    <3> QED BY <1>1, <1>3
  <2> QED BY <1>3, <2>1, <2>2
<1> HIDE DEF new
<1>5. ASSUME NEW c \in DOMAIN commits PROVE CommitOK(c)'
  <2>1. CommitOK(c) /\ Ancestors(c) \subseteq DOMAIN commits
    BY <1>1 DEF Graph, CommitOK
  <2>2. /\ commits'[c] = commits[c] /\ \A a \in Ancestors(c) : commits'[a] = commits[a]
    BY <2>1, <1>4
  <2> QED BY <2>1, <2>2 DEF CommitOK, Files, Ancestors
<1>6. CommitOK(N)'
  <2>1. f \in [Paths -> A \cup {N}]
    OBVIOUS
  <2>2. A \cup {N} \subseteq 1..N
    BY <1>1, <1>4
  <2>3. \A a \in A : commits'[a].anc \subseteq A \cup {N}
    BY <1>4 DEF Ancestors
  <2> QED BY <1>4, <2>1, <2>2, <2>3 DEF CommitOK, Files, Ancestors
<1>7. Graph'
  <2>1. commits' # <<>>
    BY <1>1, <1>2, AppendProperties
  <2>2. \A c \in DOMAIN commits' : CommitOK(c)'
    BY <1>4, <1>5, <1>6
  <2> QED BY <1>3, <2>1, <2>2 DEF Graph
<1>8. NothingTakenBack'
  <2>1. ASSUME NEW c \in DOMAIN commits, NEW a \in Ancestors(c), NEW p \in Paths
        PROVE  commits'[a].files[p] \in commits'[commits'[c].files[p]].anc
    <3>1. a \in DOMAIN commits /\ Files(c)[p] \in DOMAIN commits
      BY <1>1 DEF Graph, CommitOK
    <3> QED BY <3>1, <1>4 DEF NothingTakenBack, Files, Ancestors
  <2>2. ASSUME NEW a \in A \cup {N}, NEW p \in Paths
        PROVE  commits'[a].files[p] \in commits'[f[p]].anc
    <3>1. CASE a = N /\ f[p] = N
      BY <1>4, <3>1
    <3>2. CASE a = N /\ f[p] # N
      <4>1. f[p] \in DOMAIN commits
        BY <3>2
      <4>2. f[p] \in Ancestors(f[p])
        BY <4>1 DEF Graph, CommitOK
      <4> QED BY <3>2, <4>1, <4>2, <1>4 DEF Ancestors
    <3>3. CASE a # N /\ f[p] = N
      <4>1. a \in DOMAIN commits /\ a \in A
        BY <3>3
      <4>2. Files(a)[p] \in Ancestors(a)
        BY <4>1 DEF Graph, CommitOK
      <4> QED BY <3>3, <4>1, <4>2, <1>4 DEF Files, Ancestors
    <3>4. CASE a # N /\ f[p] # N
      <4>1. a \in DOMAIN commits /\ f[p] \in DOMAIN commits /\ Files(a)[p] \in Ancestors(f[p])
        BY <3>4
      <4> QED BY <4>1, <1>4 DEF Files, Ancestors
    <3> QED BY <3>1, <3>2, <3>3, <3>4
  <2>3. \A c \in DOMAIN commits : commits'[c].anc = Ancestors(c)
    BY <1>4 DEF Ancestors
  <2> QED BY <1>4, <2>1, <2>2, <2>3 DEF NothingTakenBack, Files, Ancestors
<1> QED BY <1>4, <1>7, <1>8 DEF Grows

\* The same for a commit on top of another, that writes one file.
LEMMA CommitOnTop ==
  ASSUME Graph, NothingTakenBack, NEW c \in DOMAIN commits, NEW p \in Paths, NEW N, N = NewCommit,
         Commit([Files(c) EXCEPT ![p] = N], Ancestors(c))
  PROVE  /\ Graph' /\ NothingTakenBack' /\ Grows
         /\ N \in DOMAIN commits' /\ commits'[N].anc = Ancestors(c) \cup {N}
<1> DEFINE f == [Files(c) EXCEPT ![p] = N]
           A == Ancestors(c)
<1>1. /\ CommitOK(c) /\ Len(commits) \in Nat /\ DOMAIN commits = 1..Len(commits)
      /\ c \in Nat /\ c <= Len(commits) /\ N \in Nat
  BY DEF Graph, NewCommit
<1>2. A \subseteq DOMAIN commits /\ A \subseteq Nat
  BY <1>1 DEF CommitOK
<1>3. f \in [Paths -> Nat]
  BY <1>1, <1>2 DEF CommitOK
<1>4. \A a \in A : Ancestors(a) \subseteq A
  BY <1>1 DEF CommitOK
<1>5. ASSUME NEW q \in Paths, f[q] # N
      PROVE  f[q] \in A /\ \A a \in A : Files(a)[q] \in Ancestors(f[q])
  <2>1. f[q] = Files(c)[q]
    BY <1>1, <1>5 DEF CommitOK
  <2> HIDE DEF f
  <2> QED BY <1>1, <2>1 DEF CommitOK, NothingTakenBack
<1> HIDE DEF f, A
<1>6. Commit(f, A)
  BY DEF f, A
<1>7. /\ Graph' /\ NothingTakenBack' /\ Grows
      /\ N \in DOMAIN commits' /\ commits'[N].anc = A \cup {N}
  BY <1>2, <1>3, <1>4, <1>5, <1>6, CommitJoins
<1> QED BY <1>7 DEF A

\* A commit that landed stays, as branches advance.
LEMMA LandedStays ==
  ASSUME Graph, Graph', Pointing, Pointing', Grows, Advances, deleted \subseteq deleted', NEW r \in Runs, LandedBy(r),
         job'[r] = job[r], made'[r] = made[r],
         pc'[r] \in {"open", "find", "done"} => pc[r] \in {"open", "find", "done"}
  PROVE  LandedBy(r)'
<1> DEFINE b == job[r].branch
<1> SUFFICES ASSUME HasRef(b), made[r] \in Ancestors(refs[b]), b \notin deleted'
             PROVE  b \in DOMAIN refs' /\ made[r] \in commits'[refs'[b]].anc
  BY DEF LandedBy, HasRef, Ancestors
<1> HIDE DEF b
<1>1. b \in DOMAIN refs' /\ refs[b] \in commits'[refs'[b]].anc
  BY DEF Advances, HasRef
<1>2. refs[b] \in DOMAIN commits /\ refs'[b] \in DOMAIN commits'
  BY <1>1 DEF Pointing, HasRef
<1>3. made[r] \in commits'[refs[b]].anc
  BY <1>2 DEF Grows, Ancestors
<1>4. commits'[refs[b]].anc \subseteq commits'[refs'[b]].anc
  BY <1>1, <1>2 DEF Graph, CommitOK, Ancestors
<1> QED BY <1>1, <1>3, <1>4

\* A step that leaves commits and branches alone.
LEMMA NothingMoves ==
  ASSUME Graph, Pointing, UNCHANGED <<commits, refs>>
  PROVE  Grows /\ Advances
BY DEF Graph, CommitOK, Pointing, Grows, Advances, Ancestors

-----------------------------------------------------------------------------
(* Control *)

\* What a command begins with.
LEMMA JobKinds ==
  ASSUME NEW j \in Jobs
  PROVE  /\ j.cmd \in {"backport", "cve", "pr"}
         /\ j.cmd = "pr" => j \in PrJobs
         /\ j.cmd # "pr" => FirstStep(j) \in {"file", "issue"}
         /\ j.cmd = "pr" => FirstStep(j) = (IF j.message THEN "ref" ELSE "open")
         /\ Asked(j) \in VersionLists
         /\ j.cmd = "pr" \/ FirstStep(j) = "file" => Asked(j) = <<>>
<1>1. CASE j \in [cmd : {"backport"}, versions : VersionLists \cup {Nil}]
  <2>1. j.cmd = "backport" /\ j.versions \in VersionLists \cup {Nil}
    BY <1>1
  <2>2. <<>> \in VersionLists
    BY DEF VersionLists
  <2>3. CASE j.versions = Nil
    BY <2>1, <2>2, <2>3 DEF FirstStep, Asked
  <2>4. CASE j.versions # Nil
    <3>1. FirstStep(j) = "issue" /\ Asked(j) = j.versions
      BY <2>1, <2>4 DEF FirstStep, Asked
    <3> QED BY <2>1, <2>4, <3>1
  <2> QED BY <2>3, <2>4
<1>2. CASE j \in [cmd : {"cve"}]
  <2>1. j.cmd = "cve"
    BY <1>2
  <2>2. <<"toplevel">> \in VersionLists
    <3>1. ASSUME NEW t \in Titles PROVE <<t>> \in Seq(Titles)
      OBVIOUS
    <3> QED BY <3>1, ListsAssumption DEF VersionLists
  <2> QED BY <2>1, <2>2 DEF FirstStep, Asked
<1>3. CASE j \in PrJobs
  <2>1. j.cmd = "pr" /\ j.message \in BOOLEAN
    BY <1>3 DEF PrJobs
  <2>2. <<>> \in VersionLists
    BY DEF VersionLists
  <2> QED BY <1>3, <2>1, <2>2 DEF FirstStep, Asked
<1> QED BY <1>1, <1>2, <1>3, JobsAssumption DEF IssueJobs

\* A step of one run to l, and one of no run.
LEMMA ControlMoves ==
  ASSUME Control, NEW r \in Runs, NEW l \in Labels \ {"idle"}, pc' = [pc EXCEPT ![r] = l],
         job' = job \/ \E j \in Jobs : job' = [job EXCEPT ![r] = j],
         pc[r] = "idle" => job'[r] \in Jobs,
         l \in IssueLabels => job'[r].cmd # "pr", l \in PrLabels => job'[r].cmd = "pr",
         tries' = tries \/ tries' = [tries EXCEPT ![r] = @ + 1],
         url' = url \/ \E u \in {"", "url"} : url' = [url EXCEPT ![r] = u],
         events' = events
  PROVE  Control'
<1>1. Types'
  <2>1. job' \in [Runs -> Jobs \cup {Nil}]
    BY DEF Control, Types
  <2>5. pc' \in [Runs -> Labels]
    BY DEF Control, Types
  <2>2. tries' \in [Runs -> Nat]
    <3>1. tries \in [Runs -> Nat]
      BY DEF Control, Types
    <3>2. tries[r] + 1 \in Nat
      BY ONLY <3>1, r \in Runs
    <3> QED BY <3>1, <3>2, Zenon
  <2>3. url' \in [Runs -> {"", "url"}]
    BY DEF Control, Types
  <2>4. events' \in 0..MaxEvents
    BY DEF Control, Types
  <2> QED BY <2>1, <2>2, <2>3, <2>4, <2>5 DEF Types
<1>2. ASSUME NEW k \in Runs, k # r PROVE Place(k)'
  <2>1. pc'[k] = pc[k] /\ job'[k] = job[k] /\ Place(k)
    BY <1>2 DEF Control, Types
  <2> QED BY <2>1 DEF Place
<1>3. Place(r)'
  <2>1. pc'[r] = l /\ Place(r) /\ (job'[r] = job[r] \/ job'[r] \in Jobs)
    BY DEF Control, Types
  <2> QED BY <2>1 DEF Place
<1> QED BY <1>1, <1>2, <1>3 DEF Control

LEMMA ControlStays ==
  ASSUME Control, UNCHANGED <<job, pc, tries, url>>, events' \in 0..MaxEvents
  PROVE  Control'
<1>1. Types'
  BY DEF Control, Types
<1>2. \A k \in Runs : Place(k)'
  BY DEF Control, Place
<1> QED BY <1>1, <1>2 DEF Control

LEMMA ControlInv == Control /\ [Next]_vars => Control'
<1> SUFFICES ASSUME Control, [Next]_vars PROVE Control'
  OBVIOUS
<1>1. ASSUME NEW r \in Runs, NEW j \in Jobs, Start(r, j) PROVE Control'
  <2>1. /\ job' = [job EXCEPT ![r] = j] /\ UNCHANGED <<events, tries, url>> /\ job'[r] = j
        /\ pc' = [pc EXCEPT ![r] = "failed"] \/ pc' = [pc EXCEPT ![r] = FirstStep(j)]
    BY <1>1 DEF Start, Goto, past, prVars, Control, Types
  <2>2. /\ j.cmd # "pr" => FirstStep(j) \in {"file", "issue"}
        /\ j.cmd = "pr" => FirstStep(j) \in {"ref", "open"}
    BY JobKinds
  <2>3. PICK l \in {"failed", FirstStep(j)} : pc' = [pc EXCEPT ![r] = l]
    BY <2>1
  <2> QED BY <2>1, <2>2, <2>3, ControlMoves DEF Labels, IssueLabels, PrLabels
<1>2. ASSUME NEW r \in Runs, GetFile(r) \/ GetIssue(r) \/ CreateIssue(r) PROVE Control'
  <2>1. /\ pc[r] \in IssueLabels /\ UNCHANGED <<job, tries, url, events>>
        /\ \/ pc' = pc
           \/ \E l \in {"issue", "create", "done", "failed", "crashed"} : pc' = [pc EXCEPT ![r] = l]
    BY <1>2 DEF GetFile, GetIssue, CreateIssue, BareEnds, After, Goto, IssueLabels, past, prVars
  <2>2. job[r].cmd # "pr"
    BY <2>1 DEF Control, Place
  <2>3. CASE pc' = pc
    BY <2>1, <2>3, ControlStays DEF Control, Types
  <2>4. ASSUME NEW l \in {"issue", "create", "done", "failed", "crashed"}, pc' = [pc EXCEPT ![r] = l]
        PROVE  Control'
    BY <2>1, <2>2, <2>4, ControlMoves DEF Labels, IssueLabels, PrLabels
  <2> QED BY <2>1, <2>3, <2>4
<1>3. ASSUME NEW r \in Runs,
             GetRef(r) \/ GetBase(r) \/ CreateRef(r) \/ CreateCommit(r) \/ UpdateRef(r)
             \/ OpenPull(r) \/ FindPull(r)
      PROVE  Control'
  <2> DEFINE Kept == UNCHANGED <<job, tries, url, events>>
             To(L) == \E l \in L : pc' = [pc EXCEPT ![r] = l]
  <2>1. GetRef(r) => pc[r] = "ref" /\ Kept /\ To({"commit", "base", "failed"})
    BY DEF GetRef, Goto, past
  <2>2. GetBase(r) => pc[r] = "base" /\ Kept /\ To({"newRef", "failed"})
    BY DEF GetBase, Goto, past
  <2>3. CreateRef(r) => pc[r] = "newRef" /\ Kept /\ To({"commit", "failed"})
    BY DEF CreateRef, Goto, past, prVars
  <2>4. CreateCommit(r) => pc[r] = "commit" /\ Kept /\ To({"update", "failed"})
    BY DEF CreateCommit, Goto, past
  <2>5. UpdateRef(r) => pc[r] = "update" /\ Kept /\ To({"open", "failed"})
    BY DEF UpdateRef, Updated, Goto, past, prVars
  <2>6. Again(r) => /\ To({"open", "failed"})
                    /\ tries' = tries \/ tries' = [tries EXCEPT ![r] = @ + 1]
    BY DEF Again, Goto
  <2>7. OpenPull(r) => /\ pc[r] = "open" /\ UNCHANGED <<job, events>>
                       /\ To({"done", "find", "open", "failed", "crashed"})
                       /\ tries' = tries \/ tries' = [tries EXCEPT ![r] = @ + 1]
                       /\ url' = url \/ url' = [url EXCEPT ![r] = "url"]
    BY <2>6 DEF OpenPull, Answer, Goto, past
  <2>8. FindPull(r) => /\ pc[r] = "find" /\ UNCHANGED <<job, events>>
                       /\ To({"done", "open", "failed"})
                       /\ tries' = tries \/ tries' = [tries EXCEPT ![r] = @ + 1]
                       /\ url' = url \/ \E u \in {"", "url"} : url' = [url EXCEPT ![r] = u]
    BY <2>6 DEF FindPull, FoundUrl, Answer, Goto, past
  <2> DEFINE L == PrLabels \cup {"done", "failed", "crashed"}
  <2>9. /\ pc[r] \in PrLabels /\ UNCHANGED <<job, events>> /\ To(L)
        /\ tries' = tries \/ tries' = [tries EXCEPT ![r] = @ + 1]
        /\ url' = url \/ \E u \in {"", "url"} : url' = [url EXCEPT ![r] = u]
    BY <1>3, <2>1, <2>2, <2>3, <2>4, <2>5, <2>7, <2>8 DEF PrLabels
  <2>10. job[r].cmd = "pr"
    BY <2>9 DEF Control, Place
  <2>11. PICK l \in L : pc' = [pc EXCEPT ![r] = l]
    BY <2>9
  <2>12. l \in Labels \ {"idle"} /\ l \notin IssueLabels
    BY <2>11 DEF Labels, PrLabels, IssueLabels
  <2>13. pc[r] # "idle"
    BY <2>9 DEF PrLabels
  <2> QED BY <2>9, <2>10, <2>11, <2>12, <2>13, ControlMoves
<1>4. ASSUME NEW b \in Branches, NEW p \in Paths, PersonPushes(b, p) PROVE Control'
  <2>1. events < MaxEvents /\ events' = events + 1 /\ UNCHANGED <<job, pc, tries, url>>
    BY <1>4 DEF PersonPushes, prVars
  <2>2. events \in 0..MaxEvents
    BY DEF Control, Types
  <2>3. events' \in 0..MaxEvents
    BY <2>1, <2>2, BoundsAssumption
  <2> QED BY <2>1, <2>3, ControlStays
<1>5. ASSUME NEW x \in open, Merge(x) PROVE Control'
  <2>1. events < MaxEvents /\ events' = events + 1 /\ UNCHANGED <<job, pc, tries, url>>
    BY <1>5 DEF Merge, prVars
  <2>2. events \in 0..MaxEvents
    BY DEF Control, Types
  <2>3. events' \in 0..MaxEvents
    BY <2>1, <2>2, BoundsAssumption
  <2> QED BY <2>1, <2>3, ControlStays
<1>6. CASE UNCHANGED vars
  BY <1>6, ControlStays DEF vars, past, prVars, Control, Types
<1> QED BY <1>1, <1>2, <1>3, <1>4, <1>5, <1>6 DEF Next, Step

-----------------------------------------------------------------------------
(* Commits and branches *)

Landing == {"open", "find", "done"}
Wants(j) == j.cmd = "pr" /\ j.message

\* A step after which the runs that landed are those before it.
LEMMA RepoStep ==
  ASSUME Repo, Graph', NothingTakenBack', Pointing', Grows, Advances, deleted \subseteq deleted',
         \A r \in Runs : pc'[r] \in Landing =>
           \/ pc[r] \in Landing /\ job'[r] = job[r] /\ made'[r] = made[r]
           \/ ~Wants(job'[r])
           \/ LandedBy(r)'
  PROVE  Repo'
<1> SUFFICES ASSUME NEW r \in Runs, pc'[r] \in Landing, ~LandedBy(r)', Wants(job'[r]) PROVE FALSE
  BY DEF Repo, LandedBy, Landing, Wants
<1>1. pc[r] \in Landing /\ job'[r] = job[r] /\ made'[r] = made[r] /\ LandedBy(r)
  BY DEF Repo
<1> QED BY <1>1, LandedStays DEF Repo, Landing

\* One that leaves the repository alone.
LEMMA RepoKept ==
  ASSUME Repo, UNCHANGED <<repo, seen, made, deleted>>,
         \A r \in Runs : pc'[r] \in Landing =>
           (pc[r] \in Landing /\ job'[r] = job[r]) \/ ~Wants(job'[r])
  PROVE  Repo'
<1>1. commits' = commits /\ refs' = refs /\ UNCHANGED <<seen, made, deleted>>
  BY DEF repo
<1>2. Graph'
  BY <1>1 DEF Repo, Graph, CommitOK, Files, Ancestors
<1>3. NothingTakenBack'
  BY <1>1 DEF Repo, NothingTakenBack, Files, Ancestors
<1>4. Pointing'
  BY <1>1 DEF Repo, Pointing
<1>5. Grows /\ Advances
  BY <1>1, NothingMoves DEF Repo
<1>6. \A r \in Runs : made'[r] = made[r]
  BY <1>1
<1> QED BY <1>1, <1>2, <1>3, <1>4, <1>5, <1>6, RepoStep

\* Steps of a run that moves no branch.
LEMMA QuietRepoInv ==
  ASSUME Control, Repo, NEW r \in Runs,
         \/ \E j \in Jobs : Start(r, j)
         \/ GetFile(r) \/ GetIssue(r) \/ CreateIssue(r) \/ OpenPull(r) \/ FindPull(r)
  PROVE  Repo'
<1> USE DEF Goto
<1>1. ASSUME NEW j \in Jobs, Start(r, j) PROVE Repo'
  <2>1. /\ UNCHANGED <<repo, seen, made, deleted>>
        /\ job' = [job EXCEPT ![r] = j]
        /\ pc' = [pc EXCEPT ![r] = "failed"] \/ pc' = [pc EXCEPT ![r] = FirstStep(j)]
    BY <1>1 DEF Start, past, prVars
  <2>2. Wants(j) => FirstStep(j) = "ref"
    BY JobKinds DEF Wants
  <2>3. FirstStep(j) \in Landing => ~Wants(j)
    BY <2>2 DEF Landing
  <2>4. ASSUME NEW k \in Runs, pc'[k] \in Landing
        PROVE  (pc[k] \in Landing /\ job'[k] = job[k]) \/ ~Wants(job'[k])
    BY <2>1, <2>3, <2>4 DEF Landing, Control, Types
  <2> QED BY <2>1, <2>4, RepoKept
<1>2. ASSUME GetFile(r) \/ GetIssue(r) \/ CreateIssue(r) PROVE Repo'
  <2>1. /\ UNCHANGED <<repo, seen, made, deleted, job>> /\ pc[r] \in IssueLabels
        /\ \A k \in Runs \ {r} : pc'[k] = pc[k]
    BY <1>2 DEF GetFile, GetIssue, CreateIssue, past, prVars, IssueLabels, Control, Types
  <2>2. ~Wants(job'[r])
    BY <2>1 DEF Control, Place, Wants
  <2>3. \A k \in Runs : job'[k] = job[k]
    BY <2>1
  <2> QED BY <2>1, <2>2, <2>3, RepoKept
<1>3. ASSUME OpenPull(r) \/ FindPull(r) PROVE Repo'
  <2>1. /\ UNCHANGED <<repo, seen, made, deleted, job>> /\ pc[r] \in Landing
        /\ \A k \in Runs \ {r} : pc'[k] = pc[k]
    BY <1>3 DEF OpenPull, FindPull, Answer, Again, past, Landing, Control, Types
  <2>2. \A k \in Runs : job'[k] = job[k]
    BY <2>1
  <2> QED BY <2>1, <2>2, RepoKept
<1> QED BY <1>1, <1>2, <1>3

\* Steps of a run that commits.
LEMMA ReadRefInv ==
  ASSUME Control, Repo, NEW r \in Runs, GetRef(r) \/ GetBase(r)
  PROVE  Repo'
<1>1. /\ UNCHANGED <<commits, refs, job, made, deleted>>
      /\ seen' = seen \/ \E b \in DOMAIN refs : seen' = [seen EXCEPT ![r] = refs[b]]
      /\ \E l \in {"base", "newRef", "commit", "failed"} : pc' = [pc EXCEPT ![r] = l]
  BY DEF GetRef, GetBase, HasRef, Goto, repo, past
<1>2. Graph'
  BY <1>1 DEF Repo, Graph, CommitOK, Files, Ancestors
<1>3. NothingTakenBack'
  BY <1>1 DEF Repo, NothingTakenBack, Files, Ancestors
<1>4. Pointing'
  BY <1>1 DEF Repo, Pointing
<1>5. Grows /\ Advances
  BY <1>1, NothingMoves DEF Repo
<1>6. ASSUME NEW k \in Runs, pc'[k] \in Landing
      PROVE  pc[k] \in Landing /\ job'[k] = job[k] /\ made'[k] = made[k]
  BY <1>1, <1>6 DEF Landing, Control, Types
<1> QED BY <1>1, <1>2, <1>3, <1>4, <1>5, <1>6, RepoStep

LEMMA CreateRefInv ==
  ASSUME Control, Repo, NEW r \in Runs, CreateRef(r)
  PROVE  Repo'
<1> DEFINE b == job[r].branch
<1>1. /\ UNCHANGED <<commits, job, seen, made, deleted>>
      /\ refs' = refs \/ (Free(b) /\ SetRef(b, seen[r]))
      /\ Goto(r, "commit") \/ Goto(r, "failed")
      /\ pc[r] = "newRef"
  BY DEF CreateRef, past, prVars
<1>2. Graph'
  BY <1>1 DEF Repo, Graph, CommitOK, Files, Ancestors
<1>3. NothingTakenBack'
  BY <1>1 DEF Repo, NothingTakenBack, Files, Ancestors
<1>4. b \in Branches
  <2>1. job[r].cmd = "pr" /\ job[r] \in Jobs
    BY <1>1 DEF Control, Place, PrLabels
  <2>2. job[r] \in PrJobs
    BY <2>1, JobKinds
  <2> QED BY <2>2 DEF PrJobs
<1> HIDE DEF b
<1>5. \A c \in DOMAIN refs : c \in DOMAIN refs' /\ refs'[c] = refs[c]
  BY <1>1 DEF Free, HasRef, SetRef
<1>6. Pointing'
  BY <1>1, <1>4 DEF Repo, Pointing, SetRef
<1>7. Grows /\ Advances
  BY <1>1, <1>5 DEF Repo, Graph, CommitOK, Pointing, Grows, Advances, Ancestors
<1>8. ASSUME NEW k \in Runs, pc'[k] \in Landing
      PROVE  pc[k] \in Landing /\ job'[k] = job[k] /\ made'[k] = made[k]
  BY <1>1, <1>8 DEF Goto, Landing, Control, Types
<1> QED BY <1>1, <1>2, <1>3, <1>6, <1>7, <1>8, RepoStep

LEMMA CreateCommitInv ==
  ASSUME Control, Repo, NEW r \in Runs, CreateCommit(r)
  PROVE  Repo'
<1> DEFINE N == NewCommit
<1>1. /\ UNCHANGED <<refs, job, seen, deleted>> /\ pc[r] = "commit"
      /\ \/ pc' = [pc EXCEPT ![r] = "failed"] /\ UNCHANGED <<commits, made>>
         \/ /\ Commit([Files(seen[r]) EXCEPT ![job[r].path] = N], Ancestors(seen[r]))
            /\ made' = [made EXCEPT ![r] = N] /\ pc' = [pc EXCEPT ![r] = "update"]
  BY DEF CreateCommit, Tree, Goto, past
<1>2. job[r].path \in Paths
  <2>1. job[r].cmd = "pr" /\ job[r] \in Jobs
    BY <1>1 DEF Control, Place, PrLabels
  <2>2. job[r] \in PrJobs
    BY <2>1, JobKinds
  <2> QED BY <2>2 DEF PrJobs
<1>3. ASSUME NEW k \in Runs, pc'[k] \in Landing
      PROVE  pc[k] \in Landing /\ job'[k] = job[k] /\ made'[k] = made[k]
  BY <1>1, <1>3 DEF Landing, Control, Types, Repo, Pointing
<1>4. CASE commits' = commits /\ made' = made
  <2>1. UNCHANGED <<repo, seen, made, deleted>>
    BY <1>1, <1>4 DEF repo
  <2> QED BY <1>3, <2>1, RepoKept
<1>5. CASE /\ Commit([Files(seen[r]) EXCEPT ![job[r].path] = N], Ancestors(seen[r]))
           /\ made' = [made EXCEPT ![r] = N]
  <2>1. seen[r] \in DOMAIN commits
    BY DEF Repo, Pointing
  <2>2. PICK n : n = N
    OBVIOUS
  <2>3. /\ Graph' /\ NothingTakenBack' /\ Grows /\ n \in DOMAIN commits'
    BY <1>2, <1>5, <2>1, <2>2, CommitOnTop DEF Repo
  <2>4. Pointing'
    BY <1>1, <1>5, <2>2, <2>3 DEF Repo, Pointing, Grows
  <2>5. Advances
    <3>1. ASSUME NEW b \in DOMAIN refs PROVE b \in DOMAIN refs' /\ refs[b] \in commits'[refs'[b]].anc
      <4>1. refs'[b] = refs[b] /\ refs[b] \in DOMAIN commits'
        BY <1>1, <2>3 DEF Repo, Pointing, Grows
      <4> QED BY <1>1, <2>3, <4>1 DEF Graph, CommitOK, Ancestors
    <3> QED BY <3>1 DEF Advances
  <2> QED BY <1>1, <1>3, <2>3, <2>4, <2>5, RepoStep
<1> QED BY <1>1, <1>4, <1>5

LEMMA UpdateRefInv ==
  ASSUME Control, Repo, NEW r \in Runs, UpdateRef(r)
  PROVE  Repo'
<1> DEFINE b == job[r].branch
<1>1. /\ UNCHANGED <<commits, job, seen, made, deleted>> /\ pc[r] = "update"
      /\ \/ refs' = refs /\ pc' = [pc EXCEPT ![r] = "failed"]
         \/ /\ HasRef(b) /\ FastForward(refs[b], made[r]) /\ SetRef(b, made[r])
            /\ pc' = [pc EXCEPT ![r] = "open"] \/ pc' = [pc EXCEPT ![r] = "failed"]
  BY DEF UpdateRef, Updated, Goto, past, prVars
<1>2. CASE refs' = refs /\ pc' = [pc EXCEPT ![r] = "failed"]
  <2>1. UNCHANGED <<repo, seen, made, deleted>>
    BY <1>1, <1>2 DEF repo
  <2>2. ASSUME NEW k \in Runs, pc'[k] \in Landing PROVE pc[k] \in Landing /\ job'[k] = job[k]
    BY <1>1, <1>2, <2>2 DEF Landing, Control, Types
  <2> QED BY <2>1, <2>2, RepoKept
<1>3. CASE HasRef(b) /\ FastForward(refs[b], made[r]) /\ SetRef(b, made[r])
  <2>1. Graph'
    BY <1>1 DEF Repo, Graph, CommitOK, Files, Ancestors
  <2>2. NothingTakenBack'
    BY <1>1 DEF Repo, NothingTakenBack, Files, Ancestors
  <2> HIDE DEF b
  <2>3. /\ DOMAIN refs' = DOMAIN refs /\ b \in DOMAIN refs /\ refs'[b] = made[r]
        /\ \A c \in DOMAIN refs \ {b} : refs'[c] = refs[c]
    BY <1>3 DEF HasRef, SetRef
  <2>4. Pointing'
    BY <1>1, <2>3 DEF Repo, Pointing
  <2>5. Grows
    BY <1>1 DEF Grows
  <2>6. Advances
    <3>1. ASSUME NEW c \in DOMAIN refs PROVE refs[c] \in commits'[refs'[c]].anc
      <4>1. CASE c = b
        BY <1>1, <1>3, <2>3, <4>1 DEF FastForward, Ancestors
      <4>2. CASE c # b
        <5>1. refs[c] \in DOMAIN commits
          BY DEF Repo, Pointing
        <5> QED BY <1>1, <2>3, <4>2, <5>1 DEF Repo, Graph, CommitOK, Ancestors
      <4> QED BY <4>1, <4>2
    <3> QED BY <2>3, <3>1 DEF Advances
  <2>7. LandedBy(r)'
    <3>1. made[r] \in commits[made[r]].anc
      BY DEF Repo, Pointing, Graph, CommitOK, Ancestors
    <3>2. made'[r] \in commits'[refs'[b]].anc /\ job'[r] = job[r]
      BY <1>1, <2>3, <3>1
    <3> QED BY <2>3, <3>2 DEF LandedBy, HasRef, Ancestors, b
  <2>8. ASSUME NEW k \in Runs, pc'[k] \in Landing
        PROVE  \/ pc[k] \in Landing /\ job'[k] = job[k] /\ made'[k] = made[k]
               \/ LandedBy(k)'
    <3>1. CASE k = r
      BY <2>7, <3>1
    <3>2. CASE k # r
      BY <1>1, <2>8, <3>2 DEF Control, Types
    <3> QED BY <3>1, <3>2
  <2> QED BY <1>1, <2>1, <2>2, <2>4, <2>5, <2>6, <2>8, RepoStep
<1> QED BY <1>1, <1>2, <1>3

LEMMA PersonPushesInv ==
  ASSUME Control, Repo, NEW b \in Branches, NEW p \in Paths, PersonPushes(b, p)
  PROVE  Repo'
<1>1. PICK N : N = NewCommit
  OBVIOUS
<1>2. /\ UNCHANGED <<job, pc, seen, made, deleted>> /\ HasRef(b)
      /\ Commit([Files(refs[b]) EXCEPT ![p] = N], Ancestors(refs[b])) /\ SetRef(b, N)
  BY <1>1 DEF PersonPushes, prVars
<1>3. b \in DOMAIN refs /\ refs[b] \in DOMAIN commits
  BY <1>2 DEF HasRef, Repo, Pointing
<1>4. /\ Graph' /\ NothingTakenBack' /\ Grows /\ N \in DOMAIN commits'
      /\ commits'[N].anc = Ancestors(refs[b]) \cup {N}
  BY <1>1, <1>2, <1>3, CommitOnTop DEF Repo
<1>5. /\ DOMAIN refs' = DOMAIN refs /\ refs'[b] = N
      /\ \A c \in DOMAIN refs \ {b} : refs'[c] = refs[c]
  BY <1>2, <1>3 DEF SetRef
<1>6. Pointing'
  BY <1>2, <1>4, <1>5 DEF Repo, Pointing, Grows
<1>7. Advances
  <2>1. ASSUME NEW c \in DOMAIN refs PROVE refs[c] \in commits'[refs'[c]].anc
    <3>1. refs[c] \in DOMAIN commits /\ refs[c] \in Ancestors(refs[c])
      BY DEF Repo, Pointing, Graph, CommitOK
    <3>2. commits'[refs[c]] = commits[refs[c]]
      BY <1>4, <3>1 DEF Grows
    <3> QED BY <1>4, <1>5, <3>1, <3>2 DEF Ancestors
  <2> QED BY <1>5, <2>1 DEF Advances
<1>8. \A k \in Runs : pc'[k] = pc[k] /\ job'[k] = job[k] /\ made'[k] = made[k]
  BY <1>2
<1> QED BY <1>2, <1>4, <1>6, <1>7, <1>8, RepoStep

\* What a merge makes of a file is no older than either side's.
LEMMA MergeJoins ==
  ASSUME Graph, NothingTakenBack, NEW o \in DOMAIN commits, NEW t \in DOMAIN commits,
         NEW N, N = NewCommit,
         Commit([p \in Paths |-> Newer(Files(o)[p], Files(t)[p])], Ancestors(o) \cup Ancestors(t))
  PROVE  /\ Graph' /\ NothingTakenBack' /\ Grows
         /\ N \in DOMAIN commits' /\ commits'[N].anc = Ancestors(o) \cup Ancestors(t) \cup {N}
<1> DEFINE f == [p \in Paths |-> Newer(Files(o)[p], Files(t)[p])]
           A == Ancestors(o) \cup Ancestors(t)
<1>1. /\ CommitOK(o) /\ CommitOK(t) /\ N \in Nat
      /\ \A c \in DOMAIN commits : c \in Nat /\ c \in 1..Len(commits)
      /\ DOMAIN commits = 1..Len(commits) /\ Len(commits) \in Nat
  BY DEF Graph, NewCommit
<1>2. Ancestors(o) \subseteq DOMAIN commits /\ Ancestors(t) \subseteq DOMAIN commits
  BY <1>1 DEF CommitOK
<1>3. ASSUME NEW p \in Paths
      PROVE  /\ Files(o)[p] \in Ancestors(o) /\ Files(t)[p] \in Ancestors(t)
             /\ Files(o)[p] \in DOMAIN commits /\ Files(t)[p] \in DOMAIN commits
             /\ CommitOK(Files(o)[p]) /\ CommitOK(Files(t)[p])
  <2>1. Files(o)[p] \in Ancestors(o) /\ Files(t)[p] \in Ancestors(t)
    BY <1>1 DEF CommitOK
  <2> QED BY <1>2, <2>1 DEF Graph
<1>4. f \in [Paths -> Nat]
  <2>1. \A p \in Paths : Newer(Files(o)[p], Files(t)[p]) \in Nat
    BY <1>1, <1>3 DEF Newer
  <2> QED BY <2>1
<1>5. A \subseteq DOMAIN commits /\ \A a \in A : Ancestors(a) \subseteq A
  BY <1>1, <1>2 DEF CommitOK
<1>6. ASSUME NEW p \in Paths, f[p] # N
      PROVE  f[p] \in A /\ \A a \in A : Files(a)[p] \in Ancestors(f[p])
  <2>1. /\ \A a \in Ancestors(o) : Files(a)[p] \in Ancestors(Files(o)[p])
        /\ \A a \in Ancestors(t) : Files(a)[p] \in Ancestors(Files(t)[p])
    BY DEF NothingTakenBack
  <2>2. \/ f[p] = Files(t)[p] /\ Files(o)[p] \in Ancestors(Files(t)[p])
        \/ f[p] = Files(o)[p] /\ Files(t)[p] \in Ancestors(Files(o)[p])
    BY <1>6 DEF Newer
  <2> HIDE DEF f
  <2>3. CASE f[p] = Files(t)[p] /\ Files(o)[p] \in Ancestors(Files(t)[p])
    <3>1. Ancestors(Files(o)[p]) \subseteq Ancestors(f[p])
      BY <1>3, <2>3 DEF CommitOK
    <3> QED BY <1>3, <2>1, <2>3, <3>1
  <2>4. CASE f[p] = Files(o)[p] /\ Files(t)[p] \in Ancestors(Files(o)[p])
    <3>1. Ancestors(Files(t)[p]) \subseteq Ancestors(f[p])
      BY <1>3, <2>4 DEF CommitOK
    <3> QED BY <1>3, <2>1, <2>4, <3>1
  <2> QED BY <2>2, <2>3, <2>4
<1> HIDE DEF f, A
<1>7. Commit(f, A)
  BY DEF f, A
<1>8. /\ Graph' /\ NothingTakenBack' /\ Grows
      /\ N \in DOMAIN commits' /\ commits'[N].anc = A \cup {N}
  BY <1>4, <1>5, <1>6, <1>7, CommitJoins
<1> QED BY <1>8 DEF A

LEMMA MergeInv ==
  ASSUME Control, Repo, Pulling, NEW x \in open, Merge(x)
  PROVE  Repo'
<1>1. PICK N : N = NewCommit
  OBVIOUS
<1> DEFINE o == refs[x.into]
           t == refs[x.head]
           kept == IF x.upstream THEN refs ELSE [refs EXCEPT ![x.into] = N]
<1>2. /\ UNCHANGED <<job, pc, seen, made>> /\ x.head \in DOMAIN refs /\ x.into \in DOMAIN refs
      /\ x.head # x.into
      /\ IF x.upstream THEN commits' = commits
         ELSE Commit([p \in Paths |-> Newer(Files(o)[p], Files(t)[p])], Ancestors(o) \cup Ancestors(t))
      /\ \/ refs' = kept /\ deleted' = deleted
         \/ /\ refs' = [b \in DOMAIN refs \ {x.head} |-> kept[b]]
            /\ deleted' = deleted \cup {x.head}
  BY <1>1 DEF Merge, HasRef, prVars
<1>3. o \in DOMAIN commits /\ t \in DOMAIN commits
  BY <1>2 DEF Repo, Pointing
<1>4. /\ Graph' /\ NothingTakenBack' /\ Grows
      /\ ~x.upstream => N \in DOMAIN commits' /\ o \in commits'[N].anc
  <2>1. CASE x.upstream
    <3>1. commits' = commits
      BY <1>2, <2>1
    <3>2. Graph'
      BY <3>1 DEF Repo, Graph, CommitOK, Files, Ancestors
    <3>3. NothingTakenBack'
      BY <3>1 DEF Repo, NothingTakenBack, Files, Ancestors
    <3> QED BY <2>1, <3>1, <3>2, <3>3 DEF Grows
  <2>2. CASE ~x.upstream
    <3>1. Commit([p \in Paths |-> Newer(Files(o)[p], Files(t)[p])], Ancestors(o) \cup Ancestors(t))
      BY <1>2, <2>2
    <3>2. o \in Ancestors(o)
      BY <1>3 DEF Repo, Graph, CommitOK
    <3> HIDE DEF o, t
    <3>3. /\ Graph' /\ NothingTakenBack' /\ Grows
          /\ N \in DOMAIN commits' /\ commits'[N].anc = Ancestors(o) \cup Ancestors(t) \cup {N}
      BY <1>1, <1>3, <3>1, MergeJoins DEF Repo
    <3> QED BY <3>2, <3>3
  <2> QED BY <2>1, <2>2
<1>5. /\ \A b \in DOMAIN refs : b \in deleted' \/ (b \in DOMAIN refs' /\ refs'[b] = kept[b])
      /\ DOMAIN refs' \subseteq DOMAIN refs /\ deleted \subseteq deleted'
      /\ \A b \in DOMAIN refs' : refs'[b] = kept[b]
      /\ deleted' \subseteq deleted \cup {x.head}
  <2>1. DOMAIN kept = DOMAIN refs
    OBVIOUS
  <2> HIDE DEF kept
  <2> QED BY <1>2, <2>1
<1>6. \A b \in DOMAIN refs : kept[b] = refs[b] \/ (kept[b] = N /\ b = x.into /\ ~x.upstream)
  OBVIOUS
<1> HIDE DEF kept
<1>7. Pointing'
  <2>1. \A b \in DOMAIN refs' : refs'[b] \in DOMAIN commits'
    BY <1>4, <1>5, <1>6 DEF Repo, Pointing, Grows
  <2>2. DOMAIN refs' \subseteq Branches /\ deleted' \subseteq Branches
    BY <1>2, <1>5 DEF Repo, Pointing
  <2>3. seen' \in [Runs -> DOMAIN commits'] /\ made' \in [Runs -> DOMAIN commits']
    BY <1>2, <1>4 DEF Repo, Pointing, Grows
  <2> QED BY <2>1, <2>2, <2>3 DEF Pointing
<1>8. Advances
  <2>1. ASSUME NEW b \in DOMAIN refs, b \notin deleted'
        PROVE  b \in DOMAIN refs' /\ refs[b] \in commits'[refs'[b]].anc
    <3>1. b \in DOMAIN refs' /\ refs'[b] = kept[b]
      BY <1>5, <2>1
    <3>2. refs[b] \in DOMAIN commits /\ refs[b] \in Ancestors(refs[b])
      BY DEF Repo, Pointing, Graph, CommitOK
    <3>3. commits'[refs[b]] = commits[refs[b]]
      BY <1>4, <3>2 DEF Grows
    <3>4. CASE kept[b] = refs[b]
      BY <3>1, <3>2, <3>3, <3>4 DEF Ancestors
    <3>5. CASE kept[b] = N /\ b = x.into /\ ~x.upstream
      BY <1>4, <3>1, <3>5
    <3> QED BY <1>6, <3>1, <3>4, <3>5
  <2> QED BY <2>1 DEF Advances
<1>9. \A k \in Runs : pc'[k] = pc[k] /\ job'[k] = job[k] /\ made'[k] = made[k]
  BY <1>2
<1> QED BY <1>4, <1>5, <1>7, <1>8, <1>9, RepoStep

LEMMA RepoInv == Control /\ Repo /\ Pulling /\ [Next]_vars => Repo'
<1> SUFFICES ASSUME Control, Repo, Pulling, [Next]_vars PROVE Repo'
  OBVIOUS
<1>1. CASE UNCHANGED vars
  <2>1. UNCHANGED <<repo, seen, made, deleted>> /\ \A k \in Runs : pc'[k] = pc[k] /\ job'[k] = job[k]
    BY <1>1 DEF vars, past, prVars
  <2> QED BY <2>1, RepoKept
<1> QED BY <1>1, QuietRepoInv, ReadRefInv, CreateRefInv, CreateCommitInv, UpdateRefInv,
           PersonPushesInv, MergeInv DEF Next, Step

-----------------------------------------------------------------------------
(* Pull requests *)

\* A step of runs that is not to an answer or to the search for one.
LEMMA PullsStep ==
  ASSUME Pulling, PullSets', opened \subseteq opened', closed \subseteq closed',
         \A r \in Runs : pc'[r] \in {"find", "done"} =>
           \/ pc'[r] = pc[r] /\ job'[r] = job[r] /\ url'[r] = url[r]
           \/ pc'[r] = "done" /\ job'[r].cmd # "pr"
           \/ PullBy(r)'
  PROVE  Pulling'
<1> SUFFICES ASSUME NEW r \in Runs, pc'[r] \in {"find", "done"} PROVE PullBy(r)'
  BY DEF Pulling, PullBy
<1>1. CASE pc'[r] = pc[r] /\ job'[r] = job[r] /\ url'[r] = url[r]
  <2>1. PullBy(r)
    BY DEF Pulling
  <2>2. PullOf(job'[r]) = PullOf(job[r])
    BY <1>1
  <2> QED BY <1>1, <2>1, <2>2 DEF PullBy, PullOf
<1>2. CASE pc'[r] = "done" /\ job'[r].cmd # "pr"
  BY <1>2 DEF PullBy
<1> QED BY <1>1, <1>2

LEMMA PullsKept ==
  ASSUME Pulling, UNCHANGED <<pulls, closed>>,
         \A r \in Runs : pc'[r] \in {"find", "done"} =>
           \/ pc'[r] = pc[r] /\ job'[r] = job[r] /\ url'[r] = url[r]
           \/ pc'[r] = "done" /\ job'[r].cmd # "pr"
           \/ PullBy(r)'
  PROVE  Pulling'
<1>1. PullSets' /\ opened \subseteq opened' /\ closed \subseteq closed'
  BY DEF Pulling, PullSets, pulls
<1> QED BY <1>1, PullsStep

\* Opens keeps the sets, and its pull request is among those opened.
LEMMA OpensSets ==
  ASSUME PullSets, NEW j \in Jobs, j.cmd = "pr", Opens(j) \/ UNCHANGED pulls, closed' = closed
  PROVE  /\ PullSets' /\ opened \subseteq opened'
         /\ Opens(j) => PullOf(j) \in opened'
<1>1. PullOf(j) \in Pulls
  BY JobKinds DEF PullOf, Pulls, PrJobs
<1>2. CASE UNCHANGED pulls
  BY <1>2 DEF PullSets, pulls, Opens
<1>3. CASE Opens(j)
  BY <1>1, <1>3 DEF PullSets, Opens
<1> QED BY <1>2, <1>3

LEMMA OpenPullInv ==
  ASSUME Control, Pulling, NEW r \in Runs, OpenPull(r)
  PROVE  Pulling'
<1> DEFINE j == job[r]
<1>1. /\ pc[r] = "open" /\ UNCHANGED <<job, closed>>
      /\ \A k \in Runs \ {r} : pc'[k] = pc[k] /\ url'[k] = url[k]
  BY DEF OpenPull, Answer, Again, Goto, past, Control, Types
<1>2. j \in Jobs /\ j.cmd = "pr"
  BY <1>1 DEF Control, Place, PrLabels
<1>3. \/ Opens(j) /\ Answer(r, "url")
      \/ UNCHANGED pulls /\ Exists(j) /\ Goto(r, "find")
      \/ (Opens(j) \/ UNCHANGED pulls) /\ (Again(r) \/ Goto(r, "crashed"))
  BY DEF OpenPull
<1>4. /\ PullSets' /\ opened \subseteq opened'
      /\ Opens(j) => PullOf(j) \in opened'
  <2>1. Opens(j) \/ UNCHANGED pulls
    BY <1>3
  <2> HIDE DEF j
  <2> QED BY <1>1, <1>2, <2>1, OpensSets DEF Pulling
<1>5. pc'[r] \in {"find", "done"} => PullBy(r)'
  <2>1. CASE Opens(j) /\ Answer(r, "url")
    <3>1. pc'[r] = "done" /\ url'[r] = "url" /\ job'[r] = job[r]
      BY <1>1, <2>1 DEF Answer, Goto, Control, Types
    <3> QED BY <1>4, <2>1, <3>1 DEF PullBy
  <2>2. CASE UNCHANGED pulls /\ Exists(j) /\ Goto(r, "find")
    <3>1. pc'[r] = "find" /\ job'[r] = job[r]
      BY <1>1, <2>2 DEF Goto, Control, Types
    <3>2. PullOf(j) \in opened'
      BY <2>2 DEF Exists, pulls, Pulling, PullSets
    <3> QED BY <3>1, <3>2 DEF PullBy
  <2>3. CASE Again(r) \/ Goto(r, "crashed")
    BY <2>3 DEF Again, Goto, Control, Types
  <2> QED BY <1>3, <2>1, <2>2, <2>3
<1>6. \A k \in Runs : job'[k] = job[k]
  BY <1>1
<1> QED BY <1>1, <1>4, <1>5, <1>6, PullsStep

LEMMA FindPullInv ==
  ASSUME Control, Pulling, NEW r \in Runs, FindPull(r)
  PROVE  Pulling'
<1> DEFINE j == job[r]
<1>1. /\ pc[r] = "find" /\ UNCHANGED <<job, closed, pulls>>
      /\ \A k \in Runs \ {r} : pc'[k] = pc[k] /\ url'[k] = url[k]
  BY DEF FindPull, Answer, Again, Goto, past, Control, Types
<1>2. Answer(r, FoundUrl(j)) \/ Again(r)
  BY DEF FindPull
<1>3. pc'[r] \in {"find", "done"} => PullBy(r)'
  <2>1. CASE Answer(r, FoundUrl(j))
    <3>1. pc'[r] = "done" /\ url'[r] = FoundUrl(j) /\ job'[r] = j
      BY <1>1, <2>1 DEF Answer, Goto, Control, Types
    <3>2. PullOf(j) \in opened
      BY <1>1 DEF Pulling, PullBy
    <3>3. FoundUrl(j) = "" => j.fork \/ j.into # "main" \/ PullOf(j) \in closed
      BY <3>2 DEF FoundUrl, Listed, Pulling, PullSets
    <3>4. opened' = opened /\ closed' = closed
      BY <1>1 DEF pulls
    <3> HIDE DEF j
    <3> QED BY <3>1, <3>2, <3>3, <3>4 DEF PullBy
  <2>2. CASE Again(r)
    BY <2>2 DEF Again, Goto, Control, Types
  <2> QED BY <1>2, <2>1, <2>2
<1>4. \A k \in Runs : job'[k] = job[k]
  BY <1>1
<1> QED BY <1>1, <1>3, <1>4, PullsKept

LEMMA PullingInv == Control /\ Pulling /\ [Next]_vars => Pulling'
<1> SUFFICES ASSUME Control, Pulling, [Next]_vars PROVE Pulling'
  OBVIOUS
<1>1. ASSUME NEW r \in Runs, NEW j \in Jobs, Start(r, j) PROVE Pulling'
  <2>1. /\ UNCHANGED <<pulls, closed, url>> /\ job' = [job EXCEPT ![r] = j]
        /\ Goto(r, "failed") \/ Goto(r, FirstStep(j))
    BY <1>1 DEF Start, past, prVars
  <2>2. FirstStep(j) \notin {"find", "done"}
    BY JobKinds
  <2>3. pc'[r] \notin {"find", "done"}
    BY <2>1, <2>2 DEF Goto, Control, Types
  <2>4. \A k \in Runs \ {r} : pc'[k] = pc[k] /\ job'[k] = job[k] /\ url'[k] = url[k]
    BY <2>1 DEF Goto, Control, Types
  <2> QED BY <2>1, <2>3, <2>4, PullsKept
<1>2. ASSUME NEW r \in Runs, GetFile(r) \/ GetIssue(r) \/ CreateIssue(r) PROVE Pulling'
  <2>1. /\ UNCHANGED <<pulls, closed, url, job>> /\ pc[r] \in IssueLabels
        /\ \A k \in Runs \ {r} : pc'[k] = pc[k]
        /\ pc'[r] # "find"
    BY <1>2 DEF GetFile, GetIssue, CreateIssue, BareEnds, After, Goto, past, prVars, IssueLabels, Control, Types
  <2>2. job[r].cmd # "pr"
    BY <2>1 DEF Control, Place
  <2>3. \A k \in Runs : job'[k] = job[k] /\ url'[k] = url[k]
    BY <2>1
  <2> QED BY <2>1, <2>2, <2>3, PullsKept
<1>3. ASSUME NEW r \in Runs,
             GetRef(r) \/ GetBase(r) \/ CreateRef(r) \/ CreateCommit(r) \/ UpdateRef(r)
      PROVE  Pulling'
  <2>1. /\ UNCHANGED <<pulls, closed, url, job>>
        /\ \A k \in Runs \ {r} : pc'[k] = pc[k]
        /\ pc'[r] \notin {"find", "done"}
    BY <1>3 DEF GetRef, GetBase, CreateRef, CreateCommit, UpdateRef, Updated, Goto, past, prVars, Control, Types
  <2>3. \A k \in Runs : job'[k] = job[k] /\ url'[k] = url[k]
    BY <2>1
  <2> QED BY <2>1, <2>3, PullsKept
<1>4. ASSUME NEW b \in Branches, NEW p \in Paths, PersonPushes(b, p) PROVE Pulling'
  <2>1. UNCHANGED <<pulls, closed, url, job, pc>>
    BY <1>4 DEF PersonPushes, prVars
  <2> QED BY <2>1, PullsKept
<1>5. ASSUME NEW x \in open, Merge(x) PROVE Pulling'
  <2>1. /\ open' = open \ {x} /\ closed' = closed \cup {x} /\ UNCHANGED <<opened, url, job, pc>>
    BY <1>5 DEF Merge, prVars
  <2>2. PullSets'
    BY <2>1 DEF Pulling, PullSets
  <2> QED BY <2>1, <2>2, PullsStep
<1>6. CASE UNCHANGED vars
  <2>1. UNCHANGED <<pulls, closed, url, job, pc>>
    BY <1>6 DEF vars, past, prVars
  <2> QED BY <2>1, PullsKept
<1> QED BY <1>1, <1>2, <1>3, <1>4, <1>5, <1>6, OpenPullInv, FindPullInv DEF Next, Step

-----------------------------------------------------------------------------
(* Issues *)

\* A run whose list, position and issues stay, and that ends or goes on.
LEMMA FilingKept ==
  ASSUME NEW r \in Runs, Filing(r), issues' = issues, list'[r] = list[r], pos'[r] = pos[r],
         \/ pc'[r] = pc[r]
         \/ pc'[r] = "failed"
         \/ pc'[r] = "crashed" /\ Filed(r) = {}
         \/ pc'[r] \in {"done"} \cup PrLabels /\ pc[r] \in PrLabels
         \/ pc[r] = "issue" /\ pc'[r] = "create"
         \/ pc[r] = "issue" /\ pc'[r] = "done" /\ Named(r) = {}
         \/ pc[r] = "create" /\ pc'[r] = "done" /\ pos[r] > Len(list[r])
  PROVE  Filing(r)'
<1>1. Filed(r)' = Filed(r) /\ Named(r)' = Named(r)
  BY DEF Filed, Named
<1>2. \A k \in Nat : Before(r, k)' = Before(r, k)
  BY <1>1 DEF Before
<1>3. pos[r] \in Nat /\ Len(list[r]) \in Nat
  BY DEF Filing, VersionLists
<1>4. DOMAIN list[r] = 1..Len(list[r])
  BY DEF Filing, VersionLists
<1>5. pos[r] > Len(list[r]) => Before(r, pos[r]) = Named(r)
  <2>1. \A n \in Named(r) : n \in 1..Len(list[r])
    BY <1>4 DEF Named
  <2> QED BY <1>3, <2>1 DEF Before
<1>6. list[r] = <<>> => Named(r) = {}
  BY <1>4 DEF Named
<1>7. Before(r, pos[r]) \subseteq Named(r)
  BY DEF Before
<1> DEFINE L == Labels \ {"done", "failed", "crashed"}
<1>8. /\ pc'[r] \in L => Filed(r) = Before(r, pos[r])
      /\ pc'[r] = "done" => Filed(r) = Named(r)
      /\ pc'[r] = "crashed" => Filed(r) = {}
      /\ pc'[r] \in PrLabels => list[r] = <<>>
      /\ pc'[r] = "idle" => list[r] = <<>>
      /\ pc'[r] \in {"idle", "file", "issue"} \cup PrLabels => pos[r] = 1
  <2>1. CASE pc'[r] = pc[r] \/ pc'[r] = "failed" \/ (pc'[r] = "crashed" /\ Filed(r) = {})
    BY <2>1 DEF Filing, Labels, PrLabels
  <2>2. CASE pc'[r] \in {"done"} \cup PrLabels /\ pc[r] \in PrLabels
    BY <1>6, <1>7, <2>2 DEF Filing, Labels, PrLabels
  <2>3. CASE \/ pc[r] = "issue" /\ pc'[r] = "create"
             \/ pc[r] = "issue" /\ pc'[r] = "done" /\ Named(r) = {}
             \/ pc[r] = "create" /\ pc'[r] = "done" /\ pos[r] > Len(list[r])
    BY <1>5, <1>7, <2>3 DEF Filing, Labels, PrLabels
  <2> QED BY <2>1, <2>2, <2>3
<1>9. /\ list'[r] \in VersionLists /\ pos'[r] \in 1..(Len(list'[r]) + 1)
      /\ \E k \in 1..(Len(list'[r]) + 1) : Filed(r)' = Before(r, k)'
      /\ \A n \in Filed(r)' : n < pos'[r]
  <2>1. \A k \in 1..(Len(list[r]) + 1) : k \in Nat
    BY <1>3
  <2>2. /\ list[r] \in VersionLists /\ pos[r] \in 1..(Len(list[r]) + 1)
        /\ \E k \in 1..(Len(list[r]) + 1) : Filed(r) = Before(r, k)
        /\ \A n \in Filed(r) : n < pos[r]
    BY DEF Filing
  <2> QED BY <1>1, <1>2, <2>1, <2>2
<1> QED BY <1>1, <1>2, <1>3, <1>8, <1>9 DEF Filing, Labels, PrLabels

\* An issue that is filed.
LEMMA IssueJoins ==
  ASSUME NEW r \in Runs, NEW n \in Nat, issues \in Seq([by : Runs, item : Nat]),
         NEW e, e = [by |-> r, item |-> n], issues' = Append(issues, e)
  PROVE  /\ issues' \in Seq([by : Runs, item : Nat])
         /\ Len(issues) + 1 \in Nat /\ \A i \in DOMAIN issues : i \in Nat /\ i < Len(issues) + 1
         /\ DOMAIN issues' = DOMAIN issues \cup {Len(issues) + 1} /\ issues'[Len(issues) + 1] = e
         /\ \A i \in DOMAIN issues : issues'[i] = issues[i]
<1> DEFINE Issue == [by : Runs, item : Nat]
<1>1. e \in Issue /\ issues \in Seq(Issue)
  OBVIOUS
<1> HIDE DEF Issue
<1>2. /\ issues' \in Seq(Issue) /\ Len(issues') = Len(issues) + 1 /\ issues'[Len(issues) + 1] = e
      /\ \A i \in 1..Len(issues) : issues'[i] = issues[i]
  BY <1>1, AppendProperties
<1>3. DOMAIN issues = 1..Len(issues) /\ Len(issues) \in Nat /\ DOMAIN issues' = 1..(Len(issues) + 1)
  BY <1>1, <1>2
<1> QED BY <1>2, <1>3 DEF Issue

\* Another run's issue is none of this one's.
LEMMA FilingOfOthers ==
  ASSUME NEW r \in Runs, NEW k \in Runs, k # r, Filing(k), issues \in Seq([by : Runs, item : Nat]),
         NEW n \in Nat, issues' = Append(issues, [by |-> r, item |-> n]),
         list'[k] = list[k], pos'[k] = pos[k], pc'[k] = pc[k]
  PROVE  Filing(k)'
<1>1. PICK e : e = [by |-> r, item |-> n]
  OBVIOUS
<1>2. /\ DOMAIN issues' = DOMAIN issues \cup {Len(issues) + 1} /\ issues'[Len(issues) + 1] = e
      /\ \A i \in DOMAIN issues : issues'[i] = issues[i]
  BY <1>1, IssueJoins
<1>3. Filed(k)' = Filed(k)
  BY <1>1, <1>2 DEF Filed
<1>4. Named(k)' = Named(k)
  BY DEF Named
<1>5. \A x : Before(k, x)' = Before(k, x)
  BY <1>4 DEF Before
<1> QED BY <1>3, <1>4, <1>5 DEF Filing, Labels, PrLabels

\* Nothing is filed before the loop.
LEMMA NothingFiled ==
  ASSUME NEW r \in Runs, Filing(r), pc[r] \in {"idle", "file", "issue"}
  PROVE  Filed(r) = {} /\ pos[r] = 1
<1>1. Filed(r) = Before(r, 1) /\ pos[r] = 1
  BY DEF Filing, Labels
<1>2. \A n \in Named(r) : n \in Nat /\ n >= 1
  <2>1. \A n \in DOMAIN list[r] : n \in Nat /\ n >= 1
    BY DEF Filing, VersionLists
  <2> QED BY <2>1 DEF Named
<1>3. Before(r, 1) = {}
  BY <1>2 DEF Before
<1> QED BY <1>1, <1>3

LEMMA FilingFresh ==
  ASSUME NEW r \in Runs, Filed(r) = {}, issues' = issues, list'[r] \in VersionLists, pos'[r] = 1,
         pc'[r] \in {"file", "issue", "failed"} \/ (pc'[r] \in PrLabels /\ list'[r] = <<>>)
  PROVE  Filing(r)'
<1>1. Filed(r)' = {}
  BY DEF Filed
<1>2. 1 \in 1..(Len(list'[r]) + 1) /\ \A n \in DOMAIN list'[r] : n \in Nat /\ n >= 1
  BY DEF VersionLists
<1>3. Before(r, 1)' = {}
  <2>1. \A n \in Named(r)' : n \in Nat /\ n >= 1
    BY <1>2 DEF Named
  <2> QED BY <2>1 DEF Before
<1>4. Before(r, pos[r])' = {}
  BY <1>3
<1> QED BY <1>1, <1>2, <1>3, <1>4 DEF Filing, Labels, PrLabels

Ordered == \A i, j \in DOMAIN issues :
  i < j /\ issues[i].by = issues[j].by => issues[i].item < issues[j].item

\* The step of the loop that files an issue, or fails to: what it does to the sets.
LEMMA LoopFiles ==
  ASSUME NEW r \in Runs, issues \in Seq([by : Runs, item : Nat]), Ordered,
         NEW L \in Nat, NEW n \in 1..L, pos[r] = n, pos'[r] = n + 1,
         Named(r) \subseteq 1..L, n \in Named(r), Named(r)' = Named(r), Filed(r) = Before(r, n),
         \/ issues' = issues
         \/ issues' = Append(issues, [by |-> r, item |-> n])
  PROVE  /\ issues' \in Seq([by : Runs, item : Nat]) /\ Ordered'
         /\ pos'[r] \in 1..(L + 1) /\ \A x \in Filed(r)' : x < pos'[r]
         /\ \E k \in 1..(L + 1) : Filed(r)' = Before(r, k)'
         /\ issues' = Append(issues, [by |-> r, item |-> n]) => Filed(r)' = Before(r, pos[r])'
<1>1. \A x : Before(r, x)' = Before(r, x)
  BY DEF Before
<1>2. n \in 1..(L + 1) /\ n + 1 \in 1..(L + 1) /\ n \in Nat
  OBVIOUS
<1>3. /\ \A x \in Before(r, n) : x < n + 1
      /\ Before(r, n) \cup {n} = Before(r, n + 1)
      /\ \A x \in Before(r, n + 1) : x < n + 1
  <2>1. \A x \in Named(r) : x \in Nat
    OBVIOUS
  <2> QED BY <1>2, <2>1 DEF Before
<1>4. CASE issues' = issues
  <2>1. Filed(r)' = Before(r, n)
    BY <1>4 DEF Filed
  <2>2. Ordered'
    BY <1>4 DEF Ordered
  <2>3. issues # Append(issues, [by |-> r, item |-> n])
    <3>1. Len(Append(issues, [by |-> r, item |-> n])) = Len(issues) + 1 /\ Len(issues) \in Nat
      OBVIOUS
    <3> QED BY ONLY <3>1
  <2> QED BY <1>1, <1>2, <1>3, <1>4, <2>1, <2>2, <2>3
<1>5. CASE issues' = Append(issues, [by |-> r, item |-> n])
  <2>1. PICK e : e = [by |-> r, item |-> n]
    OBVIOUS
  <2>2. /\ issues' \in Seq([by : Runs, item : Nat])
        /\ Len(issues) + 1 \in Nat /\ \A i \in DOMAIN issues : i \in Nat /\ i < Len(issues) + 1
        /\ DOMAIN issues' = DOMAIN issues \cup {Len(issues) + 1} /\ issues'[Len(issues) + 1] = e
        /\ \A i \in DOMAIN issues : issues'[i] = issues[i]
    BY <1>2, <1>5, <2>1, IssueJoins
  <2>3. e.by = r /\ e.item = n
    BY <2>1
  <2>4. Filed(r)' = Filed(r) \cup {n}
    BY <2>2, <2>3 DEF Filed
  <2>5. Filed(r)' = Before(r, n + 1)
    BY <1>3, <2>4
  <2>6. Ordered'
    <3>1. \A i \in DOMAIN issues : issues[i].by = r => issues[i].item < n
      <4>1. \A x \in Filed(r) : x < n
        BY DEF Before
      <4> QED BY <4>1 DEF Filed
    <3>2. ASSUME NEW i \in DOMAIN issues', NEW j \in DOMAIN issues', i < j, issues'[i].by = issues'[j].by
          PROVE  issues'[i].item < issues'[j].item
      <4>1. i \in DOMAIN issues
        BY <2>2, <3>2
      <4>2. CASE j \in DOMAIN issues
        BY <2>2, <3>2, <4>1, <4>2 DEF Ordered
      <4>3. CASE j = Len(issues) + 1
        BY <2>2, <2>3, <3>1, <3>2, <4>1, <4>3
      <4> QED BY <2>2, <4>2, <4>3
    <3> QED BY <3>2 DEF Ordered
  <2> QED BY <1>1, <1>2, <1>3, <2>2, <2>5, <2>6
<1> QED BY <1>4, <1>5

LEMMA FilingFiles ==
  ASSUME Issuing, NEW r \in Runs, pc[r] = "create", pos[r] <= Len(list[r]), list[r][pos[r]] # "",
         UNCHANGED list, pos' = [pos EXCEPT ![r] = @ + 1],
         \/ issues' = issues /\ pc'[r] = "failed"
         \/ issues' = Append(issues, [by |-> r, item |-> pos[r]]) /\ pc'[r] \in {"create", "failed"}
  PROVE  Filing(r)' /\ issues' \in Seq([by : Runs, item : Nat]) /\ Ordered'
<1>1. /\ Filing(r) /\ Ordered /\ issues \in Seq([by : Runs, item : Nat]) /\ list[r] \in VersionLists
  BY DEF Issuing, Filing, Ordered
<1>2. PICK L : L = Len(list[r])
  OBVIOUS
<1>3. L \in Nat /\ DOMAIN list[r] = 1..L
  BY ONLY <1>1, <1>2 DEF VersionLists
<1>4. pos[r] \in 1..L /\ pos'[r] = pos[r] + 1
  <2>1. pos[r] \in Nat \ {0} /\ pos \in [Runs -> Nat \ {0}]
    BY DEF Issuing
  <2>2. pos[r] <= L /\ pos' = [pos EXCEPT ![r] = @ + 1]
    BY <1>2
  <2> QED BY ONLY <1>3, <2>1, <2>2, r \in Runs
<1>5. Named(r) \subseteq 1..L /\ pos[r] \in Named(r) /\ Named(r)' = Named(r)
  BY <1>3, <1>4 DEF Named
<1>6. Filed(r) = Before(r, pos[r])
  BY <1>1 DEF Filing, Labels
<1>7. issues' = issues \/ issues' = Append(issues, [by |-> r, item |-> pos[r]])
  OBVIOUS
<1>8. /\ issues' \in Seq([by : Runs, item : Nat]) /\ Ordered'
      /\ pos'[r] \in 1..(L + 1) /\ \A x \in Filed(r)' : x < pos'[r]
      /\ \E k \in 1..(L + 1) : Filed(r)' = Before(r, k)'
      /\ issues' = Append(issues, [by |-> r, item |-> pos[r]]) => Filed(r)' = Before(r, pos[r])'
  BY ONLY <1>1, <1>3, <1>4, <1>5, <1>6, <1>7, LoopFiles, r \in Runs
<1>9. \/ pc'[r] = "failed"
      \/ issues' = Append(issues, [by |-> r, item |-> pos[r]]) /\ pc'[r] \in {"create", "failed"}
  OBVIOUS
<1>10. L = Len(list'[r]) /\ list'[r] \in VersionLists
  BY <1>1, <1>2
<1> QED BY <1>8, <1>9, <1>10 DEF Filing, Labels, PrLabels

LEMMA IssuingStep ==
  ASSUME Issuing, list' \in [Runs -> VersionLists], pos' \in [Runs -> Nat \ {0}],
         \A r \in Runs : Filing(r)', issues' \in Seq([by : Runs, item : Nat]), Ordered'
  PROVE  Issuing'
BY DEF Issuing, Ordered

\* No issue is filed, no list read, and no loop goes on.
LEMMA IssuingKept ==
  ASSUME Issuing, UNCHANGED issueVars,
         \A r \in Runs : \/ pc'[r] = pc[r] \/ pc'[r] = "failed"
                         \/ pc'[r] = "crashed" /\ Filed(r) = {}
                         \/ pc'[r] \in {"done"} \cup PrLabels /\ pc[r] \in PrLabels
                         \/ pc[r] = "issue" /\ pc'[r] = "create"
                         \/ pc[r] = "issue" /\ pc'[r] = "done" /\ Named(r) = {}
                         \/ pc[r] = "create" /\ pc'[r] = "done" /\ pos[r] > Len(list[r])
  PROVE  Issuing'
<1>1. issues' = issues /\ list' = list /\ pos' = pos
  BY DEF issueVars
<1>2. \A r \in Runs : Filing(r)'
  BY <1>1, FilingKept DEF Issuing
<1> QED BY <1>1, <1>2 DEF Issuing

LEMMA StartFiling ==
  ASSUME Control, Issuing, NEW r \in Runs, NEW j \in Jobs, Start(r, j)
  PROVE  Issuing'
<1>1. /\ pc[r] = "idle" /\ issues' = issues /\ pos' = pos
      /\ \/ Goto(r, "failed") /\ list' = list
         \/ Goto(r, FirstStep(j)) /\ list' = [list EXCEPT ![r] = Asked(j)]
  BY DEF Start
<1>2. Filing(r) /\ Filed(r) = {} /\ pos[r] = 1
  BY <1>1, NothingFiled DEF Issuing
<1>3. list[r] \in VersionLists
  BY DEF Issuing
<1>4. /\ Asked(j) \in VersionLists
      /\ FirstStep(j) \in {"file", "issue"} \/ (FirstStep(j) \in PrLabels /\ Asked(j) = <<>>)
  BY JobKinds DEF PrLabels
<1>5. list' \in [Runs -> VersionLists]
  BY <1>1, <1>4 DEF Issuing
<1>6. Filing(r)'
  <2>1. CASE Goto(r, "failed") /\ list' = list
    <3>1. pc'[r] = "failed"
      BY <2>1 DEF Goto, Control, Types
    <3> QED BY <1>1, <1>2, <1>3, <2>1, <3>1, FilingFresh
  <2>2. CASE Goto(r, FirstStep(j)) /\ list' = [list EXCEPT ![r] = Asked(j)]
    <3>1. pc'[r] = FirstStep(j) /\ list'[r] = Asked(j)
      BY <2>2 DEF Goto, Control, Types, Issuing
    <3> QED BY <1>1, <1>2, <1>4, <3>1, FilingFresh
  <2> QED BY <1>1, <2>1, <2>2
<1>7. ASSUME NEW k \in Runs \ {r} PROVE Filing(k)'
  <2>1. pc'[k] = pc[k] /\ list'[k] = list[k] /\ pos'[k] = pos[k] /\ Filing(k)
    BY <1>1 DEF Goto, Control, Types, Issuing
  <2> QED BY <1>1, <2>1, FilingKept
<1>8. issues' \in Seq([by : Runs, item : Nat]) /\ Ordered' /\ pos' \in [Runs -> Nat \ {0}]
  BY <1>1 DEF Issuing, Ordered
<1> QED BY <1>5, <1>6, <1>7, <1>8, IssuingStep

LEMMA GetFileFiling ==
  ASSUME Control, Issuing, NEW r \in Runs, GetFile(r)
  PROVE  Issuing'
<1>1. /\ pc[r] = "file" /\ issues' = issues /\ pos' = pos
      /\ \/ Goto(r, "failed") /\ list' = list
         \/ \E l \in Lists : list' = [list EXCEPT ![r] = l] /\ Goto(r, "issue")
  BY DEF GetFile
<1>2. Filing(r) /\ Filed(r) = {} /\ pos[r] = 1
  BY <1>1, NothingFiled DEF Issuing
<1>3. /\ list' \in [Runs -> VersionLists] /\ pc'[r] \in {"failed", "issue"}
      /\ \A k \in Runs \ {r} : pc'[k] = pc[k] /\ list'[k] = list[k] /\ pos'[k] = pos[k]
  BY <1>1, ListsAssumption DEF Goto, Control, Types, Issuing
<1>4. list'[r] \in VersionLists /\ pos'[r] = 1
  BY <1>1, <1>2, <1>3
<1>5. Filing(r)'
  BY <1>1, <1>2, <1>3, <1>4, FilingFresh
<1>6. ASSUME NEW k \in Runs \ {r} PROVE Filing(k)'
  <2>1. Filing(k)
    BY DEF Issuing
  <2> QED BY <1>1, <1>3, <2>1, FilingKept
<1>7. issues' \in Seq([by : Runs, item : Nat]) /\ Ordered' /\ pos' \in [Runs -> Nat \ {0}]
  BY <1>1 DEF Issuing, Ordered
<1> QED BY <1>3, <1>5, <1>6, <1>7, IssuingStep

LEMMA GetIssueFiling ==
  ASSUME Control, Issuing, NEW r \in Runs, GetIssue(r)
  PROVE  Issuing'
<1>1. /\ pc[r] = "issue" /\ UNCHANGED issueVars
      /\ pc' = [pc EXCEPT ![r] = "failed"] \/ pc' = [pc EXCEPT ![r] = "create"]
         \/ pc' = [pc EXCEPT ![r] = BareEnds(r)]
  BY DEF GetIssue, Goto
<1>2. Filed(r) = {}
  BY <1>1, NothingFiled DEF Issuing
<1>3. /\ pc'[r] \in {"failed", "create", BareEnds(r)}
      /\ \A k \in Runs \ {r} : pc'[k] = pc[k]
  BY <1>1 DEF Control, Types
<1>4. BareEnds(r) = "crashed" \/ (BareEnds(r) = "done" /\ Named(r) = {})
  BY DEF BareEnds
<1> QED BY <1>1, <1>2, <1>3, <1>4, IssuingKept

LEMMA CreateIssueFiling ==
  ASSUME Control, Issuing, NEW r \in Runs, CreateIssue(r)
  PROVE  Issuing'
<1>1. /\ pc[r] = "create" /\ list' = list
      /\ \A k \in Runs \ {r} : pc'[k] = pc[k] /\ pos'[k] = pos[k]
  BY DEF CreateIssue, Goto, Control, Types, Issuing
<1>2. /\ Filing(r) /\ Ordered /\ issues \in Seq([by : Runs, item : Nat]) /\ pos \in [Runs -> Nat \ {0}]
      /\ pos[r] \in Nat \ {0} /\ Len(list[r]) \in Nat /\ list \in [Runs -> VersionLists]
  BY DEF Issuing, Ordered, VersionLists
<1>0. pos[r] \in Nat \ {0} /\ Len(list[r]) \in Nat
  BY <1>2
<1>3. CASE pos[r] > Len(list[r])
  <2>1. Goto(r, "done") /\ UNCHANGED issueVars
    BY <1>1, <1>3 DEF CreateIssue, issueVars
  <2>2. pc'[r] = "done"
    BY <2>1 DEF Goto, Control, Types
  <2> QED BY <1>1, <1>3, <2>1, <2>2, IssuingKept
<1>4. CASE pos[r] <= Len(list[r]) /\ list[r][pos[r]] = ""
  <2>0. pos[r] <= Len(list[r])
    BY <1>4
  <2>1. pos' = [pos EXCEPT ![r] = @ + 1] /\ issues' = issues /\ pc' = pc
    <3>1. ~(pos[r] > Len(list[r]))
      BY ONLY <1>0, <2>0
    <3> QED BY <1>4, <3>1 DEF CreateIssue
  <2>2. pos' \in [Runs -> Nat \ {0}] /\ pos'[r] = pos[r] + 1
    BY ONLY <1>2, <2>1, r \in Runs
  <2>3. ASSUME NEW k \in Runs \ {r} PROVE Filing(k)'
    <3>1. Filing(k) /\ list'[k] = list[k]
      BY <1>1 DEF Issuing
    <3> QED BY <1>1, <2>1, <3>1, FilingKept
  <2>4. Filing(r)'
    <3>1. pos[r] \notin Named(r) /\ Named(r)' = Named(r) /\ list'[r] = list[r]
      BY <1>1, <1>4 DEF Named
    <3>2. DOMAIN list[r] = 1..Len(list[r])
      BY <1>2 DEF VersionLists
    <3>3. Named(r) \subseteq 1..Len(list[r])
      BY <3>2 DEF Named
    <3>4. Filed(r)' = Filed(r) /\ Filed(r) = Before(r, pos[r])
      BY <1>1, <1>2, <2>1 DEF Filed, Filing, Labels
    <3>5. Before(r, pos[r]) = Before(r, pos[r] + 1)
      BY ONLY <1>2, <3>1, <3>3 DEF Before
    <3>6. \A x : Before(r, x)' = Before(r, x)
      BY <3>1 DEF Before
    <3>7. /\ pos'[r] \in 1..(Len(list[r]) + 1) /\ \A n \in Before(r, pos[r]) : n < pos'[r]
      BY ONLY <1>0, <2>0, <2>2, <3>3 DEF Before
    <3>8. Filed(r)' = Before(r, pos[r])'
      BY <2>2, <3>4, <3>5, <3>6
    <3>9. \E k \in 1..(Len(list'[r]) + 1) : Filed(r)' = Before(r, k)'
      BY <2>2, <3>1, <3>4, <3>5, <3>6, <3>7
    <3> QED BY <1>1, <1>2, <2>1, <3>1, <3>4, <3>7, <3>8, <3>9 DEF Filing, Labels, PrLabels
  <2> QED BY <1>1, <1>2, <2>1, <2>2, <2>3, <2>4, IssuingStep DEF Ordered
<1>5. CASE pos[r] <= Len(list[r]) /\ list[r][pos[r]] # ""
  <2>0. pos[r] <= Len(list[r])
    BY <1>5
  <2>1. ~(pos[r] > Len(list[r]))
    BY ONLY <1>0, <2>0
  <2>2. /\ pos' = [pos EXCEPT ![r] = @ + 1]
        /\ \E o \in Outcomes :
             /\ issues' = IF o = "failed" THEN issues ELSE Append(issues, [by |-> r, item |-> pos[r]])
             /\ Goto(r, After(o))
    BY <1>5, <2>1 DEF CreateIssue
  <2>3. \/ issues' = issues /\ pc'[r] = "failed"
        \/ issues' = Append(issues, [by |-> r, item |-> pos[r]]) /\ pc'[r] \in {"create", "failed"}
    BY <2>2 DEF Goto, After, Outcomes, Control, Types
  <2>4. Filing(r)' /\ issues' \in Seq([by : Runs, item : Nat]) /\ Ordered'
    BY <1>1, <1>5, <2>2, <2>3, FilingFiles
  <2>5. ASSUME NEW k \in Runs \ {r} PROVE Filing(k)'
    <3>1. Filing(k) /\ list'[k] = list[k]
      BY <1>1 DEF Issuing
    <3>2. CASE issues' = issues
      BY <1>1, <3>1, <3>2, FilingKept
    <3>3. CASE issues' = Append(issues, [by |-> r, item |-> pos[r]])
      BY <1>1, <1>2, <3>1, <3>3, FilingOfOthers
    <3> QED BY <2>3, <3>2, <3>3
  <2>6. pos' \in [Runs -> Nat \ {0}]
    BY ONLY <1>2, <2>2, r \in Runs
  <2> QED BY <1>1, <1>2, <2>4, <2>5, <2>6, IssuingStep
<1>6. pos[r] > Len(list[r]) \/ pos[r] <= Len(list[r])
  BY ONLY <1>0
<1> QED BY <1>3, <1>4, <1>5, <1>6

LEMMA IssuingInv == Control /\ Issuing /\ [Next]_vars => Issuing'
<1> SUFFICES ASSUME Control, Issuing, [Next]_vars PROVE Issuing'
  OBVIOUS
<1>1. ASSUME NEW r \in Runs,
             GetRef(r) \/ GetBase(r) \/ CreateRef(r) \/ CreateCommit(r) \/ UpdateRef(r)
      PROVE  Issuing'
  <2>1. /\ UNCHANGED issueVars /\ \A k \in Runs \ {r} : pc'[k] = pc[k]
        /\ pc'[r] \in PrLabels \cup {"failed"} /\ pc[r] \in PrLabels
    BY <1>1 DEF GetRef, GetBase, CreateRef, CreateCommit, UpdateRef, Updated, Goto, PrLabels, Control, Types
  <2> QED BY <2>1, IssuingKept
<1>2. ASSUME NEW r \in Runs, OpenPull(r) \/ FindPull(r) PROVE Issuing'
  <2>1. /\ UNCHANGED issueVars /\ \A k \in Runs \ {r} : pc'[k] = pc[k]
        /\ pc'[r] \in PrLabels \cup {"failed", "done", "crashed"} /\ pc[r] \in PrLabels
    BY <1>2 DEF OpenPull, FindPull, Answer, Again, Goto, PrLabels, Control, Types
  <2>2. Filed(r) = {}
    <3>1. Filing(r)
      BY DEF Issuing
    <3>2. list[r] = <<>> /\ Filed(r) = Before(r, pos[r])
      BY <2>1, <3>1 DEF Filing, Labels, PrLabels
    <3>3. Named(r) = {}
      BY <3>2 DEF Named
    <3> QED BY <3>2, <3>3 DEF Before
  <2> QED BY <2>1, <2>2, IssuingKept
<1>3. ASSUME NEW b \in Branches, NEW p \in Paths, PersonPushes(b, p) PROVE Issuing'
  BY <1>3, IssuingKept DEF PersonPushes
<1>4. ASSUME NEW x \in open, Merge(x) PROVE Issuing'
  BY <1>4, IssuingKept DEF Merge
<1>5. CASE UNCHANGED vars
  BY <1>5, IssuingKept DEF vars
<1> QED BY <1>1, <1>2, <1>3, <1>4, <1>5, StartFiling, GetFileFiling, GetIssueFiling, CreateIssueFiling
        DEF Next, Step

-----------------------------------------------------------------------------
(* The invariant *)

LEMMA InitInv == Init => Inv
<1> SUFFICES ASSUME Init PROVE Inv
  OBVIOUS
<1>1. Control
  <2>1. Types
    <3>1. 0 \in 0..MaxEvents
      BY BoundsAssumption
    <3> QED BY <3>1 DEF Init, Types, Labels
  <2>2. \A r \in Runs : Place(r)
    BY DEF Init, Place, IssueLabels, PrLabels
  <2> QED BY <2>1, <2>2 DEF Control
<1>2. PICK c : c = [files |-> [p \in Paths |-> 1], anc |-> {1}]
  OBVIOUS
<1>3. commits = <<c>> /\ c.files = [p \in Paths |-> 1] /\ c.anc = {1}
  BY <1>2 DEF Init
<1>4. c \in Commits
  BY <1>2 DEF Commits
<1>5. commits \in Seq(Commits) /\ commits # <<>> /\ DOMAIN commits = {1} /\ commits[1] = c
  BY ONLY <1>3, <1>4
<1>6. Graph
  <2>1. CommitOK(1)
    BY <1>3, <1>5 DEF CommitOK, Files, Ancestors
  <2> QED BY <1>5, <2>1 DEF Graph
<1>7. NothingTakenBack
  BY <1>3, <1>5 DEF NothingTakenBack, Files, Ancestors
<1>8. Pointing
  BY <1>5 DEF Init, Pointing
<1>9. Repo
  <2>1. \A r \in Runs : LandedBy(r)
    BY DEF Init, LandedBy
  <2> QED BY <1>6, <1>7, <1>8, <2>1 DEF Repo
<1>10. Pulling
  BY DEF Init, Pulling, PullSets, PullBy
<1>11. Issuing
  <2>1. issues = <<>> /\ \A r \in Runs : list[r] = <<>> /\ pos[r] = 1 /\ pc[r] = "idle"
    BY DEF Init
  <2>2. issues \in Seq([by : Runs, item : Nat]) /\ <<>> \in VersionLists /\ Ordered
    BY <2>1 DEF VersionLists, Ordered
  <2>3. list \in [Runs -> VersionLists] /\ pos \in [Runs -> Nat \ {0}]
    <3>1. list = [r \in Runs |-> <<>>] /\ pos = [r \in Runs |-> 1]
      BY DEF Init
    <3> QED BY ONLY <2>2, <3>1
  <2>4. ASSUME NEW r \in Runs PROVE Filing(r)
    <3>1. Filed(r) = {} /\ Named(r) = {}
      <4>1. DOMAIN issues = {} /\ DOMAIN list[r] = {}
        BY <2>1
      <4> QED BY <4>1 DEF Filed, Named
    <3>2. \A x : Before(r, x) = {}
      BY <3>1 DEF Before
    <3>3. 1 \in 1..(Len(list[r]) + 1)
      BY <2>1
    <3> QED BY <2>1, <2>2, <3>1, <3>2, <3>3 DEF Filing, Labels, PrLabels
  <2> QED BY <2>2, <2>3, <2>4 DEF Issuing, Ordered
<1> QED BY <1>1, <1>9, <1>10, <1>11 DEF Inv

\* In every reachable state, of any number of runs and of people's steps.
THEOREM Invariant == Spec => []Inv
<1>1. Inv /\ [Next]_vars => Inv'
  BY ControlInv, RepoInv, PullingInv, IssuingInv DEF Inv
<1> QED BY InitInv, <1>1, PTL DEF Spec

\* Every variable has its type, and refers to commits that exist.
THEOREM TypeCorrectness == Spec => []TypeOK
<1>1. Inv => TypeOK
  <2> SUFFICES ASSUME Inv PROVE TypeOK
    OBVIOUS
  <2>1. /\ \A c \in DOMAIN commits : /\ Files(c) \in [Paths -> 1..c]
                                     /\ Ancestors(c) \subseteq 1..c /\ c \in Ancestors(c)
    BY DEF Inv, Repo, Graph, CommitOK
  <2>2. /\ DOMAIN refs \subseteq Branches /\ \A b \in DOMAIN refs : refs[b] \in DOMAIN commits
        /\ seen \in [Runs -> DOMAIN commits] /\ made \in [Runs -> DOMAIN commits]
        /\ deleted \subseteq Branches
    BY DEF Inv, Repo, Pointing
  <2>3. open \subseteq opened /\ opened \subseteq Pulls /\ closed \subseteq opened
    BY DEF Inv, Pulling, PullSets
  <2>4. /\ issues \in Seq([by : Runs, item : Nat])
        /\ list \in [Runs -> VersionLists] /\ pos \in [Runs -> Nat \ {0}]
    BY DEF Inv, Issuing
  <2>5. /\ job \in [Runs -> Jobs \cup {Nil}] /\ pc \in [Runs -> Labels]
        /\ tries \in [Runs -> Nat] /\ url \in [Runs -> {"", "url"}] /\ events \in 0..MaxEvents
    BY DEF Inv, Control, Types
  <2> QED BY <2>1, <2>2, <2>3, <2>4, <2>5 DEF TypeOK
<1> QED BY Invariant, <1>1, PTL

\* No commit takes back what a commit before it had of a file, whatever runs and people
\* read, move, merge and delete while a run builds its commit.
THEOREM CommitsTakeNothingBack == Spec => []NothingTakenBack
<1>1. Inv => NothingTakenBack
  BY DEF Inv, Repo
<1> QED BY Invariant, <1>1, PTL

\* A run that asks for a pull request has its commit on its branch until that is deleted.
THEOREM CommitsLand == Spec => []Landed
<1>1. Inv => Landed
  BY DEF Inv, Repo, LandedBy, Landed
<1> QED BY Invariant, <1>1, PTL

\* CreatePr succeeds for pull requests that exist, and names those it can list.
THEOREM PullRequestsNamed == Spec => []NamedWhenListed
<1>1. Inv => NamedWhenListed
  BY DEF Inv, Pulling, PullBy, NamedWhenListed
<1> QED BY Invariant, <1>1, PTL

\* The issues of a run are those of the first versions of its list, in order.
THEOREM IssuesInOrder == Spec => []FiledInOrder
<1>1. Inv => FiledInOrder
  <2> SUFFICES ASSUME Inv PROVE FiledInOrder
    OBVIOUS
  <2>1. Ordered
    BY DEF Inv, Issuing, Ordered
  <2>2. ASSUME NEW r \in Runs
        PROVE  /\ \E k \in 1..(Len(list[r]) + 1) : Filed(r) = {n \in Named(r) : n < k}
               /\ pc[r] = "done" => Filed(r) = Named(r)
               /\ pc[r] = "crashed" => Filed(r) = {}
    BY DEF Inv, Issuing, Filing, Before
  <2> QED BY <2>1, <2>2 DEF FiledInOrder, Ordered
<1> QED BY Invariant, <1>1, PTL
===============================================================================
