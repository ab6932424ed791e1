--------------------------- MODULE GoReleaseProofs ---------------------------
(***************************************************************************)
(* Theorems about GoRelease, for any number of runs, any invocations and   *)
(* any history of merges.  Every variable has its type, no push throws     *)
(* away commits, and an open pull request shows the work of the run that   *)
(* opened it: these rest on the shape of the commit graph, a commit        *)
(* descends from whatever its ancestors descend from.  RELEASE on main is  *)
(* stepped by one at most and the README follows it: these rest on what    *)
(* the commits of a branch hold, from the commit of main it starts from.   *)
(***************************************************************************)
EXTENDS GoRelease, TLAPS, WellFoundedInduction

CommitType == [files : FilesType, anc : SUBSET Nat]

\* The commit graph.
Graph ==
  /\ commits \in Seq(CommitType)
  /\ \A c \in DOMAIN commits : Ancestors(c) \subseteq 1..c /\ c \in Ancestors(c)
  /\ \A c \in DOMAIN commits : \A d \in Ancestors(c) : Ancestors(d) \subseteq Ancestors(c)

\* What GitHub holds.
Refs ==
  /\ main \in DOMAIN commits /\ fork \in Ancestors(main)
  /\ DOMAIN branch \subseteq Names /\ \A n \in DOMAIN branch : branch[n] \in DOMAIN commits
  /\ open \subseteq [head : DOMAIN branch, carries : DOMAIN commits]
  /\ \A x, y \in open : x.head = y.head => x = y
  /\ merges \in 0..MaxMerges

Labels == {"idle", "clone", "branch", "edit", "commit", "push", "pr"} \cup Ended
Working == {"branch", "edit", "commit", "push", "pr"}
Creating == {"commit", "push", "pr"}
CallLists == {<<>>, <<"plain">>, <<"held", "plain">>}

\* What a run holds.
Clones ==
  /\ base \in [Runs -> DOMAIN commits] /\ head \in [Runs -> DOMAIN commits]
  /\ name \in [Runs -> Names \cup {Nil}]
Locals ==
  /\ job \in [Runs -> Invocations \cup {Nil}]
  /\ pc \in [Runs -> Labels]
  /\ idx \in [Runs -> Nat \ {0}]
  /\ calls \in [Runs -> CallLists]
  /\ tries \in [Runs -> 0..MaxTries]

\* Where a run is, and what it therefore has.
Progress ==
  \A r \in Runs :
    /\ pc[r] # "idle" => job[r] \in Invocations
    /\ pc[r] \in Working => idx[r] <= Len(job[r].patches) /\ name[r] \in Names
    /\ pc[r] \in Creating => calls[r] # <<>>

\* A run that asks for a pull request has its commit on its branch of the fork.
Shown ==
  \A r \in Runs :
    pc[r] = "pr" => name[r] \in DOMAIN branch /\ head[r] \in Ancestors(branch[name[r]])

Inv == Graph /\ Refs /\ Clones /\ Locals /\ Progress /\ Shown /\ OpenedCarriesWork

-----------------------------------------------------------------------------
(* The graph *)

LEMMA Elements ==
  ASSUME Graph
  PROVE  /\ DOMAIN commits = 1..Len(commits) /\ Len(commits) \in Nat
         /\ \A c \in DOMAIN commits : Files(c) \in FilesType /\ Ancestors(c) \subseteq DOMAIN commits
<1>1. DOMAIN commits = 1..Len(commits) /\ Len(commits) \in Nat
  BY DEF Graph
<1>2. \A c \in DOMAIN commits : commits[c] \in CommitType
  BY DEF Graph
<1>3. \A c \in DOMAIN commits : Files(c) \in FilesType
  BY <1>2 DEF CommitType, Files
<1>4. \A c \in DOMAIN commits : Ancestors(c) \subseteq DOMAIN commits
  BY <1>1, SMT DEF Graph
<1> QED BY <1>1, <1>3, <1>4

LEMMA Grows ==
  ASSUME Graph, NEW f \in FilesType, NEW S \in SUBSET DOMAIN commits,
         \A d \in S : Ancestors(d) \subseteq S,
         Commit(f, S)
  PROVE  /\ Graph'
         /\ NewCommit \in DOMAIN commits'
         /\ DOMAIN commits \subseteq DOMAIN commits'
         /\ \A c \in DOMAIN commits : commits'[c] = commits[c]
         /\ commits'[NewCommit].anc = S \cup {NewCommit}
<1> DEFINE n == Len(commits) + 1
           new == [files |-> f, anc |-> S \cup {n}]
<1>1. DOMAIN commits = 1..Len(commits) /\ Len(commits) \in Nat /\ n \in Nat
  BY Elements
<1>2. commits' = Append(commits, new)
  BY DEF Commit
<1>3. new \in CommitType
  <2>1. S \cup {n} \in SUBSET Nat
    BY <1>1
  <2> QED BY <2>1 DEF CommitType
<1>4. commits \in Seq(CommitType)
  BY DEF Graph
<1>5. /\ commits' \in Seq(CommitType)
      /\ DOMAIN commits' = 1..n
      /\ \A c \in DOMAIN commits : commits'[c] = commits[c]
      /\ commits'[n] = new
  <2> HIDE DEF new
  <2> QED BY <1>1, <1>2, <1>3, <1>4, SMT
<1>6. DOMAIN commits \subseteq DOMAIN commits' /\ n \in DOMAIN commits'
  BY <1>1, <1>5
<1>7. DOMAIN commits' = DOMAIN commits \cup {n} /\ n \notin DOMAIN commits
  BY <1>1, <1>5
<1>8. \A c \in DOMAIN commits : commits'[c].anc = Ancestors(c)
  BY <1>5 DEF Ancestors
<1>9. commits'[n].anc = S \cup {n}
  BY <1>5
<1>10. ASSUME NEW c \in DOMAIN commits'
       PROVE  /\ commits'[c].anc \subseteq 1..c /\ c \in commits'[c].anc
              /\ \A d \in commits'[c].anc : commits'[d].anc \subseteq commits'[c].anc
  <2>1. CASE c \in DOMAIN commits
    <3>1. commits'[c].anc = Ancestors(c)
      BY <2>1, <1>8
    <3>2. \A d \in Ancestors(c) : d \in DOMAIN commits /\ commits'[d].anc = Ancestors(d)
      BY <2>1, <1>8, Elements
    <3>3. /\ Ancestors(c) \subseteq 1..c /\ c \in Ancestors(c)
          /\ \A d \in Ancestors(c) : Ancestors(d) \subseteq Ancestors(c)
      BY <2>1 DEF Graph
    <3> QED BY <3>1, <3>2, <3>3
  <2>2. CASE c = n
    <3>1. \A d \in S : commits'[d].anc = Ancestors(d)
      BY <1>8
    <3>2. S \subseteq 1..n
      BY <1>1
    <3>3. n \in 1..n
      BY <1>1
    <3> QED BY <2>2, <1>9, <3>1, <3>2, <3>3
  <2> QED BY <1>7, <2>1, <2>2
<1>11. Graph'
  BY <1>5, <1>10 DEF Graph, Ancestors
<1> QED BY <1>5, <1>6, <1>9, <1>11 DEF NewCommit

-----------------------------------------------------------------------------
(* How a run goes on *)

\* What the end of a run's version, or of a run, leaves of the other runs.
Others(r) ==
  \A q \in Runs : pc'[q] = "pr" => q # r /\ pc[q] = "pr" /\ name'[q] = name[q] /\ head'[q] = head[q]

LEMMA Lists ==
  ASSUME NEW c \in CallLists, c # <<>>, Head(c) = "held"
  PROVE  Tail(c) \in CallLists /\ Tail(c) # <<>>
<1>1. c = <<"held", "plain">>
  BY DEF CallLists
<1>2. Tail(<<"held", "plain">>) = <<"plain">>
  OBVIOUS
<1>3. <<"plain">> # <<>>
  OBVIOUS
<1> QED BY <1>1, <1>2, <1>3 DEF CallLists

LEMMA Ending ==
  ASSUME Inv, NEW r \in Runs, NEW how \in Ended, End(r, how), UNCHANGED job,
         DOMAIN commits \subseteq DOMAIN commits', pc[r] # "idle"
  PROVE  Clones' /\ Locals' /\ Progress' /\ Others(r)
<1>1. 1 \in DOMAIN commits'
  BY Elements, SMT DEF Inv, Refs
<1>2. Clones'
  BY <1>1 DEF Inv, Clones, End
<1>3. how \in Labels /\ how \notin Working /\ how \notin Creating /\ how # "idle" /\ how # "pr"
  BY DEF Ended, Labels, Working, Creating
<1>4. 0 \in 0..MaxTries
  BY BoundsAssumption
<1>5. Locals'
  BY <1>3, <1>4 DEF Inv, Locals, End, Goto, CallLists
<1>6. pc' = [pc EXCEPT ![r] = how] /\ pc \in [Runs -> Labels] /\ job' = job
  BY DEF End, Goto, Inv, Locals
<1>7. \A q \in Runs : q # r => /\ pc'[q] = pc[q] /\ idx'[q] = idx[q] /\ calls'[q] = calls[q]
                              /\ name'[q] = name[q] /\ head'[q] = head[q]
  BY DEF End, Goto, Inv, Locals, Clones
<1>8. Progress'
  <2> SUFFICES ASSUME NEW q \in Runs
               PROVE  /\ pc'[q] # "idle" => job'[q] \in Invocations
                      /\ pc'[q] \in Working => idx'[q] <= Len(job'[q].patches) /\ name'[q] \in Names
                      /\ pc'[q] \in Creating => calls'[q] # <<>>
    BY DEF Progress
  <2>1. CASE q = r
    BY <2>1, <1>3, <1>6 DEF Inv, Progress
  <2>2. CASE q # r
    BY <2>2, <1>6, <1>7 DEF Inv, Progress
  <2> QED BY <2>1, <2>2
<1>9. Others(r)
  BY <1>3, <1>6, <1>7 DEF Others
<1> QED BY <1>2, <1>5, <1>8, <1>9

LEMMA GoingOn ==
  ASSUME Inv, NEW r \in Runs, NextVersion(r), UNCHANGED job,
         DOMAIN commits \subseteq DOMAIN commits', pc[r] # "idle"
  PROVE  Clones' /\ Locals' /\ Progress' /\ Others(r)
<1>1. Clones'
  BY DEF Inv, Clones, NextVersion, clone
<1>2. 0 \in 0..MaxTries /\ "clone" \in Labels /\ <<>> \in CallLists
  BY BoundsAssumption DEF Labels, CallLists
<1>3. Locals'
  BY <1>2 DEF Inv, Locals, NextVersion, Goto
<1>4. /\ pc' = [pc EXCEPT ![r] = "clone"] /\ pc \in [Runs -> Labels]
      /\ job' = job /\ name' = name /\ head' = head
  BY DEF NextVersion, Goto, Inv, Locals, clone
<1>5. \A q \in Runs : q # r => pc'[q] = pc[q] /\ idx'[q] = idx[q] /\ calls'[q] = calls[q]
  BY DEF NextVersion, Goto, Inv, Locals
<1>6. Progress'
  BY <1>4, <1>5 DEF Inv, Progress, Working, Creating
<1>7. Others(r)
  BY <1>4, <1>5 DEF Others
<1> QED BY <1>1, <1>3, <1>6, <1>7

LEMMA Returning ==
  ASSUME Inv, NEW r \in Runs, NEW ok \in BOOLEAN, Return(r, ok), UNCHANGED job,
         DOMAIN commits \subseteq DOMAIN commits', pc[r] \in Creating
  PROVE  Clones' /\ Locals' /\ Progress' /\ Others(r)
<1>1. pc[r] # "idle"
  BY DEF Creating
<1>2. CASE Ends(r, ok)
  BY <1>1, <1>2, Ending DEF Return, Ended
<1>3. CASE ~Ends(r, ok) /\ Head(calls[r]) # "held"
  BY <1>1, <1>3, GoingOn DEF Return
<1>4. CASE ~Ends(r, ok) /\ Head(calls[r]) = "held"
  <2>1. /\ Goto(r, "commit")
        /\ calls' = [calls EXCEPT ![r] = Tail(calls[r])]
        /\ tries' = [tries EXCEPT ![r] = 0]
        /\ UNCHANGED <<idx, clone>>
    BY <1>4 DEF Return
  <2>2. calls[r] \in CallLists /\ calls[r] # <<>>
    BY DEF Inv, Locals, Progress
  <2>3. Tail(calls[r]) \in CallLists /\ Tail(calls[r]) # <<>>
    BY <1>4, <2>2, Lists
  <2>4. Clones'
    BY <2>1 DEF Inv, Clones, clone
  <2>5. 0 \in 0..MaxTries /\ "commit" \in Labels
    BY BoundsAssumption DEF Labels
  <2>6. Locals'
    BY <2>1, <2>3, <2>5 DEF Inv, Locals, Goto
  <2>7. /\ pc' = [pc EXCEPT ![r] = "commit"] /\ pc \in [Runs -> Labels] /\ calls \in [Runs -> CallLists]
        /\ idx' = idx /\ job' = job /\ name' = name /\ head' = head
    BY <2>1 DEF Goto, Inv, Locals, clone
  <2>8. Progress'
    <3> SUFFICES ASSUME NEW q \in Runs
                 PROVE  /\ pc'[q] # "idle" => job'[q] \in Invocations
                        /\ pc'[q] \in Working => idx'[q] <= Len(job'[q].patches) /\ name'[q] \in Names
                        /\ pc'[q] \in Creating => calls'[q] # <<>>
      BY DEF Progress
    <3>1. CASE q = r
      BY <3>1, <2>1, <2>3, <2>7 DEF Inv, Progress, Working, Creating
    <3>2. CASE q # r
      <4>1. pc'[q] = pc[q] /\ calls'[q] = calls[q]
        BY <3>2, <2>1, <2>7
      <4> QED BY <4>1, <2>7 DEF Inv, Progress
    <3> QED BY <3>1, <3>2
  <2>9. Others(r)
    BY <2>7 DEF Others
  <2> QED BY <2>4, <2>6, <2>8, <2>9
<1> QED BY <1>2, <1>3, <1>4

-----------------------------------------------------------------------------
(* What stays when a run only changes what it holds *)

LEMMA RefsKept ==
  ASSUME Inv, DOMAIN commits \subseteq DOMAIN commits',
         \A c \in DOMAIN commits : commits'[c] = commits[c],
         UNCHANGED <<upstream, fork, branch>>
  PROVE  Refs' /\ OpenedCarriesWork'
<1>1. main' = main /\ fork' = fork /\ branch' = branch /\ open' = open /\ merges' = merges
  BY DEF upstream
<1>2. Refs'
  BY <1>1 DEF Inv, Refs, Ancestors
<1>3. \A x \in open : x.head \in DOMAIN branch
  BY DEF Inv, Refs
<1>4. \A x \in open : Ancestors(branch[x.head])' = Ancestors(branch[x.head])
  BY <1>1, <1>3 DEF Inv, Refs, Ancestors
<1> QED BY <1>1, <1>2, <1>4 DEF Inv, OpenedCarriesWork

LEMMA ShownKept ==
  ASSUME Inv, NEW r \in Runs, Others(r), UNCHANGED branch,
         \A c \in DOMAIN commits : commits'[c] = commits[c]
  PROVE  Shown'
<1> SUFFICES ASSUME NEW q \in Runs, pc'[q] = "pr"
             PROVE  (name[q] \in DOMAIN branch /\ head[q] \in Ancestors(branch[name[q]]))'
  BY DEF Shown
<1>1. pc[q] = "pr" /\ name'[q] = name[q] /\ head'[q] = head[q]
  BY DEF Others
<1>2. name[q] \in DOMAIN branch /\ head[q] \in Ancestors(branch[name[q]])
  BY <1>1 DEF Inv, Shown
<1>3. branch[name[q]] \in DOMAIN commits
  BY <1>2 DEF Inv, Refs
<1>4. (name[q] \in DOMAIN branch)' /\ branch'[name'[q]] = branch[name[q]]
  BY <1>1, <1>2
<1>5. commits'[branch'[name'[q]]] = commits[branch[name[q]]]
  BY <1>3, <1>4
<1> QED BY <1>1, <1>2, <1>4, <1>5 DEF Ancestors

\* A step of a run that leaves the commits and GitHub alone.
LEMMA Local ==
  ASSUME Inv, NEW r \in Runs, UNCHANGED <<commits, upstream, fork, branch>>,
         Clones', Locals', Progress', Others(r)
  PROVE  Inv'
<1>1. commits' = commits /\ branch' = branch
  OBVIOUS
<1>2. Graph'
  BY <1>1 DEF Inv, Graph, Ancestors
<1>3. Refs' /\ OpenedCarriesWork'
  BY <1>1, RefsKept
<1>4. Shown'
  BY <1>1, ShownKept
<1> QED BY <1>2, <1>3, <1>4 DEF Inv

LEMMA PatchNat ==
  ASSUME Inv, NEW r \in Runs, pc[r] # "idle", idx[r] <= Len(job[r].patches)
  PROVE  Patch(r) \in Nat /\ job[r].cmd \in Cmds
<1>1. job[r] \in InvocationType
  BY InvocationsAssumption DEF Inv, Progress
<1>2. job[r].patches \in Seq(Nat) /\ job[r].cmd \in Cmds
  BY <1>1 DEF InvocationType
<1>3. idx[r] \in Nat \ {0}
  BY DEF Inv, Locals
<1> QED BY <1>2, <1>3 DEF Patch

-----------------------------------------------------------------------------
(* The steps of a run that only change what it holds *)

LEMMA StartStep ==
  ASSUME Inv, NEW r \in Runs, NEW inv \in Invocations, Start(r, inv)
  PROVE  Inv'
<1>1. /\ job' = [job EXCEPT ![r] = inv] /\ pc' = [pc EXCEPT ![r] = "clone"]
      /\ UNCHANGED <<commits, upstream, fork, branch, idx, clone, calls, tries>>
  BY DEF Start, Goto
<1>2. Clones' /\ Locals'
  BY <1>1 DEF Inv, Clones, Locals, clone, Labels
<1>3. Progress'
  BY <1>1 DEF Inv, Locals, Progress, Working, Creating, clone
<1>4. Others(r)
  BY <1>1 DEF Inv, Locals, Others, clone
<1> QED BY <1>1, <1>2, <1>3, <1>4, Local

LEMMA CloneStep ==
  ASSUME Inv, NEW r \in Runs, Clone(r)
  PROVE  Inv'
<1>1. pc[r] = "clone" /\ UNCHANGED <<commits, upstream, fork, branch, job>>
  BY DEF Clone
<1>2. ASSUME NEW how \in Ended, End(r, how)
      PROVE  Inv'
  BY <1>1, <1>2, Ending, Local
<1>3. ASSUME idx[r] <= Len(job[r].patches),
             base' = [base EXCEPT ![r] = fork],
             head' = [head EXCEPT ![r] = fork],
             name' = [name EXCEPT ![r] = BranchName(job[r].cmd, Patch(r), Number(job[r].cmd, fork))],
             Goto(r, "branch"),
             UNCHANGED <<idx, calls, tries>>
      PROVE  Inv'
  <2> DEFINE nm == BranchName(job[r].cmd, Patch(r), Number(job[r].cmd, fork))
  <2>1. Patch(r) \in Nat
    BY <1>1, <1>3, PatchNat
  <2>2. fork \in DOMAIN commits
    BY Elements DEF Inv, Refs
  <2>3. Files(fork).rel \in Nat \cup {NoRelease}
    BY <2>2, Elements DEF Inv, FilesType
  <2>4. Number(job[r].cmd, fork) \in Nat
    BY <2>3 DEF Number, NoRelease
  <2>5. nm \in Names
    BY <2>1, <2>4 DEF BranchName, Names
  <2> HIDE DEF nm
  <2>6. /\ pc' = [pc EXCEPT ![r] = "branch"] /\ name' = [name EXCEPT ![r] = nm]
        /\ base' = [base EXCEPT ![r] = fork] /\ head' = [head EXCEPT ![r] = fork]
        /\ idx' = idx /\ calls' = calls /\ tries' = tries /\ job' = job
    BY <1>1, <1>3 DEF Goto, nm
  <2>7. Clones'
    BY <2>2, <2>5, <2>6, <1>1 DEF Inv, Clones
  <2>8. Locals'
    BY <2>6 DEF Inv, Locals, Labels
  <2>9. pc \in [Runs -> Labels] /\ name \in [Runs -> Names \cup {Nil}] /\ head \in [Runs -> DOMAIN commits]
    BY DEF Inv, Locals, Clones
  <2>10. Progress'
    <3> SUFFICES ASSUME NEW q \in Runs
                 PROVE  /\ pc'[q] # "idle" => job'[q] \in Invocations
                        /\ pc'[q] \in Working => idx'[q] <= Len(job'[q].patches) /\ name'[q] \in Names
                        /\ pc'[q] \in Creating => calls'[q] # <<>>
      BY DEF Progress
    <3>1. CASE q = r
      BY <3>1, <1>1, <1>3, <2>5, <2>6, <2>9 DEF Inv, Progress, Working, Creating
    <3>2. CASE q # r
      <4>1. pc'[q] = pc[q] /\ name'[q] = name[q]
        BY <3>2, <2>6, <2>9
      <4> QED BY <4>1, <2>6 DEF Inv, Progress
    <3> QED BY <3>1, <3>2
  <2>11. Others(r)
    BY <2>6, <2>9 DEF Others
  <2> QED BY <1>1, <2>7, <2>8, <2>10, <2>11, Local
<1>4. idx[r] <= Len(job[r].patches) \/ idx[r] > Len(job[r].patches)
  <2>1. job[r] \in InvocationType
    BY <1>1, InvocationsAssumption DEF Inv, Progress
  <2>2. Len(job[r].patches) \in Nat
    BY <2>1 DEF InvocationType
  <2> QED BY <2>2 DEF Inv, Locals
<1>5. CASE idx[r] > Len(job[r].patches)
  BY <1>2, <1>5 DEF Clone, Ended
<1>6. CASE ~(idx[r] > Len(job[r].patches))
  <2>1. \/ End(r, "failed")
        \/ /\ base' = [base EXCEPT ![r] = fork]
           /\ head' = [head EXCEPT ![r] = fork]
           /\ name' = [name EXCEPT ![r] = BranchName(job[r].cmd, Patch(r), Number(job[r].cmd, fork))]
           /\ Goto(r, "branch")
           /\ UNCHANGED <<idx, calls, tries>>
    BY <1>6 DEF Clone
  <2> QED BY <2>1, <1>2, <1>3, <1>4, <1>6 DEF Ended
<1> QED BY <1>5, <1>6

LEMMA BranchStep ==
  ASSUME Inv, NEW r \in Runs, Branch(r)
  PROVE  Inv'
<1>1. pc[r] = "branch" /\ UNCHANGED <<commits, upstream, fork, branch, job>>
  BY DEF Branch
<1>2. CASE End(r, "failed")
  BY <1>1, <1>2, Ending, Local DEF Ended
<1>3. ASSUME NEW h \in DOMAIN commits, head' = [head EXCEPT ![r] = h], Goto(r, "edit"),
             UNCHANGED <<idx, base, name, calls, tries>>
      PROVE  Inv'
  <2>1. /\ pc' = [pc EXCEPT ![r] = "edit"] /\ head' = [head EXCEPT ![r] = h] /\ base' = base
        /\ idx' = idx /\ calls' = calls /\ tries' = tries /\ job' = job /\ name' = name
    BY <1>1, <1>3 DEF Goto
  <2>2. Clones'
    BY <1>1, <2>1 DEF Inv, Clones
  <2>3. Locals'
    BY <2>1 DEF Inv, Locals, Labels
  <2>4. Progress'
    BY <1>1, <2>1 DEF Inv, Locals, Progress, Working, Creating
  <2>5. Others(r)
    BY <2>1 DEF Inv, Locals, Clones, Others
  <2> QED BY <1>1, <2>2, <2>3, <2>4, <2>5, Local
<1>4. CASE Goto(r, "edit") /\ UNCHANGED <<idx, clone, calls, tries>>
  <2>1. head[r] \in DOMAIN commits /\ head' = [head EXCEPT ![r] = head[r]]
    BY <1>4 DEF Inv, Clones, clone
  <2> QED BY <1>3, <1>4, <2>1 DEF clone
<1>5. CASE /\ Ref(name[r]) # 0
           /\ head' = [head EXCEPT ![r] = Ref(name[r])]
           /\ Goto(r, "edit") /\ UNCHANGED <<idx, base, name, calls, tries>>
  <2>1. Ref(name[r]) \in DOMAIN commits
    BY <1>5 DEF Ref, Inv, Refs
  <2> QED BY <1>3, <1>5, <2>1
<1> QED BY <1>2, <1>4, <1>5 DEF Branch

LEMMA EditStep ==
  ASSUME Inv, NEW r \in Runs, Edit(r)
  PROVE  Inv'
<1>1. pc[r] = "edit" /\ UNCHANGED <<commits, upstream, fork, branch, job>>
  BY DEF Edit
<1>2. CASE End(r, "failed")
  BY <1>1, <1>2, Ending, Local DEF Ended
<1>3. CASE NextVersion(r)
  BY <1>1, <1>3, GoingOn, Local
<1>4. ASSUME NEW c \in {<<"plain">>, <<"held", "plain">>}, calls' = [calls EXCEPT ![r] = c],
             Goto(r, "commit"), UNCHANGED <<idx, clone, tries>>
      PROVE  Inv'
  <2>1. c \in CallLists /\ c # <<>>
    BY DEF CallLists
  <2>2. /\ pc' = [pc EXCEPT ![r] = "commit"] /\ calls' = [calls EXCEPT ![r] = c]
        /\ head' = head /\ base' = base /\ name' = name
        /\ idx' = idx /\ tries' = tries /\ job' = job
    BY <1>1, <1>4 DEF Goto, clone
  <2>3. Clones'
    BY <1>1, <2>2 DEF Inv, Clones
  <2>4. Locals'
    BY <2>1, <2>2 DEF Inv, Locals, Labels
  <2>5. pc \in [Runs -> Labels] /\ calls \in [Runs -> CallLists]
    BY DEF Inv, Locals
  <2>6. Progress'
    BY <1>1, <2>1, <2>2, <2>5 DEF Inv, Progress, Working, Creating
  <2>7. Others(r)
    BY <2>2, <2>5 DEF Others
  <2> QED BY <1>1, <2>3, <2>4, <2>6, <2>7, Local
<1>5. \/ End(r, "failed")
      \/ NextVersion(r)
      \/ /\ \/ calls' = [calls EXCEPT ![r] = <<"plain">>]
            \/ calls' = [calls EXCEPT ![r] = <<"held", "plain">>]
         /\ Goto(r, "commit") /\ UNCHANGED <<idx, clone, tries>>
  BY DEF Edit
<1> QED BY <1>2, <1>3, <1>4, <1>5

-----------------------------------------------------------------------------
(* The steps that add to the commits, the fork or upstream *)

LEMMA EditsTyped ==
  ASSUME NEW f \in FilesType, NEW cmd \in Cmds, NEW p \in Nat, NEW n \in Nat
  PROVE  Edits(f, cmd, p, n) \in FilesType
<1>1. SpecAfter(f, p) \in Value /\ p \in Value /\ Template \in Value
  BY FilesAssumption DEF SpecAfter, FilesType, Value
<1>2. <<p, n>> \in (Nat \X Nat) \cup {Nil} /\ <<p, 0>> \in (Nat \X Nat) \cup {Nil}
  OBVIOUS
<1> QED BY <1>1, <1>2 DEF Edits, Cmds, FilesType

LEMMA MakeCommitStep ==
  ASSUME Inv, NEW r \in Runs, MakeCommit(r)
  PROVE  Inv'
<1> DEFINE old == Files(head[r])
           new == Edits(old, job[r].cmd, Patch(r), name[r][3])
<1>1. pc[r] = "commit" /\ UNCHANGED <<upstream, fork, branch, job>>
  BY DEF MakeCommit
<1>2. CASE Return(r, FALSE) /\ UNCHANGED commits
  BY <1>1, <1>2, Returning, Local DEF Creating
<1>3. CASE /\ Commit(new, Ancestors(head[r]))
           /\ head' = [head EXCEPT ![r] = NewCommit]
           /\ Goto(r, "push")
           /\ UNCHANGED <<idx, base, name, calls, tries>>
  <2>1. head[r] \in DOMAIN commits /\ name[r] \in Names
    BY <1>1 DEF Inv, Clones, Progress, Working
  <2>2. old \in FilesType /\ Ancestors(head[r]) \in SUBSET DOMAIN commits
    BY <2>1, Elements DEF Inv
  <2>3. \A d \in Ancestors(head[r]) : Ancestors(d) \subseteq Ancestors(head[r])
    BY <2>1 DEF Inv, Graph
  <2>4. Patch(r) \in Nat /\ job[r].cmd \in Cmds
    BY <1>1, PatchNat DEF Inv, Progress, Working
  <2>5. name[r][3] \in Nat
    BY <2>1 DEF Names
  <2>6. new \in FilesType
    <3> HIDE DEF old
    <3> QED BY <2>2, <2>4, <2>5, EditsTyped
  <2> HIDE DEF old, new
  <2>7. /\ Graph'
        /\ NewCommit \in DOMAIN commits'
        /\ DOMAIN commits \subseteq DOMAIN commits'
        /\ \A c \in DOMAIN commits : commits'[c] = commits[c]
    BY <1>3, <2>2, <2>3, <2>6, Grows DEF Inv
  <2>8. /\ pc' = [pc EXCEPT ![r] = "push"] /\ head' = [head EXCEPT ![r] = NewCommit] /\ base' = base
        /\ idx' = idx /\ calls' = calls /\ tries' = tries /\ job' = job /\ name' = name
    BY <1>1, <1>3 DEF Goto
  <2>9. Clones'
    BY <2>7, <2>8 DEF Inv, Clones
  <2>10. Locals'
    BY <2>8 DEF Inv, Locals, Labels
  <2>11. Progress'
    BY <1>1, <2>8 DEF Inv, Locals, Progress, Working, Creating
  <2>12. Others(r)
    BY <2>8 DEF Inv, Locals, Clones, Others
  <2>13. Refs' /\ OpenedCarriesWork'
    BY <1>1, <2>7, RefsKept
  <2>14. Shown'
    BY <1>1, <2>7, <2>12, ShownKept
  <2> QED BY <2>7, <2>9, <2>10, <2>11, <2>13, <2>14 DEF Inv
<1> QED BY <1>2, <1>3 DEF MakeCommit

LEMMA Pushed ==
  ASSUME Inv, NEW r \in Runs, pc[r] = "push",
         FastForward(Ref(name[r]), head[r]),
         branch' = [n \in DOMAIN branch \cup {name[r]} |-> IF n = name[r] THEN head[r] ELSE branch[n]]
  PROVE  /\ DOMAIN branch \subseteq DOMAIN branch' /\ DOMAIN branch' \subseteq Names
         /\ \A n \in DOMAIN branch' : branch'[n] \in DOMAIN commits
         /\ \A n \in DOMAIN branch : branch[n] \in Ancestors(branch'[n])
         /\ name[r] \in DOMAIN branch' /\ branch'[name[r]] = head[r]
<1>1. name[r] \in Names /\ head[r] \in DOMAIN commits
  BY DEF Inv, Progress, Working, Clones
<1>2. \A n \in DOMAIN branch : n \in Names /\ branch[n] \in DOMAIN commits /\ branch[n] \in Ancestors(branch[n])
  BY DEF Inv, Refs, Graph
<1>3. DOMAIN branch' = DOMAIN branch \cup {name[r]}
  OBVIOUS
<1>4. branch'[name[r]] = head[r]
  OBVIOUS
<1>5. \A n \in DOMAIN branch : n # name[r] => branch'[n] = branch[n]
  OBVIOUS
<1>6. name[r] \in DOMAIN branch => branch[name[r]] \in Ancestors(head[r])
  <2>1. HAVE name[r] \in DOMAIN branch
  <2>2. Ref(name[r]) = branch[name[r]] /\ branch[name[r]] \in DOMAIN commits
    BY <2>1, <1>2 DEF Ref
  <2>3. branch[name[r]] # 0
    BY <2>2, Elements DEF Inv
  <2> QED BY <2>2, <2>3 DEF FastForward
<1> QED BY <1>1, <1>2, <1>3, <1>4, <1>5, <1>6

\* What holds of a fork whose branches only went forward.
LEMMA Forward ==
  ASSUME Inv, UNCHANGED <<commits, upstream, fork>>,
         DOMAIN branch \subseteq DOMAIN branch', DOMAIN branch' \subseteq Names,
         \A n \in DOMAIN branch' : branch'[n] \in DOMAIN commits,
         \A n \in DOMAIN branch : branch[n] \in Ancestors(branch'[n])
  PROVE  /\ Graph' /\ Refs' /\ OpenedCarriesWork'
         /\ \A n \in DOMAIN branch : Ancestors(branch[n]) \subseteq Ancestors(branch'[n])
<1>1. commits' = commits /\ main' = main /\ open' = open /\ merges' = merges /\ fork' = fork
  BY DEF upstream
<1>2. Graph'
  BY <1>1 DEF Inv, Graph, Ancestors
<1>3. Refs'
  BY <1>1 DEF Inv, Refs, Ancestors
<1>4. \A n \in DOMAIN branch : Ancestors(branch[n]) \subseteq Ancestors(branch'[n])
  BY DEF Inv, Graph
<1>5. OpenedCarriesWork'
  <2> SUFFICES ASSUME NEW x \in open PROVE x.carries \in Ancestors(branch'[x.head])
    BY <1>1 DEF OpenedCarriesWork, Ancestors
  <2>1. x.head \in DOMAIN branch /\ x.carries \in Ancestors(branch[x.head])
    BY DEF Inv, Refs, OpenedCarriesWork
  <2> QED BY <2>1, <1>4
<1> QED BY <1>2, <1>3, <1>4, <1>5

LEMMA PushStep ==
  ASSUME Inv, NEW r \in Runs, Push(r)
  PROVE  Inv'
<1>1. pc[r] = "push" /\ UNCHANGED <<commits, upstream, fork, job>> /\ commits' = commits
  BY DEF Push
<1>2. PICK pushed \in BOOLEAN, answered \in BOOLEAN :
        /\ IF pushed
           THEN /\ FastForward(Ref(name[r]), head[r]) /\ FastForward(fork, base[r])
                /\ branch' = [n \in DOMAIN branch \cup {name[r]} |->
                                IF n = name[r] THEN head[r] ELSE branch[n]]
           ELSE ~answered /\ UNCHANGED branch
        /\ IF OpensAfter(answered)
           THEN Goto(r, "pr") /\ UNCHANGED <<idx, clone, calls, tries>>
           ELSE Return(r, FALSE)
  BY DEF Push
<1>3. /\ DOMAIN branch \subseteq DOMAIN branch' /\ DOMAIN branch' \subseteq Names
      /\ \A n \in DOMAIN branch' : branch'[n] \in DOMAIN commits
      /\ \A n \in DOMAIN branch : branch[n] \in Ancestors(branch'[n])
      /\ answered => name[r] \in DOMAIN branch' /\ branch'[name[r]] = head[r]
  <2>1. CASE pushed
    <3>1. /\ FastForward(Ref(name[r]), head[r])
          /\ branch' = [n \in DOMAIN branch \cup {name[r]} |->
                          IF n = name[r] THEN head[r] ELSE branch[n]]
      BY <1>2, <2>1
    <3> QED BY <1>1, <3>1, Pushed
  <2>2. CASE ~pushed
    <3>1. branch' = branch /\ ~answered
      BY <1>2, <2>2
    <3>2. \A n \in DOMAIN branch : branch[n] \in Ancestors(branch[n])
      BY DEF Inv, Refs, Graph
    <3> QED BY <3>1, <3>2 DEF Inv, Refs
  <2> QED BY <2>1, <2>2
<1>4. /\ Graph' /\ Refs' /\ OpenedCarriesWork'
      /\ \A n \in DOMAIN branch : Ancestors(branch[n]) \subseteq Ancestors(branch'[n])
  BY <1>1, <1>3, Forward
<1>5. ASSUME NEW q \in Runs, pc[q] = "pr", name'[q] = name[q], head'[q] = head[q]
      PROVE  name'[q] \in DOMAIN branch' /\ head'[q] \in Ancestors(branch'[name'[q]])
  BY <1>3, <1>4, <1>5 DEF Inv, Shown
<1>6. CASE ~answered
  <2>1. Return(r, FALSE)
    BY <1>2, <1>6 DEF OpensAfter
  <2>2. Clones' /\ Locals' /\ Progress' /\ Others(r)
    BY <1>1, <2>1, Returning DEF Creating
  <2>3. Shown'
    BY <1>1, <1>5, <2>2 DEF Others, Shown, Ancestors
  <2> QED BY <1>4, <2>2, <2>3 DEF Inv
<1>7. CASE answered
  <2>1. /\ pc' = [pc EXCEPT ![r] = "pr"] /\ head' = head /\ base' = base /\ name' = name
        /\ idx' = idx /\ calls' = calls /\ tries' = tries /\ job' = job
    BY <1>1, <1>2, <1>7 DEF OpensAfter, Goto, clone
  <2>2. Clones'
    BY <1>1, <2>1 DEF Inv, Clones
  <2>3. Locals'
    BY <2>1 DEF Inv, Locals, Labels
  <2>4. Progress'
    BY <1>1, <2>1 DEF Inv, Locals, Progress, Working, Creating
  <2>5. Shown'
    <3> SUFFICES ASSUME NEW q \in Runs, pc'[q] = "pr"
                 PROVE  name'[q] \in DOMAIN branch' /\ head'[q] \in Ancestors(branch'[name'[q]])
      BY <1>1 DEF Shown, Ancestors
    <3>1. CASE q = r
      <4>1. head[r] \in Ancestors(head[r])
        BY DEF Inv, Clones, Graph
      <4> QED BY <3>1, <4>1, <2>1, <1>3, <1>7
    <3>2. CASE q # r
      <4>1. pc[q] = "pr" /\ name'[q] = name[q] /\ head'[q] = head[q]
        BY <3>2, <2>1 DEF Inv, Locals
      <4> QED BY <4>1, <1>5
    <3> QED BY <3>1, <3>2
  <2> QED BY <1>4, <2>2, <2>3, <2>4, <2>5 DEF Inv
<1> QED BY <1>6, <1>7

LEMMA OpensOne ==
  ASSUME Inv, NEW r \in Runs, pc[r] = "pr", UNCHANGED <<commits, main, merges, fork, branch>>,
         Opens(r) \/ UNCHANGED open
  PROVE  Graph' /\ Refs' /\ OpenedCarriesWork'
<1>1. CASE UNCHANGED open
  <2>1. UNCHANGED <<upstream, fork, branch>> /\ commits' = commits
    BY <1>1 DEF upstream
  <2>2. Refs' /\ OpenedCarriesWork'
    BY <2>1, RefsKept
  <2> QED BY <2>1, <2>2 DEF Inv, Graph, Ancestors
<1>2. CASE Opens(r)
  <2> DEFINE new == [head |-> name[r], carries |-> head[r]]
  <2>1. commits' = commits /\ branch' = branch /\ main' = main /\ fork' = fork /\ merges' = merges
    OBVIOUS
  <2>2. open' = open \cup {new} /\ \A x \in open : x.head # new.head
    BY <1>2 DEF Opens
  <2>3. name[r] \in DOMAIN branch /\ head[r] \in DOMAIN commits
    BY DEF Inv, Shown, Clones
  <2>4. new \in [head : DOMAIN branch, carries : DOMAIN commits]
    BY <2>3
  <2>5. new.carries \in Ancestors(branch[new.head])
    BY DEF Inv, Shown
  <2> HIDE DEF new
  <2>6. Refs'
    BY <2>1, <2>2, <2>4 DEF Inv, Refs, Ancestors
  <2>7. OpenedCarriesWork'
    BY <2>1, <2>2, <2>5 DEF Inv, OpenedCarriesWork, Ancestors
  <2> QED BY <2>1, <2>6, <2>7 DEF Inv, Graph, Ancestors
<1> QED BY <1>1, <1>2

LEMMA CreatePrStep ==
  ASSUME Inv, NEW r \in Runs, CreatePr(r)
  PROVE  Inv'
<1>1. pc[r] = "pr" /\ UNCHANGED <<commits, main, merges, fork, branch, job>> /\ commits' = commits
  BY DEF CreatePr
<1>2. Opens(r) \/ UNCHANGED open
  BY DEF CreatePr
<1>3. Graph' /\ Refs' /\ OpenedCarriesWork'
  BY <1>1, <1>2, OpensOne
<1>4. ASSUME Clones', Locals', Progress', Others(r)
      PROVE  Inv'
  <2>1. Shown'
    BY <1>1, <1>4, ShownKept
  <2> QED BY <1>3, <1>4, <2>1 DEF Inv
<1>5. CASE Return(r, TRUE)
  BY <1>1, <1>4, <1>5, Returning DEF Creating
<1>6. CASE End(r, "crashed")
  BY <1>1, <1>4, <1>6, Ending DEF Ended
<1>7. CASE TriesLeft(r) /\ tries' = [tries EXCEPT ![r] = tries[r] + 1] /\ UNCHANGED <<pc, idx, clone, calls>>
  <2>1. pc' = pc /\ idx' = idx /\ calls' = calls /\ job' = job /\ base' = base /\ head' = head /\ name' = name
    BY <1>1, <1>7 DEF clone
  <2>2. tries[r] + 1 \in 0..MaxTries
    BY <1>7, BoundsAssumption DEF TriesLeft, Inv, Locals
  <2>3. Clones' /\ Locals' /\ Progress'
    BY <1>1, <1>7, <2>1, <2>2 DEF Inv, Clones, Locals, Progress
  <2>4. Shown'
    BY <1>1, <2>1 DEF Inv, Shown, Ancestors
  <2> QED BY <1>3, <2>3, <2>4 DEF Inv
<1>8. \/ Return(r, TRUE)
      \/ End(r, "crashed")
      \/ TriesLeft(r) /\ tries' = [tries EXCEPT ![r] = tries[r] + 1] /\ UNCHANGED <<pc, idx, clone, calls>>
  BY DEF CreatePr
<1> QED BY <1>5, <1>6, <1>7, <1>8

LEMMA MergedTyped ==
  ASSUME Inv, NEW a \in DOMAIN commits, NEW b \in DOMAIN commits
  PROVE  MergedFiles(a, b) \in FilesType
<1> DEFINE o == Files(MergeBase(a, b))
<1>1. Files(a) \in FilesType /\ Files(b) \in FilesType
  BY Elements DEF Inv
<1>2. DOMAIN Files(a) = {"rel", "tag", "spec", "readme"}
  BY <1>1 DEF FilesType
<1>3. MergedFiles(a, b) = [f \in {"rel", "tag", "spec", "readme"} |->
                             IF Files(a)[f] = o[f] THEN Files(b)[f] ELSE Files(a)[f]]
  BY <1>2 DEF MergedFiles, MergedField
<1> HIDE DEF o
<1> QED BY <1>1, <1>3 DEF FilesType

LEMMA MergeStep ==
  ASSUME Inv, NEW x \in open, NEW squash \in BOOLEAN, Merge(x, squash)
  PROVE  Inv'
<1> DEFINE tip == branch[x.head]
           files == MergedFiles(main, tip)
           anc == Ancestors(main) \cup (IF squash THEN {} ELSE Ancestors(tip))
<1>1. /\ merges < MaxMerges /\ Commit(files, anc) /\ main' = NewCommit
      /\ open' = open \ {x} /\ merges' = merges + 1
      /\ \/ UNCHANGED branch
         \/ /\ \A r \in Runs : name[r] # x.head
            /\ branch' = [n \in DOMAIN branch \ {x.head} |-> branch[n]]
      /\ UNCHANGED <<fork, job, pc, idx, clone, calls, tries>>
  BY DEF Merge
<1>2. main \in DOMAIN commits /\ tip \in DOMAIN commits
  BY DEF Inv, Refs
<1>3. files \in FilesType
  BY <1>2, MergedTyped
<1>4. Ancestors(main) \subseteq DOMAIN commits /\ Ancestors(tip) \subseteq DOMAIN commits
  BY <1>2, Elements DEF Inv
<1>5. anc \in SUBSET DOMAIN commits /\ Ancestors(main) \subseteq anc
  BY <1>4
<1>6. \A d \in anc : Ancestors(d) \subseteq anc
  BY <1>2 DEF Inv, Graph
<1> HIDE DEF files, anc
<1>7. /\ Graph' /\ NewCommit \in DOMAIN commits' /\ DOMAIN commits \subseteq DOMAIN commits'
      /\ \A c \in DOMAIN commits : commits'[c] = commits[c]
      /\ commits'[NewCommit].anc = anc \cup {NewCommit}
  BY <1>1, <1>3, <1>5, <1>6, Grows DEF Inv
<1>8. \A y \in open : y # x => y.head # x.head
  BY DEF Inv, Refs
<1>9. /\ DOMAIN branch' \subseteq DOMAIN branch
      /\ \A n \in DOMAIN branch' : branch'[n] = branch[n]
      /\ \A n \in DOMAIN branch : n # x.head => n \in DOMAIN branch'
      /\ \A r \in Runs : name[r] \in DOMAIN branch => name[r] \in DOMAIN branch'
  BY <1>1
<1>10. Refs'
  <2>1. main' \in DOMAIN commits'
    BY <1>1, <1>7
  <2>2. fork' \in Ancestors(main)'
    <3>1. fork \in anc
      BY <1>5 DEF Inv, Refs
    <3> QED BY <3>1, <1>1, <1>7 DEF Ancestors
  <2>3. DOMAIN branch' \subseteq Names /\ \A n \in DOMAIN branch' : branch'[n] \in DOMAIN commits'
    BY <1>7, <1>9 DEF Inv, Refs
  <2>4. open' \subseteq [head : DOMAIN branch', carries : DOMAIN commits']
    <3> SUFFICES ASSUME NEW y \in open, y # x
                 PROVE  y \in [head : DOMAIN branch', carries : DOMAIN commits']
      BY <1>1
    <3>1. y \in [head : DOMAIN branch, carries : DOMAIN commits] /\ y.head \in DOMAIN branch'
      BY <1>8, <1>9 DEF Inv, Refs
    <3> QED BY <3>1, <1>7
  <2>5. \A y, z \in open' : y.head = z.head => y = z
    BY <1>1 DEF Inv, Refs
  <2>6. merges' \in 0..MaxMerges
    BY <1>1, BoundsAssumption DEF Inv, Refs
  <2> QED BY <2>1, <2>2, <2>3, <2>4, <2>5, <2>6 DEF Refs
<1>11. \A n \in DOMAIN branch' : Ancestors(branch[n])' = Ancestors(branch[n])
  <2> SUFFICES ASSUME NEW n \in DOMAIN branch'
               PROVE  commits'[branch'[n]].anc = Ancestors(branch[n])
    BY DEF Ancestors
  <2>1. n \in DOMAIN branch /\ branch'[n] = branch[n] /\ branch[n] \in DOMAIN commits
    BY <1>9 DEF Inv, Refs
  <2> QED BY <2>1, <1>7 DEF Ancestors
<1>12. OpenedCarriesWork'
  <2> SUFFICES ASSUME NEW y \in open, y # x
               PROVE  y.carries \in commits'[branch'[y.head]].anc
    BY <1>1 DEF OpenedCarriesWork, Ancestors
  <2>1. y.head \in DOMAIN branch /\ y.carries \in Ancestors(branch[y.head])
    BY DEF Inv, Refs, OpenedCarriesWork
  <2>2. branch'[y.head] = branch[y.head] /\ branch[y.head] \in DOMAIN commits
    BY <2>1, <1>8, <1>9 DEF Inv, Refs
  <2> QED BY <2>1, <2>2, <1>7 DEF Ancestors
<1>13. Shown'
  <2> SUFFICES ASSUME NEW r \in Runs, pc[r] = "pr"
               PROVE  name[r] \in DOMAIN branch' /\ head[r] \in commits'[branch'[name[r]]].anc
    BY <1>1 DEF Shown, Ancestors, clone
  <2>1. name[r] \in DOMAIN branch /\ head[r] \in Ancestors(branch[name[r]])
    BY DEF Inv, Shown
  <2>2. name[r] \in DOMAIN branch' /\ branch'[name[r]] = branch[name[r]] /\ branch[name[r]] \in DOMAIN commits
    BY <2>1, <1>9 DEF Inv, Refs
  <2> QED BY <2>1, <2>2, <1>7 DEF Ancestors
<1>14. Clones' /\ Locals' /\ Progress'
  BY <1>1, <1>7 DEF Inv, Clones, Locals, Progress, clone
<1> QED BY <1>7, <1>10, <1>12, <1>13, <1>14 DEF Inv

LEMMA SyncForkStep ==
  ASSUME Inv, SyncFork
  PROVE  Inv'
<1>1. /\ fork' = main
      /\ UNCHANGED <<commits, main, open, merges, branch, job, pc, idx, base, name, head, calls, tries>>
  BY DEF SyncFork, upstream, clone
<1>2. main \in DOMAIN commits /\ main \in Ancestors(main)
  BY DEF Inv, Refs, Graph
<1>3. Refs'
  BY <1>1, <1>2 DEF Inv, Refs, Ancestors
<1> QED BY <1>1, <1>3 DEF Inv, Graph, Ancestors, Clones, Locals, Progress, Shown, OpenedCarriesWork

-----------------------------------------------------------------------------
(* The invariant *)

LEMMA InitInv == Init => Inv
<1> SUFFICES ASSUME Init PROVE Inv
  OBVIOUS
<1>1. PICK f \in Originals : commits = <<[files |-> f, anc |-> {1}]>>
  BY DEF Init
<1>2. f \in FilesType
  BY FilesAssumption
<1> DEFINE c0 == [files |-> f, anc |-> {1}]
<1>3. c0 \in CommitType
  <2>1. {1} \in SUBSET Nat
    OBVIOUS
  <2> QED BY <1>2, <2>1 DEF CommitType
<1>4. commits \in Seq(CommitType) /\ DOMAIN commits = {1} /\ commits[1] = c0
  <2> HIDE DEF c0
  <2>1. commits = <<c0>>
    BY <1>1 DEF c0
  <2> QED BY <2>1, <1>3
<1>5. Ancestors(1) = {1}
  BY <1>4 DEF Ancestors
<1>6. Graph
  BY <1>4, <1>5 DEF Graph
<1>7. branch = [n \in {} |-> 0] /\ open = {} /\ merges = 0 /\ main = 1 /\ fork = 1
  BY DEF Init
<1>8. Refs /\ OpenedCarriesWork
  BY <1>4, <1>5, <1>7, BoundsAssumption DEF Refs, OpenedCarriesWork
<1>9. Clones
  BY <1>4 DEF Init, Clones
<1>10. 0 \in 0..MaxTries
  BY BoundsAssumption
<1>11. Locals
  BY <1>10 DEF Init, Locals, Labels, CallLists
<1>12. Progress /\ Shown
  BY DEF Init, Progress, Shown, Working, Creating
<1> QED BY <1>6, <1>8, <1>9, <1>11, <1>12 DEF Inv

LEMMA NextInv == Inv /\ [Next]_vars => Inv'
<1> SUFFICES ASSUME Inv, [Next]_vars PROVE Inv'
  OBVIOUS
<1>1. CASE \E r \in Runs, inv \in Invocations : Start(r, inv)
  BY <1>1, StartStep
<1>2. CASE \E r \in Runs : Step(r)
  BY <1>2, CloneStep, BranchStep, EditStep, MakeCommitStep, PushStep, CreatePrStep DEF Step
<1>3. CASE \E x \in open, squash \in BOOLEAN : Merge(x, squash)
  BY <1>3, MergeStep
<1>4. CASE SyncFork
  BY <1>4, SyncForkStep
<1>5. CASE UNCHANGED vars
  <2>1. UNCHANGED <<commits, main, open, merges, fork, branch, job, pc, idx, base, name, head, calls, tries>>
    BY <1>5 DEF vars, upstream, clone
  <2>2. Graph' /\ Refs' /\ OpenedCarriesWork'
    BY <2>1 DEF Inv, Graph, Refs, OpenedCarriesWork, Ancestors
  <2> QED BY <2>1, <2>2 DEF Inv, Ancestors, Clones, Locals, Progress, Shown
<1> QED BY <1>1, <1>2, <1>3, <1>4, <1>5 DEF Next

LEMMA SpecInv == Spec => []Inv
BY InitInv, NextInv, PTL DEF Spec

(* Every variable always has its type: numbers are numbers, and no run, pull *)
(* request or branch refers to a commit or a branch that is not there.       *)
THEOREM GoReleaseTypeCorrect == Spec => []TypeOK
<1>1. Inv => TypeOK
  <2> SUFFICES ASSUME Inv PROVE TypeOK
    OBVIOUS
  <2>1. \A c \in DOMAIN commits : Files(c) \in FilesType /\ Ancestors(c) \subseteq 1..c /\ c \in Ancestors(c)
    BY Elements DEF Inv, Graph
  <2> QED BY <2>1 DEF Inv, Refs, Clones, Locals, TypeOK, Labels, CallLists
<1> QED BY <1>1, SpecInv, PTL

(* An open pull request always shows the work of the run that opened it: no  *)
(* later push to its branch, and no failed one, takes it away.               *)
THEOREM OpenedCarriesWorkHolds == Spec => []OpenedCarriesWork
<1>1. Inv => OpenedCarriesWork
  BY DEF Inv
<1> QED BY <1>1, SpecInv, PTL

(* However many runs push one branch of the fork, it only moves forward.     *)
THEOREM PushKeptHolds == Spec => PushKept
<1> DEFINE Kept == \A n \in DOMAIN branch : n \in DOMAIN branch' => branch[n] \in commits'[branch'[n]].anc
<1>1. ASSUME Inv, [Next]_vars PROVE Kept
  <2>1. \A n \in DOMAIN branch : branch[n] \in DOMAIN commits /\ branch[n] \in Ancestors(branch[n])
    BY <1>1 DEF Inv, Refs, Graph
  <2>2. CASE UNCHANGED branch /\ \A c \in DOMAIN commits : commits'[c] = commits[c]
    BY <2>1, <2>2 DEF Ancestors
  <2>3. ASSUME NEW r \in Runs, Push(r) PROVE Kept
    <3>1. commits' = commits /\ pc[r] = "push"
      BY <2>3 DEF Push
    <3>2. CASE UNCHANGED branch
      BY <3>1, <3>2, <2>2
    <3>3. CASE /\ FastForward(Ref(name[r]), head[r])
               /\ branch' = [n \in DOMAIN branch \cup {name[r]} |->
                               IF n = name[r] THEN head[r] ELSE branch[n]]
      <4>1. \A n \in DOMAIN branch : branch[n] \in Ancestors(branch'[n])
        BY <1>1, <3>1, <3>3, Pushed
      <4> QED BY <3>1, <4>1 DEF Ancestors
    <3> QED BY <2>3, <3>2, <3>3 DEF Push
  <2>4. ASSUME NEW f, NEW S, Commit(f, S) PROVE \A c \in DOMAIN commits : commits'[c] = commits[c]
    <3> DEFINE new == [files |-> f, anc |-> S \cup {Len(commits) + 1}]
    <3>1. commits' = Append(commits, new) /\ commits \in Seq(CommitType)
      BY <1>1, <2>4 DEF Commit, Inv, Graph
    <3> HIDE DEF new
    <3> QED BY <3>1
  <2>5. ASSUME NEW r \in Runs, MakeCommit(r) PROVE Kept
    <3>1. UNCHANGED branch
      BY <2>5 DEF MakeCommit
    <3>2. \A c \in DOMAIN commits : commits'[c] = commits[c]
      <4>1. CASE UNCHANGED commits
        BY <4>1
      <4>2. CASE ~UNCHANGED commits
        <5>1. Commit(Edits(Files(head[r]), job[r].cmd, Patch(r), name[r][3]), Ancestors(head[r]))
          BY <2>5, <4>2 DEF MakeCommit
        <5> QED BY <5>1, <2>4
      <4> QED BY <4>1, <4>2
    <3> QED BY <3>1, <3>2, <2>2
  <2>6. ASSUME NEW x \in open, NEW squash \in BOOLEAN, Merge(x, squash) PROVE Kept
    <3>1. Commit(MergedFiles(main, branch[x.head]),
                 Ancestors(main) \cup (IF squash THEN {} ELSE Ancestors(branch[x.head])))
      BY <2>6 DEF Merge
    <3>2. \A c \in DOMAIN commits : commits'[c] = commits[c]
      BY <3>1, <2>4
    <3>3. \A n \in DOMAIN branch : n \in DOMAIN branch' => branch'[n] = branch[n]
      BY <2>6 DEF Merge
    <3> QED BY <2>1, <3>2, <3>3 DEF Ancestors
  <2>7. CASE UNCHANGED <<commits, branch>>
    BY <2>7, <2>2
  <2>8. ASSUME NEW r \in Runs, Clone(r) \/ Branch(r) \/ Edit(r) \/ CreatePr(r) PROVE UNCHANGED <<commits, branch>>
    BY <2>8 DEF Clone, Branch, Edit, CreatePr
  <2>9. ASSUME NEW r \in Runs, NEW inv, Start(r, inv) PROVE UNCHANGED <<commits, branch>>
    BY <2>9 DEF Start
  <2>10. ASSUME SyncFork \/ UNCHANGED vars PROVE UNCHANGED <<commits, branch>>
    BY <2>10 DEF SyncFork, vars
  <2> QED BY <1>1, <2>3, <2>5, <2>6, <2>7, <2>8, <2>9, <2>10 DEF Next, Step
<1>2. Inv /\ [Next]_vars => [Kept]_vars
  BY <1>1
<1> QED BY <1>2, SpecInv, PTL DEF Spec, PushKept

-----------------------------------------------------------------------------
(* What a branch of the fork holds.  It starts from a commit main has or had, *)
(* and every commit made on it since has the number its name tells, or the    *)
(* number it started from.                                                    *)

Rel(c) == Files(c).rel
Readme(c) == Files(c).readme
Writes(n) == <<n[2], n[3]>>

\* `new` writes 0 into the README, whatever RELEASE holds.
NoNew == \A r \in Runs : job[r] # Nil => job[r].cmd # "new"

\* The commits from b to c were made on branch n.
From(b, c, n) ==
  /\ n[1] = "release" \/ NoNew => n[3] = Rel(b) + 1
  /\ \A a \in Ancestors(c) \ Ancestors(b) :
       /\ Rel(a) = (IF n[1] = "release" THEN n[3] ELSE Rel(b))
       /\ n[1] = "release" => Readme(a) = Writes(n)
       /\ NoNew => Readme(a) \in {Readme(b), Readme(c)}
  /\ NoNew => Readme(c) \in {Readme(b), Writes(n)}
Grown(c, n) == \E b \in Ancestors(c) \cap Ancestors(main) : From(b, c, n)

\* What a run works on, and under which name.
Handed(r) ==
  /\ pc[r] = "idle" => job[r] = Nil
  /\ pc[r] \in Working =>
       /\ name[r][1] = "release" <=> job[r].cmd = "release"
       /\ name[r][2] = Patch(r)
       /\ Grown(head[r], name[r])

FromFork ==
  /\ \A n \in DOMAIN branch : Grown(branch[n], n)
  /\ \A r \in Runs : Handed(r)

\* Commits are never rewritten, and main only gains ancestors.
Added ==
  /\ DOMAIN commits \subseteq DOMAIN commits'
  /\ \A c \in DOMAIN commits : commits'[c] = commits[c]
  /\ Ancestors(main) \subseteq commits'[main'].anc
  /\ NoNew' => NoNew

Same(q) ==
  /\ pc'[q] = pc[q] /\ job'[q] = job[q] /\ idx'[q] = idx[q]
  /\ name'[q] = name[q] /\ head'[q] = head[q]

LEMMA GrownKept ==
  ASSUME Inv, Added, NEW c \in DOMAIN commits, NEW n, Grown(c, n)
  PROVE  Grown(c, n)'
<1>1. PICK b \in Ancestors(c) \cap Ancestors(main) : From(b, c, n)
  BY DEF Grown
<1>2. Ancestors(c) \subseteq DOMAIN commits /\ b \in DOMAIN commits
  BY Elements DEF Inv
<1>3. \A d \in DOMAIN commits : commits'[d] = commits[d] /\ (NoNew' => NoNew)
  BY DEF Added
<1>4. Ancestors(c)' = Ancestors(c) /\ Ancestors(b)' = Ancestors(b)
  BY <1>2, <1>3 DEF Ancestors
<1>5. \A a \in Ancestors(c) \cup {b} : Rel(a)' = Rel(a) /\ Readme(a)' = Readme(a)
  BY <1>2, <1>3 DEF Rel, Readme, Files
<1>6. c \in Ancestors(c)
  BY DEF Inv, Graph
<1>7. From(b, c, n)'
  BY <1>1, <1>3, <1>4, <1>5, <1>6 DEF From
<1>8. b \in Ancestors(c)' /\ b \in Ancestors(main)'
  BY <1>1, <1>4 DEF Added, Ancestors
<1> QED BY <1>7, <1>8 DEF Grown

LEMMA Framed ==
  ASSUME Inv, FromFork, Added,
         \A q \in Runs : Same(q) \/ Handed(q)',
         \A n \in DOMAIN branch' : (n \in DOMAIN branch /\ branch'[n] = branch[n]) \/ Grown(branch[n], n)'
  PROVE  FromFork'
<1>1. ASSUME NEW n \in DOMAIN branch' PROVE Grown(branch[n], n)'
  <2>1. CASE n \in DOMAIN branch /\ branch'[n] = branch[n]
    <3>1. PICK c \in DOMAIN commits : c = branch[n]
      BY <2>1 DEF Inv, Refs
    <3>2. Grown(c, n)'
      BY <2>1, <3>1, GrownKept DEF FromFork
    <3>3. branch'[n] = c
      BY <2>1, <3>1
    <3> QED BY <3>2, <3>3 DEF Grown, From
  <2> QED BY <1>1, <2>1
<1>2. ASSUME NEW q \in Runs, Same(q) PROVE Handed(q)'
  <2>1. Handed(q)
    BY DEF FromFork
  <2>2. ASSUME pc[q] \in Working PROVE Grown(head[q], name[q])'
    <3>1. PICK c \in DOMAIN commits, n \in {name[q]} : c = head[q]
      BY DEF Inv, Clones
    <3>2. Grown(c, n)'
      BY <2>1, <2>2, <3>1, GrownKept DEF Handed
    <3>3. head'[q] = c /\ name'[q] = n
      BY <1>2, <3>1 DEF Same
    <3> QED BY <3>2, <3>3 DEF Grown, From
  <2> QED BY <1>2, <2>1, <2>2 DEF Handed, Same, Patch
<1> QED BY <1>1, <1>2 DEF FromFork

\* Whatever ends a version, or a run, leaves its branch behind.
LEMMA Leaving ==
  ASSUME Inv, NEW r \in Runs, pc[r] # "idle", UNCHANGED job,
         (\E how \in Ended : End(r, how)) \/ NextVersion(r)
  PROVE  \A q \in Runs : Same(q) \/ Handed(q)'
<1>1. PICK l \in Ended \cup {"clone"} : pc' = [pc EXCEPT ![r] = l]
  BY DEF End, NextVersion, Goto
<1>2. pc'[r] \notin Working \cup {"idle"}
  BY <1>1 DEF Inv, Locals, Working, Ended
<1>3. Handed(r)'
  BY <1>2 DEF Handed
<1>4. \A q \in Runs : q # r => Same(q)
  BY <1>1 DEF End, NextVersion, clone, Inv, Locals, Clones, Same
<1> QED BY <1>3, <1>4

\* A run goes on working on what it had.
LEMMA GoesOn ==
  ASSUME Inv, FromFork, Added, NEW r \in Runs, pc[r] \in Working, UNCHANGED <<job, idx, clone>>,
         NEW l \in Labels, l # "idle", pc' = [pc EXCEPT ![r] = l]
  PROVE  \A q \in Runs : Same(q) \/ Handed(q)'
<1>1. \A q \in Runs : q # r => Same(q)
  BY DEF clone, Inv, Locals, Same
<1>2. Handed(r)
  BY DEF FromFork
<1>3. PICK c \in DOMAIN commits, n \in {name[r]} : c = head[r]
  BY DEF Inv, Clones
<1>4. Grown(c, n)'
  BY <1>2, <1>3, GrownKept DEF Handed
<1>5. head'[r] = c /\ name'[r] = n /\ name' = name /\ job' = job /\ idx' = idx
  BY <1>3 DEF clone
<1>6. Grown(head[r], name[r])'
  BY <1>4, <1>5 DEF Grown, From
<1>7. pc'[r] # "idle"
  BY DEF Inv, Locals
<1>8. Handed(r)'
  BY <1>2, <1>5, <1>6, <1>7 DEF Handed, Patch
<1> QED BY <1>1, <1>8

LEMMA ReturnsSame ==
  ASSUME Inv, FromFork, Added, NEW r \in Runs, NEW ok \in BOOLEAN, pc[r] \in Creating,
         UNCHANGED job, Return(r, ok)
  PROVE  \A q \in Runs : Same(q) \/ Handed(q)'
<1>1. pc[r] # "idle" /\ pc[r] \in Working
  BY DEF Creating, Working
<1>2. CASE End(r, "failed") \/ NextVersion(r)
  BY <1>1, <1>2, Leaving DEF Ended
<1>3. CASE Goto(r, "commit") /\ UNCHANGED <<idx, clone>>
  <2>1. "commit" \in Labels /\ pc' = [pc EXCEPT ![r] = "commit"]
    BY <1>3 DEF Labels, Goto
  <2> QED BY <1>1, <1>3, <2>1, GoesOn
<1> QED BY <1>2, <1>3 DEF Return

\* A step that makes no commit.
LEMMA AddedNone ==
  ASSUME Inv, UNCHANGED <<commits, main, job>>
  PROVE  Added
BY DEF Added, NoNew, Ancestors

LEMMA StartFork ==
  ASSUME Inv, FromFork, NEW r \in Runs, NEW inv \in Invocations, Start(r, inv)
  PROVE  FromFork'
<1>1. /\ pc[r] = "idle" /\ job' = [job EXCEPT ![r] = inv] /\ pc' = [pc EXCEPT ![r] = "clone"]
      /\ commits' = commits /\ main' = main /\ branch' = branch
      /\ idx' = idx /\ name' = name /\ head' = head
  BY DEF Start, Goto, upstream, clone
<1>2. job[r] = Nil /\ job \in [Runs -> Invocations \cup {Nil}] /\ pc \in [Runs -> Labels]
  BY <1>1 DEF FromFork, Handed, Inv, Locals
<1>3. NoNew' => NoNew
  <2> SUFFICES ASSUME NEW q \in Runs, job[q] # Nil, \A p \in Runs : job'[p] # Nil => job'[p].cmd # "new"
               PROVE  job[q].cmd # "new"
    BY DEF NoNew
  <2>1. job'[q] = job[q]
    BY <1>1, <1>2
  <2> QED BY <2>1
<1>4. Added
  BY <1>1, <1>3 DEF Added, Ancestors
<1>5. \A q \in Runs : q # r => Same(q)
  BY <1>1, <1>2 DEF Same
<1>6. Handed(r)'
  BY <1>1, <1>2 DEF Handed, Working
<1> QED BY <1>1, <1>4, <1>5, <1>6, Framed

\* A fresh clone: nothing was made on the branch yet.
LEMMA CloneFork ==
  ASSUME Inv, FromFork, NEW r \in Runs, Clone(r)
  PROVE  FromFork'
<1>1. pc[r] = "clone" /\ commits' = commits /\ main' = main /\ fork' = fork /\ branch' = branch /\ job' = job
  BY DEF Clone, upstream
<1>2. Added
  BY <1>1, AddedNone
<1>3. CASE \E how \in Ended : End(r, how)
  <2>1. \A q \in Runs : Same(q) \/ Handed(q)'
    BY <1>1, <1>3, Leaving
  <2> QED BY <1>1, <1>2, <2>1, Framed
<1>4. CASE /\ ~(idx[r] > Len(job[r].patches))
           /\ head' = [head EXCEPT ![r] = fork]
           /\ name' = [name EXCEPT ![r] = BranchName(job[r].cmd, Patch(r), Number(job[r].cmd, fork))]
           /\ Goto(r, "branch")
           /\ UNCHANGED idx
  <2> DEFINE n == BranchName(job[r].cmd, Patch(r), Number(job[r].cmd, fork))
  <2>1. job[r] \in Invocations /\ job[r] # Nil
    BY <1>1, NilAssumption DEF Inv, Progress
  <2>2. NoNew => job[r].cmd # "new"
    BY <2>1 DEF NoNew
  <2>3. /\ n[1] = "release" <=> job[r].cmd = "release"
        /\ n[2] = Patch(r) /\ n[3] = Number(job[r].cmd, fork)
    BY DEF BranchName
  <2> HIDE DEF n
  <2>4. n[1] = "release" \/ NoNew => n[3] = Rel(fork) + 1
    BY <2>2, <2>3 DEF Number, Rel
  <2>5. fork \in Ancestors(main) /\ fork \in Ancestors(fork)
    BY Elements DEF Inv, Refs, Graph
  <2>6. From(fork, fork, n)
    BY <2>4 DEF From
  <2>7. PICK f \in DOMAIN commits, m \in {n} : f = fork
    BY <2>5, Elements DEF Inv, Refs
  <2>8. Grown(f, m)
    BY <2>5, <2>6, <2>7 DEF Grown
  <2>9. Grown(f, m)'
    BY <1>2, <2>8, GrownKept
  <2>10. /\ name' = [name EXCEPT ![r] = n] /\ head' = [head EXCEPT ![r] = f]
         /\ pc' = [pc EXCEPT ![r] = "branch"] /\ idx' = idx
    BY <1>4, <2>7 DEF n, Goto
  <2>11. /\ pc \in [Runs -> Labels] /\ name \in [Runs -> Names \cup {Nil}]
         /\ head \in [Runs -> DOMAIN commits]
    BY DEF Inv, Locals, Clones
  <2>12. \A q \in Runs : q # r => Same(q)
    BY <1>1, <2>10, <2>11 DEF Same
  <2>13. head'[r] = f /\ name'[r] = m /\ name'[r] = n /\ pc'[r] = "branch"
    BY <2>7, <2>10, <2>11
  <2>14. Grown(head[r], name[r])'
    BY <2>9, <2>13 DEF Grown, From
  <2>15. Handed(r)'
    BY <1>1, <2>3, <2>10, <2>13, <2>14 DEF Handed, Patch
  <2> QED BY <1>1, <1>2, <2>12, <2>15, Framed
<1> QED BY <1>3, <1>4 DEF Clone, Ended

\* A clone pulls its branch, if the fork has it.
LEMMA BranchFork ==
  ASSUME Inv, FromFork, NEW r \in Runs, Branch(r)
  PROVE  FromFork'
<1>1. /\ pc[r] = "branch" /\ UNCHANGED job
      /\ commits' = commits /\ main' = main /\ fork' = fork /\ branch' = branch
  BY DEF Branch, upstream
<1>2. Added
  BY <1>1, AddedNone
<1>3. CASE End(r, "failed")
  <2>1. \A q \in Runs : Same(q) \/ Handed(q)'
    BY <1>1, <1>3, Leaving DEF Ended
  <2> QED BY <1>1, <1>2, <2>1, Framed
<1>4. CASE Goto(r, "edit") /\ UNCHANGED <<idx, clone>>
  <2>1. "edit" \in Labels /\ pc' = [pc EXCEPT ![r] = "edit"] /\ pc[r] \in Working
    BY <1>1, <1>4 DEF Labels, Goto, Working
  <2>2. \A q \in Runs : Same(q) \/ Handed(q)'
    BY <1>1, <1>2, <1>4, <2>1, GoesOn
  <2> QED BY <1>1, <1>2, <2>2, Framed
<1>5. CASE /\ Ref(name[r]) # 0
           /\ head' = [head EXCEPT ![r] = Ref(name[r])]
           /\ Goto(r, "edit") /\ UNCHANGED <<idx, base, name>>
  <2>1. name[r] \in DOMAIN branch /\ Ref(name[r]) = branch[name[r]]
    BY <1>5 DEF Ref
  <2>2. PICK c \in DOMAIN commits, n \in {name[r]} : c = branch[n]
    BY <2>1 DEF Inv, Refs
  <2>3. Grown(c, n)'
    BY <1>2, <2>1, <2>2, GrownKept DEF FromFork
  <2>4. /\ head' = [head EXCEPT ![r] = c] /\ name' = name /\ idx' = idx /\ job' = job
        /\ pc' = [pc EXCEPT ![r] = "edit"]
    BY <1>1, <1>5, <2>1, <2>2 DEF Goto
  <2>5. pc \in [Runs -> Labels] /\ head \in [Runs -> DOMAIN commits]
    BY DEF Inv, Locals, Clones
  <2>6. \A q \in Runs : q # r => Same(q)
    BY <2>4, <2>5 DEF Same
  <2>7. head'[r] = c /\ name'[r] = n
    BY <2>2, <2>4, <2>5
  <2>8. Grown(head[r], name[r])'
    BY <2>3, <2>7 DEF Grown, From
  <2>9. Handed(r) /\ pc[r] \in Working /\ pc'[r] # "idle"
    BY <1>1, <2>4, <2>5 DEF FromFork, Working
  <2>10. Handed(r)'
    BY <2>4, <2>8, <2>9 DEF Handed, Patch
  <2> QED BY <1>1, <1>2, <2>6, <2>10, Framed
<1> QED BY <1>3, <1>4, <1>5 DEF Branch

LEMMA EditFork ==
  ASSUME Inv, FromFork, NEW r \in Runs, Edit(r)
  PROVE  FromFork'
<1>1. pc[r] = "edit" /\ UNCHANGED job /\ commits' = commits /\ main' = main /\ branch' = branch
  BY DEF Edit, upstream
<1>2. Added
  BY <1>1, AddedNone
<1>3. CASE End(r, "failed") \/ NextVersion(r)
  <2>1. \A q \in Runs : Same(q) \/ Handed(q)'
    BY <1>1, <1>3, Leaving DEF Ended
  <2> QED BY <1>1, <1>2, <2>1, Framed
<1>4. CASE Goto(r, "commit") /\ UNCHANGED <<idx, clone>>
  <2>1. "commit" \in Labels /\ pc' = [pc EXCEPT ![r] = "commit"] /\ pc[r] \in Working
    BY <1>1, <1>4 DEF Labels, Goto, Working
  <2>2. \A q \in Runs : Same(q) \/ Handed(q)'
    BY <1>1, <1>2, <1>4, <2>1, GoesOn
  <2> QED BY <1>1, <1>2, <2>2, Framed
<1> QED BY <1>3, <1>4 DEF Edit

\* What the commands do to RELEASE and the README.
LEMMA EditsFields ==
  ASSUME NEW f \in FilesType, NEW cmd \in Cmds, NEW p, NEW n
  PROVE  /\ Edits(f, cmd, p, n).rel = (IF cmd = "release" THEN n ELSE f.rel)
         /\ cmd \in {"release", "patch"} => Edits(f, cmd, p, n).readme = <<p, n>>
         /\ cmd = "update" => Edits(f, cmd, p, n).readme = f.readme
<1>1. CASE cmd = "release"
  BY <1>1 DEF Edits, FilesType
<1>2. CASE cmd = "update"
  BY <1>2 DEF Edits, FilesType
<1>3. CASE cmd = "patch"
  BY <1>3 DEF Edits, FilesType
<1>4. CASE cmd = "new"
  BY <1>4 DEF Edits, FilesType
<1> QED BY <1>1, <1>2, <1>3, <1>4 DEF Cmds

\* A step that adds a commit.
LEMMA AddedOne ==
  ASSUME Inv, NEW f \in FilesType, NEW S \in SUBSET DOMAIN commits,
         \A d \in S : Ancestors(d) \subseteq S, Commit(f, S), UNCHANGED job,
         main' = main \/ (main' = NewCommit /\ Ancestors(main) \subseteq S)
  PROVE  /\ Added /\ NewCommit \notin DOMAIN commits
         /\ commits'[NewCommit].files = f /\ commits'[NewCommit].anc = S \cup {NewCommit}
<1>1. /\ DOMAIN commits \subseteq DOMAIN commits'
      /\ \A c \in DOMAIN commits : commits'[c] = commits[c]
      /\ commits'[NewCommit].anc = S \cup {NewCommit}
  BY Grows DEF Inv
<1>2. main \in DOMAIN commits
  BY DEF Inv, Refs
<1>3. Added
  BY <1>1, <1>2 DEF Added, NoNew, Ancestors
<1> DEFINE new == [files |-> f, anc |-> S \cup {Len(commits) + 1}]
<1>4. commits' = Append(commits, new) /\ commits \in Seq(CommitType) /\ Len(commits) \in Nat
  BY Elements DEF Commit, Inv, Graph
<1> HIDE DEF new
<1>5. commits'[Len(commits) + 1] = new /\ Len(commits) + 1 \notin DOMAIN commits
  BY <1>4
<1> QED BY <1>3, <1>5 DEF new, NewCommit

\* A fork point of a commit is its ancestor, and no ancestor comes after it.
LEMMA ForkPoint ==
  ASSUME Inv, NEW c \in DOMAIN commits, NEW b \in Ancestors(c), NEW a \in Ancestors(c)
  PROVE  /\ b \in DOMAIN commits /\ a \in DOMAIN commits /\ b \in Ancestors(b)
         /\ c \in Ancestors(b) => c = b
         /\ a \in Ancestors(b) => Ancestors(a) \subseteq Ancestors(b)
<1>1. b \in DOMAIN commits /\ a \in DOMAIN commits /\ b \in Ancestors(b)
  BY Elements DEF Inv, Graph
<1>2. Ancestors(b) \subseteq 1..b /\ Ancestors(c) \subseteq 1..c /\ b \in Nat /\ c \in Nat
  BY <1>1, Elements DEF Inv, Graph
<1>3. c \in Ancestors(b) => c = b
  BY <1>2
<1>4. a \in Ancestors(b) => Ancestors(a) \subseteq Ancestors(b)
  BY <1>1 DEF Inv, Graph
<1> QED BY <1>1, <1>3, <1>4

\* A commit on a branch keeps to what its name tells.
LEMMA OnTop ==
  ASSUME Inv, Added, UNCHANGED main,
         NEW h \in DOMAIN commits, NEW n \in Names, Grown(h, n),
         NEW cmd \in Cmds, NoNew => cmd # "new", n[1] = "release" <=> cmd = "release",
         NEW k, k = NewCommit, k \notin DOMAIN commits,
         commits'[k].files = Edits(Files(h), cmd, n[2], n[3]),
         commits'[k].anc = Ancestors(h) \cup {k}
  PROVE  Grown(k, n)'
<1> DEFINE f == Files(h)
           e == Edits(f, cmd, n[2], n[3])
<1>1. PICK b \in Ancestors(h) \cap Ancestors(main) : From(b, h, n)
  BY DEF Grown
<1>2. f \in FilesType
  BY Elements DEF Inv
<1>3. /\ e.rel = (IF cmd = "release" THEN n[3] ELSE f.rel)
      /\ cmd \in {"release", "patch"} => e.readme = Writes(n)
      /\ cmd = "update" => e.readme = f.readme
  <2> HIDE DEF f
  <2> QED BY <1>2, EditsFields DEF Writes
<1>4. commits'[k].files = e
  OBVIOUS
<1> HIDE DEF e
<1>5. Rel(k)' = e.rel /\ Readme(k)' = e.readme /\ Ancestors(k)' = Ancestors(h) \cup {k}
  BY <1>4 DEF Rel, Readme, Files, Ancestors
<1>6. f.rel = Rel(h) /\ f.readme = Readme(h)
  BY DEF Rel, Readme
<1> HIDE DEF f
<1>7. \A a \in Ancestors(h) : a \in DOMAIN commits
  BY Elements DEF Inv
<1>8. b \in Ancestors(h) /\ h \in Ancestors(h) /\ b \in DOMAIN commits /\ (h \in Ancestors(b) => h = b)
  BY ForkPoint DEF Inv, Graph
<1>9. \A a \in Ancestors(h) : Rel(a)' = Rel(a) /\ Readme(a)' = Readme(a)
  BY <1>7 DEF Added, Rel, Readme, Files
<1>10. Ancestors(b)' = Ancestors(b) /\ k \notin Ancestors(b)
  BY <1>8, Elements DEF Inv, Added, Ancestors
<1>11. NoNew' => NoNew
  BY DEF Added
<1>12. Rel(h) = (IF n[1] = "release" /\ h \notin Ancestors(b) THEN n[3] ELSE Rel(b))
  BY <1>1, <1>8 DEF From
<1>13. NoNew => Readme(k)' \in {Readme(h), Writes(n)}
  BY <1>3, <1>5, <1>6 DEF Cmds
<1>14. NoNew => Readme(h) \in {Readme(b), Writes(n)}
  BY <1>1 DEF From
<1>15. ASSUME NoNew, NEW a \in Ancestors(h) \ Ancestors(b)
       PROVE  Readme(a) \in {Readme(b), Readme(k)'}
  BY <1>1, <1>13, <1>14, <1>15 DEF From
<1>16. Rel(k)' = (IF n[1] = "release" THEN n[3] ELSE Rel(b))
  BY <1>3, <1>5, <1>6, <1>12
<1>17. n[1] = "release" => Readme(k)' = Writes(n)
  BY <1>3, <1>5
<1>18. Rel(b)' = Rel(b) /\ Readme(b)' = Readme(b)
  BY <1>8, <1>9
<1>19. ASSUME NEW a \in Ancestors(k)' \ Ancestors(b)'
       PROVE  /\ Rel(a)' = (IF n[1] = "release" THEN n[3] ELSE Rel(b))
              /\ n[1] = "release" => Readme(a)' = Writes(n)
              /\ NoNew => Readme(a)' \in {Readme(b), Readme(k)'}
  <2>1. CASE a = k
    BY <2>1, <1>16, <1>17
  <2>2. CASE a \in Ancestors(h) \ Ancestors(b)
    <3>1. /\ Rel(a) = (IF n[1] = "release" THEN n[3] ELSE Rel(b))
          /\ n[1] = "release" => Readme(a) = Writes(n)
      BY <1>1, <2>2 DEF From
    <3> QED BY <2>2, <3>1, <1>9, <1>15
  <2> QED BY <2>1, <2>2, <1>5, <1>10
<1>20. n[1] = "release" \/ NoNew => n[3] = Rel(b) + 1
  BY <1>1 DEF From
<1>21. NoNew => Readme(k)' \in {Readme(b), Writes(n)}
  BY <1>13, <1>14
<1>22. From(b, k, n)'
  BY <1>11, <1>18, <1>19, <1>20, <1>21 DEF From, Writes
<1>23. b \in Ancestors(k)' /\ b \in Ancestors(main)'
  BY <1>5, <1>8 DEF Added, Ancestors
<1> QED BY <1>22, <1>23 DEF Grown

\* The commit a run makes, and what it makes it on.
LEMMA Making ==
  ASSUME Inv, FromFork, NEW r \in Runs, pc[r] = "commit", UNCHANGED <<job, main>>,
         Commit(Edits(Files(head[r]), job[r].cmd, Patch(r), name[r][3]), Ancestors(head[r]))
  PROVE  \E h \in DOMAIN commits, n \in Names, cmd \in Cmds :
           /\ h = head[r] /\ n = name[r] /\ cmd = job[r].cmd /\ n[2] = Patch(r)
           /\ n[1] = "release" <=> cmd = "release"
           /\ Grown(h, n) /\ (NoNew => cmd # "new")
           /\ Added /\ NewCommit \notin DOMAIN commits
           /\ commits'[NewCommit].files = Edits(Files(h), cmd, n[2], n[3])
           /\ commits'[NewCommit].anc = Ancestors(h) \cup {NewCommit}
<1>1. PICK h \in DOMAIN commits, n \in Names : h = head[r] /\ n = name[r]
  BY DEF Inv, Clones, Progress, Working
<1>2. PICK cmd \in Cmds : cmd = job[r].cmd /\ Patch(r) \in Nat
  BY PatchNat DEF Inv, Progress, Working
<1>3. /\ n[1] = "release" <=> cmd = "release"
      /\ n[2] = Patch(r) /\ Grown(h, n)
  BY <1>1, <1>2 DEF FromFork, Handed, Working
<1>4. NoNew => cmd # "new"
  BY <1>2, NilAssumption DEF NoNew, Inv, Progress
<1> DEFINE e == Edits(Files(h), cmd, n[2], n[3])
<1>5. Files(h) \in FilesType /\ Ancestors(h) \in SUBSET DOMAIN commits
  BY Elements DEF Inv
<1>6. e \in FilesType
  BY <1>2, <1>3, <1>5, EditsTyped DEF Names
<1>7. \A d \in Ancestors(h) : Ancestors(d) \subseteq Ancestors(h)
  BY DEF Inv, Graph
<1>8. Commit(e, Ancestors(h))
  BY <1>1, <1>2, <1>3
<1> HIDE DEF e
<1>9. /\ Added /\ NewCommit \notin DOMAIN commits
      /\ commits'[NewCommit].files = e /\ commits'[NewCommit].anc = Ancestors(h) \cup {NewCommit}
  BY <1>5, <1>6, <1>7, <1>8, AddedOne
<1> QED BY <1>1, <1>2, <1>3, <1>4, <1>9 DEF e

LEMMA MakeCommitFork ==
  ASSUME Inv, FromFork, NEW r \in Runs, MakeCommit(r)
  PROVE  FromFork'
<1> DEFINE new == Edits(Files(head[r]), job[r].cmd, Patch(r), name[r][3])
<1>1. pc[r] = "commit" /\ pc[r] \in Creating /\ UNCHANGED job /\ main' = main /\ branch' = branch
  BY DEF MakeCommit, upstream, Creating
<1>2. CASE Return(r, FALSE) /\ UNCHANGED commits
  <2>1. Added
    BY <1>1, <1>2, AddedNone
  <2>2. \A q \in Runs : Same(q) \/ Handed(q)'
    BY <1>1, <1>2, <2>1, ReturnsSame
  <2> QED BY <1>1, <2>1, <2>2, Framed
<1>3. CASE /\ Commit(new, Ancestors(head[r]))
           /\ head' = [head EXCEPT ![r] = NewCommit]
           /\ Goto(r, "push")
           /\ UNCHANGED <<idx, name>>
  <2>1. PICK h \in DOMAIN commits, n \in Names, cmd \in Cmds :
          /\ h = head[r] /\ n = name[r] /\ cmd = job[r].cmd /\ n[2] = Patch(r)
          /\ n[1] = "release" <=> cmd = "release"
          /\ Grown(h, n) /\ (NoNew => cmd # "new")
          /\ Added /\ NewCommit \notin DOMAIN commits
          /\ commits'[NewCommit].files = Edits(Files(h), cmd, n[2], n[3])
          /\ commits'[NewCommit].anc = Ancestors(h) \cup {NewCommit}
    BY <1>1, <1>3, Making
  <2>2. PICK k : k = NewCommit
    OBVIOUS
  <2>3. Grown(k, n)'
    BY <1>1, <2>1, <2>2, OnTop
  <2>4. /\ head' = [head EXCEPT ![r] = k] /\ name' = name /\ idx' = idx /\ job' = job
        /\ pc' = [pc EXCEPT ![r] = "push"]
    BY <1>1, <1>3, <2>2 DEF Goto
  <2>5. pc \in [Runs -> Labels] /\ head \in [Runs -> DOMAIN commits]
    BY DEF Inv, Locals, Clones
  <2>6. \A q \in Runs : q # r => Same(q)
    BY <2>4, <2>5 DEF Same
  <2>7. head'[r] = k /\ name'[r] = n /\ pc'[r] # "idle"
    BY <2>1, <2>4, <2>5
  <2>8. Grown(head[r], name[r])'
    BY <2>3, <2>7 DEF Grown, From
  <2>9. Handed(r)'
    BY <2>1, <2>4, <2>7, <2>8 DEF Handed, Patch
  <2> QED BY <1>1, <2>1, <2>6, <2>9, Framed
<1> QED BY <1>2, <1>3 DEF MakeCommit

LEMMA PushFork ==
  ASSUME Inv, FromFork, NEW r \in Runs, Push(r)
  PROVE  FromFork'
<1>1. pc[r] = "push" /\ pc[r] \in Creating /\ pc[r] \in Working /\ UNCHANGED job
  BY DEF Push, Creating, Working
<1>2. commits' = commits /\ main' = main
  BY DEF Push, upstream
<1>3. Added
  BY <1>1, <1>2, AddedNone
<1>4. \A q \in Runs : Same(q) \/ Handed(q)'
  <2>1. CASE Return(r, FALSE)
    BY <1>1, <1>3, <2>1, ReturnsSame
  <2>2. CASE Goto(r, "pr") /\ UNCHANGED <<idx, clone>>
    <3>1. "pr" \in Labels /\ pc' = [pc EXCEPT ![r] = "pr"]
      BY <2>2 DEF Labels, Goto
    <3> QED BY <1>1, <1>3, <2>2, <3>1, GoesOn
  <2> QED BY <2>1, <2>2 DEF Push
<1>5. ASSUME NEW n \in DOMAIN branch'
      PROVE  (n \in DOMAIN branch /\ branch'[n] = branch[n]) \/ Grown(branch[n], n)'
  <2>1. CASE UNCHANGED branch
    BY <2>1
  <2>2. CASE branch' = [m \in DOMAIN branch \cup {name[r]} |-> IF m = name[r] THEN head[r] ELSE branch[m]]
    <3>1. CASE n # name[r]
      BY <2>2, <3>1
    <3>2. CASE n = name[r]
      <4>1. PICK c \in DOMAIN commits : c = head[r]
        BY DEF Inv, Clones
      <4>2. Grown(c, n)'
        BY <1>1, <1>3, <3>2, <4>1, GrownKept DEF FromFork, Handed
      <4>3. branch'[n] = c
        BY <2>2, <3>2, <4>1
      <4> QED BY <4>2, <4>3 DEF Grown, From
    <3> QED BY <3>1, <3>2
  <2> QED BY <2>1, <2>2 DEF Push
<1> QED BY <1>3, <1>4, <1>5, Framed

LEMMA CreatePrFork ==
  ASSUME Inv, FromFork, NEW r \in Runs, CreatePr(r)
  PROVE  FromFork'
<1>1. /\ pc[r] = "pr" /\ pc[r] # "idle" /\ pc[r] \in Creating /\ UNCHANGED job
      /\ commits' = commits /\ main' = main /\ branch' = branch
  BY DEF CreatePr, Creating
<1>2. Added
  BY <1>1, AddedNone
<1>3. \A q \in Runs : Same(q) \/ Handed(q)'
  <2>1. CASE Return(r, TRUE)
    BY <1>1, <1>2, <2>1, ReturnsSame
  <2>2. CASE UNCHANGED <<pc, idx, clone>>
    BY <1>1, <2>2 DEF clone, Same
  <2>3. CASE End(r, "crashed")
    BY <1>1, <2>3, Leaving DEF Ended
  <2> QED BY <2>1, <2>2, <2>3 DEF CreatePr
<1> QED BY <1>1, <1>2, <1>3, Framed

\* What a merge adds to main.
LEMMA Merged ==
  ASSUME Inv, NEW x \in open, NEW squash \in BOOLEAN, Merge(x, squash)
  PROVE  /\ Added /\ NewCommit \notin DOMAIN commits /\ main' = NewCommit
         /\ commits'[NewCommit].files = MergedFiles(main, branch[x.head])
         /\ commits'[NewCommit].anc =
              Ancestors(main) \cup (IF squash THEN {} ELSE Ancestors(branch[x.head])) \cup {NewCommit}
<1> DEFINE tip == branch[x.head]
           files == MergedFiles(main, tip)
           anc == Ancestors(main) \cup (IF squash THEN {} ELSE Ancestors(tip))
<1>1. Commit(files, anc) /\ main' = NewCommit /\ UNCHANGED job
  BY DEF Merge
<1>2. main \in DOMAIN commits /\ tip \in DOMAIN commits
  BY DEF Inv, Refs
<1>3. files \in FilesType
  BY <1>2, MergedTyped
<1>4. anc \in SUBSET DOMAIN commits /\ Ancestors(main) \subseteq anc
  BY <1>2, Elements DEF Inv
<1>5. \A d \in anc : Ancestors(d) \subseteq anc
  BY <1>2 DEF Inv, Graph
<1> HIDE DEF files, anc
<1>6. /\ Added /\ NewCommit \notin DOMAIN commits
      /\ commits'[NewCommit].files = files /\ commits'[NewCommit].anc = anc \cup {NewCommit}
  BY <1>1, <1>3, <1>4, <1>5, AddedOne
<1> QED BY <1>1, <1>6 DEF files, anc

LEMMA MergeFork ==
  ASSUME Inv, FromFork, NEW x \in open, NEW squash \in BOOLEAN, Merge(x, squash)
  PROVE  FromFork'
<1>1. Added
  BY Merged
<1>2. \A q \in Runs : Same(q)
  BY DEF Merge, clone, Same
<1>3. \A n \in DOMAIN branch' : n \in DOMAIN branch /\ branch'[n] = branch[n]
  BY DEF Merge
<1> QED BY <1>1, <1>2, <1>3, Framed

LEMMA SyncForkFork ==
  ASSUME Inv, FromFork, SyncFork \/ UNCHANGED vars
  PROVE  FromFork'
<1>1. UNCHANGED <<commits, main, branch, job, pc, idx, name, head>>
  BY DEF SyncFork, vars, upstream, clone
<1>2. Added /\ \A q \in Runs : Same(q)
  BY <1>1, AddedNone DEF Same
<1> QED BY <1>1, <1>2, Framed

LEMMA InitFork == Init => FromFork
BY DEF Init, FromFork, Handed, Working

LEMMA NextFork == Inv /\ FromFork /\ [Next]_vars => FromFork'
BY StartFork, CloneFork, BranchFork, EditFork, MakeCommitFork, PushFork, CreatePrFork,
   MergeFork, SyncForkFork DEF Next, Step

LEMMA SpecFork == Spec => [](Inv /\ FromFork)
BY InitInv, InitFork, NextInv, NextFork, PTL DEF Spec

-----------------------------------------------------------------------------
(* What a merge makes of it *)

LEMMA Greatest ==
  ASSUME NEW k \in Nat, NEW T \in SUBSET (0..k), T # {}
  PROVE  \E m \in T : \A d \in T : d <= m
<1> DEFINE Below == {k - d : d \in T}
           Less == OpToRel(<, Nat)
<1>1. \A x, y \in Nat : x < y => <<x, y>> \in Less
  BY DEF OpToRel
<1>2. IsWellFoundedOn(Less, Nat)
  BY NatLessThanWellFounded, Zenon
<1> HIDE DEF Less
<1>3. Below \subseteq Nat /\ Below # {}
  <2>1. \A d \in T : d \in 0..k /\ k - d \in Nat
    OBVIOUS
  <2>2. PICK d \in T : TRUE
    OBVIOUS
  <2>3. k - d \in Below
    OBVIOUS
  <2> QED BY <2>1, <2>3
<1>4. PICK x \in Below : \A y \in Below : ~(<<y, x>> \in Less)
  <2> HIDE DEF Below
  <2> QED BY <1>2, <1>3, WFMin
<1>5. PICK m \in T : x = k - m
  OBVIOUS
<1>6. ASSUME NEW d \in T PROVE d <= m
  <2>1. k - d \in Below /\ k - d \in Nat /\ x \in Nat
    BY <1>3
  <2>2. ~(k - d < x)
    BY <2>1, <1>1, <1>4
  <2> QED BY <2>2, <1>5
<1> QED BY <1>6

\* The merge base is there, and is the last of the common ancestors.
LEMMA MergeBaseIs ==
  ASSUME Inv, NEW a \in DOMAIN commits, NEW c \in DOMAIN commits,
         Ancestors(a) \cap Ancestors(c) # {}
  PROVE  /\ MergeBase(a, c) \in Ancestors(a) \cap Ancestors(c)
         /\ \A d \in Ancestors(a) \cap Ancestors(c) : d <= MergeBase(a, c)
<1> DEFINE T == Ancestors(a) \cap Ancestors(c)
<1>1. a \in Nat /\ Ancestors(a) \subseteq 1..a
  BY Elements DEF Inv, Graph
<1>2. T \in SUBSET (0..a)
  BY <1>1
<1>3. \E m \in T : \A d \in T : d <= m
  BY <1>1, <1>2, Greatest
<1> QED BY <1>3 DEF MergeBase

\* Where branch n, merged into main, comes from: the merge base is the commit b
\* it started from, or one made on it since, which main has from an earlier merge.
LEMMA BaseOf ==
  ASSUME Inv, NEW c \in DOMAIN commits, NEW b \in Ancestors(c) \cap Ancestors(main)
  PROVE  /\ MergeBase(main, c) \in Ancestors(main) \cap Ancestors(c)
         /\ MergeBase(main, c) \in Ancestors(b) => MergeBase(main, c) = b
         /\ c \in Ancestors(b) => c = b /\ MergeBase(main, c) = b
<1> DEFINE o == MergeBase(main, c)
<1>1. main \in DOMAIN commits /\ c \in Nat
  BY Elements DEF Inv, Refs
<1>2. /\ o \in Ancestors(main) \cap Ancestors(c)
      /\ \A d \in Ancestors(main) \cap Ancestors(c) : d <= o
  BY <1>1, MergeBaseIs
<1> HIDE DEF o
<1>3. b \in DOMAIN commits /\ o \in DOMAIN commits /\ Ancestors(b) \subseteq 1..b
  BY <1>2, Elements DEF Inv, Graph
<1>4. b \in Nat /\ o \in Nat /\ b <= o
  BY <1>2, <1>3, Elements DEF Inv
<1>5. o \in Ancestors(b) => o = b
  BY <1>3, <1>4
<1>6. c \in Ancestors(b) => c = b
  BY ForkPoint
<1>7. Ancestors(c) \subseteq 1..c
  BY DEF Inv, Graph
<1>8. c = b => o = b
  BY <1>2, <1>4, <1>7
<1> QED BY <1>2, <1>5, <1>6, <1>8 DEF o

\* A branch and its merge base: the base is where the branch starts, or both
\* were made on it.
LEMMA Tip ==
  ASSUME Inv, NEW c \in DOMAIN commits, NEW n, NEW b \in Ancestors(c) \cap Ancestors(main),
         From(b, c, n), NEW o, o = MergeBase(main, c)
  PROVE  \/ o = b /\ c = b
         \/ o = b /\ c \in Ancestors(c) \ Ancestors(b)
         \/ o \in Ancestors(c) \ Ancestors(b) /\ c \in Ancestors(c) \ Ancestors(b)
<1>1. /\ o \in Ancestors(c)
      /\ o \in Ancestors(b) => o = b
      /\ c \in Ancestors(b) => c = b /\ o = b
  BY BaseOf
<1>2. c \in Ancestors(c)
  BY DEF Inv, Graph
<1> QED BY <1>1, <1>2

LEMMA TipRelease ==
  ASSUME Inv, NEW c \in DOMAIN commits, NEW n, NEW b \in Ancestors(c) \cap Ancestors(main),
         From(b, c, n), NEW o, o = MergeBase(main, c)
  PROVE  Rel(c) = Rel(o) \/ (o = b /\ n[1] = "release" /\ Rel(c) = Rel(b) + 1)
BY Tip DEF From

\* A field of what a merge makes.
LEMMA MergedFields ==
  ASSUME Inv, NEW a \in DOMAIN commits, NEW c \in DOMAIN commits, NEW o, o = MergeBase(a, c)
  PROVE  /\ MergedFiles(a, c).rel = MergedField(Rel(o), Rel(a), Rel(c))
         /\ MergedFiles(a, c).readme = MergedField(Readme(o), Readme(a), Readme(c))
<1>1. Files(a) \in FilesType
  BY Elements DEF Inv
<1>2. "rel" \in DOMAIN Files(a) /\ "readme" \in DOMAIN Files(a)
  BY <1>1 DEF FilesType
<1> QED BY <1>2 DEF MergedFiles, Rel, Readme

\* Only a merge moves main.
LEMMA MainMoves ==
  ASSUME Inv, [Next]_vars, ~\E x \in open, squash \in BOOLEAN : Merge(x, squash)
  PROVE  main' = main /\ commits'[main] = commits[main]
<1>1. main' = main
  BY DEF Next, Step, Start, Clone, Branch, Edit, MakeCommit, Push, CreatePr, SyncFork, vars, upstream
<1>2. main \in DOMAIN commits
  BY DEF Inv, Refs
<1>3. CASE UNCHANGED commits
  BY <1>1, <1>3
<1>4. ASSUME NEW r \in Runs, MakeCommit(r), commits' # commits
      PROVE  commits'[main] = commits[main]
  <2> DEFINE new == [files |-> Edits(Files(head[r]), job[r].cmd, Patch(r), name[r][3]),
                     anc |-> Ancestors(head[r]) \cup {Len(commits) + 1}]
  <2>1. commits' = Append(commits, new) /\ commits \in Seq(CommitType)
    BY <1>4 DEF MakeCommit, Commit, Inv, Graph
  <2> HIDE DEF new
  <2> QED BY <1>2, <2>1
<1>5. UNCHANGED commits \/ \E r \in Runs : MakeCommit(r)
  BY DEF Next, Step, Start, Clone, Branch, Edit, Push, CreatePr, SyncFork, vars
<1> QED BY <1>1, <1>3, <1>4, <1>5

(* RELEASE on main stays or is stepped by one, whatever is merged: a branch   *)
(* tells one number, from one commit of main, in all of its commits, so a     *)
(* merge either takes that step or finds that main made one before.           *)
THEOREM ReleaseStepsHolds == Spec => ReleaseSteps
<1> DEFINE Stepped == commits'[main'].files.rel \in {Files(main).rel, Files(main).rel + 1}
<1>1. ASSUME Inv, FromFork, [Next]_vars PROVE Stepped
  <2>1. CASE ~\E x \in open, squash \in BOOLEAN : Merge(x, squash)
    BY <1>1, <2>1, MainMoves DEF Files
  <2>2. ASSUME NEW x \in open, NEW squash \in BOOLEAN, Merge(x, squash) PROVE Stepped
    <3>1. x.head \in DOMAIN branch /\ main \in DOMAIN commits
      BY <1>1 DEF Inv, Refs
    <3>2. PICK c \in DOMAIN commits, n \in {x.head} : c = branch[n]
      BY <1>1, <3>1 DEF Inv, Refs
    <3>3. Grown(c, n)
      BY <1>1, <3>1, <3>2 DEF FromFork
    <3>4. PICK b \in Ancestors(c) \cap Ancestors(main) : From(b, c, n)
      BY <3>3 DEF Grown
    <3>5. PICK o : o = MergeBase(main, c)
      OBVIOUS
    <3>6. Rel(c) = Rel(o) \/ Rel(c) = Rel(o) + 1
      BY <1>1, <3>4, <3>5, TipRelease
    <3>7. commits'[main'].files = MergedFiles(main, c)
      BY <1>1, <2>2, <3>2, Merged
    <3>8. commits'[main'].files.rel = MergedField(Rel(o), Rel(main), Rel(c))
      BY <1>1, <3>1, <3>5, <3>7, MergedFields
    <3> QED BY <3>6, <3>8 DEF MergedField, Rel
  <2> QED BY <2>1, <2>2
<1>2. Inv /\ FromFork /\ [Next]_vars => [Stepped]_vars
  BY <1>1
<1> QED BY <1>2, SpecFork, PTL DEF Spec, ReleaseSteps

-----------------------------------------------------------------------------
(* RELEASE and the README together *)

\* The README and RELEASE of one commit.
Pairs(rel, readme) == readme # Nil => readme[2] \in {rel, rel + 1}

\* Neither goes back, and RELEASE is only stepped where there is a README.
Precedes(rel, readme, next, nreadme) ==
  /\ rel <= next
  /\ readme # Nil => nreadme # Nil /\ readme[2] <= nreadme[2]
  /\ nreadme = Nil => rel = next
Before(a, m) == Precedes(Rel(a), Readme(a), Rel(m), Readme(m))

Together ==
  /\ \A c \in DOMAIN commits : Pairs(Rel(c), Readme(c))
  /\ \A a \in Ancestors(main) : Before(a, main)

\* What the files of a commit made on a branch hold: the branch starts from
\* number b and README br, and writes w.
OnBranch(rel, readme, release, b, br, w, last) ==
  /\ rel = (IF release THEN b + 1 ELSE b)
  /\ release => readme = w
  /\ readme \in {br, last}
  /\ last \in {br, w}

\* Numbers and READMEs: of a branch and where it starts, of main and the merge base.
Mergeable(c, cr, b, br, m, mr, o, or, release, w) ==
  /\ b \in Int /\ m \in Int /\ o \in Int /\ c \in Int /\ release \in BOOLEAN
  /\ w # Nil /\ w[2] = b + 1
  /\ Pairs(b, br) /\ Pairs(m, mr) /\ Pairs(o, or) /\ Pairs(c, cr)
  /\ Precedes(b, br, m, mr) /\ Precedes(o, or, m, mr)
  /\ \/ /\ o = b /\ or = br
        /\ (c = b /\ cr = br) \/ OnBranch(c, cr, release, b, br, w, cr)
     \/ /\ OnBranch(o, or, release, b, br, w, cr)
        /\ OnBranch(c, cr, release, b, br, w, cr)
  /\ m = o \/ c = o \/ m = c
  /\ mr = or \/ cr = or \/ mr = cr

LEMMA MergesTogether ==
  ASSUME NEW c, NEW cr, NEW b, NEW br, NEW m, NEW mr, NEW o, NEW or, NEW release, NEW w,
         Mergeable(c, cr, b, br, m, mr, o, or, release, w)
  PROVE  /\ Pairs(MergedField(o, m, c), MergedField(or, mr, cr))
         /\ Precedes(m, mr, MergedField(o, m, c), MergedField(or, mr, cr))
         /\ \A a \in Int : \A ar :
              /\ OnBranch(c, cr, release, b, br, w, cr)
              /\ OnBranch(a, ar, release, b, br, w, cr)
              => Precedes(a, ar, MergedField(o, m, c), MergedField(or, mr, cr))
<1>1. CASE m = o /\ mr = or
  BY <1>1 DEF Mergeable, Pairs, Precedes, OnBranch, MergedField
<1>2. CASE m # o /\ mr # or
  BY <1>2 DEF Mergeable, Pairs, Precedes, OnBranch, MergedField
<1>3. CASE m = o /\ mr # or
  BY <1>3 DEF Mergeable, Pairs, Precedes, OnBranch, MergedField
<1>4. CASE m # o /\ mr = or
  BY <1>4 DEF Mergeable, Pairs, Precedes, OnBranch, MergedField
<1> QED BY <1>1, <1>2, <1>3, <1>4

\* Commits from before: a step leaves them as they are.
LEMMA OldCommits ==
  ASSUME Inv, Added, NEW c \in DOMAIN commits
  PROVE  Rel(c)' = Rel(c) /\ Readme(c)' = Readme(c)
BY DEF Added, Rel, Readme, Files

LEMMA RelInt ==
  ASSUME Inv, NEW c \in DOMAIN commits
  PROVE  Rel(c) \in Int
BY Elements DEF Inv, FilesType, Rel, NoRelease

LEMMA BeforeAll ==
  ASSUME NEW a, NEW b, NEW c, NEW ar, NEW br, NEW cr,
         a \in Int, b \in Int, c \in Int,
         Pairs(a, ar), Pairs(b, br), Pairs(c, cr),
         Precedes(a, ar, b, br), Precedes(b, br, c, cr)
  PROVE  Precedes(a, ar, c, cr)
BY DEF Pairs, Precedes

\* A commit of a run that is not a `new` run announces the release it holds or the next.
LEMMA CommitPairs ==
  ASSUME Inv, NEW h \in DOMAIN commits, NEW n \in Names, Grown(h, n), NoNew,
         Pairs(Rel(h), Readme(h)),
         NEW cmd \in Cmds \ {"new"}, n[1] = "release" <=> cmd = "release",
         NEW e, e = Edits(Files(h), cmd, n[2], n[3])
  PROVE  Pairs(e.rel, e.readme)
<1>1. PICK b \in Ancestors(h) \cap Ancestors(main) : From(b, h, n)
  BY DEF Grown
<1>2. b \in DOMAIN commits /\ (h \in Ancestors(b) => h = b) /\ h \in Ancestors(h)
  BY ForkPoint DEF Inv, Graph
<1>3. Rel(b) \in Int
  BY <1>2, RelInt
<1>4. n[3] = Rel(b) + 1
  BY <1>1 DEF From
<1>5. n[1] # "release" => Rel(h) = Rel(b)
  BY <1>1, <1>2 DEF From
<1>6. Files(h) \in FilesType
  BY Elements DEF Inv
<1>7. /\ e.rel = (IF cmd = "release" THEN n[3] ELSE Rel(h))
      /\ cmd \in {"release", "patch"} => e.readme = <<n[2], n[3]>>
      /\ cmd = "update" => e.readme = Readme(h)
  BY <1>6, EditsFields DEF Rel, Readme
<1>8. <<n[2], n[3]>>[2] = n[3]
  OBVIOUS
<1>9. CASE cmd = "update"
  BY <1>7, <1>9
<1>10. CASE cmd = "release"
  BY <1>3, <1>4, <1>7, <1>8, <1>10 DEF Pairs
<1>11. CASE cmd = "patch"
  BY <1>3, <1>4, <1>5, <1>7, <1>8, <1>11 DEF Pairs
<1> QED BY <1>9, <1>10, <1>11 DEF Cmds

LEMMA MakeCommitTogether ==
  ASSUME Inv, FromFork, NEW r \in Runs, MakeCommit(r), NoNew, Together
  PROVE  Together'
<1> DEFINE new == Edits(Files(head[r]), job[r].cmd, Patch(r), name[r][3])
<1>1. pc[r] = "commit" /\ UNCHANGED job /\ main' = main
  BY DEF MakeCommit, upstream
<1>2. CASE UNCHANGED commits
  BY <1>1, <1>2 DEF Together, Before, Rel, Readme, Files, Ancestors
<1>3. CASE Commit(new, Ancestors(head[r]))
  <2>1. PICK h \in DOMAIN commits, n \in Names, cmd \in Cmds :
          /\ n[1] = "release" <=> cmd = "release"
          /\ Grown(h, n) /\ cmd # "new" /\ Added
          /\ commits'[NewCommit].files = Edits(Files(h), cmd, n[2], n[3])
    BY <1>1, <1>3, Making
  <2>2. PICK e : e = Edits(Files(h), cmd, n[2], n[3])
    OBVIOUS
  <2>3. DOMAIN commits' = DOMAIN commits \cup {NewCommit}
    BY <1>3, Elements DEF Inv, Graph, Commit, NewCommit
  <2>4. Pairs(e.rel, e.readme)
    BY <2>1, <2>2, CommitPairs DEF Together
  <2>5. \A c \in DOMAIN commits' : Pairs(Rel(c)', Readme(c)')
    <3> SUFFICES ASSUME NEW c \in DOMAIN commits' PROVE Pairs(Rel(c)', Readme(c)')
      OBVIOUS
    <3>1. CASE c \in DOMAIN commits
      BY <3>1, <2>1, OldCommits DEF Together
    <3>2. CASE c = NewCommit
      BY <3>2, <2>1, <2>2, <2>4 DEF Rel, Readme, Files
    <3> QED BY <3>1, <3>2, <2>3
  <2>6. main \in DOMAIN commits /\ Ancestors(main) \subseteq DOMAIN commits
    BY Elements DEF Inv, Refs
  <2>7. Ancestors(main)' = Ancestors(main)
    BY <1>1, <2>1, <2>6 DEF Added, Ancestors
  <2>8. \A a \in Ancestors(main) : Rel(a)' = Rel(a) /\ Readme(a)' = Readme(a)
    BY <2>1, <2>6, OldCommits
  <2>9. Rel(main)' = Rel(main) /\ Readme(main)' = Readme(main)
    BY <1>1, <2>1, <2>6 DEF Added, Rel, Readme, Files
  <2> QED BY <2>5, <2>7, <2>8, <2>9 DEF Together, Before
<1> QED BY <1>2, <1>3 DEF MakeCommit

\* What a merge makes belongs together, and follows what main and the branch had.
LEMMA MergeTogether ==
  ASSUME Inv, FromFork, NEW x \in open, NEW squash \in BOOLEAN, Merge(x, squash), NoNew, Together
  PROVE  Together'
<1>1. x.head \in DOMAIN branch /\ main \in DOMAIN commits
  BY DEF Inv, Refs
<1>2. PICK c \in DOMAIN commits, n \in Names : c = branch[x.head] /\ n = x.head /\ Grown(c, n)
  BY <1>1 DEF Inv, Refs, FromFork
<1>3. PICK b \in Ancestors(c) \cap Ancestors(main) : From(b, c, n)
  BY <1>2 DEF Grown
<1>4. PICK o : o = MergeBase(main, c)
  OBVIOUS
<1>5. PICK k : k = NewCommit
  OBVIOUS
<1>6. /\ Added /\ k \notin DOMAIN commits /\ main' = k
      /\ commits'[k].files = MergedFiles(main, c)
      /\ commits'[k].anc = Ancestors(main) \cup (IF squash THEN {} ELSE Ancestors(c)) \cup {k}
  BY <1>2, <1>5, Merged
<1>7. o \in Ancestors(main) /\ b \in Ancestors(main) /\ b \in DOMAIN commits /\ o \in DOMAIN commits
  BY <1>1, <1>3, <1>4, BaseOf, Elements DEF Inv
<1> DEFINE rel == MergedField(Rel(o), Rel(main), Rel(c))
           readme == MergedField(Readme(o), Readme(main), Readme(c))
           release == n[1] = "release"
           w == Writes(n)
           Derived(a) == OnBranch(Rel(a), Readme(a), release, Rel(b), Readme(b), w, Readme(c))
<1>8. Rel(k)' = rel /\ Readme(k)' = readme
  BY <1>1, <1>4, <1>6, MergedFields DEF Rel, Readme, Files
<1>9. /\ Rel(b) \in Int /\ Rel(main) \in Int /\ Rel(o) \in Int /\ Rel(c) \in Int
      /\ Pairs(Rel(b), Readme(b)) /\ Pairs(Rel(main), Readme(main))
      /\ Pairs(Rel(o), Readme(o)) /\ Pairs(Rel(c), Readme(c))
  BY <1>1, <1>7, RelInt DEF Together
<1>10. Before(b, main) /\ Before(o, main)
  BY <1>7 DEF Together
<1>11. n[3] = Rel(b) + 1 /\ Readme(c) \in {Readme(b), w}
  BY <1>3 DEF From
<1>12. w # Nil /\ w[2] = Rel(b) + 1
  <2>1. n[2] \in Nat /\ n[3] \in Nat
    BY DEF Names
  <2>2. w \in Nat \X Nat /\ w[2] = n[3]
    BY <2>1 DEF Writes
  <2> QED BY <2>2, <1>11, NilAssumption
<1>13. ASSUME NEW a \in Ancestors(c) \ Ancestors(b) PROVE Derived(a)
  BY <1>3, <1>11 DEF From, OnBranch
<1>14. \/ /\ Rel(o) = Rel(b) /\ Readme(o) = Readme(b)
          /\ (Rel(c) = Rel(b) /\ Readme(c) = Readme(b)) \/ Derived(c)
       \/ Derived(o) /\ Derived(c)
  <2>1. \/ o = b /\ c = b
        \/ o = b /\ c \in Ancestors(c) \ Ancestors(b)
        \/ o \in Ancestors(c) \ Ancestors(b) /\ c \in Ancestors(c) \ Ancestors(b)
    BY <1>3, <1>4, Tip
  <2> HIDE DEF Derived
  <2> QED BY <2>1, <1>13
<1>15. /\ Rel(main) = Rel(o) \/ Rel(c) = Rel(o) \/ Rel(main) = Rel(c)
       /\ Readme(main) = Readme(o) \/ Readme(c) = Readme(o) \/ Readme(main) = Readme(c)
  <2>1. Clean(main, c)
    BY <1>2 DEF Merge
  <2>2. "rel" \in DOMAIN Files(o) /\ "readme" \in DOMAIN Files(o)
    BY <1>7, Elements DEF Inv, FilesType
  <2> QED BY <2>1, <2>2, <1>4 DEF Clean, Rel, Readme
<1>16. release \in BOOLEAN
  OBVIOUS
<1> HIDE DEF release, w
<1>17. /\ Pairs(rel, readme)
       /\ Precedes(Rel(main), Readme(main), rel, readme)
       /\ \A a \in Int : \A ar :
            /\ Derived(c)
            /\ OnBranch(a, ar, release, Rel(b), Readme(b), w, Readme(c))
            => Precedes(a, ar, rel, readme)
  <2>1. Mergeable(Rel(c), Readme(c), Rel(b), Readme(b), Rel(main), Readme(main), Rel(o), Readme(o), release, w)
    BY <1>9, <1>10, <1>12, <1>14, <1>15, <1>16 DEF Before, Mergeable
  <2> QED BY <2>1, MergesTogether
<1> HIDE DEF rel, readme
<1>18. rel \in Int
  BY <1>9 DEF rel, MergedField
<1>19. \A d \in DOMAIN commits' : Pairs(Rel(d)', Readme(d)')
  <2>1. DOMAIN commits' = DOMAIN commits \cup {k}
    BY <1>5, Elements DEF Merge, Inv, Graph, Commit, NewCommit
  <2>2. \A d \in DOMAIN commits : Pairs(Rel(d)', Readme(d)')
    BY <1>6, OldCommits DEF Together
  <2>3. Pairs(Rel(k)', Readme(k)')
    BY <1>8, <1>17
  <2> QED BY <2>1, <2>2, <2>3
<1>20. ASSUME NEW a \in commits'[k].anc
       PROVE  Precedes(Rel(a)', Readme(a)', rel, readme)
  <2>1. CASE a \in Ancestors(main)
    <3>1. a \in DOMAIN commits
      BY <1>1, <2>1, Elements DEF Inv
    <3>2. Precedes(Rel(a), Readme(a), Rel(main), Readme(main)) /\ Pairs(Rel(a), Readme(a)) /\ Rel(a) \in Int
      BY <2>1, <3>1, RelInt DEF Together, Before
    <3>3. Precedes(Rel(a), Readme(a), rel, readme)
      BY <3>2, <1>9, <1>17, <1>18, BeforeAll
    <3> QED BY <3>1, <3>3, <1>6, OldCommits
  <2>2. CASE a \in Ancestors(c) \ Ancestors(main)
    <3>1. a \in DOMAIN commits
      BY <2>2, Elements DEF Inv
    <3>2. Ancestors(b) \subseteq Ancestors(main)
      BY <1>1, <1>7 DEF Inv, Graph
    <3>3. a \in Ancestors(c) \ Ancestors(b)
      BY <2>2, <3>2
    <3>4. c \in Ancestors(c) \ Ancestors(b)
      <4>1. c \in Ancestors(b) => Ancestors(c) \subseteq Ancestors(b)
        BY ForkPoint DEF Inv, Graph
      <4>2. c \in Ancestors(c)
        BY DEF Inv, Graph
      <4> QED BY <3>3, <4>1, <4>2
    <3>5. Derived(a) /\ Derived(c)
      <4> HIDE DEF Derived
      <4> QED BY <1>13, <3>3, <3>4
    <3>6. Precedes(Rel(a), Readme(a), rel, readme)
      BY <3>1, <3>5, <1>17, RelInt
    <3> QED BY <3>1, <3>6, <1>6, OldCommits
  <2>3. CASE a = k
    BY <2>3, <1>8, <1>17, <1>18 DEF Precedes, Pairs
  <2> QED BY <2>1, <2>2, <2>3, <1>6
<1>21. \A a \in Ancestors(main)' : Before(a, main)'
  BY <1>6, <1>8, <1>20 DEF Before, Ancestors, Rel, Readme, Files
<1> QED BY <1>19, <1>21 DEF Together

\* Upstream main starts with a README, if any, that belongs to its RELEASE.
OriginalsTogether == \A f \in Originals : Pairs(f.rel, f.readme)

FollowsInv == NoNew => Together

LEMMA InitFollows ==
  ASSUME OriginalsTogether, Init
  PROVE  FollowsInv
<1>1. PICK f \in Originals : commits = <<[files |-> f, anc |-> {1}]>> /\ main = 1
  BY DEF Init
<1> DEFINE c0 == [files |-> f, anc |-> {1}]
<1>2. c0.files = f /\ c0.anc = {1}
  OBVIOUS
<1>3. commits = <<c0>>
  BY <1>1
<1> HIDE DEF c0
<1>4. DOMAIN commits = {1} /\ Files(1) = f /\ Ancestors(1) = {1}
  BY <1>2, <1>3 DEF Files, Ancestors
<1>5. Rel(1) \in Int
  BY <1>4, FilesAssumption DEF Rel, FilesType, NoRelease
<1>6. Pairs(Rel(1), Readme(1))
  BY <1>4 DEF OriginalsTogether, Rel, Readme
<1>7. Before(1, 1)
  BY <1>5, <1>6 DEF Before, Precedes, Pairs
<1> QED BY <1>1, <1>4, <1>6, <1>7 DEF FollowsInv, Together

LEMMA NextFollows ==
  ASSUME Inv, FromFork, FollowsInv, [Next]_vars
  PROVE  FollowsInv'
<1>1. CASE \E r \in Runs, inv \in Invocations : Start(r, inv)
  <2>1. PICK r \in Runs, inv \in Invocations : Start(r, inv)
    BY <1>1
  <2>2. job' = [job EXCEPT ![r] = inv] /\ job[r] = Nil /\ job \in [Runs -> Invocations \cup {Nil}]
    BY <2>1 DEF Start, FromFork, Handed, Inv, Locals
  <2>3. \A q \in Runs : job[q] # Nil => job'[q] = job[q]
    BY <2>2
  <2>4. NoNew' => NoNew
    BY <2>3 DEF NoNew
  <2>5. UNCHANGED <<commits, main>>
    BY <2>1 DEF Start, upstream
  <2> QED BY <2>4, <2>5 DEF FollowsInv, Together, Before, Rel, Readme, Files, Ancestors
<1>2. CASE ~\E r \in Runs, inv \in Invocations : Start(r, inv)
  <2>1. UNCHANGED job
    BY <1>2 DEF Next, Step, Clone, Branch, Edit, MakeCommit, Push, CreatePr, Merge, SyncFork, vars
  <2>2. NoNew' => NoNew
    BY <2>1 DEF NoNew
  <2>3. CASE UNCHANGED <<commits, main>>
    BY <2>2, <2>3 DEF FollowsInv, Together, Before, Rel, Readme, Files, Ancestors
  <2>4. CASE \E r \in Runs : MakeCommit(r)
    BY <2>2, <2>4, MakeCommitTogether DEF FollowsInv
  <2>5. CASE \E x \in open, squash \in BOOLEAN : Merge(x, squash)
    BY <2>2, <2>5, MergeTogether DEF FollowsInv
  <2>6. \/ UNCHANGED <<commits, main>>
        \/ \E r \in Runs : MakeCommit(r)
        \/ \E x \in open, squash \in BOOLEAN : Merge(x, squash)
    BY <1>2 DEF Next, Step, Clone, Branch, Edit, Push, CreatePr, SyncFork, vars, upstream
  <2> QED BY <2>3, <2>4, <2>5, <2>6
<1> QED BY <1>1, <1>2

(* If it did at the start, the README on main announces the release RELEASE   *)
(* holds or the next one, whatever runs are concurrent, whatever branches are *)
(* stale and in whatever order they are merged or squashed, as long as there  *)
(* is no `new` run.  A merge that would take RELEASE from one side and the    *)
(* README from the other is a conflict, or both sides had announced the same  *)
(* release.                                                                   *)
THEOREM ReadmeFollowsHolds == ASSUME OriginalsTogether PROVE Spec => []ReadmeFollows
<1>1. Init => Inv /\ FromFork /\ FollowsInv
  BY InitInv, InitFork, InitFollows
<1>2. Inv /\ FromFork /\ FollowsInv /\ [Next]_vars => (Inv /\ FromFork /\ FollowsInv)'
  BY NextInv, NextFork, NextFollows
<1>3. Inv /\ FromFork /\ FollowsInv => ReadmeFollows
  <2> SUFFICES ASSUME Inv, FollowsInv, NoNew PROVE Pairs(Files(main).rel, Files(main).readme)
    BY DEF ReadmeFollows, NoNew, Pairs
  <2> QED BY DEF FollowsInv, Together, Inv, Refs, Rel, Readme
<1> QED BY <1>1, <1>2, <1>3, PTL DEF Spec
====
