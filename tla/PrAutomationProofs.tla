-------------------------- MODULE PrAutomationProofs --------------------------
(***************************************************************************)
(* Theorems about PrAutomation, for any number of jobs, images, merges and *)
(* rebuilds: tags that exist, merges that keep what others merged, and     *)
(* forced pushes that meet an open pull request in a race only.            *)
(***************************************************************************)
EXTENDS PrAutomation, TLAPS

Labels == {"idle", "build", "fetch", "look", "update", "tag", "list", "create", "ended", "failed"}

\* What the trees, the tag file and the -pushed files of a job have to do with each other.
\* A clone leaves upstream's main in the tags of images its job built, and in their
\* lists, unless main was not what the job had checked out.
Tree(j) ==
  /\ pc[j] = "tag" => todo[j] \subseteq built[j]
  /\ \A i \in built[j] : <<i, TagOf(j, "build")>> \in registry
  /\ Named(base[j]) /\ Named(clone[j])
  /\ \A i \in Images :
       /\ clone[j][i].tag # base[j][i].tag => i \in built[j]
       /\ clone[j][i].packages # base[j][i].packages => i \in built[j] \/ j \in moved
       /\ pc[j] \in {"look", "update", "tag"} /\ checkout[j][i].packages # base[j][i].packages
          => i \in built[j] \/ j \in moved
TreesInv == \A j \in Jobs : Tree(j)

\* The same of the branch, whose job may be gone.
BranchInv ==
  branch # Nil =>
    \A i \in Images :
      /\ branch.holds[i].tag # branch.from[i].tag => i \in built[branch.by]
      /\ branch.holds[i].packages # branch.from[i].packages
         => i \in built[branch.by] \/ branch.by \in moved

\* A periodic job that may push had looked for a pull request before this one was opened:
\* it is not one that builds first.
LateInv ==
  /\ \A j \in Periodic :
       pc[j] # "build" /\ (pc[j] \in {"idle", "fetch"} => built[j] = {})
  /\ \A j \in Periodic :
       pc[j] \in {"update", "tag", "list", "create"} => pr = Nil \/ j \in pr.late
  /\ \A j \in Jobs : pc[j] \in {"list", "create"} => branch # Nil

Inv == TypeOK /\ TagsExist /\ TreesInv /\ BranchInv /\ LateInv

-----------------------------------------------------------------------------
(* The first state *)

LEMMA InitInv == Init => Inv
<1> SUFFICES ASSUME Init PROVE Inv
  OBVIOUS
<1> DEFINE start == [i \in Images |-> [tag |-> First, packages |-> First]]
<1>1. start \in Repositories
  BY DEF Repositories
<1>2. /\ main = start /\ checkout = [j \in Jobs |-> start]
      /\ base = [j \in Jobs |-> start] /\ clone = [j \in Jobs |-> start]
  BY DEF Init
<1>3. Named(start)
  BY ConstantsAssumption DEF Named
<1>4. MaxRebuilds \in Nat
  BY ConstantsAssumption
<1>5. TypeOK
  <2> HIDE DEF start
  <2>1. registry \subseteq Images \X (Tags \cup {First})
    BY DEF Init
  <2> QED BY <1>1, <1>2, <1>4, <2>1 DEF Init, TypeOK
<1>6. TagsExist /\ TreesInv
  <2> HIDE DEF start
  <2>1. Named(main) /\ branch = Nil
    BY <1>2, <1>3 DEF Init
  <2>2. \A j \in Jobs : base[j] = start /\ clone[j] = start /\ built[j] = {} /\ pc[j] = "idle"
    BY <1>2 DEF Init
  <2>3. \A j \in Jobs : Named(base[j]) /\ Named(clone[j])
    BY <2>2, <1>3
  <2> QED BY <2>1, <2>2, <2>3 DEF TagsExist, TreesInv, Tree
<1>7. BranchInv /\ LateInv
  BY ConstantsAssumption DEF Init, BranchInv, LateInv
<1> QED BY <1>5, <1>6, <1>7 DEF Inv

-----------------------------------------------------------------------------
(* Tags, and entries of a repository *)

\* A job with an IMAGE_TAG has one tag, which is no date.
LEMMA TagsOfJobs ==
  ASSUME NEW j \in Jobs, NEW at \in {"build", "create-pr"}
  PROVE  /\ TagOf(j, at) \in Tags
         /\ TagOf(j, at) \in Jobs => TagOf(j, at) = TagOf(j, "build")
<1>1. CASE j \in Dated
  <2>1. TagOf(j, at) = <<j, at>> /\ <<j, at>> \in Dates
    BY <1>1 DEF TagOf, Dates
  <2> QED BY <2>1, ConstantsAssumption DEF Tags
<1>2. CASE j \notin Dated
  BY <1>2 DEF TagOf, Tags
<1> QED BY <1>1, <1>2

Entries == [tag : Tags \cup {First, Null}, packages : Jobs \cup {First}]

LEMMA EntryWithPackages ==
  ASSUME NEW e \in Entries, NEW p
  PROVE  [e EXCEPT !.packages = p] = [tag |-> e.tag, packages |-> p]
BY DEF Entries

\* What List and UpdateBaseImage make of a repository.
LEMMA OneEntry ==
  ASSUME NEW r \in Repositories, NEW i \in Images, NEW j \in Jobs, NEW t \in Tags
  PROVE  /\ [r EXCEPT ![i].packages = j] \in Repositories
         /\ [r EXCEPT ![i].packages = j][i].packages = j
         /\ [r EXCEPT ![i].tag = t] \in Repositories
         /\ [r EXCEPT ![i].tag = t][i].tag = t
         /\ [r EXCEPT ![i].tag = t][i].packages = r[i].packages
         /\ \A x \in Images \ {i} : /\ [r EXCEPT ![i].packages = j][x] = r[x]
                                   /\ [r EXCEPT ![i].tag = t][x] = r[x]
<1>2. [r EXCEPT ![i].packages = j] \in Repositories /\ [r EXCEPT ![i].tag = t] \in Repositories
  BY DEF Repositories
<1>3. \A x \in Images \ {i} : [r EXCEPT ![i].packages = j][x] = r[x] /\ [r EXCEPT ![i].tag = t][x] = r[x]
  BY DEF Repositories
<1>4. [r EXCEPT ![i].packages = j][i].packages = j
  BY DEF Repositories
<1>5. [r EXCEPT ![i].tag = t][i].tag = t
  BY DEF Repositories
<1>6. [r EXCEPT ![i].tag = t][i].packages = r[i].packages
  BY DEF Repositories
<1> QED BY ONLY <1>2, <1>3, <1>4, <1>5, <1>6

LEMMA CopiedLists ==
  ASSUME NEW j \in Jobs, clone[j] \in Repositories, checkout[j] \in Repositories
  PROVE  /\ CopyLists(j) \in Repositories
         /\ \A x \in Images : /\ CopyLists(j)[x].tag = clone[j][x].tag
                             /\ CopyLists(j)[x].packages = checkout[j][x].packages
<1>1. ASSUME NEW x \in Images
      PROVE  [clone[j][x] EXCEPT !.packages = checkout[j][x].packages]
             = [tag |-> clone[j][x].tag, packages |-> checkout[j][x].packages]
  BY EntryWithPackages DEF Entries, Repositories
<1>2. CopyLists(j) = [x \in Images |-> [tag |-> clone[j][x].tag, packages |-> checkout[j][x].packages]]
  BY <1>1 DEF CopyLists
<1> QED BY <1>2 DEF Repositories

-----------------------------------------------------------------------------
(* What a step leaves alone *)

LEMMA NamedKept ==
  ASSUME NEW R, Named(R), registry \subseteq registry'
  PROVE  Named(R)'
BY DEF Named

\* A job that goes on to none of the steps Tree speaks of.
LEMMA TreeKept ==
  ASSUME NEW j \in Jobs, Tree(j), registry \subseteq registry', moved \subseteq moved',
         built'[j] = built[j], todo'[j] = todo[j], base'[j] = base[j], clone'[j] = clone[j],
         checkout'[j] = checkout[j],
         pc'[j] = "tag" => pc[j] = "tag",
         pc'[j] \in {"look", "update", "tag"} => pc[j] \in {"look", "update", "tag"}
  PROVE  Tree(j)'
<1>1. Named(base[j])' /\ Named(clone[j])'
  <2>1. \A i \in Images : base'[j][i].tag \in Jobs => <<i, base'[j][i].tag>> \in registry'
    BY DEF Tree, Named
  <2>2. \A i \in Images : clone'[j][i].tag \in Jobs => <<i, clone'[j][i].tag>> \in registry'
    BY DEF Tree, Named
  <2> QED BY <2>1, <2>2 DEF Named
<1>2. /\ pc'[j] = "tag" => todo'[j] \subseteq built'[j]
      /\ \A i \in built'[j] : <<i, TagOf(j, "build")>> \in registry'
  BY DEF Tree
<1>3. ASSUME NEW i \in Images
      PROVE  /\ clone'[j][i].tag # base'[j][i].tag => i \in built'[j]
             /\ clone'[j][i].packages # base'[j][i].packages => i \in built'[j] \/ j \in moved'
             /\ pc'[j] \in {"look", "update", "tag"} /\ checkout'[j][i].packages # base'[j][i].packages
                => i \in built'[j] \/ j \in moved'
  BY DEF Tree
<1> QED BY <1>1, <1>2, <1>3 DEF Tree

\* The branch and main stay, and nothing is forgotten.
LEMMA BranchKept ==
  ASSUME Inv, UNCHANGED branch, main' = main, registry \subseteq registry', moved \subseteq moved',
         \A j \in Jobs : built[j] \subseteq built'[j]
  PROVE  TagsExist' /\ BranchInv'
<1>1. TagsExist'
  BY DEF Inv, TagsExist, Named
<1>2. branch # Nil => branch.by \in Jobs
  BY ConstantsAssumption DEF Inv, TypeOK, Branches
<1>3. BranchInv'
  BY <1>2 DEF Inv, BranchInv
<1> QED BY <1>1, <1>3

-----------------------------------------------------------------------------
(* The job's steps *)

LEMMA StartInv == ASSUME Inv, NEW j \in Jobs, Start(j) PROVE Inv'
<1>1. TypeOK'
  BY DEF Inv, TypeOK, Start, Goto, shared
<1>2. TagsExist' /\ BranchInv'
  BY BranchKept DEF Start, shared
<1>3. LateInv'
  <2>1. pc[j] = "idle" /\ UNCHANGED <<branch, pr, built>>
    BY DEF Start, shared
  <2>2. \A k \in Jobs : IF k = j THEN pc'[k] \in {"fetch", "build"} /\ (k \in Periodic => pc'[k] = "fetch")
                        ELSE pc'[k] = pc[k]
    BY DEF Inv, TypeOK, Start, Goto
  <2> QED BY <2>1, <2>2, ConstantsAssumption DEF Inv, LateInv
<1>4. ASSUME NEW k \in Jobs PROVE Tree(k)'
  <2>1. Tree(k)
    BY DEF Inv, TreesInv
  <2>2. CASE k # j
    BY <2>1, <2>2, TreeKept DEF Inv, TypeOK, Start, Goto, shared
  <2>3. CASE k = j
    <3>1. pc'[k] \in {"fetch", "build"} /\ UNCHANGED <<registry, base, clone, todo, built, moved>>
      BY <2>3 DEF Inv, TypeOK, Start, Goto, shared
    <3> QED BY <2>1, <3>1 DEF Tree, Named
  <2> QED BY <2>2, <2>3
<1> QED BY <1>1, <1>2, <1>3, <1>4 DEF Inv, TreesInv

\* An image of `make release`: its tag is in the registry before its -pushed file is written.
LEMMA BuildInv == ASSUME Inv, NEW j \in Jobs, NEW i \in Images, Build(j, i) PROVE Inv'
<1> DEFINE tag == TagOf(j, "build")
<1>1. /\ pc[j] = "build" /\ i \in todo[j]
      /\ checkout' \in {checkout, [checkout EXCEPT ![j][i].packages = j]}
      /\ registry \subseteq registry' /\ registry' \subseteq registry \cup {<<i, tag>>}
      /\ UNCHANGED <<main, rebuilds, branch, pr, base, clone, moved>>
  BY DEF Build
<1>2. \/ /\ <<i, tag>> \in registry' /\ todo' = [todo EXCEPT ![j] = @ \ {i}]
         /\ built' = [built EXCEPT ![j] = @ \cup {i}]
         /\ pc' = [pc EXCEPT ![j] = "fetch"] \/ pc' = [pc EXCEPT ![j] = "build"]
      \/ pc' = [pc EXCEPT ![j] = "failed"] /\ UNCHANGED <<todo, built>>
  BY DEF Build, Goto
<1>3. checkout' \in [Jobs -> Repositories] /\ \A k \in Jobs \ {j} : checkout'[k] = checkout[k]
  <2>1. tag \in Tags
    BY TagsOfJobs
  <2>2. [checkout[j] EXCEPT ![i].packages = j] \in Repositories
    BY <2>1, OneEntry DEF Inv, TypeOK
  <2>3. CASE checkout' = checkout
    BY <2>3 DEF Inv, TypeOK
  <2>4. CASE checkout' = [checkout EXCEPT ![j][i].packages = j]
    <3>1. checkout' = [checkout EXCEPT ![j] = [checkout[j] EXCEPT ![i].packages = j]]
      BY <2>4 DEF Inv, TypeOK, Repositories
    <3> QED BY <2>2, <3>1 DEF Inv, TypeOK
  <2> QED BY <1>1, <2>3, <2>4
<1>4. TypeOK'
  <2>1. tag \in Tags
    BY TagsOfJobs
  <2>2. registry' \subseteq Images \X (Tags \cup {First})
    <3> HIDE DEF tag
    <3> QED BY <1>1, <2>1 DEF Inv, TypeOK
  <2>3. built' \in [Jobs -> SUBSET Images] /\ todo' \in [Jobs -> SUBSET Images]
    BY <1>2 DEF Inv, TypeOK
  <2>4. pc' \in [Jobs -> Labels]
    BY <1>2 DEF Inv, TypeOK, Labels
  <2> QED BY <1>1, <1>3, <2>2, <2>3, <2>4 DEF Inv, TypeOK, Labels
<1>5. \A k \in Jobs : built[k] \subseteq built'[k]
  BY <1>2 DEF Inv, TypeOK
<1>6. TagsExist' /\ BranchInv'
  BY <1>1, <1>5, BranchKept
<1>7. \A k \in Jobs : IF k = j THEN pc'[k] \in {"fetch", "build", "failed"} ELSE pc'[k] = pc[k]
  BY <1>2 DEF Inv, TypeOK
<1>8. LateInv'
  <2>1. j \notin Periodic /\ \A k \in Jobs \ {j} : built'[k] = built[k]
    BY <1>1, <1>2 DEF Inv, TypeOK, LateInv
  <2> QED BY <1>1, <1>7, <2>1, ConstantsAssumption DEF Inv, LateInv
<1>9. ASSUME NEW k \in Jobs PROVE Tree(k)'
  <2>1. Tree(k)
    BY DEF Inv, TreesInv
  <2>2. CASE k # j
    <3>1. built'[k] = built[k] /\ todo'[k] = todo[k]
      BY <1>2, <2>2 DEF Inv, TypeOK
    <3> QED BY <1>1, <1>3, <1>7, <2>1, <2>2, <3>1, TreeKept
  <2>3. CASE k = j
    <3>1. \A x \in built'[j] : x \in built[j] \/ (x = i /\ <<i, tag>> \in registry')
      BY <1>2 DEF Inv, TypeOK
    <3>2. \A x \in built'[j] : <<x, tag>> \in registry'
      BY <1>1, <2>1, <2>3, <3>1 DEF Tree
    <3> QED BY <1>1, <1>5, <1>7, <2>1, <2>3, <3>2 DEF Tree, Named
  <2> QED BY <2>2, <2>3
<1> QED BY <1>4, <1>6, <1>8, <1>9 DEF Inv, TreesInv

LEMMA UpdateLocalBranchInv == ASSUME Inv, NEW j \in Jobs, UpdateLocalBranch(j) PROVE Inv'
<1>1. TypeOK'
  BY DEF Inv, TypeOK, UpdateLocalBranch, Tagged, Goto, shared
<1>2. TagsExist' /\ BranchInv'
  BY BranchKept DEF UpdateLocalBranch, shared
<1>3. LateInv'
  <2>1. pc[j] = "fetch" /\ UNCHANGED <<branch, pr, built>>
    BY DEF UpdateLocalBranch, shared
  <2>2. \A k \in Jobs : IF k = j THEN pc'[k] = "look" \/ (pc'[k] = "tag" /\ built[k] # {})
                        ELSE pc'[k] = pc[k]
    BY DEF Inv, TypeOK, UpdateLocalBranch, Goto
  <2> QED BY <2>1, <2>2, ConstantsAssumption DEF Inv, LateInv
<1>4. ASSUME NEW k \in Jobs PROVE Tree(k)'
  <2>1. Tree(k)
    BY DEF Inv, TreesInv
  <2>2. CASE k # j
    BY <2>1, <2>2, TreeKept DEF Inv, TypeOK, UpdateLocalBranch, Goto, shared
  <2>3. CASE k = j
    <3>1. /\ base'[k] = main /\ clone'[k] = main
          /\ pc'[k] = "look" \/ (pc'[k] = "tag" /\ todo'[k] = built[k])
          /\ (\A i \in Images \ built[k] : main[i] = checkout[k][i]) \/ k \in moved'
          /\ UNCHANGED <<registry, checkout, built>>
      BY <2>3 DEF Inv, TypeOK, UpdateLocalBranch, Tagged, Goto, shared
    <3>2. Named(main)
      BY DEF Inv, TagsExist
    <3> QED BY <2>1, <3>1, <3>2 DEF Tree, Named
  <2> QED BY <2>2, <2>3
<1> QED BY <1>1, <1>2, <1>3, <1>4 DEF Inv, TreesInv

LEMMA OpenPrCheckInv == ASSUME Inv, NEW j \in Jobs, OpenPrCheck(j) PROVE Inv'
<1>1. TypeOK'
  BY DEF Inv, TypeOK, OpenPrCheck, Goto, shared, trees
<1>2. TagsExist' /\ BranchInv'
  BY BranchKept DEF OpenPrCheck, shared
<1>3. LateInv'
  BY DEF Inv, TypeOK, LateInv, OpenPrCheck, NotRefused, Goto, shared
<1>4. ASSUME NEW k \in Jobs PROVE Tree(k)'
  <2>1. Tree(k)
    BY DEF Inv, TreesInv
  <2> QED BY <2>1, TreeKept DEF Inv, TypeOK, OpenPrCheck, Goto, shared, trees
<1> QED BY <1>1, <1>2, <1>3, <1>4 DEF Inv, TreesInv

LEMMA UpdatedInv == ASSUME Inv, NEW j \in Jobs, Updated(j) PROVE Inv'
<1>1. TypeOK'
  BY DEF Inv, TypeOK, Updated, Tagged, Goto, shared, trees
<1>2. TagsExist' /\ BranchInv'
  BY BranchKept DEF Updated, shared
<1>3. LateInv'
  BY DEF Inv, TypeOK, LateInv, Updated, Goto, shared
<1>4. ASSUME NEW k \in Jobs PROVE Tree(k)'
  <2>1. Tree(k)
    BY DEF Inv, TreesInv
  <2>2. CASE k # j
    BY <2>1, <2>2, TreeKept DEF Inv, TypeOK, Updated, Goto, shared, trees
  <2>3. CASE k = j
    <3>1. /\ pc[k] = "update" /\ pc'[k] = "tag" /\ todo'[k] = built[k]
          /\ UNCHANGED <<registry, base, clone, checkout, built, moved>>
      BY <2>3 DEF Inv, TypeOK, Updated, Tagged, Goto, shared, trees
    <3> QED BY <2>1, <3>1 DEF Tree, Named
  <2> QED BY <2>2, <2>3
<1> QED BY <1>1, <1>2, <1>3, <1>4 DEF Inv, TreesInv

LEMMA ListPullRequestsInv == ASSUME Inv, NEW j \in Jobs, ListPullRequests(j) PROVE Inv'
<1>1. TypeOK'
  BY DEF Inv, TypeOK, ListPullRequests, Goto, shared, trees
<1>2. TagsExist' /\ BranchInv'
  BY BranchKept DEF ListPullRequests, shared
<1>3. LateInv'
  BY DEF Inv, TypeOK, LateInv, ListPullRequests, Goto, shared
<1>4. ASSUME NEW k \in Jobs PROVE Tree(k)'
  <2>1. Tree(k)
    BY DEF Inv, TreesInv
  <2> QED BY <2>1, TreeKept DEF Inv, TypeOK, ListPullRequests, Goto, shared, trees
<1> QED BY <1>1, <1>2, <1>3, <1>4 DEF Inv, TreesInv

LEMMA DieInv == ASSUME Inv, NEW j \in Jobs, Die(j) PROVE Inv'
<1>1. TypeOK'
  BY DEF Inv, TypeOK, Die, Goto, shared, trees
<1>2. TagsExist' /\ BranchInv'
  BY BranchKept DEF Die, shared
<1>3. LateInv'
  BY DEF Inv, TypeOK, LateInv, Die, Goto, shared
<1>4. ASSUME NEW k \in Jobs PROVE Tree(k)'
  <2>1. Tree(k)
    BY DEF Inv, TreesInv
  <2> QED BY <2>1, TreeKept DEF Inv, TypeOK, Die, Goto, shared, trees
<1> QED BY <1>1, <1>2, <1>3, <1>4 DEF Inv, TreesInv

\* What a check writes, and a build that may follow.
LEMMA UpdateInv == ASSUME Inv, NEW j \in Jobs, NEW i \in Images, Update(j, i) PROVE Inv'
<1> USE DEF Goto
<1> DEFINE tag == TagOf(j, "build")
<1>1. PICK answer \in Answers(j, i) : Update(j, i)!2!(answer)
  BY DEF Update
<1>2. /\ checkout' = [checkout EXCEPT ![j] = List(j, i, answer)]
      /\ registry \subseteq registry' /\ registry' \subseteq registry \cup {<<i, tag>>}
      /\ \/ pc' = pc /\ built' = built
         \/ /\ answer = "updates" /\ pc' = pc
            /\ <<i, tag>> \in registry' /\ built' = [built EXCEPT ![j] = @ \cup {i}]
         \/ pc' = [pc EXCEPT ![j] = "failed"] /\ built' = built
      /\ todo' = todo \/ todo' = [todo EXCEPT ![j] = @ \ {i}]
      /\ UNCHANGED <<main, rebuilds, branch, pr, base, clone, moved>>
      /\ pc[j] = "update"
  <2>1. pc[j] = "update" /\ UNCHANGED <<main, rebuilds, branch, pr, base, clone, moved>>
    BY DEF Update
  <2>2. CASE answer = "error" /\ Goto(j, "failed") /\ UNCHANGED <<registry, todo, built>>
    BY <1>1, <2>1, <2>2
  <2>3. CASE answer = "none" /\ todo' = [todo EXCEPT ![j] = @ \ {i}] /\ UNCHANGED <<registry, pc, built>>
    BY <1>1, <2>1, <2>3
  <2>4. CASE /\ answer = "updates"
             /\ registry' = registry \cup {<<i, tag>>}
             /\ todo' = [todo EXCEPT ![j] = @ \ {i}]
             /\ built' = [built EXCEPT ![j] = @ \cup {i}]
             /\ UNCHANGED pc
    BY <1>1, <2>1, <2>4
  <2>5. CASE /\ answer = "updates"
             /\ registry' \in {registry, registry \cup {<<i, tag>>}}
             /\ Goto(j, "failed")
             /\ UNCHANGED <<todo, built>>
    BY <1>1, <2>1, <2>5
  <2> QED BY <1>1, <2>2, <2>3, <2>4, <2>5
<1>3. List(j, i, answer) \in Repositories
  <2>1. tag \in Tags
    BY TagsOfJobs
  <2> HIDE DEF tag
  <2> QED BY <2>1, OneEntry DEF Inv, TypeOK, List
<1>4. TypeOK'
  <2>1. checkout' \in [Jobs -> Repositories]
    BY <1>2, <1>3 DEF Inv, TypeOK
  <2>2. registry' \subseteq Images \X (Tags \cup {First})
    <3>1. tag \in Tags
      BY TagsOfJobs
    <3> HIDE DEF tag
    <3> QED BY <1>2, <3>1 DEF Inv, TypeOK
  <2>3. built' \in [Jobs -> SUBSET Images] /\ todo' \in [Jobs -> SUBSET Images]
    BY <1>2 DEF Inv, TypeOK
  <2>4. pc' \in [Jobs -> Labels]
    BY <1>2 DEF Inv, TypeOK, Labels
  <2> QED BY <1>2, <2>1, <2>2, <2>3, <2>4 DEF Inv, TypeOK, Labels
<1>5. \A k \in Jobs : built[k] \subseteq built'[k]
  BY <1>2 DEF Inv, TypeOK
<1>6. TagsExist' /\ BranchInv'
  BY <1>2, <1>5, BranchKept
<1>7. \A k \in Jobs : pc'[k] = pc[k] \/ pc'[k] = "failed"
  BY <1>2 DEF Inv, TypeOK
<1>8. LateInv'
  <2>1. \A k \in Jobs : built'[k] = built[k] \/ pc'[k] \in {"update", "failed"}
    BY <1>2 DEF Inv, TypeOK
  <2> QED BY <1>2, <1>7, <2>1, ConstantsAssumption DEF Inv, LateInv
<1>9. ASSUME NEW k \in Jobs PROVE Tree(k)'
  <2>1. Tree(k)
    BY DEF Inv, TreesInv
  <2>2. CASE k # j
    <3>1. built'[k] = built[k] /\ todo'[k] = todo[k] /\ checkout'[k] = checkout[k]
      BY <1>2, <2>2 DEF Inv, TypeOK
    <3> QED BY <1>2, <1>7, <2>1, <3>1, TreeKept
  <2>3. CASE k = j
    <3>2. /\ pc[j] = "update" /\ pc'[j] \in {"update", "failed"}
          /\ \A x \in built'[j] : x \in built[j] \/ (x = i /\ <<i, tag>> \in registry')
      BY <1>2 DEF Inv, TypeOK
    <3>3. ASSUME NEW x \in Images
          PROVE  pc'[j] = "update" /\ checkout'[j][x].packages # base[j][x].packages
                 => x \in built'[j] \/ j \in moved
      <4>1. CASE answer = "updates" /\ pc'[j] = "update" /\ x = i
        BY <1>1, <3>2, <4>1 DEF Inv, TypeOK
      <4>2. CASE answer # "updates" \/ x # i
        <5>1. checkout'[j][x] = checkout[j][x]
          BY <1>2, <4>2 DEF Inv, TypeOK, List, Repositories
        <5> QED BY <1>5, <2>1, <2>3, <3>2, <5>1 DEF Tree
      <4> QED BY <4>1, <4>2
    <3>4. Named(base[j])' /\ Named(clone[j])'
      <4>1. base'[j] = base[j] /\ clone'[j] = clone[j]
        BY <1>2
      <4> QED BY <1>2, <2>1, <2>3, <4>1 DEF Tree, Named
    <3>5. \A x \in Images :
            /\ clone'[j][x].tag # base'[j][x].tag => x \in built'[j]
            /\ clone'[j][x].packages # base'[j][x].packages => x \in built'[j] \/ j \in moved'
      BY <1>2, <1>5, <2>1, <2>3 DEF Tree
    <3>7. \A x \in built'[j] : <<x, tag>> \in registry'
      BY <1>2, <2>1, <2>3, <3>2 DEF Tree
    <3>8. UNCHANGED <<base, moved>>
      BY <1>2
    <3> QED BY <2>3, <3>2, <3>3, <3>4, <3>5, <3>7, <3>8 DEF Tree
  <2> QED BY <2>2, <2>3
<1> QED BY <1>4, <1>6, <1>8, <1>9 DEF Inv, TreesInv

\* The copied lists, and the tag.
LEMMA UpdateBaseImageInv ==
  ASSUME Inv, NEW j \in Jobs, NEW i \in Images, UpdateBaseImage(j, i)
  PROVE  Inv'
<1> DEFINE tag == TagOf(j, "create-pr")
<1>0. tag \in Tags /\ (tag \in Jobs => tag = TagOf(j, "build"))
  BY TagsOfJobs
<1>1. /\ pc[j] = "tag" /\ i \in todo[j]
      /\ todo' = [todo EXCEPT ![j] = @ \ {i}]
      /\ UNCHANGED <<main, rebuilds, registry, branch, pr, pc, checkout, base, built, moved>>
      /\ clone' \in {clone, [clone EXCEPT ![j] = CopyLists(j)],
                     [clone EXCEPT ![j] = [CopyLists(j) EXCEPT ![i].tag = tag]]}
  BY DEF UpdateBaseImage, shared
<1>2. CopyLists(j) \in Repositories
  BY CopiedLists DEF Inv, TypeOK
<1>3. \A x \in Images : /\ CopyLists(j)[x].tag = clone[j][x].tag
                       /\ CopyLists(j)[x].packages = checkout[j][x].packages
  BY CopiedLists DEF Inv, TypeOK
<1>4. clone' \in [Jobs -> Repositories] /\ \A k \in Jobs : k # j => clone'[k] = clone[k]
  <2>1. [CopyLists(j) EXCEPT ![i].tag = tag] \in Repositories
    BY <1>0, <1>2, OneEntry
  <2> HIDE DEF CopyLists, tag
  <2> QED BY <1>1, <1>2, <2>1 DEF Inv, TypeOK
<1>5. \A x \in Images :
        /\ clone'[j][x].tag = clone[j][x].tag \/ (x = i /\ clone'[j][x].tag = tag)
        /\ clone'[j][x].packages \in {clone[j][x].packages, checkout[j][x].packages}
  <2>1. CASE clone' = clone
    BY <2>1
  <2>2. CASE clone' = [clone EXCEPT ![j] = CopyLists(j)]
    <3>1. clone'[j] = CopyLists(j)
      BY <2>2 DEF Inv, TypeOK
    <3>2. ASSUME NEW x \in Images
          PROVE  /\ clone'[j][x].tag = clone[j][x].tag
                 /\ clone'[j][x].packages = checkout[j][x].packages
      BY <1>3, <3>1
    <3> QED BY <3>2
  <2>3. CASE clone' = [clone EXCEPT ![j] = [CopyLists(j) EXCEPT ![i].tag = tag]]
    <3>1. clone'[j] = [CopyLists(j) EXCEPT ![i].tag = tag]
      BY <2>3 DEF Inv, TypeOK
    <3>2. /\ clone'[j][i].tag = tag /\ clone'[j][i].packages = CopyLists(j)[i].packages
          /\ \A x \in Images \ {i} : clone'[j][x] = CopyLists(j)[x]
      BY <1>0, <1>2, <3>1, OneEntry
    <3>3. ASSUME NEW x \in Images
          PROVE  /\ clone'[j][x].tag = clone[j][x].tag \/ (x = i /\ clone'[j][x].tag = tag)
                 /\ clone'[j][x].packages = checkout[j][x].packages
      BY <1>3, <3>2
    <3> QED BY <3>3
  <2> QED BY <1>1, <2>1, <2>2, <2>3
<1>6. TypeOK'
  BY <1>1, <1>4 DEF Inv, TypeOK
<1>7. TagsExist' /\ BranchInv'
  BY <1>1, BranchKept
<1>8. LateInv'
  BY <1>1 DEF Inv, LateInv
<1>9. ASSUME NEW k \in Jobs PROVE Tree(k)'
  <2>1. Tree(k)
    BY DEF Inv, TreesInv
  <2>2. CASE k # j
    BY <1>1, <1>4, <2>1, <2>2, TreeKept DEF Inv, TypeOK
  <2>3. CASE k = j
    <3>1. i \in built[j] /\ <<i, TagOf(j, "build")>> \in registry
      BY <1>1, <2>1, <2>3 DEF Tree
    <3>2. Named(clone[j])' /\ Named(base[j])'
      <4> HIDE DEF tag
      <4> QED BY <1>0, <1>1, <1>5, <2>1, <2>3, <3>1 DEF Tree, Named
    <3>3. \A x \in Images :
            /\ clone'[j][x].tag # base[j][x].tag => x \in built[j]
            /\ clone'[j][x].packages # base[j][x].packages => x \in built[j] \/ j \in moved
      BY <1>1, <1>5, <2>1, <2>3, <3>1 DEF Tree
    <3>4. todo'[j] \subseteq built[j]
      BY <1>1, <2>1, <2>3 DEF Tree, Inv, TypeOK
    <3> QED BY <1>1, <2>1, <2>3, <3>2, <3>3, <3>4 DEF Tree
  <2> QED BY <2>2, <2>3
<1> QED BY <1>6, <1>7, <1>8, <1>9 DEF Inv, TreesInv

\* The branch is what the clone is; a clone nobody wrote to is not pushed.
LEMMA PushInv == ASSUME Inv, NEW j \in Jobs, Push(j) PROVE Inv'
<1>1. Tree(j) /\ pc[j] = "tag"
  BY DEF Inv, TreesInv, Push
<1>2. /\ UNCHANGED <<main, rebuilds, registry, pr, trees, todo, built, moved>>
      /\ \/ branch' = branch /\ (Goto(j, "ended") \/ Goto(j, "failed"))
         \/ clone[j] # base[j] /\ Goto(j, "list")
            /\ branch' = [by |-> j, from |-> base[j], holds |-> clone[j]]
  BY DEF Push
<1>3. CASE branch' = branch /\ (Goto(j, "ended") \/ Goto(j, "failed"))
  <2>1. TypeOK'
    BY <1>2, <1>3 DEF Inv, TypeOK, Goto, trees
  <2>2. TagsExist' /\ BranchInv'
    BY <1>2, <1>3, BranchKept
  <2>3. LateInv'
    <3>1. \A k \in Jobs : pc'[k] \in {pc[k], "ended", "failed"}
      BY <1>3 DEF Inv, TypeOK, Goto
    <3> QED BY <1>2, <1>3, <3>1, ConstantsAssumption DEF Inv, LateInv
  <2>4. ASSUME NEW k \in Jobs PROVE Tree(k)'
    <3>1. Tree(k)
      BY DEF Inv, TreesInv
    <3> QED BY <1>2, <1>3, <3>1, TreeKept DEF Inv, TypeOK, Goto, trees
  <2> QED BY <2>1, <2>2, <2>3, <2>4 DEF Inv, TreesInv
<1>4. CASE /\ clone[j] # base[j] /\ Goto(j, "list")
           /\ branch' = [by |-> j, from |-> base[j], holds |-> clone[j]]
  <2>1. branch' \in Branches /\ branch' # Nil /\ branch'.by = j
        /\ branch'.from = base[j] /\ branch'.holds = clone[j]
    <3>1. base[j] \in Repositories /\ clone[j] \in Repositories
      BY DEF Inv, TypeOK
    <3>2. branch' \in Branches
      BY <1>4, <3>1 DEF Branches
    <3> QED BY <1>4, <3>2, NilAssumption
  <2>2. TypeOK'
    <3>1. pc' \in [Jobs -> Labels]
      BY <1>4 DEF Inv, TypeOK, Labels, Goto
    <3> QED BY <1>2, <2>1, <3>1 DEF Inv, TypeOK, Labels, trees
  <2>3. TagsExist'
    <3>1. Named(main)' /\ Named(clone[j])'
      BY <1>1, <1>2 DEF Inv, TagsExist, Tree, Named, trees
    <3>2. Named(branch.holds)'
      BY <1>2, <2>1, <3>1 DEF Named, trees
    <3> QED BY <3>1, <3>2 DEF TagsExist
  <2>4. BranchInv'
    BY <1>1, <1>2, <2>1 DEF BranchInv, Tree, trees
  <2>5. LateInv'
    <3>1. \A k \in Jobs : pc'[k] = IF k = j THEN "list" ELSE pc[k]
      BY <1>4 DEF Inv, TypeOK, Goto
    <3> QED BY <1>1, <1>2, <2>1, <3>1, ConstantsAssumption DEF Inv, LateInv
  <2>6. ASSUME NEW k \in Jobs PROVE Tree(k)'
    <3>1. Tree(k)
      BY DEF Inv, TreesInv
    <3> QED BY <1>2, <1>4, <3>1, TreeKept DEF Inv, TypeOK, Goto, trees
  <2> QED BY <2>2, <2>3, <2>4, <2>5, <2>6 DEF Inv, TreesInv
<1> QED BY <1>2, <1>3, <1>4

LEMMA CreatePullRequestInv == ASSUME Inv, NEW j \in Jobs, CreatePullRequest(j) PROVE Inv'
<1>1. /\ pc[j] = "create" /\ UNCHANGED <<main, rebuilds, registry, branch, trees, todo, built, moved>>
      /\ pc' = [pc EXCEPT ![j] = "ended"] \/ pc' = [pc EXCEPT ![j] = "failed"]
      /\ \/ pr' = pr
         \/ pr' = [late |-> {k \in Periodic : pc[k] \in {"update", "tag", "list", "create"}}]
  BY DEF CreatePullRequest, Goto
<1>2. branch # Nil
  BY <1>1 DEF Inv, LateInv
<1>3. pr' \in PullRequests \cup {Nil}
  BY <1>1 DEF Inv, TypeOK, PullRequests
<1>4. TypeOK'
  BY <1>1, <1>2, <1>3 DEF Inv, TypeOK, trees
<1>5. TagsExist' /\ BranchInv'
  BY <1>1, BranchKept
<1>6. LateInv'
  <2>1. \A k \in Jobs : pc'[k] \in {"update", "tag", "list", "create"} => pc'[k] = pc[k]
    BY <1>1 DEF Inv, TypeOK
  <2>2. ASSUME NEW k \in Periodic, pc'[k] \in {"update", "tag", "list", "create"}
        PROVE  pr' = Nil \/ k \in pr'.late
    <3>1. k \in Jobs /\ k \in Periodic /\ pc[k] \in {"update", "tag", "list", "create"}
      BY <2>1, <2>2, ConstantsAssumption
    <3> QED BY <1>1, <3>1, <2>2 DEF Inv, LateInv
  <2>3. \A k \in Jobs : pc'[k] \in {pc[k], "ended", "failed"}
    BY <1>1 DEF Inv, TypeOK
  <2> QED BY <1>1, <1>2, <2>2, <2>3, ConstantsAssumption DEF Inv, LateInv
<1>7. ASSUME NEW k \in Jobs PROVE Tree(k)'
  <2>1. Tree(k)
    BY DEF Inv, TreesInv
  <2> QED BY <1>1, <2>1, TreeKept DEF Inv, TypeOK, trees
<1> QED BY <1>4, <1>5, <1>6, <1>7 DEF Inv, TreesInv

-----------------------------------------------------------------------------
(* The steps of people *)

\* None of them touches a job.
LEMMA TreesKept ==
  ASSUME Inv, UNCHANGED <<registry, pc, trees, todo, built, moved>>
  PROVE  TreesInv'
<1> SUFFICES ASSUME NEW k \in Jobs PROVE Tree(k)'
  BY DEF TreesInv
<1>1. Tree(k)
  BY DEF Inv, TreesInv
<1> QED BY <1>1, TreeKept DEF trees

\* What a merge makes of an entry comes from main or from the branch.
LEMMA MergeInv == ASSUME Inv, Merge PROVE Inv'
<1>1. /\ pr # Nil /\ pr' = Nil
      /\ UNCHANGED <<rebuilds, registry, branch, pc, trees, todo, built, moved>>
      /\ main' = [i \in Images |->
           [tag |-> Take(branch.from[i].tag, main[i].tag, branch.holds[i].tag),
            packages |-> Take(branch.from[i].packages, main[i].packages, branch.holds[i].packages)]]
  BY DEF Merge
<1>2. /\ branch # Nil /\ branch \in Branches
      /\ branch.holds \in Repositories /\ main \in Repositories
  BY <1>1 DEF Inv, TypeOK, Branches
<1>3. ASSUME NEW i \in Images
      PROVE  /\ main'[i].tag \in {main[i].tag, branch.holds[i].tag}
             /\ main'[i].packages \in {main[i].packages, branch.holds[i].packages}
  BY <1>1 DEF Take
<1>4. main' \in Repositories
  <2>1. ASSUME NEW i \in Images
        PROVE  /\ Take(branch.from[i].tag, main[i].tag, branch.holds[i].tag) \in Tags \cup {First, Null}
               /\ Take(branch.from[i].packages, main[i].packages, branch.holds[i].packages) \in Jobs \cup {First}
    BY <1>2 DEF Repositories, Take
  <2> HIDE DEF Take
  <2> QED BY <1>1, <2>1 DEF Repositories
<1>5. TypeOK'
  BY <1>1, <1>2, <1>4 DEF Inv, TypeOK, trees
<1>6. TagsExist'
  <2>1. Named(main) /\ Named(branch.holds)
    BY <1>2 DEF Inv, TagsExist
  <2>2. Named(main)'
    BY <1>1, <1>3, <2>1 DEF Named
  <2>3. Named(branch.holds)'
    BY <1>1, <2>1 DEF Named
  <2> QED BY <2>2, <2>3 DEF TagsExist
<1>7. BranchInv' /\ LateInv'
  BY <1>1 DEF Inv, BranchInv, LateInv
<1> QED BY <1>1, <1>5, <1>6, <1>7, TreesKept DEF Inv

LEMMA CloseInv == ASSUME Inv, Close PROVE Inv'
<1>1. pr' = Nil /\ UNCHANGED <<main, rebuilds, registry, branch, pc, trees, todo, built, moved>>
  BY DEF Close
<1>2. TypeOK'
  BY <1>1 DEF Inv, TypeOK, trees
<1>3. TagsExist' /\ BranchInv'
  BY <1>1, BranchKept
<1>4. LateInv'
  BY <1>1 DEF Inv, LateInv
<1> QED BY <1>1, <1>2, <1>3, <1>4, TreesKept DEF Inv

LEMMA RebuildInv == ASSUME Inv, Rebuild PROVE Inv'
<1>1. /\ rebuilds < MaxRebuilds /\ rebuilds' = rebuilds + 1
      /\ main' = [i \in Images |-> [main[i] EXCEPT !.tag = Null]]
      /\ UNCHANGED <<registry, branch, pr, pc, trees, todo, built, moved>>
  BY DEF Rebuild
<1>2. main' \in Repositories
  BY <1>1, ZenonT(60) DEF Inv, TypeOK, Repositories
<1>3. \A i \in Images : main'[i].tag = Null
  BY <1>1 DEF Inv, TypeOK, Repositories
<1>4. TypeOK'
  <2>1. rebuilds' \in 0 .. MaxRebuilds
    BY <1>1, ConstantsAssumption DEF Inv, TypeOK
  <2> QED BY <1>1, <1>2, <2>1 DEF Inv, TypeOK, trees
<1>5. TagsExist'
  <2>1. Null \notin Jobs
    BY ConstantsAssumption
  <2>2. Named(main)'
    BY <1>3, <2>1 DEF Named
  <2> QED BY <1>1, <2>2 DEF Inv, TagsExist, Named
<1>6. BranchInv' /\ LateInv'
  BY <1>1 DEF Inv, BranchInv, LateInv
<1> QED BY <1>1, <1>4, <1>5, <1>6, TreesKept DEF Inv

-----------------------------------------------------------------------------
(* The invariant *)

LEMMA StepInv == Inv /\ [Next]_vars => Inv'
<1> SUFFICES ASSUME Inv, [Next]_vars PROVE Inv'
  OBVIOUS
<1>1. ASSUME NEW j \in Jobs, JobStep(j) PROVE Inv'
  BY <1>1, StartInv, BuildInv, UpdateLocalBranchInv, OpenPrCheckInv, UpdatedInv, PushInv,
     ListPullRequestsInv, CreatePullRequestInv, DieInv, UpdateInv, UpdateBaseImageInv
     DEF JobStep
<1>2. CASE UNCHANGED vars
  <2>1. TypeOK'
    BY <1>2 DEF Inv, TypeOK, vars, shared, trees
  <2>2. TagsExist' /\ BranchInv'
    BY <1>2, BranchKept DEF vars, shared
  <2>3. LateInv'
    BY <1>2 DEF Inv, LateInv, vars, shared
  <2> QED BY <1>2, <2>1, <2>2, <2>3, TreesKept DEF Inv, vars, shared
<1> QED BY <1>1, <1>2, MergeInv, CloseInv, RebuildInv DEF Next

\* In every reachable state of any number of jobs and images.
THEOREM Invariant == Spec => []Inv
BY InitInv, StepInv, PTL DEF Spec

\* The variables keep their types: images are in the registry under tags of jobs or dates.
THEOREM TypeCorrectness == Spec => []TypeOK
<1>1. Inv => TypeOK
  BY DEF Inv
<1> QED BY Invariant, <1>1, PTL

\* A tag on main or on the branch under review names an image in the registry, whatever
\* jobs fail half way and in whatever order they push and are merged.
THEOREM TagsAlwaysExist == Spec => []TagsExist
<1>1. Inv => TagsExist
  BY DEF Inv
<1> QED BY Invariant, <1>1, PTL

\* The forced push of a periodic job meets an open pull request only if that was opened
\* after the job had looked for one.
THEOREM OverwritesOnlyInRace == Spec => OverwritesInRace
<1> DEFINE Overwrites == \A j \in Periodic : (branch' # branch /\ branch'.by = j /\ pr # Nil) => j \in pr.late
<1>1. Inv /\ Inv' /\ [Next]_vars => [Overwrites]_vars
  <2> SUFFICES ASSUME Inv, Inv', Next, NEW j \in Periodic, branch' # branch, branch'.by = j, pr # Nil
               PROVE  j \in pr.late
    OBVIOUS
  <2>1. PICK k \in Jobs : Push(k)
    BY DEF Next, JobStep, Start, Build, UpdateLocalBranch, OpenPrCheck, Updated, ListPullRequests,
           CreatePullRequest, Die, Update, UpdateBaseImage, Merge, Close, Rebuild, shared
  <2>2. branch' = [by |-> k, from |-> base[k], holds |-> clone[k]] /\ pc[k] = "tag"
        /\ clone[k] # base[k]
    BY <2>1 DEF Push
  <2>3. k = j
    BY <2>2
  <2> QED BY <2>2, <2>3 DEF Inv, LateInv
<1> QED BY Invariant, <1>1, PTL DEF Spec, OverwritesInRace

\* A merged pull request changes main for images its job built, and the lists of others
\* only if main had moved between the job's checkout and its fetch.
THEOREM MergesKeep == Spec => MergeKeeps
<1> DEFINE Keeps ==
      (pr # Nil /\ pr' = Nil) =>
        \A i \in Images :
          /\ main'[i].tag # main[i].tag => i \in built[branch.by]
          /\ main'[i] # main[i] => (i \in built[branch.by] \/ branch.by \in moved)
<1>1. Inv /\ [Next]_vars => [Keeps]_vars
  <2> SUFFICES ASSUME Inv, Next, pr # Nil, pr' = Nil, NEW i \in Images
               PROVE  /\ main'[i].tag # main[i].tag => i \in built[branch.by]
                      /\ main'[i] # main[i] => (i \in built[branch.by] \/ branch.by \in moved)
    OBVIOUS
  <2>1. Merge \/ main' = main
    BY DEF Next, JobStep, Start, Build, UpdateLocalBranch, OpenPrCheck, Updated, ListPullRequests,
           CreatePullRequest, Die, Update, UpdateBaseImage, Push, Close, Rebuild, shared
  <2>2. CASE main' = main
    BY <2>2
  <2>3. CASE Merge
    <3>1. branch # Nil /\ main \in Repositories
      BY DEF Inv, TypeOK
    <3>2. /\ branch.holds[i].tag # branch.from[i].tag => i \in built[branch.by]
          /\ branch.holds[i].packages # branch.from[i].packages
             => i \in built[branch.by] \/ branch.by \in moved
      BY <3>1 DEF Inv, BranchInv
    <3>3. main'[i] = [tag |-> Take(branch.from[i].tag, main[i].tag, branch.holds[i].tag),
                      packages |-> Take(branch.from[i].packages, main[i].packages, branch.holds[i].packages)]
      BY <2>3 DEF Merge
    <3>4. /\ branch.holds[i].tag = branch.from[i].tag => main'[i].tag = main[i].tag
          /\ branch.holds[i].packages = branch.from[i].packages => main'[i].packages = main[i].packages
      BY <3>3 DEF Take
    <3>5. main[i] = [tag |-> main[i].tag, packages |-> main[i].packages]
      BY <3>1 DEF Repositories
    <3>6. main'[i] = [tag |-> main'[i].tag, packages |-> main'[i].packages]
      BY <3>3
    <3> QED BY <3>2, <3>4, <3>5, <3>6
  <2> QED BY <2>1, <2>2, <2>3
<1> QED BY Invariant, <1>1, PTL DEF Spec, MergeKeeps
===============================================================================
