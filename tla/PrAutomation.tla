----------------------------- MODULE PrAutomation -----------------------------
(***************************************************************************)
(* The jobs that rebuild base images: `make update` checks every image of  *)
(* an Amazon Linux version for package updates and builds the stale ones,  *)
(* `make create-pr` writes their tags into the clone of the bot's fork,    *)
(* pushes its branch by force and opens a pull request.  A postsubmit may  *)
(* build all of them with `make release` and go on to `make create-pr`.    *)
(* Each job has a checkout and a clone of its own; they share the branch,  *)
(* its pull request, upstream's main and the registry.                     *)
(*                                                                         *)
(* Of the repository, an image has its entry of EKS_DISTRO_TAG_FILE.yaml   *)
(* and its package lists.                                                  *)
(***************************************************************************)
EXTENDS Naturals

CONSTANTS
  Jobs,        \* runs of the job
  Periodic,    \* those with JOB_TYPE periodic, the others are postsubmits
  Dated,       \* those whose environment has no IMAGE_TAG
  Images,      \* images of one Amazon Linux version
  MaxRebuilds, \* bound on merges of minimal-image-rebuilder.sh's tag file
  First,       \* the tag and the package lists of the beginning
  Null,        \* the tag that asks for a rebuild
  Nil          \* no branch, no pull request

\* The date at the build, and at create-pr.
Dates == Dated \X {"build", "create-pr"}

ASSUME ConstantsAssumption ==
  /\ Periodic \subseteq Jobs /\ Dated \subseteq Jobs /\ MaxRebuilds \in Nat
  /\ {First, Null, Nil} \cap Jobs = {} /\ Dates \cap Jobs = {} /\ First # Null

VARIABLES
  main,      \* upstream's main
  rebuilds,  \* rebuilds asked for so far
  registry,  \* <<image, tag>> of the images pushed
  branch,    \* the bot's branch: the job that pushed it, the main it is from, what it holds
  pr,        \* the open pull request of that branch
  pc,        \* pc[j]: where job j is
  checkout,  \* checkout[j]: the repository the job runs in
  base,      \* base[j]: the main its clone's branch was created from
  clone,     \* clone[j]: the clone's working tree
  todo,      \* todo[j]: images a loop has still to do
  built,     \* built[j]: images whose -pushed file says true
  moved      \* history: jobs that fetched a main other than their checkout, but for images they built

shared == <<main, rebuilds, registry, branch, pr>>
trees == <<checkout, base, clone>>
vars == <<shared, pc, trees, todo, built, moved>>

\* What an image is built under: the job's own tag, or a date.
Tags == Jobs \cup Dates
Repositories == [Images -> [tag : Tags \cup {First, Null}, packages : Jobs \cup {First}]]
Branches == [by : Jobs, from : Repositories, holds : Repositories]
\* late, for the properties: periodic jobs that had found no pull request when this one
\* was opened.
PullRequests == [late : SUBSET Periodic]

ASSUME NilAssumption == Nil \notin Branches /\ Nil \notin PullRequests

-----------------------------------------------------------------------------
(* Building blocks *)

Goto(j, label) == pc' = [pc EXCEPT ![j] = label]

\* Fault: the exit of a job that is not periodic comes for every job.
NeverRefused(j) == TRUE
NotRefused(j) == j \notin Periodic \/ pr = Nil

\* What check_update.sh may write.  A build of the check that fails counts as updates,
\* and for a tag that no image has it does: there is nothing to look into.  Whatever else
\* fails leaves no answer, which is treated like "none", and for a job that is not
\* periodic "none" is all there is.
Answers(j, i) ==
  IF j \notin Periodic THEN {"none"}
  ELSE {"updates", "none"} \cup
       (IF <<i, checkout[j][i].tag>> \in registry THEN {"error"} ELSE {})

\* Fault: the list is written before the answer is looked at.
ListAlways(j, i, answer) == [checkout[j] EXCEPT ![i].packages = j]
List(j, i, answer) ==
  IF answer = "updates" THEN [checkout[j] EXCEPT ![i].packages = j] ELSE checkout[j]

\* Fault: create-pr does not look at the -pushed files.
TaggedAlways(j) == Images
Tagged(j) == built[j]

\* Fault: IMAGE_TAG is a date for every job.
DateOf(j, at) == <<j, at>>
\* IMAGE_TAG, at the build or at create-pr: without a value in the environment make asks
\* for the date each time it is used.
TagOf(j, at) == IF j \in Dated THEN <<j, at>> ELSE j

\* update_image_tag.sh copies the lists of every image from the checkout.
CopyLists(j) == [i \in Images |-> [clone[j][i] EXCEPT !.packages = checkout[j][i].packages]]

\* git's merge of `theirs` into `ours`, both made from `from`.
Clash(from, ours, theirs) == ours # from /\ theirs # from /\ ours # theirs
Take(from, ours, theirs) == IF theirs = from THEN ours ELSE theirs

-----------------------------------------------------------------------------
Init ==
  /\ main = [i \in Images |-> [tag |-> First, packages |-> First]]
  /\ rebuilds = 0 /\ registry = Images \X {First} /\ branch = Nil /\ pr = Nil
  /\ pc = [j \in Jobs |-> "idle"]
  /\ checkout = [j \in Jobs |-> main] /\ base = checkout /\ clone = checkout
  /\ todo = [j \in Jobs |-> Images] /\ built = [j \in Jobs |-> {}]
  /\ moved = {}

\* Prow clones main and runs the job in it: `make update create-pr`, or, if it is a
\* postsubmit, perhaps `make release create-pr`.
Start(j) ==
  /\ pc[j] = "idle"
  /\ checkout' = [checkout EXCEPT ![j] = main]
  /\ Goto(j, "fetch") \/ (j \notin Periodic /\ Goto(j, "build"))
  /\ UNCHANGED <<shared, base, clone, todo, built, moved>>

\* An image target of `make release`: a minimal image's packages are exported, the image
\* is pushed and the -pushed file written.
Build(j, i) ==
  /\ pc[j] = "build" /\ i \in todo[j]
  /\ checkout' \in {checkout, [checkout EXCEPT ![j][i].packages = j]}
  /\ \/ /\ registry' = registry \cup {<<i, TagOf(j, "build")>>}
        /\ todo' = [todo EXCEPT ![j] = @ \ {i}]
        /\ built' = [built EXCEPT ![j] = @ \cup {i}]
        /\ Goto(j, IF todo'[j] = {} THEN "fetch" ELSE "build")
     \/ /\ registry' \in {registry, registry \cup {<<i, TagOf(j, "build")>>}}
        /\ Goto(j, "failed")
        /\ UNCHANGED <<todo, built>>
  /\ UNCHANGED <<main, rebuilds, branch, pr, base, clone, moved>>

\* update_local_branch.sh, in a clone that is not on the branch yet: for `make update`
\* before anything is looked at, after `make release` from the first update_base_image.sh
\* that can fetch.
UpdateLocalBranch(j) ==
  /\ pc[j] = "fetch"
  /\ base' = [base EXCEPT ![j] = main]
  /\ clone' = [clone EXCEPT ![j] = main]
  /\ moved' = IF \A i \in Images \ built[j] : main[i] = checkout[j][i]
             THEN moved ELSE moved \cup {j}
  /\ \/ built[j] = {} /\ Goto(j, "look") /\ UNCHANGED todo
     \/ built[j] # {} /\ Goto(j, "tag") /\ todo' = [todo EXCEPT ![j] = Tagged(j)]
  /\ UNCHANGED <<shared, checkout, built>>

\* open_pr_check.sh
OpenPrCheck(j) ==
  /\ pc[j] = "look"
  /\ Goto(j, IF NotRefused(j) THEN "update" ELSE "failed")
  /\ UNCHANGED <<shared, trees, todo, built, moved>>

\* An image's update target: check_update.sh and, if there are updates, the build,
\* which may fail before or after it pushed the image.
Update(j, i) ==
  /\ pc[j] = "update" /\ i \in todo[j]
  /\ \E answer \in Answers(j, i) :
       /\ checkout' = [checkout EXCEPT ![j] = List(j, i, answer)]
       /\ \/ answer = "error" /\ Goto(j, "failed") /\ UNCHANGED <<registry, todo, built>>
          \/ /\ answer = "none"
             /\ todo' = [todo EXCEPT ![j] = @ \ {i}]
             /\ UNCHANGED <<registry, pc, built>>
          \/ /\ answer = "updates"
             /\ registry' = registry \cup {<<i, TagOf(j, "build")>>}
             /\ todo' = [todo EXCEPT ![j] = @ \ {i}]
             /\ built' = [built EXCEPT ![j] = @ \cup {i}]
             /\ UNCHANGED pc
          \/ /\ answer = "updates"
             /\ registry' \in {registry, registry \cup {<<i, TagOf(j, "build")>>}}
             /\ Goto(j, "failed")
             /\ UNCHANGED <<todo, built>>
  /\ UNCHANGED <<main, rebuilds, branch, pr, base, clone, moved>>

\* `make update` is done; `make create-pr` begins.
Updated(j) ==
  /\ pc[j] = "update" /\ todo[j] = {}
  /\ todo' = [todo EXCEPT ![j] = Tagged(j)]
  /\ Goto(j, "tag")
  /\ UNCHANGED <<shared, trees, built, moved>>

\* update_base_image.sh: the clone is on the branch and stays as it is.  make ignores
\* its failures, before the lists are copied or before the tag is set.
UpdateBaseImage(j, i) ==
  /\ pc[j] = "tag" /\ i \in todo[j]
  /\ clone' \in {clone, [clone EXCEPT ![j] = CopyLists(j)],
                 [clone EXCEPT ![j] = [CopyLists(j) EXCEPT ![i].tag = TagOf(j, "create-pr")]]}
  /\ todo' = [todo EXCEPT ![j] = @ \ {i}]
  /\ UNCHANGED <<shared, pc, checkout, base, built, moved>>

\* create_pr.sh: nothing staged, nothing to do; else the commit and the forced push,
\* whatever pull request there is.
Push(j) ==
  /\ pc[j] = "tag" /\ todo[j] = {}
  /\ \/ clone[j] = base[j] /\ Goto(j, "ended") /\ UNCHANGED branch
     \/ /\ clone[j] # base[j]
        /\ branch' = [by |-> j, from |-> base[j], holds |-> clone[j]]
        /\ Goto(j, "list")
     \/ clone[j] # base[j] /\ Goto(j, "failed") /\ UNCHANGED branch
  /\ UNCHANGED <<main, rebuilds, registry, pr, trees, todo, built, moved>>

\* gh pr list
ListPullRequests(j) ==
  /\ pc[j] = "list"
  /\ Goto(j, IF pr = Nil THEN "create" ELSE "ended")
  /\ UNCHANGED <<shared, trees, todo, built, moved>>

\* gh pr create: GitHub refuses a second one, and one without commits.
CreatePullRequest(j) ==
  /\ pc[j] = "create"
  /\ \/ /\ pr = Nil /\ branch.holds # main
        /\ pr' = [late |-> {k \in Periodic : pc[k] \in {"update", "tag", "list", "create"}}]
        /\ Goto(j, "ended")
     \/ Goto(j, "failed") /\ UNCHANGED pr
  /\ UNCHANGED <<main, rebuilds, registry, branch, trees, todo, built, moved>>

\* The pod is gone, or a call of git or gh fails.
Die(j) ==
  /\ pc[j] \in {"build", "fetch", "look", "update", "tag", "list", "create"}
  /\ Goto(j, "failed")
  /\ UNCHANGED <<shared, trees, todo, built, moved>>

\* A person merges the pull request, which git must be able to do, or closes it.
Merge ==
  /\ pr # Nil
  /\ \A i \in Images :
       /\ ~Clash(branch.from[i].tag, main[i].tag, branch.holds[i].tag)
       /\ ~Clash(branch.from[i].packages, main[i].packages, branch.holds[i].packages)
  /\ main' = [i \in Images |->
       [tag |-> Take(branch.from[i].tag, main[i].tag, branch.holds[i].tag),
        packages |-> Take(branch.from[i].packages, main[i].packages, branch.holds[i].packages)]]
  /\ pr' = Nil
  /\ UNCHANGED <<rebuilds, registry, branch, pc, trees, todo, built, moved>>

Close ==
  /\ pr # Nil /\ pr' = Nil
  /\ UNCHANGED <<main, rebuilds, registry, branch, pc, trees, todo, built, moved>>

\* A person merges what minimal-image-rebuilder.sh makes of the tag file.
Rebuild ==
  /\ rebuilds < MaxRebuilds
  /\ rebuilds' = rebuilds + 1
  /\ main' = [i \in Images |-> [main[i] EXCEPT !.tag = Null]]
  /\ UNCHANGED <<registry, branch, pr, pc, trees, todo, built, moved>>

JobStep(j) ==
  \/ Start(j) \/ UpdateLocalBranch(j) \/ OpenPrCheck(j) \/ Updated(j) \/ Push(j)
  \/ ListPullRequests(j) \/ CreatePullRequest(j) \/ Die(j)
  \/ \E i \in Images : Build(j, i) \/ Update(j, i) \/ UpdateBaseImage(j, i)

Next == (\E j \in Jobs : JobStep(j)) \/ Merge \/ Close \/ Rebuild

Spec == Init /\ [][Next]_vars

-----------------------------------------------------------------------------
(* Properties *)

\* Types: an image is pushed under the tag of a job, or under dates of jobs that have no
\* tag, and a pull request has a branch.
TypeOK ==
  /\ main \in Repositories /\ rebuilds \in 0 .. MaxRebuilds
  /\ registry \subseteq Images \X (Tags \cup {First})
  /\ branch \in Branches \cup {Nil} /\ pr \in PullRequests \cup {Nil}
  /\ (pr # Nil => branch # Nil)
  /\ pc \in [Jobs -> {"idle", "build", "fetch", "look", "update", "tag", "list", "create", "ended", "failed"}]
  /\ checkout \in [Jobs -> Repositories] /\ base \in [Jobs -> Repositories]
  /\ clone \in [Jobs -> Repositories]
  /\ todo \in [Jobs -> SUBSET Images] /\ built \in [Jobs -> SUBSET Images]
  /\ moved \subseteq Jobs

\* A tag somebody may pull, of main or of the branch under review, is that of an image in
\* the registry, in whatever order jobs build, fail, push and are merged: a job that
\* failed half way names none, and a rebuild leaves the marker.  The tags are those of
\* jobs with an IMAGE_TAG: the others name images by a date that none was pushed under.
Named(repository) ==
  \A i \in Images : repository[i].tag \in Jobs => <<i, repository[i].tag>> \in registry
TagsExist == Named(main) /\ (branch # Nil => Named(branch.holds))

\* Merging the bot's pull request, though files of every image are copied and added,
\* changes main for images its job built only -- unless main had moved between the job's
\* checkout and its fetch: the copied lists are older than the branch they are copied to,
\* and the pull request takes back what others merged.  Tags it never takes back.
MergeKeeps ==
  [][(pr # Nil /\ pr' = Nil) =>
       \A i \in Images :
         /\ main'[i].tag # main[i].tag => i \in built[branch.by]
         /\ main'[i] # main[i] => (i \in built[branch.by] \/ branch.by \in moved)]_vars

\* The forced push of a periodic job replaces the commit of an open pull request only if
\* that was opened after the job had looked for one: periodic jobs run one after the
\* other never do it.  A postsubmit, which does not look, does it alone.
OverwritesInRace ==
  [][\A j \in Periodic :
       (branch' # branch /\ branch'.by = j /\ pr # Nil) => j \in pr.late]_vars
===============================================================================
