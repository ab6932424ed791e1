# EKS Distro build tooling in TLA+

A formal model of the concurrent, failing and ordered parts of this repository: TLA+
modules translated from the Go code, the shell scripts and the Makefile, TLC configurations
that check them on small instances, and theorems that TLAPS proves for every value of the
constants.

Paths below are relative to the repository; `OPS` is
`src/tools/eksDistroBuildToolingOpsTools`.

| Part of the system | Modules | Checked by (cfg) | Proofs |
|---|---|---|---|
| Prow external plugin | `PluginServer`, `KeyedLocks` (abstract), `MCPluginServer` | `PluginBackport`, `PluginFaults` | `PluginServerProofs` |
| Retrier | `Retrier`, `MCRetrier` | `Retrier`, `DocGlobalTimeout` | `RetrierProofs` |
| iptables wrapper | `IptablesWrapper`, `MCIptablesWrapper` | `WrapperSymlink`, `WrapperTools` | `IptablesWrapperProofs` |
| EKS Go release tool, git client | `GoRelease`, `MCGoRelease` | `GoRelease`, `DocSpecBuilds` | `GoReleaseProofs` |
| eksGoTool, issue, repository and pull request managers | `GithubTools`, `MCGithubTools` | `GithubTools` | `GithubToolsProofs` |
| Pull request automation, base image jobs | `PrAutomation`, `MCPrAutomation` | `PrAutomation` | `PrAutomationProofs` |
| Release CLI | `ReleaseManifest`, `MCReleaseManifest` | `ReleaseManifest` | `ReleaseManifestProofs` |
| Consumer updater, beside the release CLI | `ConsumerUpdate`, `MCConsumerUpdate` | `ConsumerUpdate` | `ConsumerUpdateProofs` |

To run one: `tlc -workers 2 -config PluginFaults.cfg MCPluginServer`; to check the
proofs of a module: `tlapm PluginServerProofs.tla`. The runs take from a second to about
three minutes each, the proofs of a module a few minutes at most.

## 1. Inventory

### Prow external plugin server — `OPS/pkg/externalplugin`, `OPS/cmd/externalplugin`
*State.* Two maps from a request to a `*sync.Mutex`, one per kind of handler, protected
by `mapLock`; the mutexes; one goroutine per webhook delivery; the issues and comments on
GitHub. *Operations.* `handleEvent` answers the webhook and starts a goroutine;
`handleIssueComment` → `handleBackportRequest` → `backportGolang` files an issue per
version asked for; `handleIssue` → `handleGolangPatchRelease` finds the upstream issues a
milestone names and mirrors them. *Interaction.* Goroutines share the lock maps; each calls
GitHub many times. *Hard.* Redelivered events, mutexes made on demand, two nested locks,
errors in the middle of a loop, answers lost, a restart after the webhook was answered.
*Correct when.* One goroutine per request works at a time; nothing deadlocks; what is filed
was asked for by somebody who may; one delivery files nothing more often than it was named and
leaves nothing out silently; every delivery comes to its end.

### Retrier — `OPS/pkg/retrier`
*State.* Policy, factor, timeout; the count of calls and the time of one execution.
*Operations.* `Retry`. *Users.* The pull request creator, the git client's clone and pull,
eksGoTool. *Hard.* Two limits (a maximum and a timeout) that interact, a product that is
cut to a whole number, a default policy that never gives up, an off-by-one at the maximum.
There are no tests. *Correct when.* The limits bound the calls, calls back off, the result
is the last call's, and it ends.

### iptables wrapper — `src/eks-distro-base/iptables-wrappers`
*State.* What each of the commands of `/sbin` resolves to; kubelet's chains in the kernel.
*Operations.* `main`: find the binary directory, detect the mode with four `*-save`
commands, switch the commands with one of three selectors, execute the command again.
*Interaction.* Several containers' processes run the wrapper at once over one set of links;
kubelet creates its chains at any time. *Hard.* Remove and re-create are two steps;
privileged and unprivileged executions mix; a process is killed; the mode is detected before
it is used. *Correct when.* The commands end up complete and in one mode, and no execution
loops or fails needlessly.

### EKS Go release tool, git client — `OPS/pkg/{eksGoRelease,git}`, `OPS/cmd/eksGoRelease`
*State.* Upstream main, the user's fork and its branches, open pull requests; the clone in
memory of each run; `RELEASE`, `GIT_TAG`, the RPM spec and the README of a Go version.
*Operations.* The commands `release`, `update`, `patch` and `new`, each a loop over
versions: clone, number, branch (pulling it if the fork has it), edit, commit, push, open a
pull request. *Interaction.* Runs share the fork and its branch names; maintainers merge;
the user brings the fork up to date, or forgets. *Hard.* Optimistic pushes, stale clones, a
release number read before the branch is pulled, errors that are only logged, a retried
call whose first answer was lost. *Correct when.* No push loses commits, an open pull
request shows its work, the release number steps by one, README and RELEASE agree.

### eksGoTool, issue, repository and pull request managers — `OPS/pkg/{issueManager,repoManager,prManager}`, `OPS/cmd/eksGoTool`
*State.* Issues; branches, commits and pull requests of a repository, all behind GitHub's
API. *Operations.* `backport issue` reads the maintained versions (`GetFile`) or takes its
argument, reads the toplevel issue and files one issue per version; `createCveIssue` files
one; `CreatePr` commits a file through the API (`getRef`, `getTree`, `pushCommit`), opens
a pull request with the retrier and, if one is in the way, looks it up (`getPr`).
*Interaction.* Runs and people share branches. *Hard.* A branch read, then a commit made
for it, then the branch moved; any error taken for "no such branch"; a look-up by a filter
that does not fit what it looks for; a nil response. *Correct when.* Issues are filed in
order and none after a failure; a commit takes nobody's work back and stays where success
was reported for it; a pull request that can be found is named.

### Pull request automation, base image jobs — `src/pr-scripts`, `src/eks-distro-base/*.sh`, `src/eks-distro-base/Makefile`
*State.* Upstream's main and its `EKS_DISTRO_TAG_FILE.yaml` and package lists; the bot's
branch and pull request; the image registry; per job a checkout, a clone, and the files
`check-update` and `-pushed` under the checkout. *Operations.* `make update` checks and
builds every image; `make create-pr` brings the clone's branch up to date, writes tags and
lists into it, pushes by force, opens a pull request unless one is there;
`minimal-image-rebuilder.sh` marks every tag `null`. *Interaction.* Periodic and postsubmit
jobs share the branch and the registry; people merge and close. *Hard.* Forced pushes,
look-ups before acts, two copies of the repository of different age in one job, targets
whose failure make ignores. *Correct when.* Every tag in the file is that of an image that
exists, a merge changes what its job built and nothing else, jobs do not overwrite one another.

### Release CLI — `src/release`
*State.* The table of assets per component; the registry; published manifests. *Operations.*
`release`: `GenerateComponentsTable` (twelve component functions that read tags, versions
and SHA sums), `UpdateImageDigests` (one `DescribeImages` per image), print; `get-asset-uri`
looks an asset up in a published manifest. *Interaction.* Reads what build jobs left; other
jobs push images under the same tags; the consumer updater and users read the manifests.
*Hard.* Incomplete builds, tags that move, one component that tolerates what the others do
not. *Correct when.* A manifest is whole, and its digests are those of its time.

### Consumer updater — `OPS/pkg/{consumerUpdater,dependencyUpdater,eksDistroRelease}`, `OPS/cmd/consumerUpdater`
*State.* The spec and `Cargo.toml` of each Bottlerocket package. *Operations.* `update`:
fetch the manifest of each version asked for, then rewrite the two files of each one's
package. *Interaction.* Reads what the release CLI published. *Hard.* Two files per package
and no transaction; a write cut short; a patch number that nobody compares with the manifest;
an asset that must be there. *Correct when.* The two files of a package name one source.

### Parts that are not modelled
Minimal image scripts, build scripts, `minimalImageBuildTool`, and data (patches of Go,
charts, Dockerfiles): section 7 says why. PROJECT.json lists the hazards of the system at the
lines where they bite; those no property covers say why.

## 2. The modules

Every module has the same layout: constants with named assumptions, variables, building
blocks, one action per step of the code, the specification, then the properties. `Spec` is the
safety specification; where there is liveness, `FairSpec` adds the fairness of section 4.
Operators marked `Fault:` are plausible mistakes; none is used by a specification, each is
swapped in for the definition it precedes to confirm that a property notices.

### PluginServer
One process per webhook delivery. `pc[d]` is where the goroutine of `d` is, `stage[d]` says
whether it deals with the lock of `handleBackportRequest` (outer) or of `backportGolang`
(inner). Steps are split where goroutines can interleave: `Lookup`/`Insert`/`Fetch` are the
three accesses to the map between `mapLock.Lock` and `Unlock`, `Acquire` is `lock.Lock`, and
every GitHub call is one step with three outcomes: done, failed, or done with its answer lost.
`Unlock` runs the deferred unlocks, innermost first. The two maps are one function `lockMap` on
keys that are tagged with their map; the two key literals of the backport handlers put
`project` and `org` in a different order, and so do the keys here. `Restart` drops the memory
of the process and keeps GitHub. The texts of commands, titles and comments are reduced to what
the handlers tell apart (which command, which versions, repeated ones included, opened or edited,
issue or pull request). `References` are the texts that look like the number of an issue in the
issues of a version's milestone, `Number` is what `Atoi` makes of them: two texts may spell one
number, and one above `MaxInt` is an error. An issue records for which pass of the loop, or which
text, it was filed (`at`, a history field) beside the version or number it is about (`item`).

`KeyedLocks` is what this machinery promises: one lock per key, taken and given back
atomically, and issues filed by owners only. The refinement mapping reads the owner of a key
through the map and the mutex it holds; `LocksRefined` is its specification as a property.

### Retrier
One execution of `Retry`, with time as a number. `Call`, `Decide` and `Sleep` are the three
statements of the loop. Calls take any of `Durations`, `time.Sleep` may wake late by any of
`Lateness`. A factor is a fraction, and `Wait` cuts the product to a whole number before it
multiplies, as `time.Duration(...)` does. Which retriers exist is a constant set, so that one
run covers those of the tools.

### IptablesWrapper
One process per execution of a command. `link[c]` is what command `c` resolves to: the wrapper,
a mode's binary, or nothing. `Probe` is one of the four saves of `DetectMode`, whose errors
are ignored; `Remove` and `Link` are the two steps of `symlinkSelector`, `Set` is one run of an
alternatives tool, which is atomic per record; `Reexec` and `Fallback` are the two ends of
`main`. `Plan` is the order in which a selector works, so that the three selectors are three
values of constants. A link is removed or created only by an execution with the privilege to
do it: `os.RemoveAll`'s error is ignored, `os.Symlink`'s is not, and it fails on a link that is
there. `KubeletHint` and `Kill` are the environment.

### GoRelease
A commit is the files of one Go minor version and the set of its ancestors. `main` is upstream,
`fork` the main of the user's fork, `branch` its other branches; `base`, `name` and `head` are a
run's clone. `Clone` takes the release number from the clone's main (`bumpRelease`), `Branch`
pulls a remote branch of that name if a fast-forward allows it, `Edit` decides what will be
written (and is the end of a dry run), `MakeCommit`, `Push` and `CreatePr` are
`createReleasePR`. `Edits` is what each command writes; `SpecAfter` is the string replacement
that does nothing when the old number is not the one before the new one. Errors follow the
code: the commands log what `createReleasePR` returns and go on, except for the call that follows
a patch that failed.

External, modelled from how the code uses it: the push sends the clone's local main too
(go-git's default refspec), a ref is moved by fast-forward or refused, a commit without changes
may be refused, GitHub has at most one open pull request per branch and merges file by file
with three-way rules or squashes. Answers may be lost at every call. Patch numbers are
compared whole: the code's textual replacement would also match the beginning of a longer
number, which patch numbers of one digit cannot show.

Simplifications to know about: one Go minor version at a time (the tool works on one
directory per minor version); `new` is asked for only when upstream lacks the version, which is
what it is for; a branch is deleted only with the merge of its pull request and while no run
works on it; a run that is killed is a run that takes no more steps, so there is no action for
it, only for the panic on a nil response; the title, text and project-level README are left
out; `createPatchFile` is unfinished in the code (clone, branch, TODO) and is a choice between
success and failure.

### GithubTools
One process per execution of a tool. An issue is the run and the position in its list; a commit
is its files and its ancestors, and a file is the commit that wrote it last, so that
"more recent" is "descends from". `GetFile`, `GetIssue` and `CreateIssue` are eksGoTool's
calls; `GetRef`, `GetBase`, `CreateRef`, `CreateCommit` and `UpdateRef` are the API calls of
`getRef` and `pushCommit`, of which only those that others can see are apart; `OpenPull` and
`FindPull` are one call each of `createPR`'s closure, and `Again` is the retrier between them.
`Listed` is the filter of `getPr`: head `<owner>:<CommitBranch>` and base `main`, while the
caller has already put a fork's owner into `CommitBranch`. `PersonPushes` and `Merge` are
people; a merge may delete the branch. The list file of maintained versions may end with an
empty line, have one inside, or be empty.

### PrAutomation
One process per job. `checkout[j]` is the repository Prow cloned for the job, `clone[j]` the
clone of the bot's fork that `create-pr` writes to, `base[j]` the main its branch starts at.
`Update` is one image's update target: check, build and push, with failures before and after the
push; `Build` is one image of a postsubmit's `make release`, which pushes it and writes `true` to
its `-pushed` file without any check of pull requests; `UpdateBaseImage` is
`update_base_image.sh`, which copies the package lists of every image and sets the tag of one, and
may stop before either; `TagOf` is `IMAGE_TAG`, the job's own or, for a job of `Dated`, a date that
differs between the build and create-pr; `Push` is the end of `create_pr.sh` up to the forced push; `ListPullRequests` and `CreatePullRequest` are the two calls of `gh`.
`Merge` merges per entry with three-way rules and is impossible where git would stop. `Rebuild`
is the merge of `minimal-image-rebuilder.sh`'s tag file. Fields of the tag file and package
lists are merged apart, although neighbouring lines may conflict in git: the model has more
merges, never fewer.

### ReleaseManifest
One run of the tool at a time, over a registry other jobs push to. A checkout is the six tags,
`IMAGE_VERSION`, whether the version file and URLs parse, which artifacts lack sums, and the
number of the job that built the artifacts, which is what their sums are. The twelve component
functions are operators that return the set of assets or `Failed`; `Component` is the shape they
share (the first error ends them), `GetKubeProxyComponent` the one that passes over an artifact
without sums. `Generate` is `GenerateComponentsTable`, `Describe` one `DescribeImages` call,
`PrintManifest` the end of the run; `Exit` drops everything but what was printed. The order of
components is left open, as Go's map iteration leaves it; within Kubernetes the order of the
list is kept. `UriCandidates` is `parseReleaseForUri`.

### ConsumerUpdate
Extends `ReleaseManifest`: its `Next` is a step of the release tool, or one of the updater.
`Fetch` is one `NewEksDistroReleaseObject`, `UpdateSpec` and `UpdateCargo` are the two halves of
`Update` with `UpdateAll`'s loop, `Kill` a signal. `os.WriteFile` truncates first, so a failing
or interrupted write leaves a file without its lines (`Broken`), which a later run refuses. The
source archive is looked up when the spec's lines are found; a manifest without one is a nil
dereference (`"panic"`). `ToolUndisturbed` is the theorem that the composition implements
`SpecManifest`.

## 3. What the runs show

| Run | Bounds | What it shows |
|---|---|---|
| `plugin_backport` | 3 deliveries (symmetric), 6 events, two versions, no restart | `Exclusion`: never two goroutines inside code protected by one key. `SerialFilings`: the issues of one request are not interleaved with those of its redelivery. `Authorised`: whoever caused an issue was a member, or the bot with a patch release. `TypeOK`. |
| `plugin_faults` | 2 deliveries, 6 events of both handlers (a command that repeats a version, an organisation named like the project, an issue spelled twice, a number no int holds), 1 restart, fair | `FiledOnce`: a delivery files a version once per place it is named at, an upstream issue once per spelling. `BackportAccounted`: each place in the command is announced as filed, and was, or as failed. `MirrorComplete`: success means every upstream issue of every version, and no other. All three against every combination of failing and lost calls. `NoWaitCycle`: the nested locks cannot make two requests wait for each other. `LocksRefined`: implements `KeyedLocks`. `AllHandled`: a handler that starts ends, dies with the process (what it had not done is lost), or some goroutine waits for the lock it holds. |
| `retrier` | 5 retriers: createReleasePR's, the git client's, the default, a factor below one, a maximum of zero; calls of 1 or 12 units, sleeps late by 0 or 2; fair | `CallsBounded`, `StartsInTime`, `BacksOff`, `Terminates`, `TypeOK`. |
| `doc_global_timeout` | createReleasePR's retrier | Counterexample to `WithinTimeout`: the "global timeout (max time allowed for the whole execution)" is exceeded by a sleep. |
| `wrapper_symlink` | 3 executions (symmetric), 2 commands, 1 kill, a legacy host | `Settled`: when all is quiet the links are complete. `MixedNeedsRace`: two modes only if wrappers overlapped. `FailsOnlyInWindow`: a command is missing only while another execution is between removing and linking that command, or after one was killed there; a kill anywhere else excuses nothing. `TypeOK`. |
| `wrapper_tools` | 3 executions (symmetric), 2 records, tools that fail, an nft host | `RightMode`, `ReexecOnce`. |
| `go_release` | 2 runs (symmetric), 6 invocations with a dry run, 2 upstreams, 2 merges, 2 calls per pull request | `PushKept`, `OpenedCarriesWork`, `ReleaseSteps`, `ReadmeFollows`, `TypeOK`. |
| `doc_spec_builds` | 2 runs | Counterexample to `SpecBuilds`: an update that skips a patch version leaves the spec behind; README and GIT_TAG name a version the spec does not build. |
| `github_tools` | 2 runs (symmetric), 6 jobs, 3 version files, 3 branches, 2 files, 2 calls per pull request, 2 pushes or merges of people | `FiledInOrder`: a run's issues are those of a prefix of its versions, in order. `NothingTakenBack`: no commit holds an older version of a file than a commit before it. `Landed`: success means the commit is on the branch. `NamedWhenListed`: no URL only where the filter cannot show the pull request. `TypeOK`. |
| `pr_automation` | 1 periodic job without an `IMAGE_TAG`, 1 postsubmit, 2 images (symmetric), 2 rebuilds | `TagsExist`: no tag of a job without its image. `MergeKeeps`: a merge changes what its job built, unless main had moved between the job's two clones. `OverwritesInRace`: the forced push of a periodic job meets an open pull request only if that was opened after the job looked. `TypeOK`. |
| `release_manifest` | 2 runs, 8 kinds of checkout, 12 components, 2 images that are built again twice, 1 image that is missing | `PublishedWhole`: no manifest lacks an image, a digest, a sum, or an archive of Kubernetes, the authenticator, etcd or the CNI plugins; kube-proxy's archives may be missing. `DigestsFresh`: a published digest is the tag's at the run's start, or one it was given while the tool ran. |
| `consumer_update` | 2 branches, 2 runs of the release tool, 3 checkouts, 5 requests (one with a malformed version), any number of updates | `DoneAgree`: a package the updater is past has both files from one manifest. `NoPanic`: no manifest makes it dereference nil. `TypeOK`, the release tool's included. |

Why the bounds are enough. Locking errors need two goroutines that meet on a key and a third
that arrives while one of them leaves; two versions per request give a loop with a middle. One
restart separates "before" from "after"; a second one adds no state the first cannot leave,
because memory is wiped each time. The wrapper needs two executions for a window and a third to
observe the result while one is killed; each selector is a loop, and two steps give it a first
and a last. For the Go release tool two runs race for one branch, and two merges let one pull
request be merged onto a main that moved after it was made; a third adds the same once more.
`MaxTries` is 2, which has a last call and one before it. `MaxCalls` of the retrier is one
above what its policies reach, so that no behaviour is cut; `MaxDepth` of the wrapper is 2
while the model never goes beyond 1 (`ReexecOnce`). In `github_tools` two events let a person
push between a run's reading of a branch and its writing, and merge and delete it afterwards. In
`pr_automation` a periodic job races a postsubmit, which is never refused and may build all images
and push over whatever is there: to the periodic job it is what a second periodic job that looked
in time would be, and more. The rebuilds fall before and after a merge. Two images are one that is
built and one whose lists are only copied. A release is published from one run, so two runs give
one that replaces a manifest; two pushes of an image put one before and one after the tool asked.
The updater's requests cover no release, one, two branches, one branch twice, and a malformed
version after a good one.

Where a bound is a guess the proofs of section 5 take over: they know none of these numbers.

Deadlock checking is off in every run: goroutines, executions, jobs and runs are finitely
many and the system comes to rest.

## 4. Fairness

* Plugin: `WF(Step(d))`, because the Go scheduler runs every goroutine and the GitHub client's
  calls return. `SF(Lookup(d))` and `SF(Acquire(d))`, because `sync.Mutex` changes to
  starvation mode and hands the lock to the goroutine that waited longest. Deliveries and
  restarts are not fair. In an organisation named `go` the two keys of a `/backport:go` request
  are equal and the goroutine waits for the mutex it holds itself: `AllHandled` has that, and
  nothing else, as its exception (`WaitsForItself`), and the instance contains such a request.
* Retrier: `WF(Next)`; the function it is given returns.

Nothing else is stated to be live: the other parts are executions that end when their calls
return, and what a person or a scheduler does with them is not in the code.

## 5. What is proved

All theorems are of the safety specification, for every value of the constants that satisfies
the named assumptions of the component's module: the types of the constants, that the null
values are none of the other values, and in `GithubTools` that "main" is a branch. `NeverPanics`
also assumes that Kubernetes is among the components of the release, which is what the release
CLI's code has, and `ReadmeFollowsHolds` that the README upstream starts with, if there is one,
belongs to its RELEASE (`OriginalsTogether`; both upstreams of the `go_release` run do). Every
safety property of the passing runs, invariant or action property, is stated by a theorem.

**PluginServerProofs.** `TypeCorrect`; `ExclusionHolds`; `NoWaitCycleHolds`;
`SerialFilingsHolds`; `AuthorisedHolds`; `LocksRefinedHolds` (the refinement of `KeyedLocks`).
`Exclusion` alone is not inductive: that two goroutines hold locks of different keys follows only
if a mutex is in the map under one key (`BackInv`), if a goroutine that fetched a mutex fetched
that of its key (`GotInv`), if whoever is inside holds it (`HeldInv`), and if its two mutexes differ
(`TwoInv`, which is what an organisation named like the project breaks). That no second mutex
is made for a key rests on `MapInv`: whoever is between the look-up and the fetch holds `mapLock`,
and what it looked up is still true. `SerialFilings` adds `FileInv`: a goroutine that has filed
and has not ended still holds its lock, so whoever filed before it has ended.

What a delivery has filed is `WorkInv`: `FiledOnceHolds`, `BackportAccountedHolds` and
`MirrorCompleteHolds` come out of the same induction. It says, by position: a
delivery that looks for issues has in `todo` what the versions before its position name
(`NamedBy`); one that mirrors has filed what its versions name but for `todo`, and nothing of
`todo`; one that is about to file a backport has filed none at its position, and each one before
was filed and announced, or its failure was (`Accounted`). No place is filed for twice
(`OncePerPlace`) and what is filed there is what it names (`FiledAsNamed`), so that counting places
counts namings. An error may end a delivery
anywhere, with part of its work done. `NeverStandsStillHolds` is what of
`AllHandled` needs no fairness: while handlers run, one of them waits for nobody (`CanStep`, read
off the guards, as `ENABLED` is out of reach) or waits for itself. Whoever holds what the waiting
ones want would have to wait for its second lock, and by `NoWaitCycle` nobody waits for such a one.

**RetrierProofs.** `RetrierTypeCorrect`, `CallsBoundedHolds`, `StartsInTimeHolds`,
`BacksOffHolds`, `LastWordHolds` (the result is the last call's: proved, no run asks it). The
arithmetic is in `CutProduct` and `WaitGrows`: with a factor of at least one, the cut product
of factor and count is at least the count. The invariant adds that the waiting execution has made
as many calls as it counts and what the time of its last call was.

**IptablesWrapperProofs.** `WrapperTypeCorrect`, `ReexecOnceHolds`, `RightModeHolds`,
`FailsOnlyInWindowHolds`. The invariant says that a missing command is about to be linked by
somebody, or was to be by somebody who was killed just before (`Missing`, `Owes`), and that what an execution has switched never points at the
wrapper again (`Switched`): another execution may remove it or point it elsewhere, never back.
`SettledHolds` and `MixedNeedsRaceHolds` rest on `SwitchInv`. For the first: once a privileged
execution has got as far as switching, there is always one that has switched everything or will,
unless another takes a link from under it (`Sure`, `Lasting`), and then that other is such a one; what
it switched stays switched. For the second: while nothing has overlapped, one execution at most is
at work (`OneAtATime`), every command is the wrapper, is in its hands or has its mode (`InHand`), and
when none is at work no command has been switched or all have, to one mode (`OneMode`): after that
no command leads to the wrapper any more.

**GoReleaseProofs.** `GoReleaseTypeCorrect`, `OpenedCarriesWorkHolds`, `PushKeptHolds`;
`ReleaseStepsHolds`; `ReadmeFollowsHolds`. The invariant of the first three says that the ancestors
of a commit's ancestors are its own (`Graph`), that branches have at most one open pull request
(`Refs`), and that a run that asks for a pull request finds its commit on its branch (`Shown`): a
later push to the branch moves it to a descendant, and a pull request that is merged does not take
the branch from under the run.

What is on main rests on `FromFork`: every branch, and every clone a run works on, starts at a
commit main has or had, and every commit made on it since has the number its name tells, or that
of its start (`Grown`, `From`). The names carry it: runs that share a branch, or pull what another
pushed, share its number, and with it (but for `new`, whose number is 0) its start's RELEASE. The merge base, the last common
ancestor (`MergeBaseIs`; that a last one exists is `Greatest`, from the well-foundedness of the
naturals), is that start or a commit made on the branch after it (`Tip`), so a merge changes
RELEASE by the one step the branch made, or by nothing. The README adds `Together`: what one commit
holds belongs together, and no ancestor of main is ahead of it (`Before`). The arithmetic of a
merge is one lemma over numbers (`MergesTogether`): a merge that takes RELEASE from one side and
the README from the other is refused as a conflict, or both sides had announced one release.

**GithubToolsProofs.** `TypeCorrectness`, `CommitsTakeNothingBack`, `CommitsLand`,
`PullRequestsNamed`, `IssuesInOrder`. The invariant has a part per concern: where a run is
belongs to what it was asked for (`Control`); the graph of commits is transitive and each commit
newer than its ancestors, every reference is to a commit, and a run's commit is on its branch or
the branch was deleted (`Repo`); a pull request that is looked for was opened (`Pulling`); the
issues of a run are its versions up to its position (`Issuing`). A merge takes for each file the
newer of two versions or makes a new one, and that this takes nothing back needs the transitivity.

**PrAutomationProofs.** `TypeCorrectness`, `TagsAlwaysExist`, `OverwritesOnlyInRace`,
`MergesKeep`. `TreesInv` says how a job's three copies of the repository relate: unless main had
moved past the job's checkout (`moved`), the clone differs from its base in the tags and lists of
images the job built and in nothing else, and the checkout in their lists only; tags are of built
images even then; `BranchInv` says the same of the bot's branch, which outlives the
job; `LateInv` says that a periodic job on its way to a push under an open pull request was past
its look-up when that was opened, and that no periodic job comes to create-pr by `make release`.
That a tag exists when it is written needs the tag of create-pr to be that of the build
(`TagsOfJobs`), which is so for jobs with an `IMAGE_TAG` and for no other.

**ReleaseManifestProofs.** `ManifestsWhole`, `DigestsOfTheRun`, `ManifestTyped`. First, without
steps: what each of the component functions returns, if it does not fail, is sound and has an image
(`EveryComponent`), and which archives a component must have does not depend on the checkout
(`Required`, `SameNames`). Then the invariant: what the generated table promises (`Listed`) every
`Describe` keeps, although it replaces assets, and a digest it puts in lies between the tag's at
the run's start (`began`) and the tag's now (`Recent`). The types are a third argument: each component
function returns assets (`EveryComponentTyped`). `Assets` names the words its fields are made of
(`Words`, `Dirs`, `CsiTags`), since the provers know nothing of the set `STRING`.

**ConsumerUpdateProofs.** `DonePackagesAgree`, `NeverPanics`, `ToolUndisturbed`, `UpdateTyped`. On
top of the release tool's invariant: the packages the updater is past, those it met again apart,
have what their manifest says (`Past`), and what was fetched has its source (`Sources`, by
`SourceTyped` from `Listed`). However a run ends, it spoils only the file it was at (`EndKeeps`).
That the composition is a `SpecManifest` gives it the release tool's types for nothing.

**Model-checked only.** Liveness (`AllHandled`, `Terminates`), because the provers do not handle
`ENABLED` and fairness; and the two counterexamples, which are TLC's. The inductive invariants above
were themselves checked by TLC on the instances of the runs before they were proved.

## 6. Plan

Done: the plugin (the part with the most concurrency) first, then the retrier everybody uses,
the wrapper, the Go release tool with git and GitHub; then the automation of pull requests, the
release CLI with the consumer updater on top of it, and the tools over GitHub's API, each with
its proofs. To come, in this order:

1. What the liveness properties rest on, as safety: a measure that every step of the retrier and
   of a plugin handler lowers, so that only the scheduler is left to TLC.
2. `PrAutomation` over two branches, for the updates of other repositories, whose clones are
   brought up to date one after the other.

## 7. Not modelled

* **Minimal image scripts** (`src/eks-distro-base/scripts`). The closure of binaries, libraries
  and packages is decided by `rpm`, `dnf` and `ldd`, which the repository does not hold: a
  model would be one of them, invented, and a property of it one of the invention.
* **Build scripts** (`src/scripts`). Straight-line calls of `buildctl`, and loops that wait for a
  daemon or a tarball. `buildkit.sh:103` tries a build five times under `errexit` and
  `pipefail`; whether the retry is ever reached is a question of the shell's rules, not of states.
* **Rest of the git client** (`OPS/pkg/git/gogitClient.go`). Clones into a directory, `Pull` of a
  branch, `Copy`-, `Move`- and `DeleteFile` have no caller in the tools: no run of the system
  reaches them, and what one would do is not determined by this repository. Section 8
  lists what reading them found.
* **Updates of other repositories** (`src/pr-scripts`, the parts of `update_image_tag.sh` and
  the Makefiles of other repositories). Plan, 2.
* **`src/tools/minimalImageBuildTool`**: a stub and a copy of the retrier. Loggers, generated
  code and mocks, Dockerfiles, charts and the patches of Go: data.

## 8. Observations without a run

Met while reading; each is a fact about one line, where a run would add nothing.

* `OPS/pkg/externalplugin`: `/backport:golang` is documented (`backportRequest.go:52`) and an
  empty `case`: nothing is answered.
* `OPS/pkg/externalplugin/server.go:126`: the comment says "only consider newly opened issues and
  not PRs"; with `&&` for `||` every edited issue that is no pull request is dropped and
  opened or edited pull requests are handled. The model does the same.
* `OPS/pkg/externalplugin`: mirrored issues are assigned to nobody (`golangPatchReleaseRequest.go:82`),
  while the help text (`server.go:36`) says they are assigned to the requestor.
* `OPS/pkg/externalplugin`: in an organisation named `go` a `/backport:go` request waits for its
  own lock for ever (`backportGolangRequest.go:18`; modelled, section 4).
* `OPS/pkg/eksGoRelease`: with 380 s, a factor of 1.5 and 15 retries of 30 s only four calls are
  made (`githubRelease.go:329`).
* `OPS/pkg/eksGoRelease/createPatch.go:65`: a comment says that a failed patch should not fail the
  automation, and line 78 returns the error of the call that follows.
* `OPS/pkg/prManager/prManager.go:168`: the status of a nil response is read when the network
  fails (modelled: `CreatePr` and `OpenPull` end in `"crashed"`).
* `OPS/pkg/prManager/prManager.go:178`: the look-up of the pull request that is in the way puts the
  owner before a branch that already has the fork's owner, so a fork's is never found, and an
  empty list is answered with an empty URL and no error (modelled: `Listed`, `FoundUrl`).
* `OPS/pkg/git/gogitClient.go`: `CopyFile` has the arguments of `io.Copy` in the wrong order (455),
  `DeleteFile` truncates the file (484), `CreateFile` goes on after an error (390), a clone into a
  directory hides the errors of a repository that is there (80), and one that failed half way
  makes every retry fail because the directory is there; a clone in memory cannot be opened
  again, so functions that open the directory find none; `Pull` moves HEAD before it
  refuses unstaged changes; `Push` names no refspec, so all heads of the clone are pushed
  (modelled). No modelled command calls the others.
* `src/eks-distro-base/Makefile:123`: `IMAGE_TAG` is a date that is taken again at every use unless
  the environment sets it: without it the tag file names a tag later than the one that was pushed,
  which no image has (modelled: `Dated`, `TagOf`; `TagsExist` is about the other jobs).
* `src/eks-distro-base/Makefile:105`: a postsubmit that builds writes `true` to `-pushed` and goes on
  to create-pr, where `open_pr_check.sh:26` lets it pass: alone and without any race it
  replaces by force what an open pull request shows (modelled: `Build`, `NotRefused`;
  `OverwritesInRace` is about periodic jobs).
* `OPS/pkg/externalplugin/server.go:180`: a version that a command names twice is filed twice, and two
  spellings of one number (`#7`, `#07`) are mirrored as two issues (modelled; `FiledOnce` counts
  namings).
* `OPS/pkg/eksDistroRelease/eksDistroRelease.go:25`: a version text that lacks a part is indexed out
  of range, before any file is touched (modelled: `Garbled`).
* `src/eks-distro-base/update_base_image.sh:31`: for every version but windows the old tag is read
  under `.alal…`, which is not there; it is used in a text only.
* `src/release/pkg/get_artifact_uri.go:44`: what the user types is not checked before it is an index.
* `src/eks-distro-base/iptables-wrappers`: `wrapper_test.go:148` checks the path of `iptables` where
  that of `ip6tables` is meant.
