---------------------------- MODULE PluginServer ----------------------------
(***************************************************************************)
(* The Prow external plugin of tools/eksDistroBuildToolingOpsTools         *)
(* (pkg/externalplugin).  Every webhook delivery is answered at once and   *)
(* handled by a goroutine of its own: an "issue_comment" with a            *)
(* "/backport:<project> <versions>" command files one issue per version,   *)
(* an "issues" event titled "Golang Patch Release: ..." mirrors the        *)
(* upstream security issues of the versions it names.  Goroutines are      *)
(* serialised by mutexes kept in maps that mapLock protects.               *)
(*                                                                         *)
(* GitHub is external: a call that writes may be done, may fail, or may    *)
(* be done with its answer lost.  repo and issue number always travel      *)
(* together and are one value here.                                        *)
(***************************************************************************)
EXTENDS Naturals, Sequences, FiniteSets

CONSTANTS
  Deliveries,  \* webhook deliveries; a redelivery repeats an event
  Events,      \* the events GitHub may deliver
  Versions,    \* Go versions an event may name
  Texts,       \* texts "#<digits>" an upstream issue may be named by
  Number,      \* Number[t]: the number text t spells; "#7" and "#07" both spell 7
  MaxInt,      \* the largest int
  References,  \* References[v]: texts in the issues of v's security milestone
  Authors,     \* GitHub users
  Members,     \* users that belong to the organisation
  Bot,         \* the account eks-distro-bot
  AllowAll,    \* the --allow-all flag
  MaxCrashes,  \* bound on process restarts
  Nil          \* no delivery, no mutex, no event

Stages == {"outer", "inner"}  \* handleBackportRequest's lock, backportGolang's
MutexIds == Deliveries \X Stages
Outcomes == {"done", "failed", "lost"}  \* lost: done, but the caller sees an error

EventType == [kind: {"issues", "issue_comment"}, fresh: BOOLEAN, isPR: BOOLEAN,
              matches: BOOLEAN, project: STRING, org: STRING, issue: Nat,
              author: Authors, versions: Seq(Versions)]

ASSUME EventsAssumption == Events \subseteq EventType
ASSUME ReferencesAssumption ==
  /\ Number \in [Texts -> Nat] /\ MaxInt \in Nat
  /\ References \in [Versions -> SUBSET Texts]
  /\ \A v \in Versions : IsFiniteSet(References[v])
ASSUME FlagAssumption == AllowAll \in BOOLEAN /\ MaxCrashes \in Nat
ASSUME NilAssumption == Nil \notin Deliveries /\ Nil \notin MutexIds /\ Nil \notin Events

VARIABLES
  event,     \* event[d]: the event delivery d carried
  pc,        \* pc[d]: where d's goroutine is
  stage,     \* stage[d]: which of its two locks d is dealing with
  mutex,     \* mutex[d][s]: the mutex d fetched from the map at stage s
  lockMap,   \* lockGolangPatchMap and lockBackportMap: the mutex of a key
  mapLock,   \* the goroutine inside the map's critical section
  holder,    \* holder[m]: the goroutine that locked mutex m
  pos,       \* pos[d]: index of d's loop over the versions
  todo,      \* todo[d]: texts in the map m of the upstream issues d still has to mirror
  result,    \* result[d]: what d's handler returned
  issues,    \* issues filed on GitHub, oldest first; "at" is history: the pass of the
             \* loop over the versions, or the text of the map, an issue was filed for
  comments,  \* comments posted on GitHub
  crashes    \* restarts so far

local == <<stage, mutex, pos, todo, result>>
locks == <<lockMap, mapLock, holder>>
github == <<issues, comments>>
vars == <<event, pc, local, locks, github, crashes>>

-----------------------------------------------------------------------------
(* Events and keys *)

\* The filters of handleIssue and handleIssueComment before any lock.
Considered(e) ==
  /\ e.matches
  /\ IF e.kind = "issues" THEN e.fresh \/ e.isPR ELSE e.fresh

\* Fault: the key tells requests for different versions apart.
KeyPerVersions(e, s) == <<s, e.project, e.org, e.issue, e.versions>>
\* golangPatchReleaseRequest{org, repo, num}; backportRequest is built as
\* {project, org, ...} by handleBackportRequest, {org, project, ...} by backportGolang.
Key(e, s) ==
  IF e.kind = "issues" THEN <<"golangPatch", e.org, "", e.issue>>
  ELSE IF s = "outer" THEN <<"backport", e.project, e.org, e.issue>>
  ELSE <<"backport", e.org, e.project, e.issue>>

Keys == {Key(e, s) : e \in Events, s \in Stages}
KeyOf(d) == Key(event[d], stage[d])

\* Fault: the bot may also ask for backports.
ExemptAll(e) == AllowAll \/ e.author = Bot
\* The bot is exempt for patch releases only.
Exempt(e) == AllowAll \/ (e.kind = "issues" /\ e.author = Bot)

-----------------------------------------------------------------------------
(* Building blocks *)

Goto(d, label) == pc' = [pc EXCEPT ![d] = label]

\* return err: the deferred unlocks run next.
Return(d, r) == /\ Goto(d, "unlock")
                /\ result' = [result EXCEPT ![d] = r]

\* Fault: the outcome itself is returned.
RawVerdict(o) == o
Verdict(o) == IF o = "done" THEN "ok" ELSE "error"

\* CreateIssue on GitHub, with outcome o.
Post(d, at, item, assignee, o) ==
  issues' = IF o = "failed" THEN issues
            ELSE Append(issues, [by |-> d, at |-> at, item |-> item, assignee |-> assignee])

\* CreateComment on GitHub, with outcome o.
Say(d, what, item, o) ==
  comments' = IF o = "failed" THEN comments
              ELSE comments \cup {[by |-> d, what |-> what, item |-> item]}

-----------------------------------------------------------------------------
(* Dispatch: handleEvent starts the goroutine, whose first test is the filter. *)

Receive(d, e) ==
  /\ pc[d] = "idle"
  /\ event' = [event EXCEPT ![d] = e]
  /\ Goto(d, IF Considered(e) THEN "lookup" ELSE "ended")
  /\ UNCHANGED <<local, locks, github, crashes>>

-----------------------------------------------------------------------------
(* Lock lookup and acquisition *)

\* Fault: the map is used without mapLock.
MapLockIgnored(d) == TRUE
MapLockFree(d) == mapLock = Nil

\* Fault: mapLock is kept.
MapLockKept(d) == mapLock
MapUnlocked(d) == Nil

\* mapLock.Lock(); _, ok := map[key]
Lookup(d) ==
  /\ pc[d] = "lookup"
  /\ MapLockFree(d)
  /\ mapLock' = d
  /\ Goto(d, IF lockMap[KeyOf(d)] = Nil THEN "insert" ELSE "fetch")
  /\ UNCHANGED <<event, local, lockMap, holder, github, crashes>>

\* map[key] = &sync.Mutex{}
Insert(d) ==
  /\ pc[d] = "insert"
  /\ lockMap' = [lockMap EXCEPT ![KeyOf(d)] = <<d, stage[d]>>]
  /\ Goto(d, "fetch")
  /\ UNCHANGED <<event, local, mapLock, holder, github, crashes>>

\* lock = map[key]; mapLock.Unlock()
Fetch(d) ==
  /\ pc[d] = "fetch"
  /\ mutex' = [mutex EXCEPT ![d] = [@ EXCEPT ![stage[d]] = lockMap[KeyOf(d)]]]
  /\ mapLock' = MapUnlocked(d)
  /\ Goto(d, "acquire")
  /\ UNCHANGED <<event, stage, pos, todo, result, lockMap, holder, github, crashes>>

\* Where a handler goes once it has its lock.
Entered(d) ==
  IF stage[d] = "inner" THEN (IF event[d].isPR THEN "unlock" ELSE "create")
  ELSE IF Exempt(event[d]) THEN "dispatch" ELSE "member"

\* lock.Lock(): a Go mutex is not reentrant.
Acquire(d) ==
  /\ pc[d] = "acquire"
  /\ holder[mutex[d][stage[d]]] = Nil
  /\ holder' = [holder EXCEPT ![mutex[d][stage[d]]] = d]
  /\ Goto(d, Entered(d))
  /\ UNCHANGED <<event, local, lockMap, mapLock, github, crashes>>

-----------------------------------------------------------------------------
(* Who may ask *)

Member(d) ==
  /\ pc[d] = "member"
  /\ \/ Return(d, "error")
     \/ /\ Goto(d, IF event[d].author \in Members THEN "dispatch" ELSE "refuse")
        /\ UNCHANGED result
  /\ UNCHANGED <<event, stage, mutex, pos, todo, locks, github, crashes>>

\* The comment that refuses a stranger or an unknown project ends the handler.
Decline(d) ==
  /\ pc[d] \in {"refuse", "reject"}
  /\ \E o \in Outcomes : Say(d, pc[d], 0, o) /\ Return(d, Verdict(o))
  /\ UNCHANGED <<event, stage, mutex, pos, todo, locks, issues, crashes>>

\* Fault: every project takes the second lock.
SwitchWithoutProject(e) == IF e.kind = "issues" THEN "find" ELSE "lookup"
\* The switch on the project; "golang" is an empty case, Go does not fall through.
Switch(e) ==
  IF e.kind = "issues" THEN "find"
  ELSE IF e.project = "golang" THEN "unlock"
  ELSE IF e.project = "go" THEN "lookup"
  ELSE "reject"

Dispatch(d) ==
  /\ pc[d] = "dispatch"
  /\ Goto(d, Switch(event[d]))
  /\ stage' = [stage EXCEPT ![d] =
                 IF Switch(event[d]) = "lookup" THEN "inner" ELSE "outer"]
  /\ UNCHANGED <<event, mutex, pos, todo, result, locks, github, crashes>>

-----------------------------------------------------------------------------
(* handleGolangPatchRelease *)

\* Fault: the map is made anew for every version.
FoundLast(d) == References[event[d].versions[pos[d]]]
Found(d) == todo[d] \cup References[event[d].versions[pos[d]]]

\* One FindIssuesWithOrg per version; an error returns before anything is filed.
Find(d) ==
  /\ pc[d] = "find"
  /\ IF pos[d] > Len(event[d].versions)
     THEN Goto(d, "mirror") /\ UNCHANGED <<pos, todo, result>>
     ELSE \/ Return(d, "error") /\ UNCHANGED <<pos, todo>>
          \/ /\ todo' = [todo EXCEPT ![d] = Found(d)]
             /\ pos' = [pos EXCEPT ![d] = @ + 1]
             /\ UNCHANGED <<pc, result>>
  /\ UNCHANGED <<event, stage, mutex, locks, github, crashes>>

\* Atoi, GetIssue and CreateIssue for any text left in the map; nobody is assigned.
\* A number too large for an int is an error before either call.
Mirror(d) ==
  /\ pc[d] = "mirror"
  /\ \/ todo[d] = {} /\ Return(d, "ok") /\ UNCHANGED <<todo, issues>>
     \/ \E t \in todo[d] :
          Number[t] > MaxInt /\ Return(d, "error") /\ UNCHANGED <<todo, issues>>
     \/ \E t \in todo[d], o \in Outcomes :
          /\ Number[t] <= MaxInt
          /\ Post(d, t, Number[t], Nil, o)
          /\ IF o = "done"
             THEN todo' = [todo EXCEPT ![d] = @ \ {t}] /\ UNCHANGED <<pc, result>>
             ELSE Return(d, "error") /\ UNCHANGED todo
  /\ UNCHANGED <<event, stage, mutex, pos, locks, comments, crashes>>

-----------------------------------------------------------------------------
(* backportGolang *)

\* The loop test, or CreateIssue for the version at pos, which may be one filed before:
\* a command that names a version twice has it filed twice.
Create(d) ==
  /\ pc[d] = "create"
  /\ IF pos[d] > Len(event[d].versions)
     THEN Return(d, "ok") /\ UNCHANGED issues
     ELSE \E o \in Outcomes :
            /\ Post(d, pos[d], event[d].versions[pos[d]], event[d].author, o)
            /\ Goto(d, IF o = "done" THEN "created" ELSE "notCreated")
            /\ UNCHANGED result
  /\ UNCHANGED <<event, stage, mutex, pos, todo, locks, comments, crashes>>

\* Fault: a version whose creation was reported as failed is tried again.
NextPosRetry(d) == IF pc[d] = "notCreated" THEN pos[d] ELSE pos[d] + 1
NextPos(d) == pos[d] + 1

\* Fault: the error of the comment is ignored.
ContinuesAlways(o) == TRUE
Continues(o) == o = "done"

\* createIssue's comment: its error is the only one createIssue returns.
Announce(d) ==
  /\ pc[d] \in {"created", "notCreated"}
  /\ \E o \in Outcomes :
       /\ Say(d, pc[d], pos[d], o)
       /\ IF Continues(o)
          THEN /\ Goto(d, "create")
               /\ pos' = [pos EXCEPT ![d] = NextPos(d)]
               /\ UNCHANGED result
          ELSE Return(d, "error") /\ UNCHANGED pos
  /\ UNCHANGED <<event, stage, mutex, todo, locks, issues, crashes>>

-----------------------------------------------------------------------------
(* Return and restart *)

\* The deferred unlocks, innermost first.
Unlock(d) ==
  /\ pc[d] = "unlock"
  /\ holder' = [holder EXCEPT ![mutex[d][stage[d]]] = Nil]
  /\ IF stage[d] = "inner"
     THEN stage' = [stage EXCEPT ![d] = "outer"] /\ UNCHANGED pc
     ELSE Goto(d, "ended") /\ UNCHANGED stage
  /\ UNCHANGED <<event, mutex, pos, todo, result, lockMap, mapLock, github, crashes>>

\* The process dies: goroutines and mutexes go, what is on GitHub stays.
Restart ==
  /\ crashes < MaxCrashes
  /\ crashes' = crashes + 1
  /\ pc' = [d \in Deliveries |-> IF pc[d] \in {"idle", "ended"} THEN pc[d] ELSE "lost"]
  /\ lockMap' = [k \in Keys |-> Nil]
  /\ mapLock' = Nil
  /\ holder' = [m \in MutexIds |-> Nil]
  /\ mutex' = [d \in Deliveries |-> [s \in Stages |-> Nil]]
  /\ UNCHANGED <<event, stage, pos, todo, result, github>>

-----------------------------------------------------------------------------
Init ==
  /\ event = [d \in Deliveries |-> Nil]
  /\ pc = [d \in Deliveries |-> "idle"]
  /\ stage = [d \in Deliveries |-> "outer"]
  /\ mutex = [d \in Deliveries |-> [s \in Stages |-> Nil]]
  /\ lockMap = [k \in Keys |-> Nil]
  /\ mapLock = Nil
  /\ holder = [m \in MutexIds |-> Nil]
  /\ pos = [d \in Deliveries |-> 1]
  /\ todo = [d \in Deliveries |-> {}]
  /\ result = [d \in Deliveries |-> "ok"]
  /\ issues = <<>>
  /\ comments = {}
  /\ crashes = 0

\* A step of the goroutine of delivery d.
Step(d) ==
  \/ Lookup(d) \/ Insert(d) \/ Fetch(d) \/ Acquire(d)
  \/ Member(d) \/ Decline(d) \/ Dispatch(d)
  \/ Find(d) \/ Mirror(d) \/ Create(d) \/ Announce(d)
  \/ Unlock(d)

Next ==
  \/ \E d \in Deliveries, e \in Events : Receive(d, e)
  \/ \E d \in Deliveries : Step(d)
  \/ Restart

Spec == Init /\ [][Next]_vars

\* The Go scheduler runs every goroutine, and sync.Mutex hands a contended lock
\* to its longest waiter, so a lock that is free again and again is obtained.
Fairness == \A d \in Deliveries : WF_vars(Step(d)) /\ SF_vars(Lookup(d)) /\ SF_vars(Acquire(d))

FairSpec == Spec /\ Fairness

-----------------------------------------------------------------------------
(* What must hold *)

\* Labels of a goroutine that holds the lock of its stage, and of one that seeks it.
Working == {"member", "refuse", "dispatch", "reject", "find", "mirror", "create",
            "created", "notCreated", "unlock"}
Seeking == {"lookup", "insert", "fetch", "acquire"}

Issue == [by: Deliveries, at: Nat \cup Texts, item: Nat \cup Versions,
          assignee: Authors \cup {Nil}]
Comment == [by: Deliveries, what: {"refuse", "reject", "created", "notCreated"}, item: Nat]

\* Every variable has its type.
TypeOK ==
  /\ event \in [Deliveries -> Events \cup {Nil}]
  /\ pc \in [Deliveries -> Working \cup Seeking \cup {"idle", "ended", "lost"}]
  /\ stage \in [Deliveries -> Stages]
  /\ mutex \in [Deliveries -> [Stages -> MutexIds \cup {Nil}]]
  /\ lockMap \in [Keys -> MutexIds \cup {Nil}]
  /\ mapLock \in Deliveries \cup {Nil}
  /\ holder \in [MutexIds -> Deliveries \cup {Nil}]
  /\ pos \in [Deliveries -> Nat \ {0}]
  /\ todo \in [Deliveries -> SUBSET Texts]
  /\ result \in [Deliveries -> {"ok", "error"}]
  /\ issues \in Seq(Issue)
  /\ comments \in SUBSET Comment
  /\ crashes \in 0..MaxCrashes

\* d is inside the code its lock of stage s protects.
Holding(d, s) ==
  IF s = "inner" THEN stage[d] = "inner" /\ pc[d] \in Working
  ELSE \/ stage[d] = "inner" /\ pc[d] # "lost"
       \/ pc[d] \in Working

Request(e) == <<e.kind, e.project, e.org, e.issue>>
FiledBy(d) == {i \in DOMAIN issues : issues[i].by = d}
\* The passes of its loop, or the texts, d filed an issue for.
Filed(d) == {issues[i].at : i \in FiledBy(d)}
Told(d, what) == {c.item : c \in {x \in comments : x.by = d /\ x.what = what}}

\* No two goroutines are ever inside the code protected by the same key, although
\* every one of them may have created the mutex it found missing in the map.
Exclusion ==
  \A d, e \in Deliveries, s, t \in Stages :
    d # e /\ Holding(d, s) /\ Holding(e, t) => Key(event[d], s) # Key(event[e], t)

\* The issues of one request are filed without an issue of another delivery of the
\* same request (same issue, same command) in between, restarts included.
SerialFilings ==
  \A i, j, k \in DOMAIN issues :
    i < j /\ j < k /\ issues[i].by = issues[k].by
    /\ Request(event[issues[j].by]) = Request(event[issues[i].by])
    => issues[j].by = issues[i].by

\* "Only a org member should be able to request a issue backport": whoever caused an
\* issue was a member, or the bot announcing a patch release, unless all are allowed.
Authorised ==
  \A i \in DOMAIN issues :
    LET e == event[issues[i].by] IN
      AllowAll \/ e.author \in Members \/ (e.kind = "issues" /\ e.author = Bot)

\* All the texts d's title is to have mirrored.
Wanted(d) == UNION {References[event[d].versions[i]] : i \in DOMAIN event[d].versions}
\* Where d's request names x: the places of a version in the command, the texts in the
\* milestones of the title that spell an upstream number.
Namings(d, x) ==
  IF event[d].kind = "issues" THEN {t \in Wanted(d) : Number[t] = x}
  ELSE {i \in DOMAIN event[d].versions : event[d].versions[i] = x}

\* One delivery files a version no more often than its command names it (a version
\* named twice is filed twice, nothing more), and mirrors an upstream issue no more
\* often than there are spellings of its number, even when several milestones have it.
FiledOnce ==
  \A d \in Deliveries : \A x \in {issues[i].item : i \in FiledBy(d)} :
    Cardinality({i \in FiledBy(d) : issues[i].item = x}) <= Cardinality(Namings(d, x))

\* A backport leaves no version behind unmentioned: each place in the command it is
\* past was announced as filed, and was filed, or its failure was announced; only the
\* one it is working on, or gave up at, may be filed without a word.
BackportAccounted ==
  \A d \in Deliveries :
    pc[d] # "idle" /\ event[d].kind = "issue_comment" =>
      /\ \A i \in 1..(pos[d] - 1) : i \in (Filed(d) \cap Told(d, "created"))
                                    \/ i \in Told(d, "notCreated")
      /\ Filed(d) \subseteq 1..pos[d]

\* A patch release handler that reports success has mirrored every upstream issue
\* of every version in the title, and no other, however its calls interleaved.
MirrorComplete ==
  \A d \in Deliveries :
    /\ pc[d] = "ended" /\ result[d] = "ok"
    /\ event[d].kind = "issues" /\ Considered(event[d])
    /\ (Exempt(event[d]) \/ event[d].author \in Members)
    => {issues[i].item : i \in FiledBy(d)} = {Number[t] : t \in Wanted(d)}

\* A goroutine that waits for its second lock waits for one that is not itself
\* waiting: the nested locks cannot deadlock two requests.  The exception is an
\* organisation named like the project, whose two keys are one key.
NoWaitCycle ==
  \A d, e \in Deliveries :
    /\ pc[d] = "acquire" /\ stage[d] = "inner" /\ holder[mutex[d]["inner"]] = e
    /\ d # e /\ event[d].org # event[d].project
    => pc[e] \in Working

\* d waits for the lock it holds: its organisation is named like its project.
WaitsForItself(d) ==
  pc[d] = "acquire" /\ stage[d] = "inner" /\ mutex[d]["inner"] = mutex[d]["outer"]

\* Every delivery that starts a handler ends it, or dies with the process, whatever the
\* others do, unless one of them waits for its own lock: it does so for ever, and those
\* that asked for the same issue with it.
AllHandled ==
  \A d \in Deliveries :
    pc[d] = "lookup" ~> pc[d] \in {"ended", "lost"} \/ \E e \in Deliveries : WaitsForItself(e)

\* The lock maps, the lazily made mutexes and mapLock together are one lock per key,
\* and issues are filed by lock owners only.
Mirrors == [by: Deliveries, at: Texts, item: {Number[t] : t \in Texts}, assignee: {Nil}]
Backports == [by: Deliveries, at: UNION {DOMAIN e.versions : e \in Events},
              item: Versions, assignee: Authors]
Locks == INSTANCE KeyedLocks WITH
  Filings <- Mirrors \cup Backports,
  Nobody <- Nil,
  owner <- [k \in Keys |-> IF lockMap[k] = Nil THEN Nil ELSE holder[lockMap[k]]],
  log <- issues
LocksRefined == Locks!Spec
=============================================================================
