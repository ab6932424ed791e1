------------------------- MODULE PluginServerProofs -------------------------
(***************************************************************************)
(* Theorems about PluginServer for every set of deliveries and events.     *)
(***************************************************************************)
EXTENDS PluginServer, FiniteSetTheorems, TLAPS

-----------------------------------------------------------------------------
(* The inductive invariant *)

\* A goroutine that exists knows its event.
EventKnown == \A d \in Deliveries : pc[d] # "idle" => event[d] \in Events

\* Types, with the bound of the event.
TypeInv == TypeOK /\ EventKnown

LEMMA KeyInKeys == \A e \in Events, s \in Stages : Key(e, s) \in Keys
  BY DEF Keys

LEMMA AppendTyped ==
  ASSUME issues \in Seq(Issue), NEW f \in Issue
  PROVE  Append(issues, f) \in Seq(Issue)
  OBVIOUS

\* A call of Mirror for text t, with outcome o.
MirrorCall(d, t, o) ==
  /\ Number[t] <= MaxInt
  /\ Post(d, t, Number[t], Nil, o)
  /\ IF o = "done"
     THEN todo' = [todo EXCEPT ![d] = @ \ {t}] /\ UNCHANGED <<pc, result>>
     ELSE Return(d, "error") /\ UNCHANGED todo

\* Mirror files for one text, or files nothing and returns.
LEMMA MirrorCases ==
  ASSUME NEW d, Mirror(d)
  PROVE  \/ todo[d] = {} /\ Return(d, "ok") /\ UNCHANGED <<todo, issues>>
         \/ todo[d] # {} /\ Return(d, "error") /\ UNCHANGED <<todo, issues>>
         \/ \E t \in todo[d], o \in Outcomes : MirrorCall(d, t, o)
  BY DEF Mirror, MirrorCall

\* What Mirror files for text t.
Mirrored(d, t) == [by |-> d, at |-> t, item |-> Number[t], assignee |-> Nil]

LEMMA MirroredTyped ==
  ASSUME NEW d \in Deliveries, NEW t \in Texts
  PROVE  /\ Mirrored(d, t) \in Issue /\ Mirrored(d, t) \in Mirrors
         /\ Mirrored(d, t).by = d /\ Mirrored(d, t).at = t /\ Mirrored(d, t).item = Number[t]
  <1>1. Number[t] \in Nat
    BY ReferencesAssumption
  <1>2. QED
    BY <1>1 DEF Mirrored, Issue, Mirrors

LEMMA PostMirror ==
  ASSUME TypeOK, NEW d \in Deliveries, NEW t \in todo[d], NEW o \in Outcomes, MirrorCall(d, t, o)
  PROVE  /\ issues' \in Seq(Issue) /\ t \in Texts
         /\ issues' = issues \/ issues' = Append(issues, Mirrored(d, t))
         /\ o = "done" => issues' = Append(issues, Mirrored(d, t))
  <1>1. t \in Texts
    BY DEF TypeOK
  <1>2. issues \in Seq(Issue) /\ Mirrored(d, t) \in Issue
    BY <1>1, MirroredTyped DEF TypeOK
  <1>3. /\ issues' = issues \/ issues' = Append(issues, Mirrored(d, t))
        /\ o = "done" => issues' = Append(issues, Mirrored(d, t))
    BY DEF MirrorCall, Post, Mirrored
  <1>4. QED
    BY <1>1, <1>2, <1>3

\* What Create files for the version d's loop is at.
Backported(d) ==
  [by |-> d, at |-> pos[d], item |-> event[d].versions[pos[d]], assignee |-> event[d].author]

\* Create files for the version at pos, or files nothing and returns.
LEMMA CreateCases ==
  ASSUME TypeOK, EventKnown, NEW d \in Deliveries, Create(d)
  PROVE  \/ Return(d, "ok") /\ UNCHANGED issues
         \/ /\ Backported(d) \in Issue /\ Backported(d) \in Backports
            /\ Backported(d).by = d /\ Backported(d).at = pos[d]
            /\ Backported(d).item = event[d].versions[pos[d]]
            /\ pos[d] \in DOMAIN event[d].versions
            /\ UNCHANGED result
            /\ \E o \in Outcomes :
                 /\ Goto(d, IF o = "done" THEN "created" ELSE "notCreated")
                 /\ issues' = issues \/ issues' = Append(issues, Backported(d))
                 /\ o = "done" => issues' = Append(issues, Backported(d))
  <1>1. CASE pos[d] > Len(event[d].versions)
    BY <1>1 DEF Create
  <1>2. CASE ~(pos[d] > Len(event[d].versions))
    <2>1. event[d] \in Events /\ event[d] \in EventType /\ pos[d] \in Nat \ {0}
      BY EventsAssumption DEF Create, TypeOK, EventKnown
    <2>2. event[d].author \in Authors /\ event[d].versions \in Seq(Versions)
      BY <2>1 DEF EventType
    <2>3. pos[d] \in DOMAIN event[d].versions
      BY <1>2, <2>1, <2>2
    <2>4. event[d].versions[pos[d]] \in Versions
      BY <2>2, <2>3
    <2>5. pos[d] \in UNION {DOMAIN e.versions : e \in Events}
      <3>1. DOMAIN event[d].versions \in {DOMAIN e.versions : e \in Events}
        BY <2>1
      <3>2. QED
        BY <2>3, <3>1
    <2>6. /\ Backported(d) \in Issue /\ Backported(d) \in Backports
          /\ Backported(d).by = d /\ Backported(d).at = pos[d]
          /\ Backported(d).item = event[d].versions[pos[d]]
      BY <2>1, <2>2, <2>4, <2>5 DEF Backported, Issue, Backports
    <2>7. PICK o \in Outcomes :
            /\ Post(d, pos[d], event[d].versions[pos[d]], event[d].author, o)
            /\ Goto(d, IF o = "done" THEN "created" ELSE "notCreated")
            /\ UNCHANGED result
      BY <1>2 DEF Create
    <2>8. /\ issues' = issues \/ issues' = Append(issues, Backported(d))
          /\ o = "done" => issues' = Append(issues, Backported(d))
      BY <2>7 DEF Post, Backported
    <2>9. QED
      BY <2>3, <2>6, <2>7, <2>8
  <1>3. QED
    BY <1>1, <1>2

LEMMA InitTypeInv == Init => TypeInv
  BY FlagAssumption DEF Init, TypeInv, TypeOK, EventKnown, Stages, Working, Seeking

LEMMA NextTypeInv == TypeInv /\ [Next]_vars => TypeInv'
  <1> SUFFICES ASSUME TypeInv, [Next]_vars PROVE TypeInv'
    OBVIOUS
  <1> USE EventsAssumption, FlagAssumption DEF TypeInv, EventKnown, TypeOK, Stages, Working, Seeking, local, locks, github
  <1>1. ASSUME NEW d \in Deliveries, NEW e \in Events, Receive(d, e) PROVE TypeInv'
    BY <1>1 DEF Receive, Goto
  <1>2. ASSUME NEW d \in Deliveries, Lookup(d) PROVE TypeInv'
    BY <1>2 DEF Lookup, Goto
  <1>3. ASSUME NEW d \in Deliveries, Insert(d) PROVE TypeInv'
    BY <1>3 DEF Insert, Goto, MutexIds
  <1>4. ASSUME NEW d \in Deliveries, Fetch(d) PROVE TypeInv'
    <2>1. KeyOf(d) \in Keys
      BY <1>4, KeyInKeys DEF Fetch, MapUnlocked, KeyOf
    <2>2. QED
      BY <1>4, <2>1 DEF Fetch, MapUnlocked, Goto
  <1>5. ASSUME NEW d \in Deliveries, Acquire(d) PROVE TypeInv'
    BY <1>5 DEF Acquire, Goto, Entered
  <1>6. ASSUME NEW d \in Deliveries, Member(d) PROVE TypeInv'
    BY <1>6 DEF Member, Goto, Return
  <1>7. ASSUME NEW d \in Deliveries, Decline(d) PROVE TypeInv'
    BY <1>7 DEF Decline, Say, Return, Goto, Verdict, Comment, Outcomes
  <1>8. ASSUME NEW d \in Deliveries, Dispatch(d) PROVE TypeInv'
    BY <1>8 DEF Dispatch, Switch, Goto
  <1>9. ASSUME NEW d \in Deliveries, Find(d) PROVE TypeInv'
    <2>1. pos[d] <= Len(event[d].versions) => Found(d) \subseteq Texts
      <3>1. event[d].versions \in Seq(Versions) /\ pos[d] \in Nat \ {0}
        BY <1>9 DEF Find, EventType
      <3>2. pos[d] <= Len(event[d].versions) => event[d].versions[pos[d]] \in Versions
        BY <3>1
      <3>3. \A v \in Versions : References[v] \subseteq Texts
        BY ReferencesAssumption
      <3>4. QED
        BY <3>2, <3>3 DEF Found
    <2>2. CASE pos[d] > Len(event[d].versions)
      BY <1>9, <2>2 DEF Find, Goto
    <2>3. CASE ~(pos[d] > Len(event[d].versions)) /\ Return(d, "error") /\ UNCHANGED <<pos, todo>>
      BY <1>9, <2>3 DEF Find, Return, Goto
    <2>4. CASE /\ ~(pos[d] > Len(event[d].versions))
               /\ todo' = [todo EXCEPT ![d] = Found(d)]
               /\ pos' = [pos EXCEPT ![d] = @ + 1]
               /\ UNCHANGED <<pc, result>>
      <3>1. event[d].versions \in Seq(Versions)
        BY <1>9 DEF Find, EventType
      <3>2. Found(d) \subseteq Texts
        BY <2>1, <2>4, <3>1
      <3>3. QED
        BY <1>9, <2>4, <3>2 DEF Find
    <2>5. QED
      BY <1>9, <2>2, <2>3, <2>4 DEF Find
  <1>10. ASSUME NEW d \in Deliveries, Mirror(d) PROVE TypeInv'
    <2>1. CASE UNCHANGED <<todo, issues>> /\ \E r \in {"ok", "error"} : Return(d, r)
      BY <1>10, <2>1 DEF Mirror, Return, Goto
    <2>2. ASSUME NEW t \in todo[d], NEW o \in Outcomes, MirrorCall(d, t, o)
          PROVE  TypeInv'
      <3>1. issues' \in Seq(Issue)
        BY <2>2, PostMirror
      <3>2. CASE todo' = [todo EXCEPT ![d] = @ \ {t}] /\ UNCHANGED <<pc, result>>
        BY <1>10, <3>1, <3>2 DEF Mirror
      <3>3. CASE Return(d, "error") /\ UNCHANGED todo
        BY <1>10, <3>1, <3>3 DEF Mirror, Return, Goto
      <3>4. QED
        BY <2>2, <3>2, <3>3 DEF MirrorCall
    <2>3. QED
      BY <1>10, <2>1, <2>2, MirrorCases
  <1>11. ASSUME NEW d \in Deliveries, Create(d) PROVE TypeInv'
    <2>1. CASE Return(d, "ok") /\ UNCHANGED issues
      BY <1>11, <2>1 DEF Create, Return, Goto
    <2>2. ASSUME NEW o \in Outcomes, Backported(d) \in Issue,
                 Goto(d, IF o = "done" THEN "created" ELSE "notCreated"), UNCHANGED result,
                 issues' = issues \/ issues' = Append(issues, Backported(d))
          PROVE  TypeInv'
      <3>1. issues' \in Seq(Issue)
        BY <2>2, AppendTyped
      <3>2. /\ pc' \in [Deliveries -> Working \cup Seeking \cup {"idle", "ended", "lost"}]
            /\ EventKnown'
        <4>1. CASE pc' = [pc EXCEPT ![d] = "created"]
          BY <1>11, <4>1 DEF Create
        <4>2. CASE pc' = [pc EXCEPT ![d] = "notCreated"]
          BY <1>11, <4>2 DEF Create
        <4>3. QED
          BY <2>2, <4>1, <4>2 DEF Goto
      <3>3. QED
        BY <1>11, <2>2, <3>1, <3>2 DEF Create
    <2>3. QED
      BY <1>11, <2>1, <2>2, CreateCases
  <1>12. ASSUME NEW d \in Deliveries, Announce(d) PROVE TypeInv'
    <2>1. comments' \in SUBSET Comment
      BY <1>12 DEF Announce, Say, Comment
    <2>2. /\ pc' \in [Deliveries -> Working \cup Seeking \cup {"idle", "ended", "lost"}]
          /\ EventKnown'
      BY <1>12 DEF Announce, Return, Goto
    <2>3. /\ pos' \in [Deliveries -> Nat \ {0}]
          /\ result' \in [Deliveries -> {"ok", "error"}]
      <3>1. pos[d] + 1 \in Nat \ {0}
        OBVIOUS
      <3>2. \/ pos' = [pos EXCEPT ![d] = pos[d] + 1] /\ UNCHANGED result
            \/ result' = [result EXCEPT ![d] = "error"] /\ UNCHANGED pos
        BY <1>12 DEF Announce, NextPos, Return
      <3>3. CASE pos' = [pos EXCEPT ![d] = pos[d] + 1] /\ UNCHANGED result
        BY <3>1, <3>3
      <3>4. CASE result' = [result EXCEPT ![d] = "error"] /\ UNCHANGED pos
        BY <3>4
      <3>5. QED
        BY <3>2, <3>3, <3>4, Zenon
    <2>4. UNCHANGED <<event, stage, mutex, todo, lockMap, mapLock, holder, issues, crashes>>
      BY <1>12 DEF Announce
    <2>5. /\ event' \in [Deliveries -> Events \cup {Nil}] /\ stage' \in [Deliveries -> Stages]
          /\ mutex' \in [Deliveries -> [Stages -> MutexIds \cup {Nil}]]
          /\ todo' \in [Deliveries -> SUBSET Texts] /\ issues' \in Seq(Issue)
      BY <2>4
    <2>6. /\ lockMap' \in [Keys -> MutexIds \cup {Nil}] /\ mapLock' \in Deliveries \cup {Nil}
          /\ holder' \in [MutexIds -> Deliveries \cup {Nil}] /\ crashes' \in 0..MaxCrashes
      BY <2>4
    <2>7. QED
      BY <2>1, <2>2, <2>3, <2>5, <2>6, Zenon
  <1>13. ASSUME NEW d \in Deliveries, Unlock(d) PROVE TypeInv'
    BY <1>13 DEF Unlock, Goto
  <1>14. CASE Restart
    BY <1>14 DEF Restart
  <1>15. CASE UNCHANGED vars
    BY <1>15 DEF vars
  <1>16. QED
    BY <1>1, <1>2, <1>3, <1>4, <1>5, <1>6, <1>7, <1>8, <1>9, <1>10, <1>11, <1>12,
       <1>13, <1>14, <1>15 DEF Next, Step

\* In every reachable state every variable has its type.
THEOREM TypeCorrect == Spec => []TypeOK
  <1>1. Spec => []TypeInv
    BY InitTypeInv, NextTypeInv, PTL DEF Spec
  <1>2. TypeInv => TypeOK
    BY DEF TypeInv
  <1>3. QED
    BY <1>1, <1>2, PTL

-----------------------------------------------------------------------------
(* Stages: only a "go" backport reaches its second lock *)

OuterLabels == {"idle", "ended", "member", "refuse", "dispatch", "reject", "find", "mirror"}
InnerLabels == {"create", "created", "notCreated"}

StageInv ==
  \A d \in Deliveries :
    /\ pc[d] \in OuterLabels => stage[d] = "outer"
    /\ pc[d] \in InnerLabels => stage[d] = "inner"
    /\ stage[d] = "inner" => /\ pc[d] # "idle"
                             /\ event[d].kind = "issue_comment"
                             /\ event[d].project = "go"

LEMMA NextStageInv == TypeInv /\ StageInv /\ [Next]_vars => StageInv'
  <1> SUFFICES ASSUME TypeInv, StageInv, [Next]_vars PROVE StageInv'
    OBVIOUS
  <1> USE DEF StageInv, OuterLabels, InnerLabels, TypeInv, TypeOK, Stages, Goto, local, locks, github
  <1>1. ASSUME NEW d \in Deliveries, NEW e \in Events, Receive(d, e) PROVE StageInv'
    BY <1>1 DEF Receive
  <1>2. ASSUME NEW d \in Deliveries, Lookup(d) \/ Insert(d) \/ Fetch(d) PROVE StageInv'
    BY <1>2 DEF Lookup, Insert, Fetch, MapUnlocked
  <1>3. ASSUME NEW d \in Deliveries, Acquire(d) PROVE StageInv'
    BY <1>3 DEF Acquire, Entered
  <1>4. ASSUME NEW d \in Deliveries, Member(d) \/ Decline(d) PROVE StageInv'
    BY <1>4 DEF Member, Decline, Return
  <1>5. ASSUME NEW d \in Deliveries, Dispatch(d) PROVE StageInv'
    <2>1. event[d] \in EventType
      BY <1>5, EventsAssumption DEF Dispatch, EventKnown
    <2>2. QED
      BY <1>5, <2>1 DEF Dispatch, Switch, EventType
  <1>6. ASSUME NEW d \in Deliveries, Find(d) PROVE StageInv'
    BY <1>6 DEF Find, Return
  <1>7. ASSUME NEW d \in Deliveries, Mirror(d) PROVE StageInv'
    BY <1>7 DEF Mirror, Return
  <1>8. ASSUME NEW d \in Deliveries, Create(d) PROVE StageInv'
    BY <1>8 DEF Create, Return
  <1>9. ASSUME NEW d \in Deliveries, Announce(d) PROVE StageInv'
    BY <1>9 DEF Announce, Return
  <1>10. ASSUME NEW d \in Deliveries, Unlock(d) PROVE StageInv'
    BY <1>10 DEF Unlock
  <1>11. CASE Restart
    BY <1>11 DEF Restart
  <1>12. CASE UNCHANGED vars
    BY <1>12 DEF vars
  <1>13. QED
    BY <1>1, <1>2, <1>3, <1>4, <1>5, <1>6, <1>7, <1>8, <1>9, <1>10, <1>11, <1>12
       DEF Next, Step

-----------------------------------------------------------------------------
(* The kinds of step, as far as the locks are concerned *)

\* A step inside a critical section that touches no lock.
Inside(d) ==
  /\ pc[d] \in Working
  /\ \E l \in Working : pc' = [pc EXCEPT ![d] = l]
  /\ UNCHANGED <<event, stage, mutex, lockMap, mapLock, holder>>

\* The step from the first critical section towards the second lock.
Deepen(d) ==
  /\ pc[d] = "dispatch"
  /\ pc' = [pc EXCEPT ![d] = "lookup"]
  /\ stage' = [stage EXCEPT ![d] = "inner"]
  /\ UNCHANGED <<event, mutex, lockMap, mapLock, holder>>

LockStep(d) ==
  Lookup(d) \/ Insert(d) \/ Fetch(d) \/ Acquire(d) \/ Inside(d) \/ Deepen(d) \/ Unlock(d)

LEMMA StepKinds ==
  ASSUME TypeInv, StageInv, NEW d \in Deliveries, Step(d)
  PROVE  LockStep(d)
  <1> USE DEF Goto, Return, Inside, Working, local, locks, github
  <1>1. CASE Member(d) \/ Decline(d)
    BY <1>1 DEF Member, Decline, LockStep
  <1>2. CASE Dispatch(d)
    <2>1. stage[d] = "outer"
      BY <1>2 DEF Dispatch, StageInv, OuterLabels
    <2>2. CASE Switch(event[d]) = "lookup"
      BY <1>2, <2>2 DEF Dispatch, Deepen, LockStep
    <2>3. CASE Switch(event[d]) # "lookup"
      <3>1. stage' = stage
        BY <1>2, <2>1, <2>3 DEF Dispatch, TypeInv, TypeOK
      <3>2. QED
        BY <1>2, <2>3, <3>1 DEF Dispatch, Switch, LockStep
    <2>4. QED
      BY <2>2, <2>3
  <1>3. CASE Find(d)
    <2>1. CASE pc' = pc
      BY <1>3, <2>1 DEF Find, LockStep, TypeInv, TypeOK
    <2>2. CASE pc' # pc
      BY <1>3, <2>2 DEF Find, LockStep
    <2>3. QED
      BY <2>1, <2>2
  <1>4. CASE Mirror(d)
    <2>1. CASE pc' = pc
      BY <1>4, <2>1 DEF Mirror, LockStep, TypeInv, TypeOK
    <2>2. CASE pc' # pc
      BY <1>4, <2>2 DEF Mirror, LockStep
    <2>3. QED
      BY <2>1, <2>2
  <1>5. CASE Create(d) \/ Announce(d)
    BY <1>5 DEF Create, Announce, LockStep
  <1>6. QED
    BY <1>1, <1>2, <1>3, <1>4, <1>5 DEF Step, LockStep

LEMMA NextKinds ==
  ASSUME TypeInv, StageInv, [Next]_vars
  PROVE  \/ \E d \in Deliveries, e \in Events : Receive(d, e)
         \/ \E d \in Deliveries : LockStep(d)
         \/ Restart
         \/ UNCHANGED vars
  BY StepKinds DEF Next

-----------------------------------------------------------------------------
(* The map: mapLock protects it, and an entry once made keeps its mutex *)

\* The goroutine inside the map's critical section is the one mapLock names.
MapLockInv == \A d \in Deliveries : mapLock = d <=> pc[d] \in {"insert", "fetch"}

\* What that goroutine found is still so.
FetchInv ==
  \A d \in Deliveries :
    /\ pc[d] = "insert" => lockMap[KeyOf(d)] = Nil
    /\ pc[d] = "fetch" => lockMap[KeyOf(d)] # Nil

\* A mutex is the entry of one key only, that of the goroutine which made it.
EntryInv ==
  \A k \in Keys, d \in Deliveries, s \in Stages :
    lockMap[k] = <<d, s>> => pc[d] # "idle" /\ k = Key(event[d], s)

MapInv == MapLockInv /\ FetchInv /\ EntryInv

LEMMA KeyOfInKeys ==
  ASSUME TypeInv, NEW d \in Deliveries, pc[d] # "idle", NEW s \in Stages
  PROVE  Key(event[d], s) \in Keys
  BY KeyInKeys DEF TypeInv, EventKnown

LEMMA NextMapInv == TypeInv /\ StageInv /\ MapInv /\ [Next]_vars => MapInv'
  <1> SUFFICES ASSUME TypeInv, StageInv, MapInv, [Next]_vars PROVE MapInv'
    OBVIOUS
  <1> USE NilAssumption DEF MapInv, MapLockInv, FetchInv, EntryInv, KeyOf, TypeInv, TypeOK, Goto,
                            local, locks, github
  <1>1. ASSUME NEW d \in Deliveries, NEW e \in Events, Receive(d, e) PROVE MapInv'
    BY <1>1 DEF Receive
  <1>2. ASSUME NEW d \in Deliveries, Lookup(d) PROVE MapInv'
    BY <1>2 DEF Lookup, MapLockFree
  <1>3. ASSUME NEW d \in Deliveries, Insert(d) PROVE MapInv'
    <2>1. /\ KeyOf(d) \in Keys
          /\ <<d, stage[d]>> \in MutexIds
      BY <1>3, KeyOfInKeys DEF Insert, MutexIds
    <2>2. MapLockInv' /\ FetchInv'
      BY <1>3, <2>1 DEF Insert
    <2>3. EntryInv'
      BY <1>3, <2>1 DEF Insert
    <2>4. QED
      BY <2>2, <2>3
  <1>4. ASSUME NEW d \in Deliveries, Fetch(d) PROVE MapInv'
    BY <1>4 DEF Fetch, MapUnlocked
  <1>5. ASSUME NEW d \in Deliveries, Acquire(d) PROVE MapInv'
    BY <1>5 DEF Acquire, Entered
  <1>6. ASSUME NEW d \in Deliveries, Inside(d) PROVE MapInv'
    BY <1>6 DEF Inside, Working
  <1>7. ASSUME NEW d \in Deliveries, Deepen(d) PROVE MapInv'
    BY <1>7 DEF Deepen
  <1>8. ASSUME NEW d \in Deliveries, Unlock(d) PROVE MapInv'
    <2>1. /\ pc[d] = "unlock"
          /\ pc' = pc \/ pc' = [pc EXCEPT ![d] = "ended"]
          /\ \A x \in Deliveries : x # d => stage'[x] = stage[x]
          /\ UNCHANGED <<event, lockMap, mapLock>>
      BY <1>8 DEF Unlock
    <2>2. MapLockInv' /\ EntryInv'
      BY <2>1
    <2>3. FetchInv'
      BY <2>1
    <2>4. QED
      BY <2>2, <2>3
  <1>9. CASE Restart
    BY <1>9 DEF Restart, MutexIds
  <1>10. CASE UNCHANGED vars
    BY <1>10 DEF vars
  <1>11. QED
    BY NextKinds, <1>1, <1>2, <1>3, <1>4, <1>5, <1>6, <1>7, <1>8, <1>9, <1>10 DEF LockStep

-----------------------------------------------------------------------------
(* Mutexes: who holds one is in the code it protects, and the converse *)

\* d has fetched the mutex of stage s and has not returned it.
Got(d, s) == Holding(d, s) \/ (pc[d] = "acquire" /\ stage[d] = s)

\* A fetched mutex is the one the map has for the key, so two goroutines that
\* fetched one for the same key fetched the same.
GotInv ==
  \A d \in Deliveries, s \in Stages :
    Got(d, s) => mutex[d][s] # Nil /\ mutex[d][s] = lockMap[Key(event[d], s)]

\* The goroutine inside the protected code is the holder.
HeldInv == \A d \in Deliveries, s \in Stages : Holding(d, s) => holder[mutex[d][s]] = d

\* A goroutine inside both sections holds two mutexes.
TwoInv == \A d \in Deliveries : Holding(d, "inner") => mutex[d]["inner"] # mutex[d]["outer"]

\* The holder of a mutex is inside the code it protects.
BackInv ==
  \A m \in MutexIds, d \in Deliveries :
    holder[m] = d => \E s \in Stages : Holding(d, s) /\ mutex[d][s] = m

LockInv == GotInv /\ HeldInv /\ TwoInv /\ BackInv
IInv == TypeInv /\ StageInv /\ MapInv /\ LockInv

LEMMA NextLockInv == IInv /\ [Next]_vars => LockInv'
  <1> SUFFICES ASSUME IInv, [Next]_vars PROVE LockInv'
    OBVIOUS
  <1> USE NilAssumption DEF IInv, LockInv, GotInv, HeldInv, TwoInv, BackInv, Got, Holding,
        StageInv, OuterLabels, InnerLabels, TypeInv, TypeOK, Working, Seeking, Goto, Stages, KeyOf
  <1>1. ASSUME NEW d \in Deliveries, NEW e \in Events, Receive(d, e) PROVE LockInv'
    BY <1>1 DEF Receive, local, locks
  <1>2. ASSUME NEW d \in Deliveries, Lookup(d) PROVE LockInv'
    BY <1>2 DEF Lookup, local
  <1>3. ASSUME NEW d \in Deliveries, Insert(d) PROVE LockInv'
    <2>1. KeyOf(d) \in Keys
      BY <1>3, KeyOfInKeys DEF Insert
    <2>2. lockMap[KeyOf(d)] = Nil
      BY <1>3 DEF Insert, MapInv, FetchInv
    <2>3. QED
      BY <1>3, <2>1, <2>2 DEF Insert, local
  <1>4. ASSUME NEW d \in Deliveries, Fetch(d) PROVE LockInv'
    BY <1>4 DEF Fetch, MapUnlocked, MapInv, FetchInv
  <1>5. ASSUME NEW d \in Deliveries, Acquire(d) PROVE LockInv'
    BY <1>5 DEF Acquire, Entered, local
  <1>6. ASSUME NEW d \in Deliveries, Inside(d) PROVE LockInv'
    BY <1>6 DEF Inside
  <1>7. ASSUME NEW d \in Deliveries, Deepen(d) PROVE LockInv'
    BY <1>7 DEF Deepen
  <1>8. ASSUME NEW d \in Deliveries, Unlock(d) PROVE LockInv'
    <2>1. CASE stage[d] = "inner"
      BY <1>8, <2>1 DEF Unlock
    <2>2. CASE stage[d] # "inner"
      BY <1>8, <2>2 DEF Unlock
    <2>3. QED
      BY <2>1, <2>2
  <1>9. CASE Restart
    BY <1>9 DEF Restart
  <1>10. CASE UNCHANGED vars
    BY <1>10 DEF vars, local, locks
  <1>11. QED
    BY NextKinds, <1>1, <1>2, <1>3, <1>4, <1>5, <1>6, <1>7, <1>8, <1>9, <1>10 DEF LockStep

LEMMA InitIInv == Init => IInv
  <1> SUFFICES ASSUME Init PROVE IInv
    OBVIOUS
  <1>1. TypeInv
    BY InitTypeInv
  <1>2. StageInv
    BY DEF Init, StageInv, OuterLabels, InnerLabels
  <1>3. MapInv
    BY NilAssumption DEF Init, MapInv, MapLockInv, FetchInv, EntryInv, MutexIds
  <1>4. LockInv
    BY NilAssumption DEF Init, LockInv, GotInv, HeldInv, TwoInv, BackInv, Got, Holding, Working, Stages
  <1>5. QED
    BY <1>1, <1>2, <1>3, <1>4 DEF IInv

\* The invariant every theorem below rests on.
THEOREM Inductive == Spec => []IInv
  <1>1. IInv /\ [Next]_vars => IInv'
    BY NextTypeInv, NextStageInv, NextMapInv, NextLockInv DEF IInv
  <1>2. QED
    BY InitIInv, <1>1, PTL DEF Spec

-----------------------------------------------------------------------------
(* Mutual exclusion *)

LEMMA IInvExclusion == IInv => Exclusion
  <1> SUFFICES ASSUME IInv,
                      NEW d \in Deliveries, NEW e \in Deliveries,
                      NEW s \in Stages, NEW t \in Stages,
                      d # e, Holding(d, s), Holding(e, t), Key(event[d], s) = Key(event[e], t)
               PROVE  FALSE
    BY DEF Exclusion
  <1>1. mutex[d][s] = mutex[e][t]
    BY DEF IInv, LockInv, GotInv, Got
  <1>2. holder[mutex[d][s]] = d /\ holder[mutex[e][t]] = e
    BY DEF IInv, LockInv, HeldInv
  <1>3. QED
    BY <1>1, <1>2

\* No two goroutines are inside the code protected by one key, for any number of
\* deliveries, events, failures and restarts.
THEOREM ExclusionHolds == Spec => []Exclusion
  BY Inductive, IInvExclusion, PTL

\* Waiting for the second lock never closes a circle of two requests.
LEMMA IInvNoWaitCycle == IInv => NoWaitCycle
  <1> SUFFICES ASSUME IInv,
                      NEW d \in Deliveries, NEW e \in Deliveries,
                      pc[d] = "acquire", stage[d] = "inner",
                      holder[mutex[d]["inner"]] = e, d # e, event[d].org # event[d].project,
                      pc[e] \notin Working
               PROVE  FALSE
    BY DEF NoWaitCycle
  <1> USE DEF IInv, LockInv, Stages
  <1>1. /\ mutex[d]["inner"] # Nil
        /\ mutex[d]["inner"] = lockMap[Key(event[d], "inner")]
    BY DEF GotInv, Got
  <1>2. mutex[d]["inner"] \in MutexIds
    BY <1>1 DEF TypeInv, TypeOK
  <1>3. PICK s \in Stages : Holding(e, s) /\ mutex[e][s] = mutex[d]["inner"]
    BY <1>2 DEF BackInv
  <1>4. s = "outer" /\ stage[e] = "inner"
    BY <1>3 DEF Holding
  <1>5. mutex[e]["outer"] = lockMap[Key(event[e], "outer")]
    BY <1>3, <1>4 DEF GotInv, Got
  <1>6. PICK x \in Deliveries, t \in Stages : mutex[d]["inner"] = <<x, t>>
    BY <1>2 DEF MutexIds
  <1>7. /\ Key(event[d], "inner") \in Keys
        /\ Key(event[e], "outer") \in Keys
    <2>1. pc[d] # "idle" /\ pc[e] # "idle"
      BY <1>4 DEF StageInv
    <2>2. QED
      BY <2>1, KeyInKeys DEF TypeInv, EventKnown
  <1>8. Key(event[d], "inner") = Key(event[e], "outer")
    <2>1. /\ lockMap[Key(event[d], "inner")] = <<x, t>>
          /\ lockMap[Key(event[e], "outer")] = <<x, t>>
      BY <1>1, <1>3, <1>4, <1>5, <1>6
    <2>2. EntryInv
      BY DEF MapInv
    <2>3. QED
      BY <1>7, <2>1, <2>2 DEF EntryInv
  <1>9. /\ event[d].kind = "issue_comment" /\ event[d].project = "go"
        /\ event[e].kind = "issue_comment" /\ event[e].project = "go"
    BY <1>4 DEF StageInv
  <1>10. event[d].org = "go"
    BY <1>8, <1>9 DEF Key
  <1>11. QED
    BY <1>9, <1>10

\* The only way for a request to block another for ever is an organisation named go.
THEOREM NoWaitCycleHolds == Spec => []NoWaitCycle
  BY Inductive, IInvNoWaitCycle, PTL

-----------------------------------------------------------------------------
(* What is filed, and in which order *)

Over == {"ended", "lost"}
\* Labels reached only after the membership test, and those that follow a filing.
Allowed == {"dispatch", "reject", "find", "mirror", "create", "created", "notCreated"}
Filing == {"mirror", "create", "created", "notCreated", "unlock"} \cup Over

\* Whoever passed the membership test of the first section was entitled to.
Entitled(e) == AllowAll \/ e.author \in Members \/ (e.kind = "issues" /\ e.author = Bot)
EntitledInv ==
  \A d \in Deliveries :
    pc[d] \in Allowed \/ stage[d] = "inner" => Entitled(event[d])

\* A delivery that filed something was entitled, and is still inside or is over.
FiledInv ==
  \A i \in DOMAIN issues : pc[issues[i].by] \in Filing /\ Entitled(event[issues[i].by])

\* When another delivery of the same request filed later, the earlier one is over.
OrderInv ==
  \A i, j \in DOMAIN issues :
    /\ i < j /\ issues[i].by # issues[j].by
    /\ Request(event[issues[i].by]) = Request(event[issues[j].by])
    => pc[issues[i].by] \in Over

FileInv == EntitledInv /\ FiledInv /\ OrderInv /\ SerialFilings

\* A step that files appends one issue of a delivery inside its critical section.
Files(d) ==
  /\ pc[d] \in {"mirror", "create"}
  /\ \E f \in Issue : f.by = d /\ issues' = Append(issues, f)
  /\ UNCHANGED event
  /\ \A x \in Deliveries : x # d => pc'[x] = pc[x]
  /\ pc'[d] \in Filing

\* Any other step leaves the issues alone and moves nobody out of Filing or Over.
Rests ==
  /\ UNCHANGED issues
  /\ \A d \in Deliveries : /\ pc[d] \in Filing => pc'[d] \in Filing
                           /\ pc[d] \in Over => pc'[d] \in Over
                           /\ pc[d] # "idle" => event'[d] = event[d]

LEMMA FileKinds ==
  ASSUME TypeInv, [Next]_vars
  PROVE  Rests \/ \E d \in Deliveries : Files(d)
  <1> USE DEF Rests, Filing, Over, TypeInv, TypeOK, Goto, Return, local, locks, github
  <1>1. ASSUME NEW d \in Deliveries, NEW e \in Events, Receive(d, e) PROVE Rests
    BY <1>1 DEF Receive
  <1>2. ASSUME NEW d \in Deliveries, Lookup(d) \/ Insert(d) \/ Fetch(d) PROVE Rests
    BY <1>2 DEF Lookup, Insert, Fetch, MapUnlocked
  <1>3. ASSUME NEW d \in Deliveries, Acquire(d) PROVE Rests
    BY <1>3 DEF Acquire
  <1>4. ASSUME NEW d \in Deliveries, Member(d) \/ Decline(d) \/ Dispatch(d) \/ Find(d) PROVE Rests
    BY <1>4 DEF Member, Decline, Dispatch, Find
  <1>5. ASSUME NEW d \in Deliveries, Mirror(d) PROVE Rests \/ Files(d)
    <2>1. CASE UNCHANGED issues
      BY <1>5, <2>1 DEF Mirror
    <2>2. ASSUME NEW t \in todo[d], NEW o \in Outcomes, MirrorCall(d, t, o), issues' # issues
          PROVE  Files(d)
      <3>1. issues' = Append(issues, Mirrored(d, t)) /\ Mirrored(d, t) \in Issue /\ Mirrored(d, t).by = d
        BY <2>2, PostMirror, MirroredTyped
      <3>2. /\ UNCHANGED event /\ pc[d] = "mirror"
            /\ \A x \in Deliveries : x # d => pc'[x] = pc[x]
            /\ pc'[d] \in {"mirror", "unlock"}
        BY <1>5, <2>2 DEF Mirror, MirrorCall
      <3>3. QED
        BY <3>1, <3>2 DEF Files
    <2>3. QED
      BY <1>5, <2>1, <2>2, MirrorCases
  <1>6. ASSUME NEW d \in Deliveries, Create(d) PROVE Rests \/ Files(d)
    <2>1. CASE Return(d, "ok") /\ UNCHANGED issues
      BY <1>6, <2>1 DEF Create
    <2>2. ASSUME NEW o \in Outcomes, Backported(d) \in Issue, Backported(d).by = d,
                 Goto(d, IF o = "done" THEN "created" ELSE "notCreated"),
                 issues' = issues \/ issues' = Append(issues, Backported(d))
          PROVE  Rests \/ Files(d)
      <3>1. /\ UNCHANGED event /\ pc[d] = "create"
            /\ \A x \in Deliveries : x # d => pc'[x] = pc[x]
            /\ pc'[d] \in {"created", "notCreated"}
        BY <1>6, <2>2 DEF Create
      <3>2. QED
        BY <2>2, <3>1 DEF Files
    <2>3. QED
      BY <1>6, <2>1, <2>2, CreateCases
  <1>7. ASSUME NEW d \in Deliveries, Announce(d) PROVE Rests
    BY <1>7 DEF Announce
  <1>8. ASSUME NEW d \in Deliveries, Unlock(d) PROVE Rests
    BY <1>8 DEF Unlock
  <1>9. CASE Restart
    BY <1>9 DEF Restart
  <1>10. CASE UNCHANGED vars
    BY <1>10 DEF vars
  <1>11. QED
    BY <1>1, <1>2, <1>3, <1>4, <1>5, <1>6, <1>7, <1>8, <1>9, <1>10 DEF Next, Step

LEMMA NextEntitledInv == TypeInv /\ StageInv /\ EntitledInv /\ [Next]_vars => EntitledInv'
  <1> SUFFICES ASSUME TypeInv, StageInv, EntitledInv, [Next]_vars PROVE EntitledInv'
    OBVIOUS
  <1> USE DEF EntitledInv, Allowed, Entitled, TypeInv, TypeOK, Goto, Return, local, locks, github
  <1>1. ASSUME NEW d \in Deliveries, NEW e \in Events, Receive(d, e) PROVE EntitledInv'
    <2>1. stage[d] = "outer"
      BY <1>1 DEF Receive, StageInv, OuterLabels
    <2>2. QED
      BY <1>1, <2>1 DEF Receive
  <1>2. ASSUME NEW d \in Deliveries, Lookup(d) \/ Insert(d) \/ Fetch(d) PROVE EntitledInv'
    BY <1>2 DEF Lookup, Insert, Fetch, MapUnlocked
  <1>3. ASSUME NEW d \in Deliveries, Acquire(d) PROVE EntitledInv'
    BY <1>3 DEF Acquire, Entered, Exempt
  <1>4. ASSUME NEW d \in Deliveries, Member(d) \/ Decline(d) \/ Dispatch(d) PROVE EntitledInv'
    BY <1>4 DEF Member, Decline, Dispatch
  <1>5. ASSUME NEW d \in Deliveries, Find(d) PROVE EntitledInv'
    BY <1>5 DEF Find
  <1>6. ASSUME NEW d \in Deliveries, Mirror(d) PROVE EntitledInv'
    BY <1>6 DEF Mirror
  <1>7. ASSUME NEW d \in Deliveries, Create(d) \/ Announce(d) PROVE EntitledInv'
    BY <1>7 DEF Create, Announce
  <1>8. ASSUME NEW d \in Deliveries, Unlock(d) PROVE EntitledInv'
    BY <1>8 DEF Unlock
  <1>9. CASE Restart
    BY <1>9 DEF Restart
  <1>10. CASE UNCHANGED vars
    BY <1>10 DEF vars
  <1>11. QED
    BY <1>1, <1>2, <1>3, <1>4, <1>5, <1>6, <1>7, <1>8, <1>9, <1>10 DEF Next, Step

LEMMA Filers ==
  ASSUME TypeInv, NEW i \in DOMAIN issues
  PROVE  issues[i].by \in Deliveries
  <1>1. issues \in Seq(Issue)
    BY DEF TypeInv, TypeOK
  <1>2. issues[i] \in Issue
    BY <1>1
  <1>3. QED
    BY <1>2 DEF Issue

\* The same request has the same first lock.
LEMMA RequestKeys ==
  ASSUME NEW e \in Events, NEW f \in Events, Request(e) = Request(f)
  PROVE  Key(e, "outer") = Key(f, "outer")
  BY DEF Request, Key

\* While d files, another delivery of its request that filed before is over.
LEMMA OthersOver ==
  ASSUME IInv, FiledInv, NEW d \in Deliveries, pc[d] \in {"mirror", "create"},
         NEW i \in DOMAIN issues, issues[i].by # d,
         Request(event[issues[i].by]) = Request(event[d])
  PROVE  pc[issues[i].by] \in Over
  <1> DEFINE e == issues[i].by
  <1>1. e \in Deliveries
    BY Filers DEF IInv
  <1>2. SUFFICES ASSUME pc[e] \notin Over PROVE FALSE
    OBVIOUS
  <1>3. pc[e] \in Working /\ pc[d] \in Working /\ pc[e] # "idle" /\ pc[d] # "idle"
    <2>1. pc[e] \in Filing
      BY DEF FiledInv
    <2>2. QED
      BY <1>2, <2>1 DEF Filing, Working, Over
  <1>4. Holding(d, "outer") /\ Holding(e, "outer")
    BY <1>3 DEF Holding
  <1>5. event[d] \in Events /\ event[e] \in Events
    BY <1>1, <1>3 DEF IInv, TypeInv, EventKnown
  <1>6. Key(event[d], "outer") = Key(event[e], "outer")
    BY <1>5, RequestKeys
  <1>7. QED
    BY <1>1, <1>4, <1>6, IInvExclusion DEF Exclusion, Stages

LEMMA NextFileInv == IInv /\ FileInv /\ [Next]_vars => FileInv'
  <1> SUFFICES ASSUME IInv, FileInv, [Next]_vars PROVE FileInv'
    OBVIOUS
  <1>1. EntitledInv'
    BY NextEntitledInv DEF IInv, FileInv
  <1>2. \A i \in DOMAIN issues : issues[i].by \in Deliveries
    BY Filers DEF IInv
  <1>3. CASE Rests
    <2>1. \A i \in DOMAIN issues : pc[issues[i].by] # "idle"
      BY DEF FileInv, FiledInv, Filing, Over
    <2>2. FiledInv'
      BY <1>2, <1>3, <2>1 DEF Rests, FileInv, FiledInv, Entitled
    <2>3. OrderInv' /\ SerialFilings'
      BY <1>2, <1>3, <2>1 DEF Rests, FileInv, OrderInv, SerialFilings
    <2>4. QED
      BY <1>1, <2>2, <2>3 DEF FileInv
  <1>4. ASSUME NEW d \in Deliveries, Files(d) PROVE FileInv'
    <2>1. PICK f \in Issue : f.by = d /\ issues' = Append(issues, f)
      BY <1>4 DEF Files
    <2> DEFINE n == Len(issues) + 1
    <2>2. /\ n \in Nat /\ DOMAIN issues = 1..(n - 1) /\ DOMAIN issues' = 1..n
          /\ issues'[n].by = d
          /\ \A i \in DOMAIN issues : issues'[i] = issues[i]
      BY <2>1 DEF IInv, TypeInv, TypeOK
    <2>3. /\ event' = event /\ pc[d] \in {"mirror", "create"} /\ pc'[d] \in Filing
          /\ \A x \in Deliveries : x # d => pc'[x] = pc[x]
          /\ pc[d] \notin Over
      BY <1>4 DEF Files, Over
    <2> HIDE DEF n
    <2>4. FiledInv'
      <3>1. Entitled(event[d])
        BY <2>3 DEF FileInv, EntitledInv, Allowed
      <3>2. \A i \in DOMAIN issues :
              /\ pc[issues[i].by] \in Filing /\ Entitled(event[issues[i].by])
              /\ pc'[issues[i].by] \in Filing
        BY <1>2, <2>3 DEF FileInv, FiledInv
      <3>3. QED
        BY <2>2, <2>3, <3>1, <3>2 DEF FiledInv, Entitled
    <2>5. \A i \in DOMAIN issues :
            issues[i].by # d /\ Request(event[issues[i].by]) = Request(event[d])
            => pc[issues[i].by] \in Over
      BY <2>3, OthersOver DEF FileInv
    <2>6. OrderInv'
      BY <1>2, <2>2, <2>3, <2>5 DEF FileInv, OrderInv
    <2>7. SerialFilings'
      BY <1>2, <2>2, <2>3 DEF FileInv, OrderInv, SerialFilings
    <2>8. QED
      BY <1>1, <2>4, <2>6, <2>7 DEF FileInv
  <1>5. QED
    BY <1>3, <1>4, FileKinds DEF IInv

LEMMA FileInvHolds == Spec => [](IInv /\ FileInv)
  <1>1. Init => FileInv
    BY DEF Init, FileInv, EntitledInv, Allowed, FiledInv, OrderInv, SerialFilings
  <1>2. IInv /\ [Next]_vars => IInv'
    BY NextTypeInv, NextStageInv, NextMapInv, NextLockInv DEF IInv
  <1>3. QED
    BY <1>1, <1>2, InitIInv, NextFileInv, PTL DEF Spec

\* The issues of a request are never interleaved with those of a redelivery of it.
THEOREM SerialFilingsHolds == Spec => []SerialFilings
  <1>1. IInv /\ FileInv => SerialFilings
    BY DEF FileInv
  <1>2. QED
    BY <1>1, FileInvHolds, PTL

\* Nobody but those entitled to ask causes an issue to be filed.
THEOREM AuthorisedHolds == Spec => []Authorised
  <1>1. IInv /\ FileInv => Authorised
    BY DEF FileInv, FiledInv, Authorised, Entitled
  <1>2. QED
    BY <1>1, FileInvHolds, PTL

-----------------------------------------------------------------------------
(* The lock maps implement one lock per key *)

\* Whatever is appended is something KeyedLocks may file.
Filings == Mirrors \cup Backports

LEMMA FiledIsFiling ==
  ASSUME TypeInv, NEW d \in Deliveries, Mirror(d) \/ Create(d)
  PROVE  \/ issues' = issues
         \/ \E f \in Filings : f.by = d /\ issues' = Append(issues, f)
  <1> USE DEF TypeInv
  <1>1. CASE Mirror(d)
    <2>1. ASSUME NEW t \in todo[d], NEW o \in Outcomes, MirrorCall(d, t, o), issues' # issues
          PROVE  \E f \in Filings : f.by = d /\ issues' = Append(issues, f)
      <3>1. issues' = Append(issues, Mirrored(d, t)) /\ Mirrored(d, t) \in Mirrors /\ Mirrored(d, t).by = d
        BY <2>1, PostMirror, MirroredTyped
      <3>2. QED
        BY <3>1 DEF Filings
    <2>2. QED
      BY <1>1, <2>1, MirrorCases
  <1>2. CASE Create(d)
    BY <1>2, CreateCases DEF Filings
  <1>3. QED
    BY <1>1, <1>2

Owner == [k \in Keys |-> IF lockMap[k] = Nil THEN Nil ELSE holder[lockMap[k]]]

\* A goroutine inside the code a key protects owns the key.
LEMMA InsideOwns ==
  ASSUME IInv, NEW d \in Deliveries, NEW s \in Stages, Holding(d, s)
  PROVE  Key(event[d], s) \in Keys /\ Owner[Key(event[d], s)] = d
  <1>1. pc[d] # "idle"
    BY DEF Holding, Working, IInv, StageInv
  <1>2. Key(event[d], s) \in Keys
    BY <1>1, KeyOfInKeys DEF IInv
  <1>3. lockMap[Key(event[d], s)] # Nil /\ holder[lockMap[Key(event[d], s)]] = d
    BY DEF IInv, LockInv, GotInv, Got, HeldInv
  <1>4. QED
    BY <1>2, <1>3 DEF Owner

\* No two keys share a mutex.
LEMMA OneKeyPerMutex ==
  ASSUME IInv, NEW k \in Keys, NEW l \in Keys, lockMap[k] # Nil, lockMap[k] = lockMap[l]
  PROVE  k = l
  <1>1. lockMap[k] \in MutexIds
    BY DEF IInv, TypeInv, TypeOK
  <1>2. PICK d \in Deliveries, s \in Stages : lockMap[k] = <<d, s>>
    BY <1>1 DEF MutexIds
  <1>3. k = Key(event[d], s) /\ l = Key(event[d], s)
    BY <1>2 DEF IInv, MapInv, EntryInv
  <1>4. QED
    BY <1>3

\* A step that touches neither the map nor a holder leaves every owner alone.
LEMMA OwnerStays == UNCHANGED <<lockMap, holder>> => UNCHANGED Owner
  BY DEF Owner

\* A new entry of the map is a mutex nobody holds.
LEMMA InsertStutters ==
  ASSUME IInv, NEW d \in Deliveries, Insert(d)
  PROVE  UNCHANGED <<Owner, issues>>
  <1> DEFINE m == <<d, stage[d]>>
  <1> USE DEF IInv, TypeInv, TypeOK, local, locks, github
  <1>1. KeyOf(d) \in Keys /\ lockMap[KeyOf(d)] = Nil /\ pc[d] = "insert"
    BY KeyOfInKeys DEF Insert, MapInv, FetchInv, KeyOf
  <1>2. m \in MutexIds
    BY DEF MutexIds
  <1>3. holder[m] = Nil
    <2>1. SUFFICES ASSUME NEW x \in Deliveries, holder[m] = x PROVE FALSE
      BY <1>2
    <2>2. PICK s \in Stages : Holding(x, s) /\ mutex[x][s] = m
      BY <1>2, <2>1 DEF LockInv, BackInv
    <2>3. /\ Key(event[x], s) \in Keys
          /\ lockMap[Key(event[x], s)] = m
      <3>1. Key(event[x], s) \in Keys
        BY <2>2, InsideOwns
      <3>2. QED
        BY <2>2, <3>1 DEF LockInv, GotInv, Got
    <2>4. Key(event[x], s) = KeyOf(d)
      BY <2>3 DEF MapInv, EntryInv, KeyOf
    <2>5. QED
      BY <1>1, <1>2, <2>3, <2>4, NilAssumption
  <1>4. lockMap' = [lockMap EXCEPT ![KeyOf(d)] = m] /\ UNCHANGED <<holder, issues>>
    BY DEF Insert
  <1> HIDE DEF m
  <1>5. QED
    BY <1>1, <1>2, <1>3, <1>4, NilAssumption DEF Owner

\* Locking a fetched mutex takes the key it was fetched for.
LEMMA AcquireTakes ==
  ASSUME IInv, NEW d \in Deliveries, Acquire(d)
  PROVE  \E k \in Keys : Locks!Take(d, k)
  <1> DEFINE m == mutex[d][stage[d]]
  <1> USE DEF IInv, TypeInv, TypeOK, local, github
  <1>1. /\ KeyOf(d) \in Keys /\ stage[d] \in Stages
        /\ holder' = [holder EXCEPT ![m] = d]
        /\ holder[m] = Nil
        /\ UNCHANGED <<lockMap, issues>>
    BY KeyOfInKeys DEF Acquire, KeyOf
  <1>2. m # Nil /\ m = lockMap[KeyOf(d)]
    BY <1>1 DEF Acquire, LockInv, GotInv, Got, KeyOf
  <1>3. m \in MutexIds
    BY <1>1, <1>2
  <1>4. \A k \in Keys : lockMap[k] = m => k = KeyOf(d)
    BY <1>1, <1>2, OneKeyPerMutex
  <1> HIDE DEF m
  <1>5. Owner[KeyOf(d)] = Nil /\ Owner' = [Owner EXCEPT ![KeyOf(d)] = d]
    BY <1>1, <1>2, <1>3, <1>4, ZenonT(60) DEF Owner
  <1>6. PICK k \in Keys : k = KeyOf(d)
    BY <1>1
  <1>7. Owner[k] = Nil /\ Owner' = [Owner EXCEPT ![k] = d]
    BY <1>5, <1>6
  <1>8. Locks!Take(d, k)
    BY <1>1, <1>7 DEF Owner, Locks!Take
  <1>9. QED
    BY <1>8

\* A deferred unlock gives back the key of the section it leaves.
LEMMA UnlockGives ==
  ASSUME IInv, NEW d \in Deliveries, Unlock(d)
  PROVE  \E k \in Keys : Locks!Give(d, k)
  <1> DEFINE m == mutex[d][stage[d]]
  <1> USE DEF IInv, TypeInv, TypeOK, local, github
  <1>1. stage[d] \in Stages /\ pc[d] = "unlock"
    BY DEF Unlock
  <1>2. Holding(d, stage[d])
    BY <1>1 DEF Holding, Working, Stages
  <1>3. KeyOf(d) \in Keys /\ Owner[KeyOf(d)] = d
    BY <1>1, <1>2, InsideOwns DEF KeyOf
  <1>4. m # Nil /\ m = lockMap[KeyOf(d)]
    BY <1>1, <1>2 DEF LockInv, GotInv, Got, KeyOf
  <1>5. m \in MutexIds
    BY <1>1, <1>4
  <1>6. /\ holder' = [holder EXCEPT ![m] = Nil]
        /\ UNCHANGED <<lockMap, issues>>
    BY DEF Unlock
  <1>7. \A k \in Keys : lockMap[k] = m => k = KeyOf(d)
    BY <1>3, <1>4, OneKeyPerMutex
  <1> HIDE DEF m
  <1>8. Owner' = [Owner EXCEPT ![KeyOf(d)] = Nil]
    BY <1>3, <1>4, <1>5, <1>6, <1>7 DEF Owner
  <1>9. PICK k \in Keys : k = KeyOf(d)
    BY <1>3
  <1>10. Owner[k] = d /\ Owner' = [Owner EXCEPT ![k] = Nil]
    BY <1>3, <1>8, <1>9
  <1>11. Locks!Give(d, k)
    BY <1>6, <1>10 DEF Owner, Locks!Give
  <1>12. QED
    BY <1>11

\* Filing is done by the owner of the request's first key.
LEMMA FilingFiles ==
  ASSUME IInv, NEW d \in Deliveries, Mirror(d) \/ Create(d)
  PROVE  UNCHANGED <<Owner, issues>> \/ \E f \in Filings : Locks!File(d, f)
  <1>1. UNCHANGED Owner
    BY OwnerStays DEF Mirror, Create, locks
  <1>2. Holding(d, "outer")
    BY DEF Mirror, Create, Holding, Working
  <1>3. \E k \in Keys : Owner[k] = d
    BY <1>2, InsideOwns DEF Stages
  <1>4. \/ issues' = issues
        \/ \E f \in Filings : f.by = d /\ issues' = Append(issues, f)
    BY FiledIsFiling DEF IInv
  <1>5. QED
    BY <1>1, <1>3, <1>4 DEF Locks!File, Owner

\* Every step of the server is a step of KeyedLocks, or a stutter.
LEMMA NextRefines ==
  ASSUME IInv, [Next]_vars
  PROVE  [Locks!Next]_(Locks!vars)
  <1> DEFINE Stutter == UNCHANGED <<Owner, issues>>
  <1>1. ASSUME Stutter PROVE UNCHANGED Locks!vars
    BY <1>1 DEF Locks!vars, Owner
  <1>2. ASSUME NEW d \in Deliveries, NEW e \in Events, Receive(d, e) PROVE Stutter
    BY <1>2, OwnerStays DEF Receive, locks, github
  <1>3. ASSUME NEW d \in Deliveries,
               Lookup(d) \/ Fetch(d) \/ Member(d) \/ Decline(d) \/ Dispatch(d) \/ Find(d) \/ Announce(d)
        PROVE  Stutter
    BY <1>3, OwnerStays DEF Lookup, Fetch, MapUnlocked, Member, Decline, Dispatch, Find, Announce, locks, github
  <1>4. ASSUME NEW d \in Deliveries, Insert(d) PROVE Stutter
    BY <1>4, InsertStutters
  <1>5. ASSUME NEW d \in Deliveries, Acquire(d) PROVE Locks!Next
    BY <1>5, AcquireTakes DEF Locks!Next
  <1>6. ASSUME NEW d \in Deliveries, Unlock(d) PROVE Locks!Next
    BY <1>6, UnlockGives DEF Locks!Next
  <1>7. ASSUME NEW d \in Deliveries, Mirror(d) \/ Create(d) PROVE Stutter \/ Locks!Next
    BY <1>7, FilingFiles DEF Locks!Next, Filings
  <1>8. CASE Restart
    <2>1. Owner' = [k \in Keys |-> Nil] /\ UNCHANGED issues
      BY <1>8 DEF Restart, Owner, github
    <2>2. QED
      BY <2>1 DEF Locks!Next, Locks!Restart, Owner
  <1>9. CASE UNCHANGED vars
    <2>1. Stutter
      BY <1>9, OwnerStays DEF vars, locks, github
    <2>2. QED
      BY <1>1, <2>1
  <1> HIDE DEF Stutter
  <1>10. QED
    BY <1>1, <1>2, <1>3, <1>4, <1>5, <1>6, <1>7, <1>8, <1>9 DEF Next, Step

\* The lock maps, the mutexes made on demand and mapLock implement one lock per key,
\* and nothing is filed without one.
THEOREM LocksRefinedHolds == Spec => LocksRefined
  <1>1. Init => Locks!Init
    BY DEF Init, Locks!Init
  <1>2. IInv /\ [Next]_vars => [Locks!Next]_(Locks!vars)
    BY NextRefines
  <1>3. QED
    BY <1>1, <1>2, Inductive, PTL DEF Spec, LocksRefined, Locks!Spec

-----------------------------------------------------------------------------
(* What each goroutine has done of its work *)

\* The texts in the milestones of the first k versions of d's title.
NamedBy(d, k) == UNION {References[event[d].versions[i]] : i \in 1..k}

\* The event of a goroutine that runs.
LEMMA KnownType ==
  ASSUME TypeInv, NEW d \in Deliveries, pc[d] # "idle"
  PROVE  /\ event[d] \in EventType /\ event[d].versions \in Seq(Versions)
         /\ Len(event[d].versions) \in Nat
         /\ DOMAIN event[d].versions = 1..Len(event[d].versions)
  <1>1. event[d] \in EventType
    BY EventsAssumption DEF TypeInv, EventKnown
  <1>2. QED
    BY <1>1 DEF EventType

\* All of them are those of the whole title.
LEMMA WantedIs ==
  ASSUME TypeInv, NEW d \in Deliveries, pc[d] # "idle"
  PROVE  Wanted(d) = NamedBy(d, Len(event[d].versions))
  <1>1. DOMAIN event[d].versions = 1..Len(event[d].versions)
    BY KnownType
  <1>2. QED
    BY <1>1 DEF Wanted, NamedBy

\* Labels before the work has begun.
Early == Seeking \cup {"member", "refuse", "dispatch", "reject"}

\* A mirror has filed what its milestones name but for what is left to do.
MirrorWork(d) ==
  /\ pc[d] \in {"idle"} \cup Early => pos[d] = 1 /\ todo[d] = {}
  /\ pc[d] = "member" => ~Exempt(event[d])
  /\ pc[d] = "refuse" => ~Entitled(event[d])
  /\ pc[d] = "reject" => event[d].kind # "issues"
  /\ pc[d] \in {"find", "mirror"} => event[d].kind = "issues"
  /\ pc[d] = "find" => pos[d] <= Len(event[d].versions) + 1 /\ todo[d] = NamedBy(d, pos[d] - 1)
  /\ pc[d] = "mirror" => Filed(d) \cup todo[d] = Wanted(d) /\ Filed(d) \cap todo[d] = {}
  /\ pc[d] \in {"unlock", "ended"} /\ event[d].kind = "issues" /\ result[d] = "ok"
     /\ Considered(event[d]) /\ Entitled(event[d]) => Filed(d) = Wanted(d)

\* A backport has filed up to the version it is at, and told of all before it.
Accounted(d) ==
  /\ \A i \in 1..(pos[d] - 1) : i \in (Filed(d) \cap Told(d, "created")) \/ i \in Told(d, "notCreated")
  /\ Filed(d) \subseteq 1..pos[d]
BackportWork(d) ==
  /\ pc[d] = "create" => Filed(d) \subseteq 1..(pos[d] - 1)
  /\ pc[d] = "created" => pos[d] \in Filed(d)
  /\ pc[d] # "idle" /\ event[d].kind = "issue_comment" => Accounted(d)

WorkInv == \A d \in Deliveries : MirrorWork(d) /\ BackportWork(d)

\* What the log says of a delivery, before and after an issue is filed.
LEMMA FiledAfter ==
  ASSUME TypeInv, NEW f \in Issue, issues' = Append(issues, f), NEW d \in Deliveries
  PROVE  Filed(d)' = IF f.by = d THEN Filed(d) \cup {f.at} ELSE Filed(d)
  <1> DEFINE n == Len(issues) + 1
  <1>1. issues \in Seq(Issue)
    BY DEF TypeInv, TypeOK
  <1>2. /\ DOMAIN issues' = DOMAIN issues \cup {n} /\ issues'[n] = f
        /\ \A i \in DOMAIN issues : issues'[i] = issues[i]
    BY <1>1
  <1> HIDE DEF n
  <1>3. QED
    BY <1>2 DEF Filed, FiledBy

LEMMA FiledSame == ASSUME UNCHANGED issues, NEW d PROVE Filed(d)' = Filed(d)
  BY DEF Filed, FiledBy

\* A delivery that has not come to its filing has filed nothing.
LEMMA NothingFiled ==
  ASSUME FiledInv, NEW d \in Deliveries, pc[d] \notin Filing
  PROVE  Filed(d) = {}
  BY DEF FiledInv, Filed, FiledBy

\* Comments are kept.
LEMMA ToldGrows ==
  ASSUME comments \subseteq comments', NEW d, NEW what
  PROVE  Told(d, what) \subseteq Told(d, what)'
  BY DEF Told

LEMMA ToldAfter ==
  ASSUME NEW d, NEW what, NEW item, comments' = comments \cup {[by |-> d, what |-> what, item |-> item]}
  PROVE  item \in Told(d, what)'
  <1> DEFINE c == [by |-> d, what |-> what, item |-> item]
  <1>1. c.by = d /\ c.what = what /\ c.item = item /\ c \in comments'
    OBVIOUS
  <1> HIDE DEF c
  <1>2. QED
    BY <1>1 DEF Told

\* A step of another goroutine leaves the work of d alone.
LEMMA WorkStays ==
  ASSUME NEW d \in Deliveries, MirrorWork(d), BackportWork(d),
         event'[d] = event[d], pc'[d] = pc[d], pos'[d] = pos[d], todo'[d] = todo[d],
         result'[d] = result[d], Filed(d)' = Filed(d), comments \subseteq comments'
  PROVE  MirrorWork(d)' /\ BackportWork(d)'
  <1>1. \A what : Told(d, what) \subseteq Told(d, what)'
    BY ToldGrows
  <1>2. \A k : NamedBy(d, k)' = NamedBy(d, k)
    BY DEF NamedBy
  <1>3. MirrorWork(d)'
    BY <1>2 DEF MirrorWork, Wanted, Exempt, Entitled, Considered
  <1>4. Accounted(d) => Accounted(d)'
    BY <1>1 DEF Accounted
  <1>5. BackportWork(d)'
    BY <1>4 DEF BackportWork
  <1>6. QED
    BY <1>3, <1>5

\* What every step of d does to the others: nothing.
Apart(d) ==
  /\ \A x \in Deliveries \ {d} :
       /\ event'[x] = event[x] /\ pc'[x] = pc[x] /\ pos'[x] = pos[x]
       /\ todo'[x] = todo[x] /\ result'[x] = result[x]
  /\ issues' = issues \/ \E f \in Issue : f.by = d /\ issues' = Append(issues, f)
  /\ comments \subseteq comments'

LEMMA OthersWork ==
  ASSUME TypeInv, WorkInv, NEW d \in Deliveries, Apart(d), MirrorWork(d)', BackportWork(d)'
  PROVE  WorkInv'
  <1> SUFFICES ASSUME NEW x \in Deliveries \ {d} PROVE MirrorWork(x)' /\ BackportWork(x)'
    BY DEF WorkInv
  <1>1. Filed(x)' = Filed(x)
    BY FiledAfter, FiledSame DEF Apart
  <1>2. QED
    BY <1>1, WorkStays DEF Apart, WorkInv

\* A step on the way to the work.
LEMMA WayWork ==
  ASSUME TypeInv, FiledInv, WorkInv, NEW d \in Deliveries,
         pc[d] \in {"idle"} \cup Early, pc'[d] \in Early \cup {"ended"},
         pos'[d] = pos[d], todo'[d] = todo[d], Filed(d)' = Filed(d), event'[d] \in EventType,
         pc'[d] = "member" => ~Exempt(event'[d]), pc'[d] = "refuse" => ~Entitled(event'[d]),
         pc'[d] = "reject" => event'[d].kind # "issues",
         pc'[d] = "ended" => ~Considered(event'[d])
  PROVE  MirrorWork(d)' /\ BackportWork(d)'
  <1>1. pos[d] = 1 /\ todo[d] = {}
    BY DEF WorkInv, MirrorWork
  <1>2. Filed(d) = {}
    BY NothingFiled DEF Early, Seeking, Filing, Over
  <1>3. MirrorWork(d)'
    BY <1>1, <1>2 DEF MirrorWork, Early, Seeking, Exempt, Entitled, Considered
  <1>4. BackportWork(d)'
    BY <1>1, <1>2 DEF BackportWork, Accounted, Early, Seeking
  <1>5. QED
    BY <1>3, <1>4

OnTheWay(d) ==
  \/ Lookup(d) \/ Insert(d) \/ Fetch(d)
  \/ (Member(d) /\ pc'[d] # "unlock")
  \/ (Dispatch(d) /\ pc'[d] \in {"lookup", "reject"})
  \/ (Acquire(d) /\ pc'[d] \in {"member", "dispatch"})

LEMMA WayStep ==
  ASSUME TypeInv, StageInv, FiledInv, WorkInv, NEW d \in Deliveries,
         (\E e \in Events : Receive(d, e)) \/ OnTheWay(d)
  PROVE  WorkInv'
  <1> USE DEF TypeInv, TypeOK, Goto, local, github
  <1>1. /\ UNCHANGED <<pos, todo, issues, comments>>
        /\ pc' = [pc EXCEPT ![d] = pc'[d]] /\ result' = result
        /\ \A x \in Deliveries \ {d} : event'[x] = event[x]
        /\ pc[d] \in {"idle"} \cup Early
    BY DEF OnTheWay, Receive, Lookup, Insert, Fetch, MapUnlocked, Member, Return, Dispatch, Acquire, Early, Seeking
  <1>2. Filed(d)' = Filed(d)
    BY <1>1, FiledSame
  <1>3. ASSUME NEW e \in Events, Receive(d, e)
        PROVE  /\ pc'[d] \in Early \cup {"ended"} /\ event'[d] \in EventType
               /\ pc'[d] \notin {"member", "refuse", "reject"}
               /\ pc'[d] = "ended" => ~Considered(event'[d])
    BY <1>3, EventsAssumption DEF Receive, Early, Seeking
  <1>4. ASSUME OnTheWay(d)
        PROVE  /\ pc'[d] \in Early \cup {"ended"} /\ event' = event /\ event[d] \in EventType
               /\ pc'[d] = "member" => ~Exempt(event[d])
               /\ pc'[d] = "refuse" => ~Entitled(event[d])
               /\ pc'[d] = "reject" => event[d].kind # "issues"
               /\ pc'[d] # "ended"
    <2>1. event' = event /\ event[d] \in EventType
      BY <1>4, KnownType DEF OnTheWay, Lookup, Insert, Fetch, Member, Dispatch, Acquire
    <2>2. CASE Lookup(d) \/ Insert(d) \/ Fetch(d)
      BY <2>1, <2>2 DEF Lookup, Insert, Fetch, Early, Seeking
    <2>3. CASE Member(d) /\ pc'[d] # "unlock"
      <3>1. ~Exempt(event[d])
        BY <2>3 DEF Member, WorkInv, MirrorWork
      <3>2. QED
        BY <2>1, <2>3, <3>1 DEF Member, Return, Early, Seeking, Exempt, Entitled
    <2>4. CASE Dispatch(d) /\ pc'[d] \in {"lookup", "reject"}
      BY <2>1, <2>4 DEF Dispatch, Switch, Early, Seeking
    <2>5. CASE Acquire(d) /\ pc'[d] \in {"member", "dispatch"}
      BY <2>1, <2>5 DEF Acquire, Entered, Early
    <2>6. QED
      BY <1>4, <2>1, <2>2, <2>3, <2>4, <2>5 DEF OnTheWay
  <1>5. Apart(d)
    BY <1>1 DEF Apart
  <1>6. /\ pc'[d] \in Early \cup {"ended"} /\ event'[d] \in EventType
        /\ pc'[d] = "member" => ~Exempt(event'[d])
        /\ pc'[d] = "refuse" => ~Entitled(event'[d])
        /\ pc'[d] = "reject" => event'[d].kind # "issues"
        /\ pc'[d] = "ended" => ~Considered(event'[d])
    <2>1. CASE \E e \in Events : Receive(d, e)
      BY <1>3, <2>1
    <2>2. CASE ~\E e \in Events : Receive(d, e)
      BY <1>4, <2>2
    <2>3. QED
      BY <2>1, <2>2
  <1>7. MirrorWork(d)' /\ BackportWork(d)'
    BY <1>1, <1>2, <1>6, WayWork
  <1>8. QED
    BY <1>5, <1>7, OthersWork

\* Leaving without having begun, with an error or for a reason of the request's own.
LEMMA LeaveStep ==
  ASSUME TypeInv, StageInv, FiledInv, WorkInv, NEW d \in Deliveries, pc'[d] = "unlock",
         Member(d) \/ Decline(d) \/ Dispatch(d) \/ Acquire(d)
  PROVE  WorkInv'
  <1> USE DEF TypeInv, TypeOK, Goto, local, github
  <1>1. /\ UNCHANGED <<event, pos, todo, issues>> /\ comments \subseteq comments'
        /\ pc' = [pc EXCEPT ![d] = "unlock"]
        /\ \A x \in Deliveries \ {d} : result'[x] = result[x]
        /\ pc[d] \in {"acquire", "member", "refuse", "reject", "dispatch"}
    BY DEF Member, Decline, Say, Return, Dispatch, Acquire
  <1>2. pos[d] = 1 /\ todo[d] = {} /\ Filed(d) = {}
    BY <1>1, NothingFiled DEF WorkInv, MirrorWork, Early, Seeking, Filing, Over
  <1>3. Filed(d)' = {}
    BY <1>1, <1>2, FiledSame
  <1>4. event[d].kind = "issues" => result'[d] = "error" \/ ~Entitled(event[d])
    <2>1. CASE Member(d)
      BY <2>1 DEF Member, Return
    <2>2. CASE Decline(d)
      BY <2>2 DEF Decline, WorkInv, MirrorWork
    <2>3. CASE Dispatch(d)
      BY <2>3 DEF Dispatch, Switch
    <2>4. CASE Acquire(d)
      <3>1. stage[d] = "inner"
        BY <2>4 DEF Acquire, Entered
      <3>2. QED
        BY <3>1 DEF StageInv
    <2>5. QED
      BY <2>1, <2>2, <2>3, <2>4
  <1>5. pc'[d] = "unlock" /\ event'[d] = event[d] /\ pos'[d] = 1
    BY <1>1, <1>2
  <1>6. MirrorWork(d)'
    BY <1>4, <1>5 DEF MirrorWork, Early, Seeking, Entitled
  <1>7. BackportWork(d)'
    BY <1>3, <1>5 DEF BackportWork, Accounted
  <1>8. Apart(d)
    BY <1>1 DEF Apart
  <1>9. QED
    BY <1>6, <1>7, <1>8, OthersWork

\* Beginning to look for issues, or to file backports.
LEMMA BeginStep ==
  ASSUME TypeInv, StageInv, FiledInv, WorkInv, NEW d \in Deliveries, pc'[d] \in {"find", "create"},
         Dispatch(d) \/ Acquire(d)
  PROVE  WorkInv'
  <1> USE DEF TypeInv, TypeOK, Goto, local, github
  <1>1. /\ UNCHANGED <<event, pos, todo, result, issues, comments>>
        /\ pc' = [pc EXCEPT ![d] = pc'[d]]
        /\ pc[d] \in {"acquire", "dispatch"}
        /\ pc'[d] = "find" => event[d].kind = "issues"
    BY DEF Dispatch, Switch, Acquire, Entered
  <1>2. pos[d] = 1 /\ todo[d] = {} /\ Filed(d) = {}
    BY <1>1, NothingFiled DEF WorkInv, MirrorWork, Early, Seeking, Filing, Over
  <1>3. Filed(d)' = {}
    BY <1>1, <1>2, FiledSame
  <1>4. pos[d] <= Len(event[d].versions) + 1 /\ NamedBy(d, pos[d] - 1) = {}
    BY <1>1, <1>2, KnownType DEF NamedBy
  <1>5. event'[d] = event[d] /\ pos'[d] = 1 /\ todo'[d] = {}
    BY <1>1, <1>2
  <1>6. NamedBy(d, pos[d] - 1)' = {}
    <2>1. pos'[d] - 1 = 0 /\ 1..0 = {}
      BY <1>5
    <2>2. QED
      BY <2>1 DEF NamedBy
  <1>7. MirrorWork(d)'
    BY <1>1, <1>2, <1>4, <1>5, <1>6 DEF MirrorWork, Early, Seeking
  <1>8. BackportWork(d)'
    BY <1>1, <1>3, <1>5 DEF BackportWork, Accounted
  <1>9. Apart(d)
    BY <1>1 DEF Apart
  <1>10. QED
    BY <1>7, <1>8, <1>9, OthersWork

LEMMA FindStep ==
  ASSUME TypeInv, FiledInv, WorkInv, NEW d \in Deliveries, Find(d)
  PROVE  WorkInv'
  <1> USE DEF TypeInv, TypeOK, Goto, local, github
  <1>1. /\ pc[d] = "find" /\ event[d].kind = "issues" /\ Filed(d) = {}
        /\ todo[d] = NamedBy(d, pos[d] - 1) /\ pos[d] <= Len(event[d].versions) + 1
        /\ Len(event[d].versions) \in Nat /\ event[d] \in EventType
    BY NothingFiled, KnownType DEF Find, WorkInv, MirrorWork, Filing, Over
  <1>2. /\ UNCHANGED <<event, issues, comments>> /\ Filed(d)' = {} /\ event'[d] = event[d]
        /\ \A k : NamedBy(d, k)' = NamedBy(d, k)
    BY <1>1, FiledSame DEF Find, NamedBy
  <1>3. Apart(d)
    BY <1>2 DEF Find, Return, Apart
  <1>4. BackportWork(d)'
    BY <1>1, <1>2, KnownType DEF Find, Return, BackportWork
  <1>5. CASE pos[d] > Len(event[d].versions)
    <2>1. pos[d] - 1 = Len(event[d].versions) /\ pc'[d] = "mirror" /\ todo'[d] = todo[d]
      BY <1>1, <1>5 DEF Find
    <2>2. Wanted(d)' = todo[d]
      <3>1. Wanted(d) = todo[d]
        BY <1>1, <2>1, WantedIs
      <3>2. QED
        BY <1>2, <3>1 DEF Wanted
    <2>3. MirrorWork(d)'
      BY <1>1, <1>2, <2>1, <2>2 DEF MirrorWork, Early, Seeking
    <2>4. QED
      BY <2>3, <1>3, <1>4, OthersWork
  <1>6. CASE Return(d, "error") /\ UNCHANGED <<pos, todo>>
    <2>1. pc'[d] = "unlock" /\ result'[d] = "error"
      BY <1>1, <1>6 DEF Return
    <2>2. MirrorWork(d)'
      BY <2>1 DEF MirrorWork, Early, Seeking
    <2>3. QED
      BY <2>2, <1>3, <1>4, OthersWork
  <1>7. CASE /\ ~(pos[d] > Len(event[d].versions))
             /\ todo' = [todo EXCEPT ![d] = Found(d)]
             /\ pos' = [pos EXCEPT ![d] = @ + 1]
             /\ UNCHANGED <<pc, result>>
    <2>1. pos'[d] = pos[d] + 1 /\ todo'[d] = Found(d) /\ pc'[d] = "find"
      BY <1>1, <1>7
    <2>2. Found(d) = NamedBy(d, pos[d])
      <3>1. pos[d] \in Nat \ {0}
        OBVIOUS
      <3>2. 1..pos[d] = (1..(pos[d] - 1)) \cup {pos[d]}
        BY <3>1
      <3>3. QED
        BY <1>1, <3>2 DEF Found, NamedBy
    <2>3. pos'[d] <= Len(event[d].versions) + 1 /\ pos'[d] - 1 = pos[d]
      BY <1>1, <1>7, <2>1
    <2>4. MirrorWork(d)'
      BY <1>1, <1>2, <2>1, <2>2, <2>3 DEF MirrorWork, Early, Seeking
    <2>5. QED
      BY <2>4, <1>3, <1>4, OthersWork
  <1>8. QED
    BY <1>5, <1>6, <1>7 DEF Find

LEMMA MirrorStep ==
  ASSUME TypeInv, FiledInv, WorkInv, NEW d \in Deliveries, Mirror(d)
  PROVE  WorkInv'
  <1> USE DEF TypeInv, TypeOK, Goto, local, github
  <1>1. /\ pc[d] = "mirror" /\ event[d].kind = "issues" /\ event[d] \in EventType
        /\ Filed(d) \cup todo[d] = Wanted(d) /\ Filed(d) \cap todo[d] = {}
        /\ UNCHANGED <<event, comments>> /\ event'[d] = event[d]
    BY KnownType DEF Mirror, WorkInv, MirrorWork
  <1>2. Wanted(d)' = Wanted(d)
    BY <1>1 DEF Wanted
  <1>3. BackportWork(d)'
    BY <1>1 DEF Mirror, Return, MirrorCall, BackportWork
  <1>4. CASE UNCHANGED <<todo, issues>> /\ \E r \in {"ok", "error"} : Return(d, r) /\ (r = "ok" => todo[d] = {})
    <2>1. Filed(d)' = Filed(d) /\ pc'[d] = "unlock" /\ (result'[d] = "ok" => todo[d] = {})
      BY <1>1, <1>4, FiledSame DEF Return
    <2>2. MirrorWork(d)'
      BY <1>1, <1>2, <1>4, <2>1 DEF MirrorWork, Early, Seeking
    <2>3. Apart(d)
      BY <1>1, <1>4, <2>1 DEF Mirror, Return, Apart
    <2>4. QED
      BY <1>3, <2>2, <2>3, OthersWork
  <1>5. ASSUME NEW t \in todo[d], NEW o \in Outcomes, MirrorCall(d, t, o)
        PROVE  WorkInv'
    <2> DEFINE f == Mirrored(d, t)
    <2>1. f \in Issue /\ f.by = d /\ f.at = t
      BY <1>5, PostMirror, MirroredTyped
    <2>2. /\ issues' = issues \/ issues' = Append(issues, f)
          /\ o = "done" => issues' = Append(issues, f)
      BY <1>5, PostMirror
    <2> HIDE DEF f
    <2>3. Apart(d)
      BY <1>1, <1>5, <2>1, <2>2 DEF Mirror, MirrorCall, Return, Apart
    <2>4. CASE o = "done"
      <3>1. Filed(d)' = Filed(d) \cup {t}
        BY <2>1, <2>2, <2>4, FiledAfter
      <3>2. todo'[d] = todo[d] \ {t} /\ pc'[d] = "mirror"
        BY <1>1, <1>5, <2>4 DEF MirrorCall
      <3>3. MirrorWork(d)'
        BY <1>1, <1>2, <3>1, <3>2 DEF MirrorWork, Early, Seeking
      <3>4. QED
        BY <1>3, <2>3, <3>3, OthersWork
    <2>5. CASE o # "done"
      <3>1. pc'[d] = "unlock" /\ result'[d] = "error"
        BY <1>1, <1>5, <2>5 DEF MirrorCall, Return
      <3>2. MirrorWork(d)'
        BY <3>1 DEF MirrorWork, Early, Seeking
      <3>3. QED
        BY <1>3, <2>3, <3>2, OthersWork
    <2>6. QED
      BY <2>4, <2>5
  <1>6. QED
    BY <1>4, <1>5, MirrorCases

LEMMA CreateStep ==
  ASSUME TypeInv, StageInv, FiledInv, WorkInv, NEW d \in Deliveries, Create(d)
  PROVE  WorkInv'
  <1> USE DEF TypeInv, TypeOK, Goto, local, github
  <1>1. /\ pc[d] = "create" /\ event[d].kind = "issue_comment" /\ event[d] \in EventType
        /\ Accounted(d) /\ Filed(d) \subseteq 1..(pos[d] - 1)
        /\ UNCHANGED <<event, comments>> /\ event'[d] = event[d]
        /\ pos'[d] = pos[d] /\ pos[d] \in Nat \ {0}
    BY KnownType DEF Create, StageInv, InnerLabels, WorkInv, BackportWork
  <1>2. \A what : Told(d, what)' = Told(d, what)
    BY <1>1 DEF Told
  <1>3. pc'[d] \in {"unlock", "created", "notCreated"}
    BY <1>1 DEF Create, Return
  <1>4. MirrorWork(d)'
    BY <1>1, <1>3 DEF MirrorWork, Early, Seeking
  <1>5. CASE Return(d, "ok") /\ UNCHANGED issues
    <2>1. Filed(d)' = Filed(d) /\ pc'[d] = "unlock"
      BY <1>1, <1>5, FiledSame DEF Return
    <2>2. BackportWork(d)'
      BY <1>1, <1>2, <2>1 DEF BackportWork, Accounted
    <2>3. Apart(d)
      BY <1>1, <1>5, <2>1 DEF Create, Return, Apart
    <2>4. QED
      BY <1>4, <2>2, <2>3, OthersWork
  <1>6. ASSUME NEW o \in Outcomes, UNCHANGED result,
               Backported(d) \in Issue, Backported(d).by = d, Backported(d).at = pos[d],
               Goto(d, IF o = "done" THEN "created" ELSE "notCreated"),
               issues' = issues \/ issues' = Append(issues, Backported(d)),
               o = "done" => issues' = Append(issues, Backported(d))
        PROVE  WorkInv'
    <2>1. Apart(d)
      BY <1>1, <1>6 DEF Create, Apart
    <2>2. Filed(d)' = Filed(d) \/ Filed(d)' = Filed(d) \cup {pos[d]}
      BY <1>6, FiledAfter, FiledSame
    <2>3. pc'[d] = "created" => pos[d] \in Filed(d)'
      <3>1. pc'[d] = "created" => o = "done"
        BY <1>1, <1>6
      <3>2. QED
        BY <1>6, <3>1, FiledAfter
    <2>4. Accounted(d)'
      BY <1>1, <1>2, <2>2 DEF Accounted
    <2>5. pc'[d] # "create"
      BY <1>1, <1>6
    <2>6. BackportWork(d)'
      BY <1>1, <2>3, <2>4, <2>5 DEF BackportWork
    <2>7. QED
      BY <1>4, <2>1, <2>6, OthersWork
  <1>7. QED
    BY <1>5, <1>6, CreateCases

LEMMA AnnounceStep ==
  ASSUME TypeInv, StageInv, FiledInv, WorkInv, NEW d \in Deliveries, Announce(d)
  PROVE  WorkInv'
  <1> USE DEF TypeInv, TypeOK, Goto, local, github
  <1>1. /\ pc[d] \in {"created", "notCreated"} /\ event[d].kind = "issue_comment"
        /\ Accounted(d)
        /\ pc[d] = "created" => pos[d] \in Filed(d)
        /\ UNCHANGED <<event, issues, todo>> /\ event'[d] = event[d]
        /\ pos[d] \in Nat \ {0}
    BY DEF Announce, StageInv, InnerLabels, WorkInv, BackportWork
  <1>2. Filed(d)' = Filed(d)
    BY <1>1, FiledSame
  <1>3. PICK o \in Outcomes :
          /\ Say(d, pc[d], pos[d], o)
          /\ IF o = "done"
             THEN /\ Goto(d, "create") /\ pos' = [pos EXCEPT ![d] = pos[d] + 1] /\ UNCHANGED result
             ELSE Return(d, "error") /\ UNCHANGED pos
    BY DEF Announce, Continues, NextPos
  <1>4. comments \subseteq comments'
    BY <1>3 DEF Say
  <1>5. \A what : Told(d, what) \subseteq Told(d, what)'
    BY <1>4, ToldGrows
  <1>6. Apart(d)
    BY <1>1, <1>3, <1>4 DEF Return, Apart
  <1>7. CASE o = "done"
    <2>1. pc'[d] = "create" /\ pos'[d] = pos[d] + 1
      BY <1>1, <1>3, <1>7
    <2>2. PICK w \in {"created", "notCreated"}, p \in Nat \ {0} : w = pc[d] /\ p = pos[d]
      BY <1>1
    <2> DEFINE said == [by |-> d, what |-> w, item |-> p]
    <2>3. comments' = comments \cup {said}
      BY <1>3, <1>7, <2>2 DEF Say
    <2> HIDE DEF said
    <2>4. p \in Told(d, w)'
      BY <2>3, ToldAfter DEF said
    <2>5. Filed(d)' \subseteq 1..(pos'[d] - 1)
      BY <1>1, <1>2, <2>1 DEF Accounted
    <2>6. \/ pos[d] \in (Filed(d)' \cap Told(d, "created")')
          \/ pos[d] \in Told(d, "notCreated")'
      BY <1>1, <1>2, <2>2, <2>4
    <2>7. \A i \in 1..pos[d] : \/ i \in (Filed(d)' \cap Told(d, "created")')
                               \/ i \in Told(d, "notCreated")'
      <3>1. \A i \in 1..pos[d] : i \in 1..(pos[d] - 1) \/ i = pos[d]
        BY <1>1
      <3>2. QED
        BY <1>1, <1>2, <1>5, <2>6, <3>1 DEF Accounted
    <2>8. Accounted(d)'
      <3>1. pos'[d] - 1 = pos[d]
        BY <1>1, <2>1
      <3>2. Filed(d)' \subseteq 1..pos'[d]
        BY <1>1, <1>2, <2>1 DEF Accounted
      <3>3. QED
        BY <2>7, <3>1, <3>2 DEF Accounted
    <2>9. MirrorWork(d)' /\ BackportWork(d)'
      BY <2>1, <2>5, <2>8 DEF MirrorWork, BackportWork, Early, Seeking
    <2>10. QED
      BY <1>6, <2>9, OthersWork
  <1>8. CASE o # "done"
    <2>1. pc'[d] = "unlock" /\ pos'[d] = pos[d]
      BY <1>1, <1>3, <1>8 DEF Return
    <2>2. Accounted(d)'
      BY <1>1, <1>2, <1>5, <2>1 DEF Accounted
    <2>3. MirrorWork(d)' /\ BackportWork(d)'
      BY <1>1, <2>1, <2>2 DEF MirrorWork, BackportWork, Early, Seeking
    <2>4. QED
      BY <1>6, <2>3, OthersWork
  <1>9. QED
    BY <1>7, <1>8

LEMMA UnlockStep ==
  ASSUME TypeInv, WorkInv, NEW d \in Deliveries, Unlock(d)
  PROVE  WorkInv'
  <1> USE DEF TypeInv, TypeOK, Goto, local, github
  <1>1. /\ pc[d] = "unlock" /\ UNCHANGED <<event, pos, todo, result, issues, comments>>
        /\ pc' = pc \/ pc' = [pc EXCEPT ![d] = "ended"]
        /\ pc'[d] \in {"unlock", "ended"}
    BY DEF Unlock
  <1>2. Filed(d)' = Filed(d) /\ Wanted(d)' = Wanted(d) /\ \A what : Told(d, what)' = Told(d, what)
    BY <1>1, FiledSame DEF Wanted, Told
  <1>3. MirrorWork(d) /\ BackportWork(d)
    BY DEF WorkInv
  <1>4. MirrorWork(d)'
    BY <1>1, <1>2, <1>3 DEF MirrorWork, Early, Seeking, Entitled, Considered
  <1>5. BackportWork(d)'
    BY <1>1, <1>2, <1>3 DEF BackportWork, Accounted
  <1>6. Apart(d)
    BY <1>1 DEF Apart
  <1>7. QED
    BY <1>4, <1>5, <1>6, OthersWork

LEMMA RestartStep ==
  ASSUME TypeInv, WorkInv, Restart
  PROVE  WorkInv'
  <1> SUFFICES ASSUME NEW d \in Deliveries PROVE MirrorWork(d)' /\ BackportWork(d)'
    BY DEF WorkInv
  <1>1. /\ UNCHANGED <<event, pos, todo, result, issues, comments>>
        /\ Filed(d)' = Filed(d) /\ \A what : Told(d, what)' = Told(d, what)
        /\ MirrorWork(d) /\ BackportWork(d)
    BY FiledSame DEF Restart, github, WorkInv, Told
  <1>2. CASE pc'[d] = pc[d]
    BY <1>1, <1>2, WorkStays
  <1>3. CASE pc'[d] # pc[d]
    <2>1. pc'[d] = "lost" /\ pc[d] # "idle"
      BY <1>3 DEF Restart
    <2>2. MirrorWork(d)'
      BY <2>1 DEF MirrorWork, Early, Seeking
    <2>3. BackportWork(d)'
      BY <1>1, <2>1 DEF BackportWork, Accounted
    <2>4. QED
      BY <2>2, <2>3
  <1>4. QED
    BY <1>2, <1>3

LEMMA NextWorkInv == TypeInv /\ StageInv /\ FiledInv /\ WorkInv /\ [Next]_vars => WorkInv'
  <1> SUFFICES ASSUME TypeInv, StageInv, FiledInv, WorkInv, [Next]_vars PROVE WorkInv'
    OBVIOUS
  <1>1. ASSUME NEW d \in Deliveries, NEW e \in Events, Receive(d, e) PROVE WorkInv'
    BY <1>1, WayStep
  <1>2. ASSUME NEW d \in Deliveries, Step(d) PROVE WorkInv'
    <2>1. CASE Lookup(d) \/ Insert(d) \/ Fetch(d)
      BY <2>1, WayStep DEF OnTheWay
    <2>2. CASE Acquire(d)
      <3>1. pc'[d] \in {"member", "dispatch", "unlock", "create"}
        BY <2>2 DEF Acquire, Entered, Goto, TypeInv, TypeOK
      <3>2. QED
        BY <2>2, <3>1, WayStep, LeaveStep, BeginStep DEF OnTheWay
    <2>3. CASE Member(d)
      BY <2>3, WayStep, LeaveStep DEF OnTheWay
    <2>4. CASE Decline(d)
      <3>1. pc'[d] = "unlock"
        BY <2>4 DEF Decline, Return, Goto, TypeInv, TypeOK
      <3>2. QED
        BY <2>4, <3>1, LeaveStep
    <2>5. CASE Dispatch(d)
      <3>1. pc'[d] \in {"lookup", "reject", "find", "unlock"}
        BY <2>5 DEF Dispatch, Switch, Goto, TypeInv, TypeOK
      <3>2. QED
        BY <2>5, <3>1, WayStep, LeaveStep, BeginStep DEF OnTheWay
    <2>6. QED
      BY <1>2, <2>1, <2>2, <2>3, <2>4, <2>5, FindStep, MirrorStep, CreateStep, AnnounceStep, UnlockStep
         DEF Step
  <1>3. CASE UNCHANGED vars
    <2>1. UNCHANGED <<event, pc, pos, todo, result, issues, comments>>
      BY <1>3 DEF vars, local, github
    <2>2. QED
      BY <2>1, WorkStays, FiledSame DEF WorkInv
  <1>4. QED
    BY <1>1, <1>2, <1>3, RestartStep DEF Next

\* No two issues of a delivery were filed for one place in its command, or for one text.
OncePerPlace ==
  \A i, j \in DOMAIN issues :
    issues[i].by = issues[j].by /\ issues[i].at = issues[j].at => i = j

\* What an issue was filed for names what the issue is about.
FiledAsNamed ==
  \A i \in DOMAIN issues : issues[i].at \in Namings(issues[i].by, issues[i].item)

\* An issue filed for what its delivery has not filed for yet.
LEMMA NewOncePerPlace ==
  ASSUME issues \in Seq(Issue), OncePerPlace,
         NEW d, NEW f \in Issue, f.by = d, f.at \notin Filed(d), issues' = Append(issues, f)
  PROVE  OncePerPlace'
  <1> DEFINE n == Len(issues) + 1
  <1>1. /\ DOMAIN issues' = DOMAIN issues \cup {n} /\ issues'[n] = f
        /\ \A i \in DOMAIN issues : issues'[i] = issues[i]
    OBVIOUS
  <1>2. \A i \in DOMAIN issues : issues[i].by = d => issues[i].at # f.at
    BY DEF Filed, FiledBy
  <1> HIDE DEF n
  <1> SUFFICES ASSUME NEW i \in DOMAIN issues', NEW j \in DOMAIN issues',
                      issues'[i].by = issues'[j].by, issues'[i].at = issues'[j].at
               PROVE  i = j
    BY DEF OncePerPlace
  <1>3. CASE i \in DOMAIN issues /\ j \in DOMAIN issues
    <2>1. issues[i].by = issues[j].by /\ issues[i].at = issues[j].at
      BY <1>1, <1>3
    <2>2. QED
      BY <1>3, <2>1 DEF OncePerPlace
  <1>4. CASE i = n /\ j \in DOMAIN issues
    <2>1. issues[j].by = d /\ issues[j].at = f.at
      BY <1>1, <1>4
    <2>2. QED
      BY <1>2, <1>4, <2>1
  <1>5. CASE j = n /\ i \in DOMAIN issues
    <2>1. issues[i].by = d /\ issues[i].at = f.at
      BY <1>1, <1>5
    <2>2. QED
      BY <1>2, <1>5, <2>1
  <1>6. QED
    BY <1>1, <1>3, <1>4, <1>5

\* Events are never exchanged, so what was filed stays as it was named.
LEMMA NewFiledAsNamed ==
  ASSUME issues \in Seq(Issue), FiledAsNamed, NEW f \in Issue, UNCHANGED event,
         f.at \in Namings(f.by, f.item), issues' = Append(issues, f)
  PROVE  FiledAsNamed'
  <1> DEFINE n == Len(issues) + 1
  <1>1. /\ DOMAIN issues' = DOMAIN issues \cup {n} /\ issues'[n] = f
        /\ \A i \in DOMAIN issues : issues'[i] = issues[i]
    OBVIOUS
  <1>2. \A d, x : Namings(d, x)' = Namings(d, x)
    BY DEF Namings, Wanted
  <1> HIDE DEF n
  <1>3. QED
    BY <1>1, <1>2 DEF FiledAsNamed

LEMMA OldFiledAsNamed ==
  ASSUME FiledAsNamed, UNCHANGED issues,
         \A i \in DOMAIN issues : event'[issues[i].by] = event[issues[i].by]
  PROVE  FiledAsNamed'
  <1>1. ASSUME NEW i \in DOMAIN issues
        PROVE  Namings(issues[i].by, issues[i].item)' = Namings(issues[i].by, issues[i].item)
    BY DEF Namings, Wanted
  <1>2. QED
    BY <1>1 DEF FiledAsNamed

LogInv == OncePerPlace /\ FiledAsNamed

\* What is filed next by a delivery is not in the log.
LEMMA NextLogInv ==
  IInv /\ FileInv /\ WorkInv /\ LogInv /\ [Next]_vars => LogInv'
  <1> SUFFICES ASSUME IInv, FileInv, WorkInv, LogInv, [Next]_vars PROVE LogInv'
    OBVIOUS
  <1> USE DEF IInv, TypeInv, TypeOK
  <1>1. ASSUME UNCHANGED issues PROVE LogInv'
    <2>1. OncePerPlace'
      BY <1>1 DEF LogInv, OncePerPlace
    <2>2. ASSUME NEW i \in DOMAIN issues PROVE event'[issues[i].by] = event[issues[i].by]
      <3>1. issues[i].by \in Deliveries /\ pc[issues[i].by] # "idle"
        BY Filers DEF FileInv, FiledInv, Filing, Over
      <3>2. CASE Rests
        BY <3>1, <3>2 DEF Rests
      <3>3. CASE \E d \in Deliveries : Files(d)
        BY <3>3 DEF Files
      <3>4. QED
        BY <3>2, <3>3, FileKinds
    <2>3. QED
      BY <1>1, <2>1, <2>2, OldFiledAsNamed DEF LogInv
  <1>2. ASSUME NEW d \in Deliveries, NEW f \in Issue, f.by = d, f.at \notin Filed(d),
               f.at \in Namings(d, f.item), issues' = Append(issues, f), UNCHANGED event
        PROVE  LogInv'
    <2>1. issues \in Seq(Issue)
      OBVIOUS
    <2>2. OncePerPlace'
      BY <1>2, <2>1, NewOncePerPlace DEF LogInv
    <2>3. FiledAsNamed'
      BY <1>2, <2>1, NewFiledAsNamed DEF LogInv
    <2>4. QED
      BY <2>2, <2>3 DEF LogInv
  <1>3. ASSUME NEW d \in Deliveries, Mirror(d), issues' # issues PROVE LogInv'
    <2>1. PICK t \in todo[d], o \in Outcomes : MirrorCall(d, t, o)
      BY <1>3, MirrorCases
    <2> DEFINE f == Mirrored(d, t)
    <2>2. f \in Issue /\ f.by = d /\ f.at = t /\ f.item = Number[t] /\ issues' = Append(issues, f)
      BY <1>3, <2>1, PostMirror, MirroredTyped
    <2> HIDE DEF f
    <2>3. t \notin Filed(d) /\ t \in Wanted(d) /\ event[d].kind = "issues" /\ UNCHANGED event
      BY <1>3 DEF Mirror, WorkInv, MirrorWork
    <2>4. t \in Namings(d, Number[t])
      BY <2>3 DEF Namings
    <2>5. QED
      BY <1>2, <2>2, <2>3, <2>4
  <1>4. ASSUME NEW d \in Deliveries, Create(d), issues' # issues PROVE LogInv'
    <2> DEFINE f == Backported(d)
    <2>1. /\ f \in Issue /\ f.by = d /\ f.at = pos[d] /\ f.item = event[d].versions[pos[d]]
          /\ pos[d] \in DOMAIN event[d].versions /\ issues' = Append(issues, f)
      BY <1>4, CreateCases
    <2> HIDE DEF f
    <2>2. pos[d] \notin Filed(d) /\ event[d].kind # "issues" /\ UNCHANGED event
      BY <1>4 DEF Create, WorkInv, BackportWork, StageInv, InnerLabels
    <2>3. pos[d] \in Namings(d, event[d].versions[pos[d]])
      BY <2>1, <2>2 DEF Namings
    <2>4. QED
      BY <1>2, <2>1, <2>2, <2>3
  <1>5. ASSUME NEW d \in Deliveries, Step(d), ~Mirror(d), ~Create(d) PROVE UNCHANGED issues
    BY <1>5 DEF Step, Lookup, Insert, Fetch, Acquire, Member, Decline, Dispatch, Find, Announce, Unlock, github
  <1>6. ASSUME NEW d \in Deliveries, NEW e \in Events, Receive(d, e) PROVE UNCHANGED issues
    BY <1>6 DEF Receive, github
  <1>7. CASE Restart \/ UNCHANGED vars
    BY <1>1, <1>7 DEF Restart, vars, github
  <1>8. QED
    BY <1>1, <1>3, <1>4, <1>5, <1>6, <1>7 DEF Next

LEMMA WorkInvHolds == Spec => [](IInv /\ FileInv /\ WorkInv /\ LogInv)
  <1>1. Init => WorkInv /\ LogInv
    <2> SUFFICES ASSUME Init PROVE WorkInv /\ LogInv
      OBVIOUS
    <2>1. LogInv /\ \A d \in Deliveries : Filed(d) = {}
      BY DEF Init, LogInv, OncePerPlace, FiledAsNamed, Filed, FiledBy
    <2>2. WorkInv
      BY <2>1 DEF Init, WorkInv, MirrorWork, BackportWork, Early, Seeking
    <2>3. QED
      BY <2>1, <2>2
  <1>2. IInv /\ FileInv /\ WorkInv /\ LogInv /\ [Next]_vars => (WorkInv /\ LogInv)'
    BY NextWorkInv, NextLogInv DEF IInv, FileInv
  <1>3. QED
    BY <1>1, <1>2, FileInvHolds, PTL DEF Spec

\* What a delivery may file for is finite, so that it can be counted.
LEMMA NamingsFinite ==
  ASSUME TypeInv, NEW d \in Deliveries, pc[d] # "idle", NEW x
  PROVE  IsFiniteSet(Namings(d, x))
  <1> DEFINE n == Len(event[d].versions)
             ms == {References[event[d].versions[i]] : i \in 1..n}
  <1>1. /\ n \in Nat /\ DOMAIN event[d].versions = 1..n
        /\ \A i \in 1..n : event[d].versions[i] \in Versions
    BY KnownType
  <1>2. IsFiniteSet(1..n)
    BY <1>1, FS_Interval
  <1>3. IsFiniteSet(ms)
    <2> DEFINE g == [i \in 1..n |-> References[event[d].versions[i]]]
    <2>1. g \in Surjection(1..n, ms)
      BY DEF Surjection
    <2>2. QED
      BY <1>2, <2>1, FS_Surjection
  <1>4. \A m \in ms : IsFiniteSet(m)
    BY <1>1, ReferencesAssumption
  <1>5. Wanted(d) = UNION ms
    BY <1>1 DEF Wanted
  <1> HIDE DEF n, ms
  <1>6. IsFiniteSet(Wanted(d))
    BY <1>3, <1>4, <1>5, FS_UNION
  <1>7. /\ {t \in Wanted(d) : Number[t] = x} \in SUBSET Wanted(d)
        /\ {i \in DOMAIN event[d].versions : event[d].versions[i] = x} \in SUBSET (1..n)
    BY <1>1
  <1>8. QED
    BY <1>2, <1>6, <1>7, FS_Subset DEF Namings

\* A delivery never files for more than its request names: a version repeated in a
\* command is filed for each place, an upstream issue for each spelling of its number.
THEOREM FiledOnceHolds == Spec => []FiledOnce
  <1>1. IInv /\ FileInv /\ LogInv => FiledOnce
    <2> SUFFICES ASSUME IInv, FileInv, LogInv, NEW d \in Deliveries, NEW k \in FiledBy(d)
                 PROVE  Cardinality({i \in FiledBy(d) : issues[i].item = issues[k].item})
                        <= Cardinality(Namings(d, issues[k].item))
      BY DEF FiledOnce
    <2> DEFINE x == issues[k].item
               S == {i \in FiledBy(d) : issues[i].item = x}
               T == Namings(d, x)
               g == [i \in S |-> issues[i].at]
    <2>1. \A i \in S : i \in DOMAIN issues /\ issues[i].by = d /\ issues[i].at \in T
      BY DEF FiledBy, LogInv, FiledAsNamed
    <2>2. \A i, j \in S : issues[i].at = issues[j].at => i = j
      BY <2>1 DEF LogInv, OncePerPlace
    <2>3. g \in Injection(S, T)
      BY <2>1, <2>2 DEF Injection, IsInjective
    <2>4. pc[d] # "idle"
      BY DEF FiledBy, FileInv, FiledInv, Filing, Over
    <2>5. IsFiniteSet(T)
      BY <2>4, NamingsFinite DEF IInv
    <2> HIDE DEF S, T, g
    <2>6. Cardinality(S) <= Cardinality(T)
      BY <2>3, <2>5, FS_Injection
    <2>7. QED
      BY <2>6 DEF S, T
  <1>2. QED
    BY <1>1, WorkInvHolds, PTL

\* Whatever answers are lost, a backport tells of each version it leaves behind.
THEOREM BackportAccountedHolds == Spec => []BackportAccounted
  <1>1. WorkInv => BackportAccounted
    BY DEF WorkInv, BackportWork, Accounted, BackportAccounted
  <1>2. QED
    BY <1>1, WorkInvHolds, PTL

\* A patch release that reports success has mirrored all its title names.
THEOREM MirrorCompleteHolds == Spec => []MirrorComplete
  <1>1. IInv /\ WorkInv /\ LogInv => MirrorComplete
    <2> SUFFICES ASSUME IInv, WorkInv, LogInv, NEW d \in Deliveries,
                        pc[d] = "ended", result[d] = "ok",
                        event[d].kind = "issues", Considered(event[d]),
                        Exempt(event[d]) \/ event[d].author \in Members
                 PROVE  {issues[i].item : i \in FiledBy(d)} = {Number[t] : t \in Wanted(d)}
      BY DEF MirrorComplete
    <2>1. Entitled(event[d])
      BY DEF Entitled, Exempt
    <2>2. {issues[i].at : i \in FiledBy(d)} = Wanted(d)
      BY <2>1 DEF WorkInv, MirrorWork, Filed
    <2>3. \A i \in FiledBy(d) : issues[i].item = Number[issues[i].at]
      BY DEF FiledBy, LogInv, FiledAsNamed, Namings
    <2>4. QED
      BY <2>2, <2>3
  <1>2. QED
    BY <1>1, WorkInvHolds, PTL

-----------------------------------------------------------------------------
(* The locks never stop everyone *)

\* d's next step waits for nobody.
CanStep(d) ==
  \/ pc[d] \in Working \cup {"insert", "fetch"}
  \/ pc[d] = "lookup" /\ mapLock = Nil
  \/ pc[d] = "acquire" /\ holder[mutex[d][stage[d]]] = Nil

\* While handlers run, one of them can go on, or one waits for its own lock, which
\* needs an organisation named like the project: AllHandled without the scheduler.
NeverStandsStill ==
  (\E d \in Deliveries : pc[d] \in Working \cup Seeking)
  => \E d \in Deliveries : CanStep(d) \/ WaitsForItself(d)

LEMMA IInvNeverStandsStill == IInv => NeverStandsStill
  <1> SUFFICES ASSUME IInv, NEW d \in Deliveries, pc[d] \in Working \cup Seeking,
                      \A x \in Deliveries : ~CanStep(x) /\ ~WaitsForItself(x)
               PROVE  FALSE
    BY DEF NeverStandsStill
  <1> USE DEF IInv, Stages
  <1>1. mapLock = Nil
    BY DEF MapInv, MapLockInv, TypeInv, TypeOK, CanStep
  <1>2. \A x \in Deliveries : pc[x] \in Working \cup Seeking => pc[x] = "acquire"
    BY <1>1 DEF CanStep, Seeking
  \* Whoever holds what x waits for has its first lock and waits for its second.
  <1>3. ASSUME NEW x \in Deliveries, pc[x] = "acquire"
        PROVE  \E y \in Deliveries :
                 /\ pc[y] = "acquire" /\ stage[y] = "inner"
                 /\ mutex[y]["outer"] = mutex[x][stage[x]] /\ holder[mutex[x][stage[x]]] = y
    <2>1. stage[x] \in Stages /\ Got(x, stage[x])
      BY <1>3 DEF TypeInv, TypeOK, Got
    <2>2. mutex[x][stage[x]] \in MutexIds
      BY <2>1 DEF LockInv, GotInv, TypeInv, TypeOK
    <2>3. PICK y \in Deliveries : holder[mutex[x][stage[x]]] = y
      BY <1>3, <2>2 DEF CanStep, TypeInv, TypeOK
    <2>4. PICK s \in Stages : Holding(y, s) /\ mutex[y][s] = mutex[x][stage[x]]
      BY <2>2, <2>3 DEF LockInv, BackInv
    <2>5. pc[y] \notin Working
      BY DEF CanStep
    <2>6. s = "outer" /\ stage[y] = "inner" /\ pc[y] # "lost"
      BY <2>4, <2>5 DEF Holding
    <2>7. pc[y] = "acquire"
      <3>1. pc[y] \notin {"idle", "ended"}
        BY <2>6 DEF StageInv, OuterLabels
      <3>2. QED
        BY <1>2, <2>6, <3>1 DEF TypeInv, TypeOK
    <2>8. QED
      BY <2>3, <2>4, <2>6, <2>7
  <1>4. PICK e \in Deliveries : pc[e] = "acquire" /\ stage[e] = "inner"
    BY <1>2, <1>3
  <1>5. PICK f \in Deliveries : /\ pc[f] = "acquire" /\ stage[f] = "inner"
                                /\ mutex[f]["outer"] = mutex[e]["inner"] /\ holder[mutex[e]["inner"]] = f
    BY <1>3, <1>4
  <1>6. event[e].org # event[e].project => e = f
    BY <1>4, <1>5, IInvNoWaitCycle DEF NoWaitCycle, Working
  <1>7. event[e].org = event[e].project => mutex[e]["inner"] = mutex[e]["outer"]
    <2>1. Got(e, "inner") /\ Got(e, "outer")
      BY <1>4 DEF Got, Holding
    <2>2. event[e].kind = "issue_comment"
      BY <1>4 DEF StageInv
    <2>3. event[e].org = event[e].project => Key(event[e], "inner") = Key(event[e], "outer")
      BY <2>2 DEF Key
    <2>4. QED
      BY <2>1, <2>3 DEF LockInv, GotInv
  <1>8. WaitsForItself(e)
    BY <1>4, <1>5, <1>6, <1>7 DEF WaitsForItself
  <1>9. QED
    BY <1>8

\* For any number of deliveries, whatever failed and however often it restarted, the
\* nested locks and mapLock leave somebody able to go on.
THEOREM NeverStandsStillHolds == Spec => []NeverStandsStill
  BY Inductive, IInvNeverStandsStill, PTL
=============================================================================
