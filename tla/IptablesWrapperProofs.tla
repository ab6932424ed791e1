------------------------ MODULE IptablesWrapperProofs ------------------------
(***************************************************************************)
(* Theorems about IptablesWrapper, for every number of executions, every   *)
(* selector and every number of killed executions.                         *)
(***************************************************************************)
EXTENDS IptablesWrapper, TLAPS

(* A command without a link is one an execution has yet to link, or was killed before. *)
Accounted(c) == \E q \in Procs : Owes(q, c)
Missing == \A c \in Commands : link[c] = "absent" => Accounted(c)

(* What an execution has switched never points at the wrapper again. *)
Switched(p) == \A k \in DOMAIN Plan : k < step[p] => \A c \in Plan[k] : link[c] # "wrapper"

(* What an execution has done when it is at each place. *)
Placed(p) ==
  /\ pc[p] # "idle" => cmd[p] \in Commands
  /\ pc[p] \notin Ended => depth[p] = 0
  /\ depth[p] <= 1
  /\ pc[p] \in Switching => step[p] \in DOMAIN Plan
  /\ pc[p] \in {"remove", "link"} => IsSymlink
  /\ pc[p] = "torn" => crashes # 0
  /\ pc[p] = "exec" => step[p] = Len(Plan) + 1
  /\ pc[p] \in Switching \cup {"exec", "fallback"} => mode[p] \in Modes

(* On an nft host nothing is ever in legacy mode. *)
NftOnly == HostMode = "nft" =>
             /\ \A c \in Commands : link[c] # "legacy"
             /\ \A p \in Procs : mode[p] # "legacy" /\ ran[p] # "legacy"

IInv == /\ TypeOK
        /\ Missing
        /\ \A p \in Procs : Switched(p)
        /\ \A p \in Procs : Placed(p)
        /\ NftOnly

-----------------------------------------------------------------------------
(* Facts about the constants *)

LEMMA PlanFacts ==
  /\ Len(Plan) \in Nat /\ Len(Plan) >= 1
  /\ DOMAIN Plan = 1..Len(Plan)
  /\ \A k \in DOMAIN Plan : \A c \in Plan[k] : c \in Commands
  /\ IsSymlink => \A k \in DOMAIN Plan : \A c, e \in Plan[k] : c = e
<1>1. Plan \in Seq(SUBSET Commands) /\ Plan # <<>>
  BY PlanAssumption
<1>2. Len(Plan) \in Nat /\ DOMAIN Plan = 1..Len(Plan) /\ Len(Plan) # 0
  BY <1>1
<1>3. \A k \in DOMAIN Plan : Plan[k] \in SUBSET Commands
  BY <1>1
<1>4. IsSymlink => \A k \in DOMAIN Plan : \A c, e \in Plan[k] : c = e
  BY PlanAssumption
<1> QED BY <1>2, <1>3, <1>4

LEMMA EveryCommandIsSwitched ==
  ASSUME NEW c \in Commands
  PROVE  \E k \in DOMAIN Plan : c \in Plan[k]
BY DEF Commands

LEMMA ProbeFacts ==
  /\ Len(Probes) = 4 /\ DOMAIN Probes = 1..4
  /\ \A i \in 1..4 : Probes[i][1] \in Modes
  /\ \A i \in 1..4 : Probes[i] = <<Probes[i][1], Probes[i][2]>>
BY DEF Probes, Modes

-----------------------------------------------------------------------------
(* Init *)

LEMMA InitHolds == Init => IInv
<1> SUFFICES ASSUME Init PROVE IInv
  OBVIOUS
<1> USE DEF Init
<1>1. TypeOK
  <2>1. link \in [Commands -> Links] /\ hints \subseteq {HostMode} \X Families
    BY DEF Links
  <2>2. pc \in [Procs -> {"idle", "binDir", "probe", "exec", "fallback"} \cup Switching \cup Ended]
    BY DEF Switching, Ended
  <2>3. probe \in [Procs -> DOMAIN Probes] /\ step \in [Procs -> 1..(Len(Plan) + 1)]
    BY PlanFacts, ProbeFacts
  <2>4. depth \in [Procs -> 0..MaxDepth] /\ crashes \in 0..MaxCrashes /\ raced \in BOOLEAN
    <3>1. 0 \in 0..MaxDepth /\ 0 \in 0..MaxCrashes
      BY HostAssumption
    <3> QED BY <3>1
  <2>5. /\ cmd \in [Procs -> Commands \cup {Nil}] /\ priv \in [Procs -> BOOLEAN]
        /\ mode \in [Procs -> Modes \cup {Nil}] /\ ran \in [Procs -> Modes \cup {Nil}]
    OBVIOUS
  <2> QED BY <2>1, <2>2, <2>3, <2>4, <2>5 DEF TypeOK
<1>2. Missing
  BY DEF Missing
<1>3. ASSUME NEW p \in Procs PROVE Switched(p)
  BY PlanFacts DEF Switched
<1>4. ASSUME NEW p \in Procs PROVE Placed(p)
  BY DEF Placed, Switching, Ended
<1>5. NftOnly
  BY NilAssumption DEF NftOnly, Modes
<1> QED BY <1>1, <1>2, <1>3, <1>4, <1>5 DEF IInv

-----------------------------------------------------------------------------
(* Executing a command: the links stay, p leaves no window. *)

\* What a step does that changes no link and puts no execution in a window.
LEMMA MissingStays ==
  ASSUME Missing, UNCHANGED <<link, step>>,
         \A q \in Procs : InWindow(q) \/ pc[q] = "torn" => (InWindow(q) \/ pc[q] = "torn")'
  PROVE  Missing'
<1> SUFFICES ASSUME NEW c \in Commands, link[c] = "absent"
             PROVE  Accounted(c)'
  BY DEF Missing
<1>1. PICK q \in Procs : Owes(q, c)
  BY DEF Missing, Accounted
<1> QED BY <1>1 DEF Accounted, Owes

\* p executes command c, having d times done so before.
Executes(p, c, d, b) ==
  /\ Execute(p, c)
  /\ pc[p] \notin Switching \cup Ended
  /\ link[c] = "wrapper" => d = 0
  /\ depth' = [depth EXCEPT ![p] = d]
  /\ cmd' = [cmd EXCEPT ![p] = c]
  /\ priv' = [priv EXCEPT ![p] = b]
  /\ UNCHANGED <<link, hints, probe, mode, step, crashes>>

LEMMA ExecuteKeeps ==
  ASSUME IInv, NEW p \in Procs, NEW c \in Commands, NEW d \in 0..MaxDepth, d <= 1,
         NEW b \in BOOLEAN, Executes(p, c, d, b)
  PROVE  IInv'
<1> USE DEF IInv, Executes
<1>1. pc' = [pc EXCEPT ![p] = CASE link[c] = "wrapper" -> "binDir"
                                [] link[c] = "absent" -> "failed" [] OTHER -> "ran"]
  BY DEF Execute, Goto
<1>2. /\ pc'[p] \in {"binDir", "failed", "ran"}
      /\ pc'[p] = "binDir" => link[c] = "wrapper"
      /\ \A q \in Procs \ {p} : pc'[q] = pc[q]
      /\ pc' \in [Procs -> {"idle", "binDir", "probe", "exec", "fallback"} \cup Switching \cup Ended]
  BY <1>1 DEF TypeOK, Ended, Switching
<1>3. ran' = [ran EXCEPT ![p] = IF link[c] \in Modes THEN link[c] ELSE Nil]
  BY DEF Execute
<1>4. raced' \in BOOLEAN
  BY DEF Execute, TypeOK
<1>5. TypeOK'
  <2>1. ran' \in [Procs -> Modes \cup {Nil}]
    BY <1>3 DEF TypeOK
  <2>2. depth' \in [Procs -> 0..MaxDepth]
    BY DEF TypeOK
  <2>3. cmd' \in [Procs -> Commands \cup {Nil}] /\ priv' \in [Procs -> BOOLEAN]
    BY DEF TypeOK
  <2> QED BY <1>2, <1>4, <2>1, <2>2, <2>3 DEF TypeOK
<1>6. Missing'
  <2>1. \A q \in Procs : InWindow(q) \/ pc[q] = "torn" => (InWindow(q) \/ pc[q] = "torn")'
    BY <1>2 DEF InWindow, TypeOK, Ended
  <2> QED BY <2>1, MissingStays
<1>7. ASSUME NEW q \in Procs PROVE Switched(q)'
  BY DEF Switched
<1>8. ASSUME NEW q \in Procs PROVE Placed(q)'
  <2>1. CASE q = p
    <3>1. depth'[p] <= 1 /\ cmd'[p] = c
      BY DEF TypeOK
    <3>2. pc'[p] \notin Ended => depth'[p] = 0
      BY <1>2 DEF Ended, TypeOK
    <3> QED BY <2>1, <3>1, <3>2, <1>2 DEF Placed, Switching, TypeOK
  <2>2. CASE q # p
    <3>1. pc'[q] = pc[q] /\ depth'[q] = depth[q] /\ cmd'[q] = cmd[q]
      BY <2>2, <1>2 DEF TypeOK
    <3> QED BY <3>1 DEF Placed
  <2> QED BY <2>1, <2>2
<1>9. NftOnly'
  BY <1>3, NilAssumption DEF NftOnly, Modes, TypeOK
<1> QED BY <1>5, <1>6, <1>7, <1>8, <1>9

LEMMA InvokeKeeps ==
  ASSUME IInv, NEW p \in Procs, NEW c \in Commands, NEW b \in BOOLEAN, Invoke(p, c, b)
  PROVE  IInv'
<1>1. pc[p] = "idle" /\ depth[p] = 0 /\ depth = [depth EXCEPT ![p] = 0]
  BY DEF Invoke, IInv, Placed, Ended, TypeOK
<1>2. Executes(p, c, 0, b)
  BY <1>1 DEF Invoke, Executes, Ended, Switching
<1>3. 0 \in 0..MaxDepth /\ 0 <= 1
  BY HostAssumption
<1> QED BY <1>2, <1>3, ExecuteKeeps

\* Executing its command again, an execution does not find the wrapper.
LEMMA Reexecutes ==
  ASSUME IInv, NEW p \in Procs, Reexec(p)
  PROVE  /\ pc[p] = "exec" /\ priv[p] \in BOOLEAN /\ 1 \in 0..MaxDepth
         /\ \E c \in Commands : link[c] # "wrapper" /\ Executes(p, c, 1, priv[p])
<1>1. pc[p] = "exec" /\ cmd[p] \in Commands /\ depth[p] = 0 /\ step[p] = Len(Plan) + 1 /\ depth[p] < MaxDepth
  BY DEF Reexec, IInv, Placed, Ended
<1>2. PICK c \in Commands : c = cmd[p]
  BY <1>1
<1>3. priv[p] \in BOOLEAN
  BY DEF IInv, TypeOK
<1>4. link[c] # "wrapper"
  <2>1. PICK k \in DOMAIN Plan : c \in Plan[k]
    BY EveryCommandIsSwitched
  <2>2. k < step[p]
    BY <1>1, <2>1, PlanFacts
  <2> QED BY <2>1, <2>2 DEF IInv, Switched
<1>5. cmd' = [cmd EXCEPT ![p] = c] /\ priv' = [priv EXCEPT ![p] = priv[p]]
  BY <1>2, <1>3 DEF Reexec, IInv, TypeOK, process
<1>6. depth' = [depth EXCEPT ![p] = 1]
  BY <1>1 DEF Reexec
<1>7. Execute(p, c)
  BY <1>2 DEF Reexec
<1>8. Executes(p, c, 1, priv[p])
  BY <1>1, <1>4, <1>5, <1>6, <1>7 DEF Reexec, Executes, Ended, Switching
<1>9. 1 \in 0..MaxDepth
  BY <1>1, HostAssumption
<1> QED BY <1>1, <1>3, <1>4, <1>8, <1>9

LEMMA ReexecKeeps ==
  ASSUME IInv, NEW p \in Procs, Reexec(p)
  PROVE  IInv'
<1>1. PICK c \in Commands : Executes(p, c, 1, priv[p])
  BY Reexecutes
<1>2. PICK b \in BOOLEAN : b = priv[p]
  BY Reexecutes
<1>3. Executes(p, c, 1, b)
  BY <1>1, <1>2
<1>4. 1 \in 0..MaxDepth /\ 1 <= 1
  BY Reexecutes
<1> QED BY <1>3, <1>4, ExecuteKeeps

LEMMA BinDirKeeps ==
  ASSUME IInv, NEW p \in Procs, BinDir(p)
  PROVE  IInv'
<1> USE DEF IInv
<1>1. /\ UNCHANGED <<link, hints, process, mode, step, depth, ran, crashes, raced>>
      /\ pc[p] = "binDir"
      /\ pc' = [pc EXCEPT ![p] = pc'[p]] /\ pc'[p] \in {"failed", "probe"}
      /\ probe' = [probe EXCEPT ![p] = 1]
  BY DEF BinDir, Goto, TypeOK
<1>2. TypeOK'
  <2>1. pc' \in [Procs -> {"idle", "binDir", "probe", "exec", "fallback"} \cup Switching \cup Ended]
    BY <1>1 DEF TypeOK, Ended
  <2>2. probe' \in [Procs -> DOMAIN Probes]
    BY <1>1, ProbeFacts DEF TypeOK
  <2> QED BY <1>1, <2>1, <2>2 DEF TypeOK, process
<1>3. Missing'
  <2>1. \A q \in Procs : InWindow(q) \/ pc[q] = "torn" => (InWindow(q) \/ pc[q] = "torn")'
    BY <1>1 DEF InWindow, TypeOK, process
  <2> QED BY <1>1, <2>1, MissingStays
<1>4. ASSUME NEW q \in Procs PROVE Switched(q)'
  BY <1>1 DEF Switched
<1>5. ASSUME NEW q \in Procs PROVE Placed(q)'
  BY <1>1 DEF Placed, TypeOK, Switching, Ended, process
<1>6. NftOnly'
  BY <1>1 DEF NftOnly
<1> QED BY <1>2, <1>3, <1>4, <1>5, <1>6

LEMMA ProbeKeeps ==
  ASSUME IInv, NEW p \in Procs, NEW readable \in BOOLEAN, Probe(p, readable)
  PROVE  IInv'
<1> USE DEF IInv
<1> DEFINE i == probe[p]
<1>1. /\ UNCHANGED <<link, hints, process, depth, ran, crashes, raced>>
      /\ pc[p] = "probe" /\ i \in 1..4
  BY ProbeFacts DEF Probe, TypeOK
<1>2. CASE ~Seen(i, readable) /\ i < Len(Probes)
  <2>1. probe' = [probe EXCEPT ![p] = i + 1] /\ UNCHANGED <<pc, mode, step>>
    BY <1>2 DEF Probe
  <2>2. TypeOK'
    <3>1. probe' \in [Procs -> DOMAIN Probes]
      BY <1>1, <1>2, <2>1, ProbeFacts DEF TypeOK
    <3> QED BY <1>1, <2>1, <3>1 DEF TypeOK, process
  <2>3. Missing'
    BY <1>1, <2>1, MissingStays DEF InWindow, process
  <2>4. \A q \in Procs : Switched(q)' /\ Placed(q)'
    BY <1>1, <2>1 DEF Switched, Placed, process
  <2>5. NftOnly'
    BY <1>1, <2>1 DEF NftOnly
  <2> QED BY <2>2, <2>3, <2>4, <2>5
<1>3. CASE ~(~Seen(i, readable) /\ i < Len(Probes))
  <2> DEFINE m == IF Seen(i, readable) THEN Probes[i][1] ELSE "nft"
  <2>1. /\ mode' = [mode EXCEPT ![p] = m]
        /\ step' = [step EXCEPT ![p] = 1]
        /\ pc' = [pc EXCEPT ![p] = UseStep(1)]
        /\ UNCHANGED probe
    BY <1>3 DEF Probe, Goto
  <2>2. m \in Modes
    BY <1>1, ProbeFacts DEF Modes
  <2>3. HostMode = "nft" => m = "nft"
    <3>1. SUFFICES ASSUME HostMode = "nft", Probes[i] \in hints PROVE Probes[i][1] = "nft"
      BY DEF Seen
    <3>2. Probes[i] \in {HostMode} \X Families
      BY <3>1 DEF TypeOK
    <3> QED BY <3>1, <3>2
  <2>4. UseStep(1) = (IF IsSymlink THEN "remove" ELSE "set") /\ 1 \in DOMAIN Plan
    BY PlanFacts DEF UseStep
  <2> HIDE DEF m
  <2>5. TypeOK'
    <3>1. pc' \in [Procs -> {"idle", "binDir", "probe", "exec", "fallback"} \cup Switching \cup Ended]
      BY <2>1, <2>4 DEF TypeOK, Switching
    <3>2. mode' \in [Procs -> Modes \cup {Nil}] /\ step' \in [Procs -> 1..(Len(Plan) + 1)]
      BY <2>1, <2>2, PlanFacts DEF TypeOK
    <3> QED BY <1>1, <2>1, <3>1, <3>2 DEF TypeOK, process
  <2>6. Missing'
    <3> SUFFICES ASSUME NEW c \in Commands, link[c] = "absent"
                 PROVE  Accounted(c)'
      BY <1>1 DEF Missing
    <3>1. PICK q \in Procs : Owes(q, c)
      BY DEF Missing, Accounted
    <3>2. q # p
      BY <1>1, <3>1 DEF Owes, InWindow
    <3>3. pc'[q] = pc[q] /\ step'[q] = step[q] /\ priv'[q] = priv[q]
      BY <1>1, <2>1, <3>2 DEF TypeOK, process
    <3> QED BY <3>1, <3>3 DEF Accounted, Owes, InWindow
  <2>7. ASSUME NEW q \in Procs PROVE Switched(q)'
    <3>1. CASE q = p
      BY <3>1, <2>1, PlanFacts DEF Switched, TypeOK
    <3>2. CASE q # p
      BY <3>2, <1>1, <2>1 DEF Switched, TypeOK
    <3> QED BY <3>1, <3>2
  <2>8. ASSUME NEW q \in Procs PROVE Placed(q)'
    <3>1. CASE q = p
      <4>1. pc'[p] \in {"remove", "set"} /\ (pc'[p] = "remove" => IsSymlink) /\ step'[p] = 1 /\ mode'[p] = m
        BY <2>1, <2>4 DEF TypeOK
      <4>2. cmd'[p] \in Commands /\ depth'[p] = 0
        BY <1>1 DEF Placed, Ended, process
      <4> QED BY <3>1, <4>1, <4>2, <2>2, <2>4 DEF Placed, Switching
    <3>2. CASE q # p
      <4>1. pc'[q] = pc[q] /\ step'[q] = step[q] /\ mode'[q] = mode[q]
        BY <3>2, <2>1 DEF TypeOK
      <4> QED BY <4>1, <1>1 DEF Placed, process
    <3> QED BY <3>1, <3>2
  <2>9. NftOnly'
    BY <1>1, <2>1, <2>3 DEF NftOnly, TypeOK
  <2> QED BY <2>5, <2>6, <2>7, <2>8, <2>9
<1> QED BY <1>2, <1>3

LEMMA RemoveKeeps ==
  ASSUME IInv, NEW p \in Procs, Remove(p)
  PROVE  IInv'
<1> USE DEF IInv
<1>1. /\ UNCHANGED <<hints, process, probe, mode, step, depth, ran, crashes, raced>>
      /\ pc[p] = "remove"
      /\ pc' = [pc EXCEPT ![p] = "link"]
      /\ link' = [c \in Commands |-> IF priv[p] /\ c \in Plan[step[p]] THEN "absent" ELSE link[c]]
  BY DEF Remove, Goto, Removed
<1>2. TypeOK'
  <2>1. pc' \in [Procs -> {"idle", "binDir", "probe", "exec", "fallback"} \cup Switching \cup Ended]
    BY <1>1 DEF TypeOK, Switching
  <2>2. link' \in [Commands -> Links]
    BY <1>1 DEF TypeOK, Links
  <2> QED BY <1>1, <2>1, <2>2 DEF TypeOK, process
<1>3. Missing'
  <2> SUFFICES ASSUME NEW c \in Commands, link'[c] = "absent"
               PROVE  Accounted(c)'
    BY <1>1 DEF Missing
  <2>1. CASE priv[p] /\ c \in Plan[step[p]]
    <3>1. pc'[p] = "link" /\ priv'[p] /\ step'[p] = step[p]
      BY <1>1, <2>1 DEF TypeOK, process
    <3> QED BY <2>1, <3>1 DEF Accounted, Owes, InWindow
  <2>2. CASE ~(priv[p] /\ c \in Plan[step[p]])
    <3>1. link[c] = "absent"
      BY <1>1, <2>2
    <3>2. PICK q \in Procs : Owes(q, c)
      BY <3>1 DEF Missing, Accounted
    <3>3. q # p
      BY <1>1, <3>2 DEF Owes, InWindow
    <3>4. pc'[q] = pc[q] /\ step'[q] = step[q] /\ priv'[q] = priv[q]
      BY <1>1, <3>3 DEF TypeOK, process
    <3> QED BY <3>2, <3>4 DEF Accounted, Owes, InWindow
  <2> QED BY <2>1, <2>2
<1>4. \A c \in Commands : link'[c] \in {link[c], "absent"}
  BY <1>1
<1>5. ASSUME NEW q \in Procs PROVE Switched(q)'
  BY <1>1, <1>4, PlanFacts DEF Switched
<1>6. ASSUME NEW q \in Procs PROVE Placed(q)'
  <2>1. CASE q = p
    <3>1. pc'[p] = "link"
      BY <1>1 DEF TypeOK
    <3> QED BY <2>1, <3>1, <1>1 DEF Placed, Switching, Ended, process
  <2>2. CASE q # p
    <3>1. pc'[q] = pc[q]
      BY <2>2, <1>1 DEF TypeOK
    <3> QED BY <3>1, <1>1 DEF Placed, process
  <2> QED BY <2>1, <2>2
<1>7. NftOnly'
  BY <1>1, <1>4 DEF NftOnly
<1> QED BY <1>2, <1>3, <1>5, <1>6, <1>7

\* What p's next step of UseMode is, once it has switched the commands of one.
LEMMA AfterStep ==
  ASSUME NEW k \in DOMAIN Plan
  PROVE  /\ k + 1 \in 1..(Len(Plan) + 1)
         /\ UseStep(k + 1) \in {"exec", "remove", "set"}
         /\ UseStep(k + 1) = "exec" => k + 1 = Len(Plan) + 1
         /\ UseStep(k + 1) # "exec" => k + 1 \in DOMAIN Plan
         /\ UseStep(k + 1) = "remove" => IsSymlink
BY PlanFacts DEF UseStep

\* A step of UseMode that points the commands of S at p's mode.
Switches(p, S) ==
  /\ pc[p] \in {"link", "set"}
  /\ S = Plan[step[p]]
  /\ link' = [c \in Commands |-> IF c \in S THEN mode[p] ELSE link[c]]
  /\ step' = [step EXCEPT ![p] = step[p] + 1]
  /\ pc' = [pc EXCEPT ![p] = UseStep(step[p] + 1)]
  /\ UNCHANGED <<hints, process, probe, mode, depth, ran, crashes, raced>>

LEMMA SwitchesKeeps ==
  ASSUME IInv, NEW p \in Procs, NEW S, Switches(p, S)
  PROVE  IInv'
<1> USE DEF IInv
<1> DEFINE k == step[p]
<1>1. /\ UNCHANGED <<hints, process, probe, mode, depth, ran, crashes, raced>>
      /\ pc[p] \in Switching /\ k \in DOMAIN Plan /\ mode[p] \in Modes
      /\ link' = [c \in Commands |-> IF c \in Plan[k] THEN mode[p] ELSE link[c]]
      /\ step' = [step EXCEPT ![p] = k + 1]
      /\ pc' = [pc EXCEPT ![p] = UseStep(k + 1)]
  BY DEF Switches, Switching, Placed
<1>2. /\ pc'[p] = UseStep(k + 1) /\ step'[p] = k + 1
      /\ \A q \in Procs \ {p} : pc'[q] = pc[q] /\ step'[q] = step[q]
  BY <1>1 DEF TypeOK
<1>3. TypeOK'
  <2>1. pc' \in [Procs -> {"idle", "binDir", "probe", "exec", "fallback"} \cup Switching \cup Ended]
    BY <1>1, AfterStep DEF TypeOK, Switching
  <2>2. link' \in [Commands -> Links]
    BY <1>1 DEF TypeOK, Links
  <2>3. step' \in [Procs -> 1..(Len(Plan) + 1)]
    BY <1>1, AfterStep DEF TypeOK
  <2> QED BY <1>1, <2>1, <2>2, <2>3 DEF TypeOK, process
<1>4. Missing'
  <2> SUFFICES ASSUME NEW c \in Commands, link'[c] = "absent"
               PROVE  Accounted(c)'
    BY <1>1 DEF Missing
  <2>1. c \notin Plan[k] /\ link[c] = "absent"
    BY <1>1 DEF Modes
  <2>2. PICK q \in Procs : Owes(q, c)
    BY <2>1 DEF Missing, Accounted
  <2>3. q # p
    BY <2>1, <2>2 DEF Owes
  <2> QED BY <1>1, <1>2, <2>2, <2>3 DEF Accounted, Owes, InWindow, process
<1>5. \A c \in Commands : link[c] # "wrapper" => link'[c] # "wrapper"
  BY <1>1 DEF Modes
<1>6. ASSUME NEW q \in Procs PROVE Switched(q)'
  <2> SUFFICES ASSUME NEW j \in DOMAIN Plan, j < step'[q], NEW c \in Plan[j]
               PROVE  link'[c] # "wrapper"
    BY DEF Switched
  <2>1. c \in Commands
    BY PlanFacts
  <2>2. CASE q = p /\ j = k
    BY <2>1, <2>2, <1>1 DEF Modes
  <2>3. CASE j < step[q]
    BY <2>1, <2>3, <1>5 DEF Switched
  <2>4. q = p => j < k + 1
    BY <1>2
  <2>5. q # p => j < step[q]
    BY <1>2
  <2> QED BY <2>2, <2>3, <2>4, <2>5, <1>1, PlanFacts
<1>7. ASSUME NEW q \in Procs PROVE Placed(q)'
  <2>1. CASE q = p
    <3>1. cmd'[p] \in Commands /\ depth'[p] = 0 /\ mode'[p] \in Modes
      BY <1>1 DEF Placed, Switching, Ended, process
    <3>2. /\ pc'[p] \in {"exec", "remove", "set"}
          /\ pc'[p] = "exec" => step'[p] = Len(Plan) + 1
          /\ pc'[p] # "exec" => step'[p] \in DOMAIN Plan
          /\ pc'[p] = "remove" => IsSymlink
      BY <1>1, <1>2, AfterStep
    <3> QED BY <2>1, <3>1, <3>2 DEF Placed, Switching
  <2>2. CASE q # p
    BY <2>2, <1>1, <1>2 DEF Placed, process
  <2> QED BY <2>1, <2>2
<1>8. NftOnly'
  BY <1>1 DEF NftOnly
<1> QED BY <1>3, <1>4, <1>6, <1>7, <1>8

\* A step that fails: p goes on to the mode's own binary, and left no window
\* in which it had removed something.
LEMMA FailsKeeps ==
  ASSUME IInv, NEW p \in Procs, pc[p] \in {"link", "set"},
         pc' = [pc EXCEPT ![p] = "fallback"],
         \A c \in Plan[step[p]] : InWindow(p) => link[c] # "absent",
         UNCHANGED <<link, step, hints, process, probe, mode, depth, ran, crashes, raced>>
  PROVE  IInv'
<1> USE DEF IInv
<1>1. TypeOK'
  BY DEF TypeOK, process
<1>2. Missing'
  <2> SUFFICES ASSUME NEW c \in Commands, link[c] = "absent"
               PROVE  Accounted(c)'
    BY DEF Missing
  <2>1. PICK q \in Procs : Owes(q, c)
    BY DEF Missing, Accounted
  <2>2. q # p
    BY <2>1 DEF Owes
  <2>3. pc'[q] = pc[q]
    BY <2>2 DEF TypeOK
  <2> QED BY <2>1, <2>3 DEF Accounted, Owes, InWindow, process
<1>3. ASSUME NEW q \in Procs PROVE Switched(q)'
  BY DEF Switched
<1>4. ASSUME NEW q \in Procs PROVE Placed(q)'
  <2>1. CASE q = p
    BY <2>1 DEF Placed, TypeOK, Switching, Ended, process
  <2>2. CASE q # p
    <3>1. pc'[q] = pc[q]
      BY <2>2 DEF TypeOK
    <3> QED BY <3>1 DEF Placed, process
  <2> QED BY <2>1, <2>2
<1>5. NftOnly'
  BY DEF NftOnly
<1> QED BY <1>1, <1>2, <1>3, <1>4, <1>5

LEMMA LinkKeeps ==
  ASSUME IInv, NEW p \in Procs, Link(p)
  PROVE  IInv'
<1>1. PICK c \in Plan[step[p]] :
        IF Created(p, c)
        THEN /\ link' = [link EXCEPT ![c] = mode[p]]
             /\ step' = [step EXCEPT ![p] = step[p] + 1]
             /\ pc' = [pc EXCEPT ![p] = UseStep(step[p] + 1)]
        ELSE /\ pc' = [pc EXCEPT ![p] = "fallback"]
             /\ UNCHANGED <<link, step>>
  BY DEF Link, Goto, AfterError, Target
<1>2. /\ pc[p] = "link" /\ step[p] \in DOMAIN Plan /\ IsSymlink
      /\ UNCHANGED <<hints, process, probe, mode, depth, ran, crashes, raced>>
  BY DEF Link, IInv, Placed, Switching
<1>3. \A e \in Plan[step[p]] : e = c
  BY <1>1, <1>2, PlanFacts
<1>4. CASE Created(p, c)
  <2>1. link' = [e \in Commands |-> IF e \in Plan[step[p]] THEN mode[p] ELSE link[e]]
    BY <1>1, <1>3, <1>4 DEF IInv, TypeOK
  <2>2. PICK S : S = Plan[step[p]]
    OBVIOUS
  <2>3. Switches(p, S)
    BY <1>1, <1>2, <1>4, <2>1, <2>2 DEF Switches
  <2> QED BY <2>3, SwitchesKeeps
<1>5. CASE ~Created(p, c)
  <2>1. \A e \in Plan[step[p]] : InWindow(p) => link[e] # "absent"
    BY <1>3, <1>5 DEF Created, InWindow
  <2> QED BY <1>1, <1>2, <1>5, <2>1, FailsKeeps
<1> QED BY <1>4, <1>5

LEMMA SetKeeps ==
  ASSUME IInv, NEW p \in Procs, NEW works \in BOOLEAN, Set(p, works)
  PROVE  IInv'
<1>1. pc[p] = "set" /\ UNCHANGED <<hints, process, probe, mode, depth, ran, crashes, raced>>
  BY DEF Set
<1>2. CASE works
  <2>1. PICK S : S = Plan[step[p]]
    OBVIOUS
  <2>2. Switches(p, S)
    BY <1>1, <1>2, <2>1 DEF Switches, Set, Goto, Target
  <2> QED BY <2>2, SwitchesKeeps
<1>3. CASE ~works
  <2>1. pc' = [pc EXCEPT ![p] = "fallback"] /\ UNCHANGED <<link, step>>
    BY <1>3 DEF Set, Goto, AfterError
  <2>2. ~InWindow(p)
    BY <1>1 DEF InWindow
  <2> QED BY <1>1, <2>1, <2>2, FailsKeeps
<1> QED BY <1>2, <1>3

LEMMA FallbackKeeps ==
  ASSUME IInv, NEW p \in Procs, Fallback(p)
  PROVE  IInv'
<1> USE DEF IInv
<1>1. /\ UNCHANGED <<link, hints, process, probe, mode, step, depth, crashes, raced>>
      /\ pc[p] = "fallback"
      /\ pc' = [pc EXCEPT ![p] = "ran"]
      /\ ran' = [ran EXCEPT ![p] = mode[p]]
  BY DEF Fallback, Goto
<1>2. TypeOK'
  BY <1>1 DEF TypeOK, Ended, process
<1>3. Missing'
  <2>1. \A q \in Procs : InWindow(q) \/ pc[q] = "torn" => (InWindow(q) \/ pc[q] = "torn")'
    BY <1>1 DEF InWindow, TypeOK, process
  <2> QED BY <1>1, <2>1, MissingStays
<1>4. ASSUME NEW q \in Procs PROVE Switched(q)'
  BY <1>1 DEF Switched
<1>5. ASSUME NEW q \in Procs PROVE Placed(q)'
  BY <1>1 DEF Placed, TypeOK, Switching, Ended, process
<1>6. NftOnly'
  BY <1>1 DEF NftOnly, TypeOK
<1> QED BY <1>2, <1>3, <1>4, <1>5, <1>6

LEMMA HintKeeps ==
  ASSUME IInv, NEW f \in Families, KubeletHint(f)
  PROVE  IInv'
<1> USE DEF IInv
<1>1. /\ hints' = hints \cup {<<HostMode, f>>}
      /\ UNCHANGED <<link, pc, process, probe, mode, step, depth, ran, crashes, raced>>
  BY DEF KubeletHint
<1>2. TypeOK'
  BY <1>1 DEF TypeOK, process
<1>3. Missing'
  BY <1>1, MissingStays DEF InWindow, process
<1>4. \A q \in Procs : Switched(q)' /\ Placed(q)'
  BY <1>1 DEF Switched, Placed, process
<1>5. NftOnly'
  BY <1>1 DEF NftOnly
<1> QED BY <1>2, <1>3, <1>4, <1>5

LEMMA KillKeeps ==
  ASSUME IInv, NEW p \in Procs, Kill(p)
  PROVE  IInv'
<1> USE DEF IInv
<1>1. /\ UNCHANGED <<link, hints, process, probe, mode, step, depth, ran, raced>>
      /\ pc[p] \notin Ended \cup {"idle"} /\ crashes < MaxCrashes
      /\ pc' = [pc EXCEPT ![p] = pc'[p]]
      /\ pc'[p] = IF InWindow(p) THEN "torn" ELSE "killed"
      /\ crashes' = crashes + 1
  BY DEF Kill, Goto, TypeOK
<1>2. crashes' \in 0..MaxCrashes /\ crashes' # 0
  BY <1>1, HostAssumption DEF TypeOK
<1>3. TypeOK'
  BY <1>1, <1>2 DEF TypeOK, Ended, process
<1>4. Missing'
  <2>1. \A q \in Procs : InWindow(q) \/ pc[q] = "torn" => (InWindow(q) \/ pc[q] = "torn")'
    BY <1>1 DEF InWindow, TypeOK, Ended, process
  <2> QED BY <1>1, <2>1, MissingStays
<1>5. ASSUME NEW q \in Procs PROVE Switched(q)'
  BY <1>1 DEF Switched
<1>6. ASSUME NEW q \in Procs PROVE Placed(q)'
  BY <1>1, <1>2 DEF Placed, TypeOK, Switching, Ended, process
<1>7. NftOnly'
  BY <1>1 DEF NftOnly
<1> QED BY <1>3, <1>4, <1>5, <1>6, <1>7

-----------------------------------------------------------------------------
(* The theorems *)

LEMMA NextKeeps == IInv /\ [Next]_vars => IInv'
<1> SUFFICES ASSUME IInv, [Next]_vars PROVE IInv'
  OBVIOUS
<1>1. ASSUME NEW p \in Procs, Step(p) PROVE IInv'
  <2>1. CASE BinDir(p)
    BY <2>1, BinDirKeeps
  <2>2. CASE \E readable \in BOOLEAN : Probe(p, readable)
    BY <2>2, ProbeKeeps
  <2>3. CASE Remove(p)
    BY <2>3, RemoveKeeps
  <2>4. CASE Link(p)
    BY <2>4, LinkKeeps
  <2>5. CASE \E works \in BOOLEAN : Set(p, works)
    BY <2>5, SetKeeps
  <2>6. CASE Reexec(p)
    BY <2>6, ReexecKeeps
  <2>7. CASE Fallback(p)
    BY <2>7, FallbackKeeps
  <2> QED BY <1>1, <2>1, <2>2, <2>3, <2>4, <2>5, <2>6, <2>7 DEF Step
<1>2. ASSUME NEW p \in Procs, Kill(p) PROVE IInv'
  BY <1>2, KillKeeps
<1>3. CASE \E p \in Procs, c \in Commands, b \in BOOLEAN : Invoke(p, c, b)
  BY <1>3, InvokeKeeps
<1>4. CASE \E f \in Families : KubeletHint(f)
  BY <1>4, HintKeeps
<1>5. CASE UNCHANGED vars
  BY <1>5 DEF vars, process, IInv, TypeOK, Missing, Accounted, Owes, InWindow, Switched, Placed, NftOnly
<1> QED BY <1>1, <1>2, <1>3, <1>4, <1>5 DEF Next

THEOREM WrapperInductive == Spec => []IInv
<1> QED BY InitHolds, NextKeeps, PTL DEF Spec

(* The variables have their types. *)
THEOREM WrapperTypeCorrect == Spec => []TypeOK
<1>1. IInv => TypeOK
  BY DEF IInv
<1> QED BY <1>1, WrapperInductive, PTL

(* An execution executes its command again at most once, and then ends: it   *)
(* never finds the wrapper again (the loop main.go:31 warns of).             *)
THEOREM ReexecOnceHolds == Spec => []ReexecOnce
<1>1. IInv => ReexecOnce
  <2> SUFFICES ASSUME IInv, NEW p \in Procs
               PROVE  depth[p] <= 1 /\ (depth[p] = 1 => pc[p] \in Ended)
    BY DEF ReexecOnce
  <2>1. Placed(p)
    BY DEF IInv
  <2>2. depth[p] <= 1
    BY <2>1 DEF Placed
  <2>3. pc[p] \notin Ended => depth[p] = 0
    BY <2>1 DEF Placed
  <2> QED BY <2>2, <2>3
<1> QED BY <1>1, WrapperInductive, PTL

(* On an nft host every command is carried out in nft mode, whatever races.  *)
THEOREM RightModeHolds == Spec => []RightMode
<1>1. IInv => RightMode
  BY DEF IInv, TypeOK, NftOnly, RightMode, Modes
<1> QED BY <1>1, WrapperInductive, PTL

(* A command fails for want of a binary only while another execution is in   *)
(* the window of that command, or after one was killed in it, however many   *)
(* executions race over the links and wherever else they are killed.         *)
THEOREM FailsOnlyInWindowHolds == Spec => FailsOnlyInWindow
<1> DEFINE Wants(p) == IF pc[p] = "binDir" THEN Iptables ELSE cmd'[p]
           OnlyInWindow == \A p \in Procs : pc[p] # "failed" /\ pc'[p] = "failed" =>
                             \E q \in Procs \ {p} : Owes(q, Wants(p))
<1>1. ASSUME IInv, Next, NEW p \in Procs, pc[p] # "failed", pc'[p] = "failed"
      PROVE  \E q \in Procs \ {p} : Owes(q, Wants(p))
  <2>1. /\ pc[p] \in {"idle", "exec", "binDir"}
        /\ Wants(p) \in Commands /\ link[Wants(p)] = "absent"
    <3>1. ASSUME NEW q \in Procs, NEW c \in Commands, Execute(q, c)
          PROVE  q = p /\ link[c] = "absent"
      <4>1. pc' = [pc EXCEPT ![q] = CASE link[c] = "wrapper" -> "binDir"
                                      [] link[c] = "absent" -> "failed" [] OTHER -> "ran"]
        BY <3>1 DEF Execute, Goto
      <4> QED BY <4>1, <1>1 DEF IInv, TypeOK
    <3>2. ASSUME NEW q \in Procs, NEW c \in Commands, NEW b \in BOOLEAN, Invoke(q, c, b)
          PROVE  pc[p] = "idle" /\ Wants(p) = c /\ link[c] = "absent"
      <4>1. q = p /\ link[c] = "absent"
        BY <3>1, <3>2 DEF Invoke
      <4>2. pc[p] = "idle" /\ cmd'[p] = c
        BY <3>2, <4>1, <1>1 DEF Invoke, IInv, TypeOK
      <4> QED BY <4>1, <4>2
    <3>3. ASSUME NEW q \in Procs, Reexec(q)
          PROVE  pc[p] = "exec" /\ Wants(p) = cmd[q] /\ cmd[q] \in Commands /\ link[cmd[q]] = "absent"
      <4>1. PICK c \in Commands : c = cmd[q]
        BY <1>1, <3>3 DEF Reexec, IInv, Placed
      <4>2. q = p /\ link[c] = "absent"
        BY <3>1, <3>3, <4>1 DEF Reexec
      <4>3. pc[p] = "exec" /\ cmd'[p] = cmd[p]
        BY <3>3, <4>2 DEF Reexec, process
      <4> QED BY <4>1, <4>2, <4>3
    <3>4. ASSUME NEW q \in Procs, BinDir(q)
          PROVE  pc[p] = "binDir" /\ Wants(p) = Iptables /\ Iptables \in Commands /\ link[Iptables] = "absent"
      <4>1. q = p /\ link[Iptables] = "absent" /\ pc[q] = "binDir"
        BY <1>1, <3>4 DEF BinDir, Goto, IInv, TypeOK
      <4> QED BY <4>1, PlanAssumption
    <3>5. ASSUME NEW q \in Procs, NEW readable \in BOOLEAN, Probe(q, readable) PROVE FALSE
      BY <1>1, <3>5 DEF Probe, Goto, UseStep, IInv, TypeOK
    <3>6. ASSUME NEW q \in Procs, Remove(q) \/ Fallback(q) \/ Kill(q) PROVE FALSE
      BY <1>1, <3>6 DEF Remove, Fallback, Kill, Goto, IInv, TypeOK
    <3>7. ASSUME NEW q \in Procs, Link(q) PROVE FALSE
      BY <1>1, <3>7 DEF Link, Goto, UseStep, AfterError, IInv, TypeOK
    <3>8. ASSUME NEW q \in Procs, NEW works \in BOOLEAN, Set(q, works) PROVE FALSE
      BY <1>1, <3>8 DEF Set, Goto, UseStep, AfterError, IInv, TypeOK
    <3>9. ASSUME NEW f \in Families, KubeletHint(f) PROVE FALSE
      BY <1>1, <3>9 DEF KubeletHint
    <3> HIDE DEF Wants
    <3> QED BY <1>1, <3>2, <3>3, <3>4, <3>5, <3>6, <3>7, <3>8, <3>9 DEF Next, Step
  <2> HIDE DEF Wants
  <2>2. PICK q \in Procs : Owes(q, Wants(p))
    BY <1>1, <2>1 DEF IInv, Missing, Accounted
  <2>3. q # p
    <3>1. SUFFICES ASSUME q = p PROVE FALSE
      OBVIOUS
    <3>2. pc[p] \in {"link", "torn"}
      BY <2>2, <3>1 DEF Owes, InWindow
    <3> QED BY <2>1, <3>2
  <2> QED BY <2>2, <2>3
<1>2. IInv /\ [Next]_vars => [OnlyInWindow]_vars
  BY <1>1
<1> QED BY <1>2, WrapperInductive, PTL DEF Spec, FailsOnlyInWindow

-----------------------------------------------------------------------------
(* How the executions that switch the commands leave them.                  *)

\* An execution that has detected no mode is not yet switching.
Fresh(p) == pc[p] \in {"idle", "binDir", "probe"} => mode[p] = Nil

\* A privileged execution that has switched every command, or will unless
\* another removes or creates a link first.
Sure(z) ==
  /\ Tried(z)
  /\ \/ pc[z] \in {"remove", "set"}
     \/ pc[z] = "link" /\ \A c \in Plan[step[z]] : link[c] = "absent"
     \/ step[z] = Len(Plan) + 1

Lasting == crashes = 0 /\ ~ToolFails /\ (\E p \in Procs : Tried(p)) => \E z \in Procs : Sure(z)

\* No wrapper overlapped another, none was killed, no tool failed.
Calm == ~raced /\ crashes = 0 /\ ~ToolFails

Untouched == \A c \in Commands : link[c] = "wrapper"
OneMode == \E m \in Modes : \A c \in Commands : link[c] = m

\* The links while p is the only wrapper: as p found them until it changes one,
\* then each switched, removed or not yet reached.
InHand(p) ==
  /\ pc[p] \in {"binDir", "probe"} \/ ~priv[p] => Untouched
  /\ pc[p] \in {"remove", "set"} => \A c \in Commands : link[c] \in {mode[p], "wrapper"}
  /\ pc[p] = "link" /\ priv[p] =>
       \A c \in Commands : IF c \in Plan[step[p]] THEN link[c] = "absent"
                                                  ELSE link[c] \in {mode[p], "wrapper"}

OneAtATime ==
  Calm => /\ \A p, q \in Procs : Active(p) /\ Active(q) => p = q
          /\ \A p \in Procs : Active(p) => InHand(p)
          /\ (\A p \in Procs : ~Active(p)) => Untouched \/ OneMode

SwitchInv == (\A p \in Procs : Fresh(p)) /\ Lasting /\ OneAtATime

\* What stays of the executions other than p.
OthersStay(p) ==
  \A q \in Procs \ {p} : /\ pc'[q] = pc[q] /\ priv'[q] = priv[q]
                         /\ mode'[q] = mode[q] /\ step'[q] = step[q]

\* A step of p keeps Lasting if it makes p a sure one, or changes no link and
\* leaves p what it was.
LEMMA LastingStep ==
  ASSUME Lasting, NEW p \in Procs, OthersStay(p), crashes' = 0 => crashes = 0,
         crashes' = 0 /\ ~ToolFails =>
           Sure(p)' \/ (link' = link /\ (Tried(p)' => Tried(p)) /\ (Sure(p) => Sure(p)'))
  PROVE  Lasting'
<1> SUFFICES ASSUME crashes' = 0, ~ToolFails, NEW q \in Procs, Tried(q)', ~Sure(p)'
             PROVE  \E z \in Procs : Sure(z)'
  BY DEF Lasting
<1>1. link' = link /\ (Tried(p)' => Tried(p)) /\ (Sure(p) => Sure(p)')
  OBVIOUS
<1>2. Tried(q)
  BY <1>1 DEF OthersStay, Tried
<1>3. PICK z \in Procs : Sure(z)
  BY <1>2 DEF Lasting
<1>4. z # p
  BY <1>1, <1>3
<1> QED BY <1>1, <1>3, <1>4 DEF OthersStay, Sure, Tried

\* A step of an execution that is no wrapper before or after it.
LEMMA OutsideStep ==
  ASSUME OneAtATime, NEW p \in Procs, OthersStay(p), ~Active(p), ~Active(p)',
         link' = link, Calm' => Calm
  PROVE  OneAtATime'
<1> SUFFICES ASSUME Calm' PROVE OneAtATime'
  BY DEF OneAtATime
<1>1. \A q \in Procs : Active(q)' => Active(q) /\ q # p
  BY DEF Active, OthersStay
<1>2. \A q \in Procs : Active(q) => Active(q)' /\ q # p
  BY DEF Active, OthersStay
<1>3. ASSUME NEW q \in Procs, Active(q)' PROVE InHand(q)'
  <2>1. Active(q) /\ q # p
    BY <1>1, <1>3
  <2>2. InHand(q)
    BY <2>1 DEF OneAtATime
  <2>3. pc'[q] = pc[q] /\ priv'[q] = priv[q] /\ mode'[q] = mode[q] /\ step'[q] = step[q]
    BY <2>1 DEF OthersStay
  <2> QED BY <2>2, <2>3 DEF InHand, Untouched
<1>4. (\A q \in Procs : ~Active(q)') => Untouched' \/ OneMode'
  <2>1. SUFFICES ASSUME \A q \in Procs : ~Active(q)' PROVE Untouched' \/ OneMode'
    OBVIOUS
  <2>2. Untouched \/ OneMode
    BY <1>2, <2>1 DEF OneAtATime
  <2> QED BY <2>2 DEF Untouched, OneMode
<1>5. \A q, r \in Procs : Active(q)' /\ Active(r)' => q = r
  BY <1>1 DEF OneAtATime
<1> QED BY <1>3, <1>4, <1>5 DEF OneAtATime

\* A step of the only wrapper.
LEMMA WrapperStep ==
  ASSUME OneAtATime, NEW p \in Procs, OthersStay(p), Calm' => Calm,
         Calm' => \A q \in Procs \ {p} : ~Active(q),
         Calm' /\ Active(p)' => InHand(p)',
         Calm' /\ ~Active(p)' => Untouched' \/ OneMode'
  PROVE  OneAtATime'
<1> SUFFICES ASSUME Calm' PROVE OneAtATime'
  BY DEF OneAtATime
<1>1. \A q \in Procs \ {p} : ~Active(q)'
  BY DEF Active, OthersStay
<1>2. \A q, r \in Procs : Active(q)' /\ Active(r)' => q = r
  BY <1>1
<1>3. \A q \in Procs : Active(q)' => InHand(q)'
  BY <1>1
<1>4. (\A q \in Procs : ~Active(q)') => Untouched' \/ OneMode'
  OBVIOUS
<1> QED BY <1>2, <1>3, <1>4 DEF OneAtATime

LEMMA ExecutesSwitch ==
  ASSUME IInv, SwitchInv, NEW p \in Procs, NEW c \in Commands, NEW d \in 0..MaxDepth,
         NEW b \in BOOLEAN, Executes(p, c, d, b), ~Active(p),
         link[c] = "wrapper" \/ b # priv[p] => mode[p] = Nil
  PROVE  SwitchInv'
<1> USE DEF IInv, TypeOK
<1>1. /\ UNCHANGED <<link, hints, probe, mode, step, crashes>>
      /\ pc[p] \notin Switching \cup Ended /\ priv'[p] = b
      /\ pc' = [pc EXCEPT ![p] = CASE link[c] = "wrapper" -> "binDir"
                                   [] link[c] = "absent" -> "failed" [] OTHER -> "ran"]
      /\ raced' = (raced \/ (link[c] = "wrapper" /\ \E q \in Procs \ {p} : Active(q)))
  BY DEF Executes, Execute, Goto
<1>2. /\ pc'[p] \in {"binDir", "failed", "ran"}
      /\ pc'[p] = "binDir" <=> link[c] = "wrapper"
  BY <1>1
<1>3. OthersStay(p)
  BY <1>1 DEF Executes, OthersStay
<1>4. ASSUME NEW q \in Procs PROVE Fresh(q)'
  BY <1>1, <1>2, <1>3 DEF SwitchInv, Fresh, OthersStay
<1>5. Lasting'
  <2>1. mode'[p] # Nil => priv'[p] = priv[p]
    BY <1>1
  <2>2. Tried(p)' => Tried(p)
    BY <1>1, <2>1 DEF Tried
  <2>3. Sure(p) => Sure(p)'
    BY <1>1, <2>1 DEF Sure, Tried, Switching
  <2> QED BY <1>1, <1>3, <2>2, <2>3, LastingStep DEF SwitchInv
<1>6. OneAtATime'
  <2>1. Calm' => Calm
    BY <1>1 DEF Calm
  <2>2. CASE link[c] = "wrapper"
    <3>1. Calm' => \A q \in Procs : ~Active(q)
      BY <1>1, <2>2 DEF Calm
    <3>2. Calm' => Untouched
      <4>1. ~OneMode
        BY <2>2 DEF OneMode, Modes
      <4> QED BY <2>1, <3>1, <4>1 DEF SwitchInv, OneAtATime
    <3>3. pc'[p] = "binDir"
      BY <1>2, <2>2
    <3>4. Calm' => InHand(p)'
      BY <1>1, <3>2, <3>3 DEF InHand, Untouched
    <3>5. Active(p)'
      BY <3>3 DEF Active
    <3> QED BY <1>3, <2>1, <3>1, <3>4, <3>5, WrapperStep DEF SwitchInv
  <2>3. CASE link[c] # "wrapper"
    <3>1. ~Active(p)'
      BY <1>2, <2>3 DEF Active, Switching
    <3> QED BY <1>1, <1>3, <2>1, <2>3, <3>1, OutsideStep DEF SwitchInv
  <2> QED BY <2>2, <2>3
<1> QED BY <1>4, <1>5, <1>6 DEF SwitchInv

LEMMA InvokeSwitch ==
  ASSUME IInv, SwitchInv, NEW p \in Procs, NEW c \in Commands, NEW b \in BOOLEAN, Invoke(p, c, b)
  PROVE  SwitchInv'
<1>1. pc[p] = "idle" /\ depth[p] = 0 /\ depth = [depth EXCEPT ![p] = 0]
  BY DEF Invoke, IInv, Placed, Ended, TypeOK
<1>2. Executes(p, c, 0, b)
  BY <1>1 DEF Invoke, Executes, Ended, Switching
<1>3. mode[p] = Nil
  BY <1>1 DEF SwitchInv, Fresh
<1>4. 0 \in 0..MaxDepth
  BY HostAssumption
<1>5. ~Active(p)
  BY <1>1 DEF Active, Switching
<1> QED BY <1>2, <1>3, <1>4, <1>5, ExecutesSwitch

LEMMA ReexecSwitch ==
  ASSUME IInv, SwitchInv, NEW p \in Procs, Reexec(p)
  PROVE  SwitchInv'
<1>1. PICK c \in Commands : link[c] # "wrapper" /\ Executes(p, c, 1, priv[p])
  BY Reexecutes
<1>2. PICK b \in BOOLEAN : b = priv[p]
  BY Reexecutes
<1>3. Executes(p, c, 1, b)
  BY <1>1, <1>2
<1>4. 1 \in 0..MaxDepth /\ ~Active(p)
  BY Reexecutes DEF Active, Switching
<1> QED BY <1>1, <1>2, <1>3, <1>4, ExecutesSwitch

\* While all is calm a wrapper is the only one, and its links are in hand.
LEMMA OnlyWrapper ==
  ASSUME OneAtATime, NEW p \in Procs, Active(p), Calm
  PROVE  InHand(p) /\ \A q \in Procs \ {p} : ~Active(q)
BY DEF OneAtATime

LEMMA BinDirSwitch ==
  ASSUME IInv, SwitchInv, NEW p \in Procs, BinDir(p)
  PROVE  SwitchInv'
<1> USE DEF IInv, TypeOK, SwitchInv
<1>1. /\ UNCHANGED <<link, priv, mode, step, crashes, raced>>
      /\ pc[p] = "binDir"
      /\ pc' = [pc EXCEPT ![p] = pc'[p]] /\ pc'[p] \in {"failed", "probe"}
  BY DEF BinDir, Goto, process
<1>2. OthersStay(p) /\ mode[p] = Nil
  BY <1>1 DEF OthersStay, Fresh
<1>3. ASSUME NEW q \in Procs PROVE Fresh(q)'
  BY <1>1, <1>2 DEF Fresh, OthersStay
<1>4. Lasting'
  <2>1. Tried(p)' => Tried(p)
    BY <1>1 DEF Tried
  <2>2. ~Sure(p)
    BY <1>2 DEF Sure, Tried
  <2> QED BY <1>1, <1>2, <2>1, <2>2, LastingStep
<1>5. OneAtATime'
  <2>1. Active(p) /\ (Calm' => Calm)
    BY <1>1 DEF Active, Calm
  <2>2. Calm => Untouched
    BY <1>1, <2>1, OnlyWrapper DEF InHand
  <2>3. Calm' => Untouched'
    BY <1>1, <2>1, <2>2 DEF Untouched
  <2>4. Calm' => InHand(p)'
    <3>1. pc'[p] \notin Switching
      BY <1>1 DEF Switching
    <3> QED BY <3>1, <2>3 DEF InHand, Switching
  <2> QED BY <1>2, <2>1, <2>3, <2>4, OnlyWrapper, WrapperStep
<1> QED BY <1>3, <1>4, <1>5

LEMMA ProbeSwitch ==
  ASSUME IInv, SwitchInv, NEW p \in Procs, NEW readable \in BOOLEAN, Probe(p, readable)
  PROVE  SwitchInv'
<1> USE DEF IInv, TypeOK, SwitchInv
<1> DEFINE i == probe[p]
<1>1. /\ UNCHANGED <<link, priv, crashes, raced>>
      /\ pc[p] = "probe" /\ mode[p] = Nil /\ i \in 1..4
  BY ProbeFacts DEF Probe, process, Fresh
<1>2. CASE ~Seen(i, readable) /\ i < Len(Probes)
  <2>1. UNCHANGED <<pc, mode, step>>
    BY <1>2 DEF Probe
  <2>2. \A q \in Procs : Fresh(q)'
    BY <2>1 DEF Fresh
  <2>3. Lasting'
    BY <1>1, <2>1 DEF Lasting, Tried, Sure
  <2>4. OneAtATime'
    BY <1>1, <2>1 DEF OneAtATime, Calm, Active, InHand, Untouched, OneMode
  <2> QED BY <2>2, <2>3, <2>4
<1>3. CASE ~(~Seen(i, readable) /\ i < Len(Probes))
  <2> DEFINE m == IF Seen(i, readable) THEN Probes[i][1] ELSE "nft"
  <2>1. /\ mode' = [mode EXCEPT ![p] = m]
        /\ step' = [step EXCEPT ![p] = 1]
        /\ pc' = [pc EXCEPT ![p] = UseStep(1)]
    BY <1>3 DEF Probe, Goto
  <2>2. m \in Modes
    BY <1>1, ProbeFacts DEF Modes
  <2>3. UseStep(1) \in {"remove", "set"}
    BY PlanFacts DEF UseStep
  <2> HIDE DEF m
  <2>4. mode'[p] = m /\ pc'[p] \in {"remove", "set"} /\ priv'[p] = priv[p] /\ OthersStay(p)
    BY <1>1, <2>1, <2>3 DEF OthersStay
  <2>5. ASSUME NEW q \in Procs PROVE Fresh(q)'
    BY <2>4 DEF Fresh, OthersStay
  <2>6. Lasting'
    <3>1. CASE priv[p]
      <4>1. Sure(p)'
        BY <2>2, <2>4, <3>1, NilAssumption DEF Sure, Tried
      <4> QED BY <1>1, <2>4, <4>1, LastingStep
    <3>2. CASE ~priv[p]
      <4>1. ~Tried(p)' /\ ~Sure(p)
        BY <2>4, <3>2 DEF Tried, Sure
      <4> QED BY <1>1, <2>4, <4>1, LastingStep
    <3> QED BY <3>1, <3>2
  <2>7. OneAtATime'
    <3>1. Active(p) /\ Active(p)' /\ (Calm' => Calm)
      BY <1>1, <2>4 DEF Active, Switching, Calm
    <3>2. Calm => Untouched
      BY <1>1, <3>1, OnlyWrapper DEF InHand
    <3>3. Calm' => InHand(p)'
      BY <1>1, <2>4, <3>1, <3>2 DEF InHand, Untouched
    <3> QED BY <2>4, <3>1, <3>3, OnlyWrapper, WrapperStep
  <2> QED BY <2>5, <2>6, <2>7
<1> QED BY <1>2, <1>3

LEMMA RemoveSwitch ==
  ASSUME IInv, SwitchInv, NEW p \in Procs, Remove(p)
  PROVE  SwitchInv'
<1> USE DEF IInv, TypeOK, SwitchInv
<1>1. /\ UNCHANGED <<priv, mode, step, crashes, raced>>
      /\ pc[p] = "remove" /\ mode[p] \in Modes
      /\ pc' = [pc EXCEPT ![p] = "link"]
      /\ link' = [c \in Commands |-> IF priv[p] /\ c \in Plan[step[p]] THEN "absent" ELSE link[c]]
  BY DEF Remove, Goto, Removed, process, Placed, Switching
<1>2. pc'[p] = "link" /\ OthersStay(p) /\ step[p] \in DOMAIN Plan
  BY <1>1 DEF OthersStay, Placed, Switching
<1>3. ASSUME NEW q \in Procs PROVE Fresh(q)'
  BY <1>1, <1>2 DEF Fresh, OthersStay
<1>4. Lasting'
  <2>1. CASE priv[p]
    <3>1. \A c \in Plan[step'[p]] : link'[c] = "absent"
      BY <1>1, <1>2, <2>1, PlanFacts
    <3>2. Sure(p)'
      BY <1>1, <1>2, <2>1, <3>1, NilAssumption DEF Sure, Tried
    <3> QED BY <1>1, <1>2, <3>2, LastingStep
  <2>2. CASE ~priv[p]
    <3>1. link' = link /\ ~Tried(p)' /\ ~Sure(p)
      BY <1>1, <2>2 DEF Tried, Sure
    <3> QED BY <1>1, <1>2, <3>1, LastingStep
  <2> QED BY <2>1, <2>2
<1>5. OneAtATime'
  <2>1. Active(p) /\ Active(p)' /\ (Calm' => Calm)
    BY <1>1, <1>2 DEF Active, Switching, Calm
  <2>2. Calm => InHand(p)
    BY <2>1, OnlyWrapper
  <2>3. Calm' => InHand(p)'
    <3>1. SUFFICES ASSUME Calm PROVE InHand(p)'
      BY <2>1
    <3>2. CASE priv[p]
      BY <1>1, <1>2, <2>2, <3>1, <3>2 DEF InHand
    <3>3. CASE ~priv[p]
      BY <1>1, <1>2, <2>2, <3>1, <3>3 DEF InHand, Untouched
    <3> QED BY <3>2, <3>3
  <2> QED BY <1>2, <2>1, <2>3, OnlyWrapper, WrapperStep
<1> QED BY <1>3, <1>4, <1>5

\* p points the commands of a step at its mode: with the last one they all are.
LEMMA SwitchesSwitch ==
  ASSUME IInv, IInv', SwitchInv, NEW p \in Procs, NEW S, Switches(p, S), priv[p],
         pc[p] = "link" => \A c \in S : link[c] = "absent"
  PROVE  SwitchInv'
<1> USE DEF IInv, TypeOK, SwitchInv
<1> DEFINE k == step[p]
<1>1. /\ UNCHANGED <<priv, mode, crashes, raced>>
      /\ pc[p] \in {"link", "set"} /\ k \in DOMAIN Plan /\ mode[p] \in Modes /\ S = Plan[k]
      /\ link' = [c \in Commands |-> IF c \in S THEN mode[p] ELSE link[c]]
      /\ step' = [step EXCEPT ![p] = k + 1]
      /\ pc' = [pc EXCEPT ![p] = UseStep(k + 1)]
  BY DEF Switches, Switching, Placed, process
<1>2. /\ pc'[p] = UseStep(k + 1) /\ step'[p] = k + 1
      /\ pc'[p] \in {"exec", "remove", "set"}
      /\ pc'[p] = "exec" => step'[p] = Len(Plan) + 1
      /\ OthersStay(p)
  BY <1>1, AfterStep DEF OthersStay
<1>3. ASSUME NEW q \in Procs PROVE Fresh(q)'
  BY <1>1, <1>2 DEF Fresh, OthersStay
<1>4. Lasting'
  <2>1. Sure(p)'
    BY <1>1, <1>2, NilAssumption DEF Sure, Tried
  <2> QED BY <1>1, <1>2, <2>1, LastingStep
<1>5. OneAtATime'
  <2>1. Active(p) /\ (Calm' => Calm)
    BY <1>1 DEF Active, Switching, Calm
  <2>2. Calm => \A c \in Commands : link'[c] \in {mode[p], "wrapper"}
    <3>1. SUFFICES ASSUME Calm, NEW c \in Commands, c \notin S PROVE link[c] \in {mode[p], "wrapper"}
      BY <1>1
    <3>2. InHand(p)
      BY <2>1, <3>1, OnlyWrapper
    <3> QED BY <1>1, <3>1, <3>2 DEF InHand
  <2>3. Calm' /\ Active(p)' => InHand(p)'
    BY <1>1, <1>2, <2>1, <2>2 DEF InHand
  <2>4. Calm' /\ ~Active(p)' => OneMode'
    <3>1. SUFFICES ASSUME Calm', ~Active(p)' PROVE \A c \in Commands : link'[c] = mode[p]
      BY <1>1 DEF OneMode
    <3>2. step'[p] = Len(Plan) + 1
      BY <1>2, <3>1 DEF Active, Switching
    <3>3. ASSUME NEW c \in Commands PROVE link'[c] # "wrapper"
      <4>1. PICK j \in DOMAIN Plan : c \in Plan[j]
        BY EveryCommandIsSwitched
      <4>2. j < step'[p] /\ Switched(p)'
        BY <3>2, PlanFacts
      <4> QED BY <4>1, <4>2 DEF Switched
    <3> QED BY <2>1, <2>2, <3>1, <3>3
  <2> QED BY <1>2, <2>1, <2>3, <2>4, OnlyWrapper, WrapperStep
<1> QED BY <1>3, <1>4, <1>5

\* A step that fails without a tool failing: p may not change the commands, or
\* lost the link it was about to create.
LEMMA FailsSwitch ==
  ASSUME IInv, SwitchInv, NEW p \in Procs, pc[p] \in {"link", "set"},
         pc' = [pc EXCEPT ![p] = "fallback"],
         pc[p] = "link" => \E c \in Plan[step[p]] : ~priv[p] \/ link[c] # "absent",
         pc[p] = "set" => ToolFails \/ ~priv[p],
         UNCHANGED <<link, step, priv, mode, crashes, raced>>
  PROVE  SwitchInv'
<1> USE DEF IInv, TypeOK, SwitchInv
<1>1. pc'[p] = "fallback" /\ OthersStay(p) /\ step[p] \in DOMAIN Plan
  BY DEF OthersStay, Placed, Switching
<1>2. ASSUME NEW q \in Procs PROVE Fresh(q)'
  BY <1>1 DEF Fresh, OthersStay
<1>3. Lasting'
  <2>1. Tried(p)' => Tried(p)
    BY DEF Tried
  <2>2. ~ToolFails => ~Sure(p)
    BY <1>1, PlanFacts DEF Sure, Tried
  <2> QED BY <1>1, <2>1, <2>2, LastingStep
<1>4. OneAtATime'
  <2>1. Active(p) /\ ~Active(p)' /\ (Calm' => Calm)
    BY <1>1 DEF Active, Switching, Calm
  <2>2. Calm => Untouched
    <3>1. SUFFICES ASSUME Calm PROVE ~priv[p]
      BY <2>1, OnlyWrapper DEF InHand
    <3>2. CASE pc[p] = "link"
      <4>1. PICK c \in Plan[step[p]] : ~priv[p] \/ link[c] # "absent"
        BY <3>2
      <4>2. c \in Commands /\ InHand(p)
        BY <1>1, <2>1, <3>1, PlanFacts, OnlyWrapper
      <4> QED BY <3>2, <4>1, <4>2 DEF InHand
    <3>3. CASE pc[p] = "set"
      BY <3>1, <3>3 DEF Calm
    <3> QED BY <3>2, <3>3
  <2>3. Calm' => Untouched'
    BY <2>1, <2>2 DEF Untouched
  <2> QED BY <1>1, <2>1, <2>3, OnlyWrapper, WrapperStep
<1> QED BY <1>2, <1>3, <1>4

LEMMA LinkSwitch ==
  ASSUME IInv, IInv', SwitchInv, NEW p \in Procs, Link(p)
  PROVE  SwitchInv'
<1>1. PICK c \in Plan[step[p]] :
        IF Created(p, c)
        THEN /\ link' = [link EXCEPT ![c] = mode[p]]
             /\ step' = [step EXCEPT ![p] = step[p] + 1]
             /\ pc' = [pc EXCEPT ![p] = UseStep(step[p] + 1)]
        ELSE /\ pc' = [pc EXCEPT ![p] = "fallback"]
             /\ UNCHANGED <<link, step>>
  BY DEF Link, Goto, AfterError, Target
<1>2. /\ pc[p] = "link" /\ step[p] \in DOMAIN Plan /\ IsSymlink
      /\ UNCHANGED <<hints, process, probe, mode, depth, ran, crashes, raced>>
  BY DEF Link, IInv, Placed, Switching
<1>3. \A e \in Plan[step[p]] : e = c
  BY <1>1, <1>2, PlanFacts
<1>4. CASE Created(p, c)
  <2>1. link' = [e \in Commands |-> IF e \in Plan[step[p]] THEN mode[p] ELSE link[e]]
    BY <1>1, <1>3, <1>4 DEF IInv, TypeOK
  <2>2. PICK S : S = Plan[step[p]]
    OBVIOUS
  <2>3. Switches(p, S)
    BY <1>1, <1>2, <1>4, <2>1, <2>2 DEF Switches
  <2>4. priv[p] /\ \A e \in S : link[e] = "absent"
    BY <1>3, <1>4, <2>2 DEF Created
  <2> QED BY <2>3, <2>4, SwitchesSwitch
<1>5. CASE ~Created(p, c)
  <2>1. \E e \in Plan[step[p]] : ~priv[p] \/ link[e] # "absent"
    BY <1>1, <1>5 DEF Created
  <2> QED BY <1>1, <1>2, <1>5, <2>1, FailsSwitch DEF process
<1> QED BY <1>4, <1>5

LEMMA SetSwitch ==
  ASSUME IInv, IInv', SwitchInv, NEW p \in Procs, NEW works \in BOOLEAN, Set(p, works)
  PROVE  SwitchInv'
<1>1. pc[p] = "set" /\ UNCHANGED <<hints, process, probe, mode, depth, ran, crashes, raced>>
  BY DEF Set
<1>2. CASE works
  <2>1. PICK S : S = Plan[step[p]]
    OBVIOUS
  <2>2. Switches(p, S) /\ priv[p]
    BY <1>1, <1>2, <2>1 DEF Switches, Set, Goto, Target
  <2> QED BY <1>1, <2>2, SwitchesSwitch
<1>3. CASE ~works
  <2>1. pc' = [pc EXCEPT ![p] = "fallback"] /\ UNCHANGED <<link, step>> /\ (ToolFails \/ ~priv[p])
    BY <1>3 DEF Set, Goto, AfterError
  <2> QED BY <1>1, <2>1, FailsSwitch DEF process
<1> QED BY <1>2, <1>3

LEMMA FallbackSwitch ==
  ASSUME IInv, SwitchInv, NEW p \in Procs, Fallback(p)
  PROVE  SwitchInv'
<1> USE DEF IInv, TypeOK, SwitchInv
<1>1. /\ UNCHANGED <<link, priv, mode, step, crashes, raced>>
      /\ pc[p] = "fallback" /\ pc' = [pc EXCEPT ![p] = "ran"]
  BY DEF Fallback, Goto, process
<1>2. pc'[p] = "ran" /\ OthersStay(p)
  BY <1>1 DEF OthersStay
<1>3. ASSUME NEW q \in Procs PROVE Fresh(q)'
  BY <1>1, <1>2 DEF Fresh, OthersStay
<1>4. Lasting'
  <2>1. (Tried(p)' => Tried(p)) /\ (Sure(p) => Sure(p)')
    BY <1>1, <1>2 DEF Tried, Sure
  <2> QED BY <1>1, <1>2, <2>1, LastingStep
<1>5. OneAtATime'
  <2>1. ~Active(p) /\ ~Active(p)' /\ (Calm' => Calm)
    BY <1>1, <1>2 DEF Active, Switching, Calm
  <2> QED BY <1>1, <1>2, <2>1, OutsideStep
<1> QED BY <1>3, <1>4, <1>5

LEMMA KillSwitch ==
  ASSUME IInv, SwitchInv, NEW p \in Procs, Kill(p)
  PROVE  SwitchInv'
<1>1. /\ pc[p] # "idle" /\ UNCHANGED mode
      /\ \E l \in {"killed", "torn"} : pc' = [pc EXCEPT ![p] = l]
      /\ crashes' = crashes + 1
  BY DEF Kill, Goto
<1>2. crashes' # 0
  BY <1>1 DEF IInv, TypeOK
<1>3. ASSUME NEW q \in Procs PROVE Fresh(q)'
  BY <1>1 DEF Fresh, SwitchInv, IInv, TypeOK
<1> QED BY <1>2, <1>3 DEF SwitchInv, Lasting, OneAtATime, Calm

\* Steps that leave the executions and the links alone.
LEMMA ElsewhereSwitch ==
  ASSUME SwitchInv, UNCHANGED <<link, pc, priv, mode, step, crashes, raced>>
  PROVE  SwitchInv'
BY DEF SwitchInv, Fresh, Lasting, Tried, Sure, OneAtATime, Calm, Active, InHand, Untouched, OneMode

LEMMA InitSwitch == Init => SwitchInv
<1> SUFFICES ASSUME Init PROVE SwitchInv
  OBVIOUS
<1>1. \A p \in Procs : pc[p] = "idle" /\ mode[p] = Nil
  BY DEF Init
<1>2. Untouched
  BY DEF Init, Untouched
<1>3. \A p \in Procs : Fresh(p) /\ ~Tried(p) /\ ~Active(p)
  BY <1>1 DEF Fresh, Tried, Active, Switching
<1> QED BY <1>2, <1>3 DEF SwitchInv, Lasting, OneAtATime

LEMMA NextSwitch == IInv /\ IInv' /\ SwitchInv /\ [Next]_vars => SwitchInv'
<1> SUFFICES ASSUME IInv, IInv', SwitchInv, [Next]_vars PROVE SwitchInv'
  OBVIOUS
<1>1. ASSUME NEW p \in Procs, Step(p) PROVE SwitchInv'
  <2>1. CASE BinDir(p)
    BY <2>1, BinDirSwitch
  <2>2. CASE \E readable \in BOOLEAN : Probe(p, readable)
    BY <2>2, ProbeSwitch
  <2>3. CASE Remove(p)
    BY <2>3, RemoveSwitch
  <2>4. CASE Link(p)
    BY <2>4, LinkSwitch
  <2>5. CASE \E works \in BOOLEAN : Set(p, works)
    BY <2>5, SetSwitch
  <2>6. CASE Reexec(p)
    BY <2>6, ReexecSwitch
  <2>7. CASE Fallback(p)
    BY <2>7, FallbackSwitch
  <2> QED BY <1>1, <2>1, <2>2, <2>3, <2>4, <2>5, <2>6, <2>7 DEF Step
<1>2. ASSUME NEW p \in Procs, Kill(p) PROVE SwitchInv'
  BY <1>2, KillSwitch
<1>3. CASE \E p \in Procs, c \in Commands, b \in BOOLEAN : Invoke(p, c, b)
  BY <1>3, InvokeSwitch
<1>4. CASE \E f \in Families : KubeletHint(f)
  BY <1>4, ElsewhereSwitch DEF KubeletHint, process
<1>5. CASE UNCHANGED vars
  BY <1>5, ElsewhereSwitch DEF vars, process
<1> QED BY <1>1, <1>2, <1>3, <1>4, <1>5 DEF Next

LEMMA SwitchInvHolds == Spec => [](IInv /\ SwitchInv)
<1>1. Init => IInv /\ SwitchInv
  BY InitHolds, InitSwitch
<1>2. IInv /\ SwitchInv /\ [Next]_vars => (IInv /\ SwitchInv)'
  BY NextKeeps, NextSwitch
<1> QED BY <1>1, <1>2, PTL DEF Spec

(* Once all is quiet and a privileged execution got as far as switching,     *)
(* every command points at a mode's binary: whoever removed or linked last   *)
(* went on to the end of the plan, and what it switched stays switched.      *)
THEOREM SettledHolds == Spec => []Settled
<1>1. IInv /\ SwitchInv => Settled
  <2> SUFFICES ASSUME IInv, SwitchInv, Quiet, crashes = 0, ~ToolFails, NEW p \in Procs, Tried(p),
                      NEW c \in Commands
               PROVE  link[c] \in Modes
    BY DEF Settled
  <2>1. PICK z \in Procs : Sure(z)
    BY DEF SwitchInv, Lasting
  <2>2. step[z] = Len(Plan) + 1
    BY <2>1 DEF Sure, Quiet, Ended
  <2>3. link[c] # "wrapper"
    <3>1. PICK k \in DOMAIN Plan : c \in Plan[k]
      BY EveryCommandIsSwitched
    <3>2. k < step[z] /\ Switched(z)
      BY <2>2, <3>1, PlanFacts DEF IInv
    <3> QED BY <3>1, <3>2 DEF Switched
  <2>4. link[c] # "absent"
    BY DEF IInv, Missing, Accounted, Owes, InWindow, Quiet, Ended, Placed
  <2> QED BY <2>3, <2>4 DEF IInv, TypeOK, Links
<1> QED BY <1>1, SwitchInvHolds, PTL

(* The commands point at two modes only if two wrappers overlapped, one was  *)
(* killed or a tool failed, however many executions ran one after another    *)
(* and whatever each of them could read of kubelet's chains.                 *)
THEOREM MixedNeedsRaceHolds == Spec => []MixedNeedsRace
<1>1. IInv /\ SwitchInv => MixedNeedsRace
  <2> SUFFICES ASSUME IInv, SwitchInv, Calm, NEW c \in Commands, NEW e \in Commands,
                      link[c] \in Modes, link[e] \in Modes
               PROVE  link[c] = link[e]
    BY DEF MixedNeedsRace, Calm
  <2>1. CASE \E p \in Procs : Active(p)
    <3>1. PICK p \in Procs : Active(p)
      BY <2>1
    <3>2. InHand(p) /\ ~Untouched
      BY <3>1, OnlyWrapper DEF SwitchInv, Untouched, Modes
    <3>3. pc[p] \in Switching /\ priv[p]
      BY <3>1, <3>2 DEF Active, InHand
    <3> QED BY <3>2, <3>3 DEF InHand, Switching, Modes
  <2>2. CASE \A p \in Procs : ~Active(p)
    BY <2>2 DEF SwitchInv, OneAtATime, Untouched, OneMode, Modes
  <2> QED BY <2>1, <2>2
<1> QED BY <1>1, SwitchInvHolds, PTL
=============================================================================
