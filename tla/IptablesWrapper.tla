--------------------------- MODULE IptablesWrapper ---------------------------
(***************************************************************************)
(* The wrapper behind the iptables commands of the base image              *)
(* (eks-distro-base/iptables-wrappers).  The first execution of a command  *)
(* guesses the mode the host uses, nft or legacy, from the chains kubelet  *)
(* leaves in the kernel, points the commands at that mode's binary and     *)
(* executes the command again.  Executions run at any time, concurrently,  *)
(* with or without the privilege to change the commands, and may be killed.*)
(***************************************************************************)
EXTENDS Naturals, Sequences

CONSTANTS
  Procs,       \* executions of iptables commands
  Plan,        \* what UseMode switches, step by step: a sequence of sets of commands
  IsSymlink,   \* symlinkSelector, or else one of the alternatives tools
  ToolFails,   \* may an alternatives tool fail although p is privileged?
  Iptables,    \* the command iptables, by which the binary directory is found
  HostMode,    \* the mode the host's kubelet uses
  MaxCrashes,  \* bound on killed executions
  MaxDepth,    \* bound on an execution executing itself again
  Nil          \* no command, no mode

Commands == UNION {Plan[k] : k \in DOMAIN Plan}
Modes == {"nft", "legacy"}
Families == {"v4", "v6"}
\* DetectMode's four saves, in order.
Probes == <<<<"nft", "v4">>, <<"nft", "v6">>, <<"legacy", "v4">>, <<"legacy", "v6">>>>

ASSUME PlanAssumption ==
  /\ Plan \in Seq(SUBSET Commands) /\ Plan # <<>>
  /\ Iptables \in Commands
  /\ IsSymlink => \A k \in DOMAIN Plan : \E c \in Commands : Plan[k] = {c}
ASSUME HostAssumption ==
  /\ HostMode \in Modes
  /\ IsSymlink \in BOOLEAN /\ ToolFails \in BOOLEAN
  /\ MaxCrashes \in Nat /\ MaxDepth \in Nat
ASSUME NilAssumption == Nil \notin Commands /\ Nil \notin Modes

VARIABLES
  link,    \* link[c]: what command c resolves to: a mode's binary, the wrapper, nothing
  hints,   \* <<mode, family>>: where kubelet's chains are
  pc,      \* pc[p]: where execution p is
  cmd,     \* cmd[p]: the command p was executed as
  priv,    \* priv[p]: may p change the commands?
  probe,   \* probe[p]: the save p does next
  mode,    \* mode[p]: the mode p detected
  step,    \* step[p]: the step of UseMode p is at
  depth,   \* depth[p]: how often p executed the command again
  ran,     \* ran[p]: the mode p's command was carried out in
  crashes, \* executions killed
  raced    \* has a wrapper started while another had not finished switching?

process == <<cmd, priv>>
vars == <<link, hints, pc, process, probe, mode, step, depth, ran, crashes, raced>>

Links == Modes \cup {"wrapper", "absent"}
Switching == {"remove", "link", "set"}
\* An execution killed between removing and re-creating a link is "torn".
Ended == {"ran", "failed", "killed", "torn"}
Active(p) == pc[p] \in {"binDir", "probe"} \cup Switching

\* An execution is about to re-create the link of a command it removed.
InWindow(q) == pc[q] = "link" /\ priv[q]

-----------------------------------------------------------------------------
(* Building blocks *)

Goto(p, label) == pc' = [pc EXCEPT ![p] = label]

\* exec of command c: a mode's binary does what was asked, the wrapper starts.
Execute(p, c) ==
  /\ Goto(p, CASE link[c] = "wrapper" -> "binDir" [] link[c] = "absent" -> "failed" [] OTHER -> "ran")
  /\ ran' = [ran EXCEPT ![p] = IF link[c] \in Modes THEN link[c] ELSE Nil]
  /\ raced' = (raced \/ (link[c] = "wrapper" /\ \E q \in Procs \ {p} : Active(q)))

\* Fault: the last step is left out.
UseStepShort(k) == IF k >= Len(Plan) THEN "exec" ELSE IF IsSymlink THEN "remove" ELSE "set"
\* Where UseMode goes on with step k.
UseStep(k) == IF k > Len(Plan) THEN "exec" ELSE IF IsSymlink THEN "remove" ELSE "set"

\* Fault: an error is reported and the command executed again.
AfterErrorReexec == "exec"
\* Fault: the error ends the execution.
AfterErrorExit == "exited"
\* main: the mode's own binary is executed instead.
AfterError == "fallback"

\* Fault: a failed save is taken for one with the chains.
SeenOrFailed(i, readable) == Probes[i] \in hints \/ ~readable
\* A save that fails has no output.
Seen(i, readable) == Probes[i] \in hints /\ readable

\* Fault: the mode is detected again for every command.
TargetFresh(p) == IF hints = {} THEN "nft" ELSE HostMode
\* The mode a step of UseMode switches to.
Target(p) == mode[p]

\* Fault: all commands are removed before the first is linked.
RemovedFirst(p) == Commands
\* The commands removed by a step of symlinkSelector.
Removed(p) == Plan[step[p]]

\* os.Symlink, which does not replace a file.
Created(p, c) == priv[p] /\ link[c] = "absent"

-----------------------------------------------------------------------------
(* One execution *)

Invoke(p, c, b) ==
  /\ pc[p] = "idle"
  /\ Execute(p, c)
  /\ cmd' = [cmd EXCEPT ![p] = c]
  /\ priv' = [priv EXCEPT ![p] = b]
  /\ UNCHANGED <<link, hints, probe, mode, step, depth, crashes>>

\* DetectBinaryDir: iptables exists and can be executed.
BinDir(p) ==
  /\ pc[p] = "binDir"
  /\ Goto(p, IF link[Iptables] = "absent" THEN "failed" ELSE "probe")
  /\ probe' = [probe EXCEPT ![p] = 1]
  /\ UNCHANGED <<link, hints, process, mode, step, depth, ran, crashes, raced>>

\* One save of DetectMode; errors are ignored, nft is the default.
Probe(p, readable) ==
  /\ pc[p] = "probe"
  /\ LET i == probe[p]
         found == Seen(i, readable)
     IN  IF ~found /\ i < Len(Probes)
         THEN /\ probe' = [probe EXCEPT ![p] = i + 1]
              /\ UNCHANGED <<pc, mode, step>>
         ELSE /\ mode' = [mode EXCEPT ![p] = IF found THEN Probes[i][1] ELSE "nft"]
              /\ step' = [step EXCEPT ![p] = 1]
              /\ Goto(p, UseStep(1))
              /\ UNCHANGED probe
  /\ UNCHANGED <<link, hints, process, depth, ran, crashes, raced>>

\* symlinkSelector: os.RemoveAll, whose error is ignored
Remove(p) ==
  /\ pc[p] = "remove"
  /\ link' = [c \in Commands |-> IF priv[p] /\ c \in Removed(p) THEN "absent" ELSE link[c]]
  /\ Goto(p, "link")
  /\ UNCHANGED <<hints, process, probe, mode, step, depth, ran, crashes, raced>>

\* symlinkSelector: os.Symlink, whose error ends UseMode
Link(p) ==
  /\ pc[p] = "link"
  /\ \E c \in Plan[step[p]] :
       IF Created(p, c)
       THEN /\ link' = [link EXCEPT ![c] = Target(p)]
            /\ step' = [step EXCEPT ![p] = step[p] + 1]
            /\ Goto(p, UseStep(step[p] + 1))
       ELSE /\ Goto(p, AfterError)
            /\ UNCHANGED <<link, step>>
  /\ UNCHANGED <<hints, process, probe, mode, depth, ran, crashes, raced>>

\* alternativesSelector, updateAlternativesSelector: one run of the tool
Set(p, works) ==
  /\ pc[p] = "set"
  /\ works => priv[p]
  /\ ~works => ToolFails \/ ~priv[p]
  /\ IF works
     THEN /\ link' = [c \in Commands |-> IF c \in Plan[step[p]] THEN Target(p) ELSE link[c]]
          /\ step' = [step EXCEPT ![p] = step[p] + 1]
          /\ Goto(p, UseStep(step[p] + 1))
     ELSE /\ Goto(p, AfterError)
          /\ UNCHANGED <<link, step>>
  /\ UNCHANGED <<hints, process, probe, mode, depth, ran, crashes, raced>>

\* main: the same command again
Reexec(p) ==
  /\ pc[p] = "exec"
  /\ depth[p] < MaxDepth
  /\ depth' = [depth EXCEPT ![p] = depth[p] + 1]
  /\ Execute(p, cmd[p])
  /\ UNCHANGED <<link, hints, process, probe, mode, step, crashes>>

\* main: the binary of the detected mode, which does not depend on the links
Fallback(p) ==
  /\ pc[p] = "fallback"
  /\ Goto(p, "ran")
  /\ ran' = [ran EXCEPT ![p] = mode[p]]
  /\ UNCHANGED <<link, hints, process, probe, mode, step, depth, crashes, raced>>

Step(p) == \/ BinDir(p)
           \/ \E readable \in BOOLEAN : Probe(p, readable)
           \/ Remove(p)
           \/ Link(p)
           \/ \E works \in BOOLEAN : Set(p, works)
           \/ Reexec(p)
           \/ Fallback(p)

-----------------------------------------------------------------------------
(* The environment *)

\* kubelet creates its chains, in the mode the host uses.
KubeletHint(f) ==
  /\ <<HostMode, f>> \notin hints
  /\ hints' = hints \cup {<<HostMode, f>>}
  /\ UNCHANGED <<link, pc, process, probe, mode, step, depth, ran, crashes, raced>>

Kill(p) ==
  /\ crashes < MaxCrashes
  /\ pc[p] \notin Ended \cup {"idle"}
  /\ Goto(p, IF InWindow(p) THEN "torn" ELSE "killed")
  /\ crashes' = crashes + 1
  /\ UNCHANGED <<link, hints, process, probe, mode, step, depth, ran, raced>>

Init ==
  /\ link = [c \in Commands |-> "wrapper"]
  /\ hints = {}
  /\ pc = [p \in Procs |-> "idle"]
  /\ cmd = [p \in Procs |-> Nil] /\ priv = [p \in Procs |-> FALSE]
  /\ probe = [p \in Procs |-> 1] /\ mode = [p \in Procs |-> Nil]
  /\ step = [p \in Procs |-> 1] /\ depth = [p \in Procs |-> 0]
  /\ ran = [p \in Procs |-> Nil]
  /\ crashes = 0 /\ raced = FALSE

Next == \/ \E p \in Procs, c \in Commands, b \in BOOLEAN : Invoke(p, c, b)
        \/ \E p \in Procs : Step(p) \/ Kill(p)
        \/ \E f \in Families : KubeletHint(f)

Spec == Init /\ [][Next]_vars

-----------------------------------------------------------------------------
(* Properties *)

TypeOK ==
  /\ link \in [Commands -> Links]
  /\ hints \subseteq {HostMode} \X Families
  /\ pc \in [Procs -> {"idle", "binDir", "probe", "exec", "fallback"} \cup Switching \cup Ended]
  /\ cmd \in [Procs -> Commands \cup {Nil}] /\ priv \in [Procs -> BOOLEAN]
  /\ probe \in [Procs -> DOMAIN Probes]
  /\ mode \in [Procs -> Modes \cup {Nil}]
  /\ step \in [Procs -> 1..(Len(Plan) + 1)]
  /\ depth \in [Procs -> 0..MaxDepth]
  /\ ran \in [Procs -> Modes \cup {Nil}]
  /\ crashes \in 0..MaxCrashes /\ raced \in BOOLEAN

\* q removed command c and has not linked it again, or was killed before it could.
Owes(q, c) == (InWindow(q) \/ pc[q] = "torn") /\ c \in Plan[step[q]]

(* A command fails for want of a binary only while another execution is      *)
(* between removing and re-creating the link of that very command, or after  *)
(* one was killed just there: no interleaving of symlinkSelector's loops,    *)
(* and no kill at another place, leaves a link missing.                      *)
FailsOnlyInWindow ==
  [][\A p \in Procs : pc[p] # "failed" /\ pc'[p] = "failed" =>
       \E q \in Procs \ {p} : Owes(q, IF pc[p] = "binDir" THEN Iptables ELSE cmd'[p])]_vars

(* An execution that switched the commands finds a mode's binary when it     *)
(* executes its command again, never the wrapper: main.go:31 warns of the    *)
(* endless loop this would be.                                               *)
ReexecOnce == \A p \in Procs : depth[p] <= 1 /\ (depth[p] = 1 => pc[p] \in Ended)

Quiet == \A p \in Procs : pc[p] \in Ended \cup {"idle"}
Tried(p) == mode[p] # Nil /\ priv[p]

(* Once all is quiet and some privileged execution has got as far as         *)
(* switching, every command points at a mode's binary: executions that lose  *)
(* a link to another stop early, but never all of them.                      *)
Settled == Quiet /\ crashes = 0 /\ ~ToolFails /\ (\E p \in Procs : Tried(p))
           => \A c \in Commands : link[c] \in Modes

(* The commands point at two modes only if two wrappers overlapped, one was  *)
(* killed or a tool failed: kubelet's chains appearing between two           *)
(* executions, or saves that fail, are not enough.                           *)
MixedNeedsRace ==
  ~raced /\ crashes = 0 /\ ~ToolFails
  => \A c, e \in Commands : link[c] \in Modes /\ link[e] \in Modes => link[c] = link[e]

(* A command is carried out in the wrong mode only if some execution decided *)
(* for that mode: on an nft host this never happens.                         *)
RightMode == HostMode = "nft" => \A p \in Procs : ran[p] \in {"nft", Nil}
=============================================================================
