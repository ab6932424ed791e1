------------------------------- MODULE Retrier -------------------------------
(***************************************************************************)
(* One execution of Retrier.Retry (pkg/retrier/retrier.go of the Ops       *)
(* tools): a call is repeated until it succeeds, the policy aborts, or the *)
(* timeout is found passed after a sleep.  Time is counted from the start  *)
(* of the execution in units chosen by the instance.                       *)
(***************************************************************************)
EXTENDS Integers, Sequences

CONSTANTS
  Retriers,   \* the Retriers that New and its options make
  NoFactor,   \* the factor without WithBackoffFactor
  Durations,  \* how long a call may take
  Lateness,   \* how much longer than asked time.Sleep may take
  MaxCalls    \* bound on the calls that are modelled

(* The fields of type Retrier.  A factor is a fraction <<num, den>>. *)
RetrierType == [policy : {"zeroWait", "maxRetries"}, maxRetries : Nat, backOffPeriod : Nat,
                factor : {NoFactor} \cup (Nat \X (Nat \ {0})), timeout : Nat]

ASSUME RetriersAssumption == Retriers \subseteq RetrierType
ASSUME NumbersAssumption ==
  Durations \subseteq Nat /\ Lateness \subseteq Nat /\ MaxCalls \in Nat

VARIABLES
  r,        \* the Retrier
  pc,       \* "call", "decide", "sleep", or how the execution ended
  retries,  \* calls made so far
  clock,    \* time since start
  calls     \* the calls made: when each started and ended, and whether it succeeded

vars == <<r, pc, retries, clock, calls>>

CallType == [start : Nat, end : Nat, ok : BOOLEAN]
Ends == {"succeeded", "aborted", "timedOut"}

-----------------------------------------------------------------------------
(* The policy and the wait *)

\* Fault: the maximum counts the calls after the first.
AllowedOneMore(n) == r.policy = "zeroWait" \/ n <= r.maxRetries
\* zeroWaitPolicy, maxRetriesPolicy: is another call allowed after n failures?
Allowed(n) == r.policy = "zeroWait" \/ n < r.maxRetries

\* Fault: the wait does not grow.
FlatWait(n) == IF r.policy = "zeroWait" THEN 0 ELSE r.backOffPeriod
\* wait * time.Duration(factor * retries): the product is cut to a whole number first.
Wait(n) == IF r.policy = "zeroWait" THEN 0
           ELSE IF r.factor = NoFactor THEN r.backOffPeriod
           ELSE r.backOffPeriod * ((r.factor[1] * n) \div r.factor[2])

\* Fault: the time is read before the sleep.
InTimeBeforeSleep(t) == t - Wait(retries) < r.timeout
\* Fault: no timeout.
InTimeAlways(t) == TRUE
InTime(t) == t < r.timeout

Report(ok) == IF ok THEN "succeeded" ELSE "decide"

-----------------------------------------------------------------------------
(* The loop *)

\* Fault: the first call is not counted.
InitUncounted == r \in Retriers /\ pc = "call" /\ retries = -1 /\ clock = 0 /\ calls = <<>>
\* New(timeout, opts...) and the entry of Retry
Init == /\ r \in Retriers
        /\ pc = "call"
        /\ retries = 0
        /\ clock = 0
        /\ calls = <<>>

\* err = fn(); retries += 1; return nil on success
Call(d, ok) ==
  /\ pc = "call"
  /\ Len(calls) < MaxCalls
  /\ clock' = clock + d
  /\ retries' = retries + 1
  /\ calls' = Append(calls, [start |-> clock, end |-> clock + d, ok |-> ok])
  /\ pc' = Report(ok)
  /\ UNCHANGED r

\* retry, wait := r.retryPolicy(retries, err)
Decide ==
  /\ pc = "decide"
  /\ pc' = IF Allowed(retries) THEN "sleep" ELSE "aborted"
  /\ UNCHANGED <<r, retries, clock, calls>>

\* time.Sleep(wait), then the condition of the loop
Sleep(late) ==
  /\ pc = "sleep"
  /\ clock' = clock + Wait(retries) + late
  /\ pc' = IF InTime(clock') THEN "call" ELSE "timedOut"
  /\ UNCHANGED <<r, retries, calls>>

Next == \/ \E d \in Durations, ok \in BOOLEAN : Call(d, ok)
        \/ Decide
        \/ \E late \in Lateness : Sleep(late)

Spec == Init /\ [][Next]_vars
FairSpec == Spec /\ WF_vars(Next)

-----------------------------------------------------------------------------
(* Properties *)

TypeOK == /\ r \in RetrierType
          /\ pc \in Ends \cup {"call", "decide", "sleep"}
          /\ retries \in Nat
          /\ clock \in Nat
          /\ calls \in Seq(CallType)

(* maxRetries bounds the calls, the first one included: the loop makes its   *)
(* first call without asking the policy.                                     *)
CallsBounded ==
  r.policy = "maxRetries" => Len(calls) <= IF r.maxRetries = 0 THEN 1 ELSE r.maxRetries

(* No call but the first starts once the timeout has passed, however long    *)
(* calls and sleeps take: the condition of the loop is read after the sleep. *)
StartsInTime == \A i \in 2..Len(calls) : calls[i].start < r.timeout

(* Calls back off: with a factor of at least one, the n-th failure is        *)
(* followed by at least n periods of silence (one, without a factor), though *)
(* the factor's product is cut to a whole number.  GitHub's secondary rate   *)
(* limit is what the retries wait for.                                       *)
BacksOff ==
  r.policy = "maxRetries" /\ (r.factor = NoFactor \/ r.factor[1] >= r.factor[2])
  => \A i \in 1..(Len(calls) - 1) :
       calls[i + 1].start >= calls[i].end + r.backOffPeriod * (IF r.factor = NoFactor THEN 1 ELSE i)

(* The result is that of the last call: nil is returned exactly when it      *)
(* succeeded, and no call follows one that succeeded.                        *)
LastWord ==
  /\ \A i \in 1..(Len(calls) - 1) : ~calls[i].ok
  /\ pc \in Ends => /\ calls # <<>>
                    /\ (pc = "succeeded") <=> calls[Len(calls)].ok

(* retrier.go:23 on New: "a global timeout (max time allowed for the whole   *)
(* execution)".                                                              *)
WithinTimeout == pc \in Ends => clock <= r.timeout

(* Every execution ends. *)
Terminates == <>(pc \in Ends)
=============================================================================
