---------------------------- MODULE RetrierProofs ----------------------------
(***************************************************************************)
(* Theorems about Retrier, for every policy, factor, timeout and every     *)
(* duration of calls and sleeps.                                           *)
(***************************************************************************)
EXTENDS Retrier, TLAPS

(* A wait is a number, and with a factor of at least one it is at least one  *)
(* period per failure.                                                       *)
Growth == r.policy = "maxRetries" /\ (r.factor = NoFactor \/ r.factor[1] >= r.factor[2])
Periods(i) == r.backOffPeriod * (IF r.factor = NoFactor THEN 1 ELSE i)

LEMMA CutProduct ==
  ASSUME NEW a \in Nat, NEW b \in Nat \ {0}, NEW n \in Nat
  PROVE  /\ (a * n) \div b \in Nat
         /\ a >= b => (a * n) \div b >= n
<1> DEFINE q == (a * n) \div b
<1>1. a * n \in Nat
  BY SMT
<1>2. q \in Int /\ b * q <= a * n /\ a * n < b * (q + 1)
  <2> DEFINE m == a * n
  <2>1. m \in Nat
    BY <1>1
  <2>2. ASSUME NEW k \in Nat
        PROVE  k \div b \in Int /\ b * (k \div b) <= k /\ k < b * ((k \div b) + 1)
    BY SMT
  <2> QED BY <2>1, <2>2
<1>3. q >= 0
  <2>1. SUFFICES ASSUME q < 0 PROVE FALSE
    BY <1>2
  <2>2. q + 1 <= 0
    BY <1>2, <2>1
  <2>3. b * (q + 1) <= 0
    <3> DEFINE s == q + 1
    <3>1. s \in Int /\ s <= 0
      BY <1>2, <2>2
    <3> HIDE DEF s
    <3>2. b * s <= 0
      BY <3>1, SMT
    <3> QED BY <3>2 DEF s
  <2> QED BY <1>1, <1>2, <2>3, SMT
<1>4. a >= b => q >= n
  <2>1. SUFFICES ASSUME a >= b, q < n PROVE FALSE
    BY <1>2
  <2> DEFINE s == q + 1
  <2>2. s \in Int /\ s <= n
    BY <1>2, <2>1
  <2>3. a * n < b * s
    BY <1>2
  <2> HIDE DEF q, s
  <2>4. b * s <= b * n
    BY <2>2, SMT
  <2>5. b * n <= a * n
    BY <2>1, SMT
  <2>6. b * s \in Int /\ b * n \in Int /\ a * n \in Int
    BY <2>2, SMT
  <2> QED BY <2>3, <2>4, <2>5, <2>6
<1>5. q \in Nat
  BY <1>2, <1>3
<1> QED BY <1>4, <1>5

(* What the type says of the fields. *)
Fields == /\ r.policy \in {"zeroWait", "maxRetries"}
          /\ r.maxRetries \in Nat /\ r.backOffPeriod \in Nat /\ r.timeout \in Nat
          /\ r.factor = NoFactor \/ r.factor \in Nat \X (Nat \ {0})

LEMMA FieldsTyped == r \in RetrierType => Fields
BY DEF RetrierType, Fields

LEMMA WaitGrows ==
  ASSUME r \in RetrierType, NEW n \in Nat, n >= 1
  PROVE  /\ Wait(n) \in Nat
         /\ Growth => Wait(n) >= Periods(n)
<1>0. Fields
  BY FieldsTyped
<1> USE <1>0 DEF Fields
<1>1. CASE r.policy = "zeroWait"
  BY <1>1 DEF Wait, Growth
<1>2. CASE r.policy # "zeroWait" /\ r.factor = NoFactor
  <2>1. Wait(n) = r.backOffPeriod
    BY <1>2 DEF Wait
  <2>2. Periods(n) = r.backOffPeriod
    BY <1>2, <1>0 DEF Periods
  <2> QED BY <2>1, <2>2, <1>0
<1>3. CASE r.policy # "zeroWait" /\ r.factor # NoFactor
  <2>1. r.factor[1] \in Nat /\ r.factor[2] \in Nat \ {0}
    BY <1>3, <1>0
  <2> DEFINE q == (r.factor[1] * n) \div r.factor[2]
  <2>2. q \in Nat /\ (r.factor[1] >= r.factor[2] => q >= n)
    BY <2>1, CutProduct
  <2>3. Wait(n) = r.backOffPeriod * q /\ Periods(n) = r.backOffPeriod * n
    BY <1>3 DEF Wait, Periods
  <2> HIDE DEF q
  <2>4. r.backOffPeriod * q \in Nat
    BY <2>2, <1>0, SMT
  <2>5. q >= n => r.backOffPeriod * q >= r.backOffPeriod * n
    BY <2>2, <1>0, SMT
  <2> QED BY <1>3, <2>2, <2>3, <2>4, <2>5 DEF Growth
<1> QED BY <1>1, <1>2, <1>3

-----------------------------------------------------------------------------
(* What each place of the loop knows about the past. *)

(* The last failure's wait has passed before the next call. *)
Rested == /\ retries = Len(calls)
          /\ pc = "call" /\ retries >= 1 =>
               /\ clock < r.timeout
               /\ clock >= calls[retries].end + Wait(retries)
          /\ pc \in {"decide", "sleep"} => retries >= 1 /\ clock = calls[retries].end

(* The policy has been asked for every call but the first. *)
Permitted == r.policy = "maxRetries" =>
               /\ pc \in {"call", "sleep"} => retries = 0 \/ retries < r.maxRetries
               /\ retries = 0 \/ retries <= (IF r.maxRetries = 0 THEN 1 ELSE r.maxRetries)

(* Every call failed, but the last of an execution that succeeded. *)
Failing == /\ \A i \in 1..(Len(calls) - 1) : ~calls[i].ok
           /\ pc # "call" => calls # <<>>
           /\ calls # <<>> => ((pc = "succeeded") <=> calls[Len(calls)].ok)

IInv == TypeOK /\ Rested /\ Permitted /\ StartsInTime /\ BacksOff /\ Failing

LEMMA InitHolds == Init => IInv
<1> SUFFICES ASSUME Init PROVE IInv
  OBVIOUS
<1>1. TypeOK /\ Len(calls) = 0
  <2>1. r \in RetrierType
    BY RetriersAssumption DEF Init
  <2>2. calls \in Seq(CallType) /\ Len(calls) = 0
    BY DEF Init
  <2> QED BY <2>1, <2>2 DEF Init, TypeOK, Ends
<1>2. Fields
  BY <1>1, FieldsTyped DEF TypeOK
<1> QED BY <1>1, <1>2 DEF Fields, Init, IInv, Rested, Permitted, StartsInTime, BacksOff, Failing

(* A call keeps every part: it is the last of calls. *)
LEMMA CallKeeps ==
  ASSUME IInv, NEW d \in Durations, NEW ok \in BOOLEAN, Call(d, ok)
  PROVE  IInv'
<1> DEFINE n == Len(calls)
           c == [start |-> clock, end |-> clock + d, ok |-> ok]
<1> USE DEF IInv
<1>0. Fields /\ r' = r
  BY FieldsTyped DEF TypeOK, Call
<1>1. d \in Nat /\ c \in CallType /\ n \in Nat
  BY NumbersAssumption DEF TypeOK, CallType
<1>2. /\ calls' = Append(calls, c)
      /\ clock' = clock + d
      /\ retries' = retries + 1
      /\ pc' = IF ok THEN "succeeded" ELSE "decide"
      /\ pc = "call"
  BY DEF Call, Report
<1>3. /\ Len(calls') = n + 1
      /\ calls'[n + 1] = c
      /\ \A i \in 1..n : calls'[i] = calls[i]
      /\ calls' \in Seq(CallType)
  BY <1>1, <1>2 DEF TypeOK
<1>4. retries = n
  BY DEF Rested
<1>5. TypeOK'
  BY <1>0, <1>1, <1>2, <1>3 DEF TypeOK, Ends
<1>6. Rested'
  BY <1>1, <1>2, <1>3, <1>4 DEF Rested
<1>7. Permitted'
  BY <1>0, <1>1, <1>2, <1>4 DEF Permitted, Fields
<1>8. StartsInTime'
  <2> SUFFICES ASSUME NEW i \in 2..(n + 1) PROVE calls'[i].start < r.timeout
    BY <1>0, <1>3 DEF StartsInTime
  <2>1. CASE i \in 2..n
    BY <2>1, <1>1, <1>3 DEF StartsInTime
  <2>2. CASE i = n + 1
    BY <2>2, <1>1, <1>2, <1>3, <1>4 DEF Rested
  <2> QED BY <2>1, <2>2, <1>1
<1>9. BacksOff'
  <2> SUFFICES ASSUME Growth, NEW i \in 1..n
               PROVE  calls'[i + 1].start >= calls'[i].end + Periods(i)
    BY <1>0, <1>1, <1>3 DEF BacksOff, Growth, Periods
  <2>1. CASE i \in 1..(n - 1)
    <3>1. calls[i + 1].start >= calls[i].end + Periods(i)
      BY <2>1 DEF BacksOff, Growth, Periods
    <3>2. calls'[i] = calls[i] /\ calls'[i + 1] = calls[i + 1]
      BY <2>1, <1>1, <1>3
    <3> QED BY <3>1, <3>2
  <2>2. CASE i = n
    <3>1. n >= 1 /\ calls[n] \in CallType
      BY <2>2, <1>1 DEF TypeOK
    <3>2. clock >= calls[n].end + Wait(n)
      BY <3>1, <1>2, <1>4 DEF Rested
    <3>3. Wait(n) \in Nat /\ Wait(n) >= Periods(n)
      BY <3>1, <1>1, WaitGrows DEF TypeOK
    <3>4. Periods(n) \in Nat
      <4>1. r.backOffPeriod \in Nat
        BY <1>0 DEF Fields
      <4>2. r.backOffPeriod * n \in Nat
        BY <4>1, <1>1, SMT
      <4> QED BY <4>1, <4>2 DEF Periods
    <3>5. calls'[n + 1].start = clock /\ calls'[n] = calls[n]
      BY <3>1, <1>1, <1>3
    <3>6. clock \in Nat /\ calls[n].end \in Nat
      BY <3>1 DEF TypeOK, CallType
    <3> HIDE DEF n
    <3>7. clock >= calls[n].end + Periods(n)
      BY <3>2, <3>3, <3>4, <3>6
    <3> QED BY <2>2, <3>5, <3>7
  <2> QED BY <2>1, <2>2, <1>1
<1>10. Failing'
  <2>1. \A i \in 1..n : ~calls[i].ok
    BY <1>1, <1>2 DEF Failing
  <2> QED BY <2>1, <1>1, <1>2, <1>3 DEF Failing
<1> QED BY <1>5, <1>6, <1>7, <1>8, <1>9, <1>10

LEMMA DecideKeeps ==
  ASSUME IInv, Decide
  PROVE  IInv'
<1> USE DEF IInv
<1>1. /\ UNCHANGED <<r, retries, clock, calls>>
      /\ pc = "decide"
      /\ pc' = IF Allowed(retries) THEN "sleep" ELSE "aborted"
  BY DEF Decide
<1>2. TypeOK'
  BY <1>1 DEF TypeOK, Ends
<1>3. Rested'
  BY <1>1 DEF Rested
<1>4. Permitted'
  BY <1>1 DEF Permitted, Allowed
<1>5. StartsInTime' /\ BacksOff'
  BY <1>1 DEF StartsInTime, BacksOff
<1>6. Failing'
  BY <1>1 DEF Failing
<1> QED BY <1>2, <1>3, <1>4, <1>5, <1>6

LEMMA SleepKeeps ==
  ASSUME IInv, NEW late \in Lateness, Sleep(late)
  PROVE  IInv'
<1> USE DEF IInv
<1>1. /\ UNCHANGED <<r, retries, calls>>
      /\ pc = "sleep"
      /\ pc' = (IF clock' < r.timeout THEN "call" ELSE "timedOut")
      /\ clock' = clock + Wait(retries) + late
  BY DEF Sleep, InTime
<1>2. late \in Nat /\ retries \in Nat /\ retries >= 1 /\ clock \in Nat /\ clock = calls[retries].end
  BY <1>1, NumbersAssumption DEF TypeOK, Rested
<1>3. Wait(retries) \in Nat /\ (Wait(retries))' = Wait(retries)
  <2>1. Wait(retries) \in Nat
    BY <1>2, WaitGrows DEF TypeOK
  <2> QED BY <2>1, <1>1 DEF Wait
<1>4. TypeOK'
  BY <1>1, <1>2, <1>3 DEF TypeOK, Ends
<1>5. Rested'
  BY <1>1, <1>2, <1>3 DEF Rested
<1>6. Permitted'
  BY <1>1 DEF Permitted
<1>7. StartsInTime' /\ BacksOff'
  BY <1>1 DEF StartsInTime, BacksOff
<1>8. Failing'
  BY <1>1 DEF Failing
<1> QED BY <1>4, <1>5, <1>6, <1>7, <1>8

THEOREM Inductive == Spec => []IInv
<1>1. Init => IInv
  BY InitHolds
<1>2. IInv /\ [Next]_vars => IInv'
  <2> SUFFICES ASSUME IInv, [Next]_vars PROVE IInv'
    OBVIOUS
  <2>1. CASE \E d \in Durations, ok \in BOOLEAN : Call(d, ok)
    BY <2>1, CallKeeps
  <2>2. CASE Decide
    BY <2>2, DecideKeeps
  <2>3. CASE \E late \in Lateness : Sleep(late)
    BY <2>3, SleepKeeps
  <2>4. CASE UNCHANGED vars
    BY <2>4 DEF IInv, TypeOK, Rested, Permitted, StartsInTime, BacksOff, Failing, Wait, vars
  <2> QED BY <2>1, <2>2, <2>3, <2>4 DEF Next
<1> QED BY <1>1, <1>2, PTL DEF Spec

(* The variables have their types. *)
THEOREM RetrierTypeCorrect == Spec => []TypeOK
<1>1. IInv => TypeOK
  BY DEF IInv
<1> QED BY <1>1, Inductive, PTL

(* Retry never makes more calls than the maximum, whatever the timeout. *)
THEOREM CallsBoundedHolds == Spec => []CallsBounded
<1>1. IInv => CallsBounded
  BY FieldsTyped DEF Fields, TypeOK, IInv, Permitted, Rested, CallsBounded
<1> QED BY <1>1, Inductive, PTL

(* No call but the first starts at or after the timeout. *)
THEOREM StartsInTimeHolds == Spec => []StartsInTime
<1>1. IInv => StartsInTime
  BY DEF IInv
<1> QED BY <1>1, Inductive, PTL

(* Calls back off by at least one period per failure when the factor is at   *)
(* least one, in spite of the cut of the product.                            *)
THEOREM BacksOffHolds == Spec => []BacksOff
<1>1. IInv => BacksOff
  BY DEF IInv
<1> QED BY <1>1, Inductive, PTL

(* The result is that of the last call. *)
THEOREM LastWordHolds == Spec => []LastWord
<1>1. IInv => LastWord
  BY DEF IInv, Failing, LastWord, Ends
<1> QED BY <1>1, Inductive, PTL
=============================================================================
