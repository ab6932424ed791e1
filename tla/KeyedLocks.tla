----------------------------- MODULE KeyedLocks -----------------------------
(***************************************************************************)
(* What the plugin server's locking promises, with the machinery hidden:   *)
(* every request key has one lock, a webhook delivery takes it before it   *)
(* files anything and only the owner of a key files issues under it.  A    *)
(* restart of the process drops every lock and keeps the issues.           *)
(***************************************************************************)
EXTENDS Naturals, Sequences

CONSTANTS Deliveries,  \* webhook deliveries, one goroutine each
          Keys,        \* keys of the lock maps
          Filings,     \* what can be filed: records with a field "by"
          Nobody       \* the owner of a free key

VARIABLES owner,  \* owner[k] is the delivery that holds key k, or Nobody
          log     \* the issues filed, oldest first

vars == <<owner, log>>

Init == /\ owner = [k \in Keys |-> Nobody]
        /\ log = <<>>

\* A delivery takes a free key.
Take(d, k) == /\ owner[k] = Nobody
              /\ owner' = [owner EXCEPT ![k] = d]
              /\ UNCHANGED log

\* A delivery gives back a key it owns.
Give(d, k) == /\ owner[k] = d
              /\ owner' = [owner EXCEPT ![k] = Nobody]
              /\ UNCHANGED log

\* A delivery that owns a key files an issue.
File(d, f) == /\ f.by = d
              /\ \E k \in Keys : owner[k] = d
              /\ log' = Append(log, f)
              /\ UNCHANGED owner

\* The process restarts: locks live in memory, issues live on GitHub.
Restart == /\ owner' = [k \in Keys |-> Nobody]
           /\ UNCHANGED log

Next == \/ \E d \in Deliveries, k \in Keys : Take(d, k) \/ Give(d, k)
        \/ \E d \in Deliveries, f \in Filings : File(d, f)
        \/ Restart

Spec == Init /\ [][Next]_vars
=============================================================================
