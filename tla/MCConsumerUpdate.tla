-------------------------- MODULE MCConsumerUpdate --------------------------
(* Instances of ConsumerUpdate for TLC. *)
EXTENDS ConsumerUpdate, TLC

CONSTANTS x29, x30

\* Two branches with one release each; 1.30's release is published by no run.
Branch == (x29 :> "1.29") @@ (x30 :> "1.30")

At(t) == [p \in Projects |-> t]
Plain(t) == [tag |-> At(t), imageVersion |-> Nil, versionFile |-> TRUE, cdn |-> TRUE,
             lost |-> {}, build |-> 0]
\* Builds of two patches, and one that lacks the source's sums.
SomeCheckouts ==
  {Plain("v1"), Plain("v2"), [Plain("v2") EXCEPT !.lost = {<<"kubernetes", KubernetesSource>>}]}

Ask(x, t) == [release |-> x, patch |-> t]
\* None, one release, a patch that is not its manifest's, both branches, one branch twice,
\* a text that lacks parts after one that has them.
SomeRequests ==
  {<<>>, <<Ask(x29, "v1")>>, <<Ask(x29, "v2"), Ask(x30, "v1")>>, <<Ask(x29, "v1"), Ask(x29, "v2")>>,
   <<Ask(x29, "v1"), Garbled>>}
Old == [p \in Packages |-> [uri |-> <<x29, "v1">>, sum |-> 0]]
=============================================================================
