----------------------------- MODULE MCGoRelease -----------------------------
(* Instances of GoRelease for TLC. *)
EXTENDS GoRelease, TLC

\* Go 1.x.2 was released as release 5.
Released == [rel |-> 5, tag |-> 2, spec |-> 2, readme |-> <<2, 5>>]
\* A minor version that is not there yet.
Fresh == [rel |-> NoRelease, tag |-> Nil, spec |-> Nil, readme |-> Nil]
Both == {Released, Fresh}
OneReleased == {Released}

Ask(cmd, patches, dryrun) == [cmd |-> cmd, patches |-> patches, dryrun |-> dryrun]

\* Two versions, releases of one number, the shared name of update and patch, and a
\* dry run of two versions.
Mixed == {Ask("release", <<2>>, FALSE), Ask("release", <<3>>, FALSE), Ask("update", <<3>>, FALSE),
          Ask("patch", <<3>>, FALSE), Ask("new", <<0>>, FALSE), Ask("update", <<2, 3>>, TRUE)}

\* An update that skips a version, and its release.
Skipping == {Ask("update", <<4>>, FALSE), Ask("release", <<4>>, FALSE)}

Symmetry == Permutations(Runs)
=============================================================================
