---------------------------- MODULE MCGithubTools ----------------------------
(* Instances of GithubTools for TLC. *)
EXTENDS GithubTools, TLC

Pr(branch, base, into, path, message, fork) ==
  [cmd |-> "pr", branch |-> branch, base |-> base, into |-> into,
   path |-> path, message |-> message, fork |-> fork]

\* Backports of given and of maintained versions, a toplevel issue, commits to one
\* branch that are asked into two, and a fork's branch as eksGoRelease asks for it.
SomeJobs ==
  {[cmd |-> "backport", versions |-> <<"1.20", "1.21">>], [cmd |-> "backport", versions |-> Nil],
   [cmd |-> "cve"],
   Pr("topic", "main", "main", "go", TRUE, FALSE), Pr("topic", "main", "release", "md", TRUE, FALSE),
   Pr("topic", "main", "main", "go", FALSE, TRUE)}

\* The file ends with a line feed, is empty, or has an empty line.
SomeLists == {<<"1.20", "1.21", "">>, <<"">>, <<"", "1.20">>}

Symmetry == Permutations(Runs)
=============================================================================
