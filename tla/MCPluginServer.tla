--------------------------- MODULE MCPluginServer ---------------------------
(* Instances of PluginServer for TLC. *)
EXTENDS PluginServer, TLC

CONSTANTS member, stranger, bot, v1209, v1212, v1223, v1301, t6, t7, t07, tBig

MCNumber == [t \in Texts |-> IF t = t6 THEN 6 ELSE IF t = tBig THEN MaxInt + 1 ELSE 7]

\* Two milestones name upstream issue 7, a third names it in two spellings and a
\* fourth a number no int holds.
MCReferences == [v \in Versions |-> CASE v = v1209 -> {t6, t7}
                                      [] v = v1212 -> {t7}
                                      [] v = v1223 -> {t7, t07}
                                      [] OTHER -> {tBig}]

Command(project, org, author, isPR, versions) ==
  [kind |-> "issue_comment", fresh |-> TRUE, isPR |-> isPR, matches |-> TRUE,
   project |-> project, org |-> org, issue |-> 1, author |-> author, versions |-> versions]
Title(author, fresh, isPR, versions) ==
  [kind |-> "issues", fresh |-> fresh, isPR |-> isPR, matches |-> TRUE,
   project |-> "", org |-> "aws", issue |-> 1, author |-> author, versions |-> versions]

Both == <<v1209, v1212>>

\* Backport commands of a member, a stranger and on a PR, an unknown project whose key
\* is the inner key of a "go" request, and the edit of a patch release's title.
BackportEvents ==
  {Command("go", "aws", member, FALSE, Both), Command("go", "aws", member, FALSE, <<v1209>>),
   Command("go", "aws", member, TRUE, Both), Command("go", "aws", bot, FALSE, Both),
   Command("aws", "go", stranger, FALSE, Both), Title(bot, FALSE, FALSE, Both)}

\* Both handlers, for failures and restarts: a request whose keys are another's
\* swapped, an organisation named like the project, a version named twice, a patch
\* release of the bot, an issue with two spellings, and a number no int holds.
FaultEvents ==
  {Command("go", "aws", member, FALSE, <<v1209, v1209>>), Command("aws", "go", member, FALSE, <<v1209>>),
   Command("go", "go", member, FALSE, <<v1209>>),
   Title(bot, TRUE, FALSE, Both), Title(bot, TRUE, FALSE, <<v1223>>),
   Title(bot, TRUE, FALSE, <<v1301>>)}

Symmetry == Permutations(Deliveries)
=============================================================================
