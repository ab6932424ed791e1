-------------------------- MODULE MCIptablesWrapper --------------------------
(* Instances of IptablesWrapper for TLC. *)
EXTENDS IptablesWrapper, TLC

\* symlinkSelector, two of its six commands
OnePerFamily == <<{"iptables"}, {"ip6tables"}>>
\* updateAlternativesSelector: two records
TwoRecords == <<{"iptables", "iptables-save"}, {"ip6tables"}>>
Symmetry == Permutations(Procs)
=============================================================================
