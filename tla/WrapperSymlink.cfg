CONSTANTS
  Procs = {p1, p2, p3}
  Plan <- OnePerFamily
  IsSymlink = TRUE
  ToolFails = FALSE
  Iptables = "iptables"
  HostMode = "legacy"
  MaxCrashes = 1
  MaxDepth = 2
  Nil = Nil
SPECIFICATION Spec
SYMMETRY Symmetry
CHECK_DEADLOCK FALSE
INVARIANTS TypeOK Settled MixedNeedsRace
PROPERTY FailsOnlyInWindow
