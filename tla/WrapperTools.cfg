CONSTANTS
  Procs = {p1, p2, p3}
  Plan <- TwoRecords
  IsSymlink = FALSE
  ToolFails = TRUE
  Iptables = "iptables"
  HostMode = "nft"
  MaxCrashes = 0
  MaxDepth = 2
  Nil = Nil
SPECIFICATION Spec
SYMMETRY Symmetry
CHECK_DEADLOCK FALSE
INVARIANTS RightMode ReexecOnce
