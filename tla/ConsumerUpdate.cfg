CONSTANTS
  x29 = x29
  x30 = x30
  Nil = Nil
  Releases = {x29, x30}
  Tags = {"v1", "v2"}
  Checkouts <- SomeCheckouts
  Components = {"kubernetes"}
  Unpushed = {}
  Rebuilt = {}
  MaxRuns = 2
  MaxPushes = 0
  Channel <- Branch
  Requests <- SomeRequests
  Shipped <- Old
SPECIFICATION Spec
CHECK_DEADLOCK FALSE
INVARIANTS TypeOK DoneAgree NoPanic
