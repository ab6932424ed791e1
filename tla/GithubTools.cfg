CONSTANTS
  Runs = {r1, r2}
  Jobs <- SomeJobs
  Titles = {"", "1.20", "1.21", "toplevel"}
  Lists <- SomeLists
  Branches = {"main", "release", "topic"}
  Paths = {"go", "md"}
  MaxTries = 2
  MaxEvents = 2
  Nil = Nil
SPECIFICATION Spec
SYMMETRY Symmetry
CHECK_DEADLOCK FALSE
INVARIANTS TypeOK FiledInOrder NothingTakenBack Landed NamedWhenListed
