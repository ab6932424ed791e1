\* A periodic job that takes the date at each use and a postsubmit that has a tag, while
\* people merge, close and ask for rebuilds.
CONSTANTS
  j1 = j1
  j2 = j2
  base = base
  git = git
  Jobs = {j1, j2}
  Periodic = {j1}
  Dated = {j1}
  Images = {base, git}
  MaxRebuilds = 2
  First = First
  Null = Null
  Nil = Nil
SPECIFICATION Spec
SYMMETRY Symmetry
CHECK_DEADLOCK FALSE
INVARIANTS
  TypeOK
  TagsExist
PROPERTIES
  MergeKeeps
  OverwritesInRace
