CONSTANTS
  Runs = {r1, r2}
  Invocations <- Mixed
  Originals <- Both
  Template = 0
  MaxTries = 2
  MaxMerges = 2
  Nil = Nil
SPECIFICATION Spec
SYMMETRY Symmetry
CHECK_DEADLOCK FALSE
INVARIANTS TypeOK OpenedCarriesWork ReadmeFollows
PROPERTIES PushKept ReleaseSteps
