CONSTANTS
  Runs = {r1, r2}
  Invocations <- Skipping
  Originals <- OneReleased
  Template = 0
  MaxTries = 2
  MaxMerges = 2
  Nil = Nil
SPECIFICATION Spec
CHECK_DEADLOCK FALSE
INVARIANT SpecBuilds
