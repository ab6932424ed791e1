\* one release is enough: runs share nothing but the registry
CONSTANTS
  Nil = Nil
  Releases = {"1-29-eks-3"}
  Tags = {"v1", "v2"}
  Checkouts <- SomeCheckouts
  Components <- ComponentNames
  Unpushed <- Missing
  Rebuilt <- Moving
  MaxRuns = 2
  MaxPushes = 2
SPECIFICATION SpecManifest
CHECK_DEADLOCK FALSE
INVARIANT PublishedWhole
PROPERTY DigestsFresh
