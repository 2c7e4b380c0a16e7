CONSTANTS
  Jobs <- ThreeJobs
  Dedupe <- NoDedupe
  Keys = {k1}
  Holders = {h1, h2, h3, h4}
  NoHolder = NoHolder
  NoKey = NoKey
  MaxAttempts = 2
  w1 = w1
  w2 = w2
  k1 = k1
  Workers = {w1}
  Looped = {w1}
  Names <- TwoNames
  Name <- ResizeThenSend
  Handles <- AllHandle
  Cap <- ResizeCapped
  Unparsable = {}
  Rejected = {}
  Concurrency = 2
  Batch = 2
  Bound <- Undisturbed
SPECIFICATION Spec
SYMMETRY HolderSymmetry
PROPERTIES
  CappedNamesHideNoOther
CHECK_DEADLOCK FALSE
