\* Two refused payloads.
CONSTANTS
  Jobs <- TwoJobs
  Dedupe <- NoDedupe
  Keys = {k1}
  Holders = {h1, h2, h3}
  NoHolder = NoHolder
  NoKey = NoKey
  MaxAttempts = 3
  w1 = w1
  w2 = w2
  k1 = k1
  Workers = {w1, w2}
  Looped = {w1, w2}
  Names <- OneName
  Name <- AllSend
  Handles <- FirstHandles
  Cap <- NoCap
  Unparsable = {1}
  Rejected = {2}
  Concurrency = 1
  Batch = 1
  Bound <- ExpiryAndReplay
SPECIFICATION Spec
SYMMETRY HolderSymmetry
PROPERTIES
  ImplementsLifecycle
CHECK_DEADLOCK FALSE
