CONSTANTS
  Jobs <- OneJob
  Dedupe <- NoDedupe
  Keys = {k1}
  Holders = {h1, h2, h3, h4}
  NoHolder = NoHolder
  NoKey = NoKey
  MaxAttempts = 2
  w1 = w1
  w2 = w2
  k1 = k1
  Workers = {w1}
  Looped = {}
  Names <- OneName
  Name <- AllSend
  Handles <- AllHandle
  Cap <- NoCap
  Unparsable = {}
  Rejected = {}
  Concurrency = 1
  Batch = 1
  Bound <- OneFault
SPECIFICATION Spec
SYMMETRY HolderSymmetry
INVARIANTS
  SlotsBoundHandlers
CHECK_DEADLOCK FALSE
