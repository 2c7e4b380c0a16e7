CONSTANTS
  Jobs <- ThreeJobs
  Dedupe <- SendAfterFirst
  Keys = {1}
  Holders = {h1, h2, h3, h4}
  NoHolder = NoHolder
  NoKey = NoKey
  MaxAttempts = 1
  w1 = w1
  w2 = w2
  k1 = k1
  Workers = {w1}
  Looped = {}
  Names <- TwoNames
  Name <- ResizeThenSend
  Handles <- AllHandle
  Cap <- ResizeCapped
  Unparsable = {}
  Rejected = {}
  Concurrency = 2
  Batch = 4
  Bound <- EarlyDrain
SPECIFICATION DrainSpec
INVARIANTS
  SlotsBoundHandlers
  CapsBoundHandlers
  ShutdownGivesRowsBack
PROPERTIES
  NoStartAfterShutdown
  ShutdownResolves
CHECK_DEADLOCK FALSE
