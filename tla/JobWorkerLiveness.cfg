CONSTANTS
  Jobs <- OneJob
  Dedupe <- NoDedupe
  Keys = {k1}
  Holders = {h1, h2, h3}
  NoHolder = NoHolder
  NoKey = NoKey
  MaxAttempts = 2
  w1 = w1
  w2 = w2
  k1 = k1
  Workers = {w1, w2}
  Looped = {w1, w2}
  Names <- OneName
  Name <- AllSend
  Handles <- FirstHandles
  Cap <- NoCap
  Unparsable = {}
  Rejected = {}
  Concurrency = 1
  Batch = 1
  Bound <- CrashAndDrain
SPECIFICATION FairSpec
PROPERTIES
  EveryJobSettles
CHECK_DEADLOCK FALSE
