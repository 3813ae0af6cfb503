\* A mediation transcript is stored under a data key that is wrapped for it.
SPECIFICATION Spec
CONSTANTS
  Ops = {"transcripts"}
  MaxOps = 2
  MaxTime = 1
  MayOverlap = FALSE
  MayFail = FALSE
  Segments = {"s"}
  Calls = {1}
  Overrides = {0}
  Jurisdictions = {""}
  RETENTION = 1
  SHORTER = 1
  LONGER = 2
  batchLimit = 1
  Keks = {"k1"}
  Contents = {"a"}
  Binary = {}
  MaxBatch = 2
  budget = 5
  epsilon = 2
  TTL = 1
  Positions = {0}
  SegsPerLog = 4
  LogStride = 4
INVARIANT UnwrapRestores
