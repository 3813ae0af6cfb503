\* A listener dies between claim and projection.
SPECIFICATION MCSpec
CONSTANTS
  Listeners = {"l1"}
  InstanceId <- OwnInstance
  NIntents = 1
  SlotOf <- OneSlot
  InitialStatus <- OneHold
  Logs <- ThreeEvents
  MaxLedger = 3
  FinalityDepth = 1
  PageLimit = 3
  AllowList = {"escrow"}
  MaxFaults = 2
  MayForget = FALSE
  MayBook = FALSE
  Parts = {"single"}
INVARIANTS CursorCoversProjected
