\* The listener in five environments; the Horizon client, escrowed funds and chain readers.
SPECIFICATION MCSpec
CONSTANTS
  Listeners = {"l1"}
  InstanceId <- OwnInstance
  NIntents = 1
  SlotOf <- OneSlot
  InitialStatus <- OneHold
  Logs <- ThreeEvents
  MaxLedger = 3
  FinalityDepth = 1
  PageLimit = 2
  AllowList = {"escrow"}
  MaxFaults = 2
  MayForget = FALSE
  MayBook = FALSE
  Parts = {"single", "crash", "forget", "rebook", "shared",
           "calls", "stream", "pages", "payments", "holds", "quotes", "payouts",
           "milestones", "holdings", "slash", "arbiters", "votes", "treasury"}
INVARIANTS
  ProjectionFollowsChain OnlyFinalOnce HorizonSound FundsSound 
PROPERTIES
  NothingIsUndone
