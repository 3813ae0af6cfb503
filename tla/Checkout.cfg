\* Every operation, interleaved at every await, with calls that throw; holds and subscriptions.
SPECIFICATION MCSpec
CONSTANTS
  Sessions = {"s1", "s2"}
  Requests = {r1, r2, r3, r4}
  r1 = r1
  r2 = r2
  r3 = r3
  r4 = r4
  Ops <- AllOps
  NoRequest = NoRequest
  TTL = 1
  MaxTime = 3
  MayFail = TRUE
  Parts = {"overlap", "in turn", "holds", "holds braked", "subscriptions"}
SYMMETRY RequestSymmetry
INVARIANTS
  SessionsSound SerialCallsSound
PROPERTIES
  OneOutcome SlotsSound
