\* Two payments of one session in flight together.
SPECIFICATION MCSpec
CONSTANTS
  Sessions = {"s1", "s2"}
  Requests = {r1, r2, r3, r4}
  r1 = r1
  r2 = r2
  r3 = r3
  r4 = r4
  Ops = {"create", "pay"}
  NoRequest = NoRequest
  TTL = 1
  MaxTime = 3
  MayFail = FALSE
  Parts = {"overlap"}
INVARIANTS ChargedAtMostOnce
