\* Serial requests with failing calls, and overlapping ones.
SPECIFICATION MCSpec
CONSTANTS
  s1 = s1
  s2 = s2
  Slots = {s1, s2}
  Requests = {r1, r2, r3, r4}
  Ops <- AllOps
  Types <- BookingTypes
  MaxTime = 1
  StartTime <- MCStartTime
  NoShowGrace = 0
  ValidUntil <- MCValidUntil
  MayOverlap = FALSE
  MayPause = FALSE
  MayFail = TRUE
  Parts = {"serial", "overlap", "recurring"}
SYMMETRY RequestSymmetry
INVARIANTS
  NoDoubleBooking NoLeakedReservation LiveIntentHoldsSlot OverlapIsSafe
PROPERTIES
  KeepsLifecycle
