\* Creations and a confirmation that overlap on one slot.
SPECIFICATION MCSpec
CONSTANTS
  s1 = s1
  s2 = s2
  Slots = {s1}
  Requests = {r1, r2, r3}
  Ops = {"create", "confirm"}
  Types <- BookingTypes
  MaxTime = 0
  StartTime <- MCStartTime
  NoShowGrace = 0
  ValidUntil <- MCValidUntil
  MayOverlap = TRUE
  MayPause = FALSE
  MayFail = FALSE
  Parts = {"serial"}
SYMMETRY RequestSymmetry
INVARIANTS NoDoubleBooking
