\* Offers, prices, terms, conduct, reputation and fraud models, with what may go wrong in each.
SPECIFICATION MCSpec
CONSTANTS
  NSlots = 4
  StartOf <- FourStarts
  EndOf <- FourEnds
  Professional <- OneProfessional
  ValidUntil <- Deadlines
  Bundles = {"b1"}
  Legs = {1, 2}
  LegSlot <- FirstSlots
  Overrides <- MixedOverrides
  Anchors <- ThreeAnchors
  maxOptions = 2
  Pricings <- OnePricing
  MaxTime = 1
  MaxRefunds = 1
  MayPause = FALSE
  MayRepeat = FALSE
  AsyncIntents = FALSE
  Parts = {"planning", "planning again", "planning unawaited", "calendars", "calendars overlap",
           "series", "series overlap", "zones", "preview", "drift", "search", "warmup", "facets", "listings",
           "terms", "prices", "conduct", "bootstrap", "bootstrap overlap", "standing",
           "models", "rollbacks", "screening", "challenges", "score drift", "ratings"}
CHECK_DEADLOCK FALSE
INVARIANTS
    TermsAndPricesSound  FraudSound
PROPERTIES
  PlanningSound
