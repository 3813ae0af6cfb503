------------------------------ MODULE MCMarket ------------------------------
(***************************************************************************)
(* What is offered, at which price and on which terms: operations on       *)
(* several slots, holiday calendars, recurring series, browsing, prices,   *)
(* the terms of suppliers, the conduct of buyers, the reputation of        *)
(* suppliers, and the fraud models.  They share no state, so one of them   *)
(* runs at a time while the others stay in their initial state.            *)
(***************************************************************************)
EXTENDS SlotPlanning

CONSTANTS Parts   \* the parts that run

VARIABLES
  part,
  calendars, revisions, req, edits, rolledBack,
  seriesTime, seriesOps, series, occurrences, cleanups, mat, done, answer, context, stored, lastScan, gauges,
  browseTime, browseOps, available, held, changed, cache, request, tracked, sequence, warmup, rows, events,
  facets, shown, past, slots, nextId, list, lister, listing,
  termsTime, registry, current, override, holdFee, intent, agreement, configs, windowHistory,
  changes, plain, agreed, currentAt,
  store, month, accrual, rules, refunded, priceOps, sorted, charged, capped,
  day, standingOps, kyc, boot, counts, transactions, signals, hook, previous, dedup, eval, snapshots, seen,
  firstOfDay, missed, strikes, suspension, config, bar, excused,
  fraudTime, fraudOps, models, snapshot, history, pending, promoting, frozen, requestOf, rollbacks, removed,
  windows, ipIndex, fingerprintIndex, fingerprintUaIndex, booking, challenges, queue, featureStoreLog, calls,
  passed, live, baseline, alarmCache, alarms, ratings

-----------------------------------------------------------------------------
(* Operations on several slots.                                            *)

\* The configuration gives four slots, one with a deadline, and a booking of two
\* legs that is rescheduled while others reserve, also with a leg left out and
\* one with its own offset.
FourStarts == <<1, 2, 3, 3>>
FourEnds == <<2, 3, 5, 4>>
OneProfessional == <<"p", "p", "p", "p">>
Deadlines == <<0, 1, 0, 0>>
FirstSlots == <<1, 2>>
ThreeAnchors == <<1, 2, 3>>
OnePricing == {[gross |-> 110, fee |-> -1, tax |-> -1]}
NoOverride == [offset |-> -1, slot |-> 0, skip |-> FALSE]
MixedOverrides ==
  {<<NoOverride, NoOverride>>, <<[NoOverride EXCEPT !.skip = TRUE], [NoOverride EXCEPT !.offset = 2]>>}
NoOverrides == {<<NoOverride>>}

\* Cancellations are asked for again and meet pauses of the escrow.
PlanningAgain == INSTANCE SlotPlanning WITH
  NSlots <- 2, Legs <- {1}, Overrides <- NoOverrides, MaxTime <- 0, MaxRefunds <- 2,
  MayPause <- TRUE, MayRepeat <- TRUE, AsyncIntents <- FALSE

\* Cancellations of intents that an asynchronous repository keeps.
PlanningUnawaited == INSTANCE SlotPlanning WITH
  NSlots <- 2, Legs <- {1}, Overrides <- NoOverrides, MaxTime <- 1, MaxRefunds <- 2,
  MayPause <- FALSE, MayRepeat <- FALSE, AsyncIntents <- TRUE

-----------------------------------------------------------------------------
(* Holiday calendars.                                                      *)

Imports == {<< >>, <<<<1, 1>>, <<2, 2>>>>, <<<<1, 2>>, <<2, 2>>>>}
Days == {1, 2}
Names == {"n"}
MaxCalendars == 2

\* Requests of every kind, one after the other.
Calendars == INSTANCE HolidayCalendars WITH
  Descriptions <- {"d"}, Requests <- {"r"}, MayOverlap <- FALSE, MaxOps <- 4,
  Ops <- {"create", "update", "add", "deleteEntry", "import", "rollback", "delete"}, ops <- edits

\* Additions and updates that overlap.
CalendarsOverlap == INSTANCE HolidayCalendars WITH
  Descriptions <- {}, Requests <- {"r", "s"}, MayOverlap <- TRUE, MaxOps <- 4,
  Ops <- {"create", "update", "add"}, ops <- edits

-----------------------------------------------------------------------------
(* Recurring series.                                                       *)

Rule(d, s, c, e) == [dtstart |-> d, step |-> s, count |-> c, exdates |-> e]
Holiday(d, r) == [day |-> d, regions |-> r]
SlotRow(n, z, t) == [tenant |-> "t", naive |-> n, zoned |-> z, start |-> t]
AllRules ==
  {Rule(0, 1, 3, {}), Rule(1, 2, 0, {}), Rule(0, 1, 4, {}), Rule(0, 2, 2, {2}), Rule(1, 2, 2, {})}
TwoRules == {Rule(0, 2, 2, {2}), Rule(1, 2, 2, {})}

MAX_OCCURRENCES == 3
MAX_EXDATES == 1
HORIZON == 2
MaxSeries == 2
Blackouts == {{}, {<<1, 2>>}}
Holidays == {{Holiday(0, {"x"})}, {Holiday(0, {"y"}), Holiday(1, {"x", "y"})}}
Regions == {"x", "y"}
Offsets == {-1, 1}
Stores == {"p"}
Intervals == {<<0, 1>>, <<1, 3>>, <<2, 3>>, <<4, 5>>, <<5, 7>>}
Durations == {1, 2}
maxIterations == 3
DefaultSlots == {}
DST == 15
SlotIds == 1..4
SlotRows == {SlotRow(TRUE, FALSE, 0), SlotRow(FALSE, FALSE, 8), SlotRow(FALSE, TRUE, 29)}
scanLimit == 3
pageSize == 2
safetyThreshold == 3
reportMissingMetadata == FALSE

\* Series are edited and cancelled while their occurrences are stored.
Series == INSTANCE Recurrence WITH
  Ops <- {"series"}, MaxOps <- 4, MaxTime <- 2, MayFail <- TRUE, MayOverlap <- TRUE, Rules <- AllRules, Runs <- {1},
  Tenants <- {"t"}, now <- seriesTime, ops <- seriesOps, rows <- occurrences, slots <- stored

\* Two materializations at once.
SeriesOverlap == INSTANCE Recurrence WITH
  Ops <- {"series"}, MaxOps <- 4, MaxTime <- 1, MayFail <- TRUE, MayOverlap <- TRUE, Rules <- TwoRules, Runs <- {1, 2},
  Tenants <- {"t"}, now <- seriesTime, ops <- seriesOps, rows <- occurrences, slots <- stored

\* The impact of holidays and blackouts across time zones.
Zones == INSTANCE Recurrence WITH
  Ops <- {"zones"}, MaxOps <- 2, MaxTime <- 0, MayFail <- FALSE, MayOverlap <- FALSE,
  Rules <- TwoRules, Runs <- {},
  Tenants <- {"t"}, now <- seriesTime, ops <- seriesOps, rows <- occurrences, slots <- stored

\* Previews of conflicts with suggested starts.
Preview == INSTANCE Recurrence WITH
  Ops <- {"preview"}, MaxOps <- 1, MaxTime <- 1, MayFail <- FALSE, MayOverlap <- FALSE, Rules <- AllRules, Runs <- {},
  Tenants <- {"t"}, now <- seriesTime, ops <- seriesOps, rows <- occurrences, slots <- stored

\* Scans of the stored slots for drifting time zones.
Drift == INSTANCE Recurrence WITH
  Ops <- {"drift"}, MaxOps <- 4, MaxTime <- 0, MayFail <- FALSE, MayOverlap <- FALSE, Rules <- AllRules, Runs <- {},
  Tenants <- {"t"}, now <- seriesTime, ops <- seriesOps, rows <- occurrences, slots <- stored

-----------------------------------------------------------------------------
(* Browsing.                                                               *)

Listed(s, r, p, c, n) == [supplier |-> s, rating |-> r, price |-> p, category |-> c, near |-> n]
FiveRows ==
  <<Listed("a", 2, 1, "x", TRUE), Listed("a", 2, 1, "y", TRUE), Listed("a", 1, 2, "x", FALSE),
    Listed("b", 2, 2, "y", TRUE), Listed("a", 2, 2, "x", TRUE)>>
TwoRows == <<Listed("a", 2, 1, "x", TRUE), Listed("a", 2, 1, "y", TRUE)>>
Query(s, p, d, g) == [sortBy |-> s, page |-> p, diversify |-> d, suppress |-> TRUE, geo |-> g]

cap == 1
MAX_GEO_CANDIDATES == 3
MayRerank == FALSE
topN == 2
FacetQueries == {{}, {"x"}}
FRESHNESS_WINDOW == 2
CACHE_TTL == 4
maxEntries == 1
MayCoincide == FALSE
Times == {1, 2}
Transferable == {1, 2}

\* Pages in every order, diversified or not, and a search around a place.
Search == INSTANCE Marketplace WITH
  Ops <- {"search"}, MaxOps <- 4, MaxTime <- 1, Row <- FiveRows, Held0 <- {3}, limit <- 3, MaxTracked <- 1,
  Queries <- {Query(s, 1, d, FALSE) : s \in {"relevance", "rating", "price"}, d \in BOOLEAN}
             \cup {Query("price", 2, FALSE, TRUE), [Query("price", 1, FALSE, FALSE) EXCEPT !.suppress = FALSE],
                   [Query("price", 2, FALSE, TRUE) EXCEPT !.suppress = FALSE]},
  Requests <- {"r"}, MayOverlap <- FALSE, now <- browseTime, ops <- browseOps

\* Changes of the taxonomy warm the cache up while searches run.
Warmup == INSTANCE Marketplace WITH
  Ops <- {"search", "warmup", "changes"}, MaxOps <- 4, MaxTime <- 1, Row <- FiveRows, Held0 <- {3}, limit <- 5,
  MaxTracked <- 3, Queries <- {Query("rating", 1, FALSE, FALSE), Query("price", 1, TRUE, FALSE)},
  Requests <- {"r"}, MayOverlap <- FALSE, now <- browseTime, ops <- browseOps

\* Counts by category while rows are written.
Facets == INSTANCE Marketplace WITH
  Ops <- {"facets"}, MaxOps <- 5, MaxTime <- 4, Row <- TwoRows, Held0 <- {}, limit <- 5, MaxTracked <- 1,
  Queries <- {}, Requests <- {"r"}, MayOverlap <- FALSE, now <- browseTime, ops <- browseOps

\* The list of slots and the listings for resale.
Listings == INSTANCE Marketplace WITH
  Ops <- {"slots", "listings"}, MaxOps <- 5, MaxTime <- 1, Row <- TwoRows, Held0 <- {}, limit <- 5,
  MaxTracked <- 1, Queries <- {}, Requests <- {"r"}, MayOverlap <- FALSE, now <- browseTime, ops <- browseOps

-----------------------------------------------------------------------------
(* The terms of suppliers, and prices.                                     *)

Tier(min, max, ratio, flat, percent) ==
  [minHours |-> min, maxHours |-> max, refundRatio |-> ratio, flatFee |-> flat, percentageFee |-> percent,
   taxReversalRatio |-> 0]

\* Two ways to write a policy, one with a floor and a cap of the refund.
Catalogue ==
  {[tiers |-> <<Tier(0, -1, 90, 10, 0), Tier(24, -1, 100, 0, 2)>>, minRefund |-> 5, maxRefund |-> 100],
   [tiers |-> <<Tier(0, 30, 90, 10, 0), Tier(24, -1, 100, 0, 2)>>, minRefund |-> 0, maxRefund |-> -1]}
HoldFees == {-3, 40}
GraceValues == {0, 1, 86400}
Prices == {0, 1, 99, 250}
Hours == {-1, 0, 11, 12, 23, 24, 71, 72, 167, 168}

At(q, r) == [minQuantity |-> q, rate |-> r]
Curve(tiers, stackable, with, max) ==
  [active |-> TRUE, tiers |-> tiers, stackable |-> stackable, with |-> with, max |-> max]
CurveSet == {"c1", "c2", "c3"}

\* Curves that stack and one out of order, tax rules of two months of which one
\* may not be added, and a payment refunded in parts.
CurveIds == <<"c1", "c2", "c3">>
Curves ==
  {Curve(<<At(1, 10), At(3, 60)>>, TRUE, CurveSet, 1), Curve(<<At(2, 50)>>, TRUE, CurveSet, 2),
   Curve(<<At(3, 5), At(1, 70)>>, FALSE, {}, 1)}
Quantities == {1, 2, 3}
UnitPrice == 15
Amounts == {33, 2000000, 3333333}
TaxRules ==
  {[jurisdiction |-> <<"US">>, from |-> 1, to |-> -1, coefficient |-> 100],
   [jurisdiction |-> <<"US", "CA">>, from |-> 1, to |-> 2, coefficient |-> 50],
   [jurisdiction |-> <<"US", "CA">>, from |-> 2, to |-> 2, coefficient |-> 30]}
Payment ==
  [subtotal |-> 3, lines |-> <<[jurisdiction |-> <<"US", "CA">>, amount |-> 10],
                               [jurisdiction |-> <<"US">>, amount |-> 2]>>]

\* The terms change while the prices stay, and the prices change while no
\* booking is made and the terms stay.
Terms == INSTANCE SupplierTerms WITH
  Categories <- {"a", "b"}, MaxTime <- 3, MaxChanges <- 3, MaxMonth <- 1, MaxOps <- 0,
  now <- termsTime, snapshot <- agreement, history <- windowHistory, ops <- priceOps

Pricing == INSTANCE SupplierTerms WITH
  Categories <- {"a", "b"}, MaxTime <- 1, MaxChanges <- 0, MaxMonth <- 2, MaxOps <- 4,
  now <- termsTime, snapshot <- agreement, history <- windowHistory, ops <- priceOps

-----------------------------------------------------------------------------
(* The conduct of buyers and the reputation of suppliers.                  *)

Scores(a, b, c, d) == [x |-> [total |-> a, score |-> b], y |-> [total |-> c, score |-> d]]
Evaluations == {Scores(5, 933, 4, 1000), Scores(9, 912, 7, 880), Scores(6, 760, 5, 700), Scores(1, 900, 2, 900)}
Weight == [x |-> 30, y |-> 25]
Boundaries ==
  <<[tier |-> "Top Rated", minScore |-> 900], [tier |-> "Standard", minScore |-> 750], [tier |-> "At Risk", minScore |-> 0]>>
minCellSizeThreshold == 5
startingScore == 750
bootstrapWindowDays == 2
scoreDecayStartDay == 1
minGenuineTransactions == 1
maxBootstrapPerIdentity == 1
approachThreshold == 20
Statuses == {"rejected"}
Evaluators == {"e"}
MaxStrikes == 3
DecayWindows == {0, 1, 2}
Thresholds == {0, 1, 3}

\* Strikes against one buyer.
Conduct == INSTANCE Reputation WITH
  Suppliers <- {}, Identity <- << >>, Categories <- {}, Webhooks <- {}, Evaluators <- {}, MayOverlap <- FALSE,
  Ops <- {"conduct"}, MaxOps <- 1, MaxDay <- 1, ops <- standingOps

\* Two suppliers of one identity are verified, rejected and take part.
Bootstrap == INSTANCE Reputation WITH
  Suppliers <- {"s1", "s2"}, Identity <- [s \in {"s1", "s2"} |-> "k"], Categories <- {"x", "y"}, Webhooks <- {"w"},
  MayOverlap <- FALSE, Ops <- {"kyc", "sweep", "transaction"}, MaxOps <- 4, MaxDay <- 3, ops <- standingOps

\* The same while two webhooks overlap.
BootstrapOverlap == INSTANCE Reputation WITH
  Suppliers <- {"s1", "s2"}, Identity <- [s \in {"s1", "s2"} |-> "k"], Categories <- {"x", "y"},
  Webhooks <- {"w", "v"}, MayOverlap <- TRUE, Ops <- {"kyc", "sweep"}, MaxOps <- 4, MaxDay <- 3,
  ops <- standingOps

\* Scores, tiers and alerts of one supplier.
Standing == INSTANCE Reputation WITH
  Suppliers <- {"s1"}, Identity <- [s \in {"s1"} |-> "k"], Categories <- {"x", "y"}, Webhooks <- {"w"},
  MayOverlap <- FALSE, Ops <- {"signals", "evaluate", "snapshot"}, MaxOps <- 5, MaxDay <- 1, ops <- standingOps

-----------------------------------------------------------------------------
(* The fraud models.                                                       *)

Weighted(a, b) == [v \in {1, 2} |-> IF v = 1 THEN a ELSE b]
ModelRequests ==
  {[weights |-> Weighted(3, 7), overrides |-> [t |-> 2]], [weights |-> Weighted(10, 0), overrides |-> [t |-> 2]],
   [weights |-> Weighted(10, 0), overrides |-> << >>], [weights |-> Weighted(11, -1), overrides |-> << >>]}
TwoRequests ==
  {[weights |-> Weighted(3, 7), overrides |-> [t |-> 2]], [weights |-> Weighted(10, 0), overrides |-> << >>]}
Signal(a, ip, h, st, ua, d, b) ==
  [actor |-> a, ip |-> ip, header |-> h, stored |-> st, ua |-> ua, disposable |-> d, body |-> b]
Signals ==
  {Signal("a", 1, 1, 2, 1, FALSE, 1), Signal("b", 1, 3, 0, 2, FALSE, 1), Signal("a", 1, 0, 0, 1, TRUE, 2)}
HashOf == <<1, 2, 1>>
Versions == {1, 2}
BUCKET_SPACE == 10
Bucket == [t |-> 2, u |-> 3]
Admins == {"x", "y"}
ROLLBACK_TTL == 1
MAX_HISTORY == 2
Bookings == {"b", "c"}
WindowMs == 1
MaxIntents == 1
Threshold == 2
StepUpMode == "challenge"
ChallengeTtl == 2
MAX_MODEL_VERSIONS == 1
MinLiveSamples == 1
FlapCooldown == 2
Nodes == {1, 2, 3}
Weights == {3, 5}
maxCycleLength == 2
minCycleWeight == 4
symmetricRatingThreshold == 5

\* Promotions and rollbacks of two models, approved by two administrators.
Models == INSTANCE FraudModels WITH
  Ops <- {"models", "freeze"}, MaxOps <- 6, MaxTime <- 2, Requests <- ModelRequests, Tenants <- {"t", "u"},
  Promotions <- {"p", "q"}, now <- fraudTime, ops <- fraudOps

\* Longer: promotions between the request of a rollback and its approval, and
\* approvals that are repeated.
Rollbacks == INSTANCE FraudModels WITH
  Ops <- {"models"}, MaxOps <- 8, MaxTime <- 0, Requests <- TwoRequests, Tenants <- {"t"},
  Promotions <- {"p"}, now <- fraudTime, ops <- fraudOps

\* Screening of two bookings, with challenges and reviews.
Screening == INSTANCE FraudModels WITH
  Ops <- {"scores"}, MaxOps <- 3, MaxTime <- 2, Requests <- ModelRequests, Tenants <- {"t", "u"},
  Promotions <- {"p", "q"}, now <- fraudTime, ops <- fraudOps

\* Longer: two retries with one challenge, one after the other or overlapping.
Challenges == INSTANCE FraudModels WITH
  Ops <- {"scores"}, MaxOps <- 4, MaxTime <- 1, ChallengeTtl <- 1, Signals <- {s \in Signals : s.actor = "a"},
  Requests <- ModelRequests, Tenants <- {"t", "u"}, Promotions <- {"p", "q"}, now <- fraudTime, ops <- fraudOps

\* Alarms when the scores of a model drift.
ScoreDrift == INSTANCE FraudModels WITH
  Ops <- {"drift"}, MaxOps <- 5, MaxTime <- 2, Requests <- ModelRequests, Tenants <- {"t", "u"},
  Promotions <- {"p", "q"}, now <- fraudTime, ops <- fraudOps

\* Cycles of ratings.
Ratings == INSTANCE FraudModels WITH
  Ops <- {"ratings"}, MaxOps <- 3, MaxTime <- 0, Requests <- ModelRequests, Tenants <- {"t", "u"},
  Promotions <- {"p", "q"}, now <- fraudTime, ops <- fraudOps

-----------------------------------------------------------------------------
holidays == <<calendars, revisions, req, edits, rolledBack>>
recurrence ==
  <<seriesTime, seriesOps, series, occurrences, cleanups, mat, done, answer, context, stored, lastScan, gauges>>
browsing ==
  <<browseTime, browseOps, available, held, changed, cache, request, tracked, sequence, warmup, rows, events,
    facets, shown, past, slots, nextId, list, lister, listing>>
terms ==
  <<termsTime, registry, current, override, holdFee, intent, agreement, configs, windowHistory,
    changes, plain, agreed, currentAt, store, month, accrual, rules, refunded, priceOps, sorted, charged, capped>>
reputation ==
  <<day, standingOps, kyc, boot, counts, transactions, signals, hook, previous, dedup, eval, snapshots, seen,
    firstOfDay, missed, strikes, suspension, config, bar, excused>>
fraud ==
  <<fraudTime, fraudOps, models, snapshot, history, pending, promoting, frozen, requestOf, rollbacks, removed,
    windows, ipIndex, fingerprintIndex, fingerprintUaIndex, booking, challenges, queue, featureStoreLog, calls,
    passed, live, baseline, alarmCache, alarms, ratings>>
all == <<part, vars, holidays, recurrence, browsing, terms, reputation, fraud>>

\* A part that does not run is in one of its initial states.
MCInit ==
  /\ part \in Parts
  /\ IF part \in {"planning again", "planning unawaited"} THEN PlanningAgain!Init ELSE Init
  /\ IF part = "calendars overlap" THEN CalendarsOverlap!Init ELSE Calendars!Init
  /\ CASE part = "series" -> Series!Init
       [] part = "series overlap" -> SeriesOverlap!Init
       [] part = "zones" -> Zones!Init
       [] OTHER -> Drift!Init
  /\ IF part \in {"search", "warmup"} THEN Search!Init ELSE Facets!Init
  /\ Terms!Init /\ (part = "terms" \/ intent = "legacy")
  /\ CASE part = "conduct" -> Conduct!Init
       [] part = "standing" -> Standing!Init
       [] part = "bootstrap overlap" -> BootstrapOverlap!Init
       [] OTHER -> Bootstrap!Init
  /\ IF part = "rollbacks" THEN Rollbacks!Init ELSE Models!Init

PlanningNext ==
  \/ part = "planning" /\ Next
  \/ part = "planning again" /\ PlanningAgain!Next
  \/ part = "planning unawaited" /\ PlanningUnawaited!Next

CalendarsNext ==
  \/ part = "calendars" /\ Calendars!Next
  \/ part = "calendars overlap" /\ CalendarsOverlap!Next

RecurrenceNext ==
  \/ part = "series" /\ (Series!SeriesNext \/ Series!pass)
  \/ part = "series overlap" /\ (SeriesOverlap!SeriesNext \/ SeriesOverlap!pass)
  \/ part = "zones" /\ Zones!ZonesNext
  \/ part = "preview" /\ (Preview!PreviewNext \/ Preview!pass)
  \/ part = "drift" /\ Drift!DriftNext

BrowsingNext ==
  \/ part = "search" /\ Search!Next
  \/ part = "warmup" /\ Warmup!Next
  \/ part = "facets" /\ Facets!Next
  \/ part = "listings" /\ Listings!Next

TermsNext ==
  \/ part = "terms" /\ Terms!Next
  \/ part = "prices" /\ Pricing!Next

ReputationNext ==
  \/ part = "conduct" /\ Conduct!Next
  \/ part = "bootstrap" /\ Bootstrap!Next
  \/ part = "bootstrap overlap" /\ BootstrapOverlap!Next
  \/ part = "standing" /\ Standing!Next

FraudNext ==
  \/ part = "models" /\ Models!Next
  \/ part = "rollbacks" /\ Rollbacks!Next
  \/ part = "screening" /\ Screening!Next
  \/ part = "challenges" /\ Challenges!Next
  \/ part = "score drift" /\ ScoreDrift!Next
  \/ part = "ratings" /\ Ratings!Next

MCNext ==
  \/ PlanningNext
     /\ UNCHANGED <<part, holidays, recurrence, browsing, terms, reputation, fraud>>
  \/ CalendarsNext
     /\ UNCHANGED <<part, vars, recurrence, browsing, terms, reputation, fraud>>
  \/ RecurrenceNext
     /\ UNCHANGED <<part, vars, holidays, browsing, terms, reputation, fraud>>
  \/ BrowsingNext
     /\ UNCHANGED <<part, vars, holidays, recurrence, terms, reputation, fraud>>
  \/ TermsNext
     /\ UNCHANGED <<part, vars, holidays, recurrence, browsing, reputation, fraud>>
  \/ ReputationNext
     /\ UNCHANGED <<part, vars, holidays, recurrence, browsing, terms, fraud>>
  \/ FraudNext
     /\ UNCHANGED <<part, vars, holidays, recurrence, browsing, terms, reputation>>

MCSpec == MCInit /\ [][MCNext]_all

-----------------------------------------------------------------------------
\* Operations on several slots leave every reserved slot with one owner, also
\* when they fail half-way or use an option planned before others reserved; an
\* option just planned can be confirmed.  Refunds stay provable from the hashes
\* of their ledger although cancellations are repeated and settle in any order,
\* and although those of an asynchronous repository refund nothing (the handler
\* does not await findById).
PlanningSound ==
  /\ [](part = "planning" => OneOwnerPerSlot)
  /\ [](part = "planning again" => PlanningAgain!RefundsProvable)
  /\ [](part = "planning unawaited" => PlanningUnawaited!OneOwnerPerSlot /\ PlanningUnawaited!RefundsProvable)
  /\ [][part = "planning" => ConfirmableStep]_all



\* A quote follows the terms of the day the booking was made, cancelling earlier
\* never refunds less, and the registry and the history tell which terms held.
\* Fees stay within their cap, the best discount is taken, and refunds in parts
\* return no more tax than the share of what they refund.
TermsAndPricesSound ==
  /\ part = "terms" => Terms!TermsSound
  /\ part = "prices" => Pricing!PricesSound


\* Traffic follows the promoted weights, the history tells every promotion and a
\* rollback restores what it names; a challenge is used once, velocities and
\* decisions are right, alarms keep their cooldown and cycles are found.
FraudSound ==
  /\ part = "models" => Models!FraudSound
  /\ part = "rollbacks" => Rollbacks!FraudSound
  /\ part = "screening" => Screening!FraudSound
  /\ part = "challenges" => Challenges!FraudSound
  /\ part = "score drift" => ScoreDrift!FraudSound
  /\ part = "ratings" => Ratings!FraudSound
=============================================================================
