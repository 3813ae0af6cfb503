----------------------------- MODULE Reputation -----------------------------
(***************************************************************************)
(* Reputation of suppliers: the starting score granted when their identity *)
(* is verified, the projected score and tier, daily snapshots, and the     *)
(* alerts about tiers that are lost or near.                               *)
(*                                                                         *)
(* Conduct of a buyer: the verdict on two signals of a no-show, the strike *)
(* it leads to, the suspension at a threshold, and the ways out of it:     *)
(* decay, appeal, arbitration and reinstatement.                           *)
(*                                                                         *)
(* Scores are counted in tenths, weights in hundredths, time in days.      *)
(* A webhook stops at its two queries, an evaluation at the dispatch of    *)
(* its alerts.  The bodies under the lock of the buyer await nothing, and  *)
(* the audit records are not awaited, so every operation on strikes is one *)
(* step.  Decay is lazy: a strike past its time stays active in the store  *)
(* until it is read.                                                       *)
(***************************************************************************)
EXTENDS Integers, Sequences, FiniteSets, FiniteSetsExt

CONSTANTS
  Suppliers, Identity,          \* Identity[s]: email and reference, as one key
  Categories, Weight,           \* the signal categories and their weights
  minCellSizeThreshold,
  Evaluations,                  \* category -> [total, score]
  startingScore, bootstrapWindowDays, scoreDecayStartDay, minGenuineTransactions, maxBootstrapPerIdentity,
  Boundaries,                   \* TIER_BOUNDARIES: sequence of [tier, minScore]
  approachThreshold,
  Statuses,                     \* identity statuses besides "verified"
  Webhooks, Evaluators,         \* requests and evaluations in flight
  MayOverlap,                   \* they run concurrently
  MaxStrikes,                   \* bound
  DecayWindows,                 \* values of decayWindowMs: days for which a strike counts
  Thresholds,                   \* values of maxStrikesThreshold an operator may ask for
  Ops, MaxOps, MaxDay

Idle == [pc |-> "idle"]
NoBoot == [granted |-> FALSE, at |-> 0, consumed |-> FALSE]
NoScore == -1

VARIABLES
  day, ops,
  kyc,          \* kyc_status of each supplier
  boot,         \* bootstraps
  counts,       \* identityCounts
  transactions, \* days of completed transactions, by supplier
  signals,      \* raw evaluations
  hook,         \* webhooks in flight
  previous,     \* previousScores
  dedup,        \* dedup cache: supplier, type, boundary, day
  eval,         \* evaluations in flight
  snapshots,    \* supplier and day -> score, or NoScore
  seen,         \* history variable: tier shown at the last evaluation
  firstOfDay,   \* history variable: the score of the day's first job
  missed,       \* history variable: a tier was lost and nobody told
  strikes,      \* of the buyer, in order of issue
  suspension,   \* suspended or not, and the active strikes when it was imposed
  config,       \* of the strikes: threshold, decay window and automatic suspension
  bar,          \* history variable: lowest threshold since the suspension
  excused       \* history variable: an operator intervened since the last strike

supplierVars == <<kyc, boot, counts, transactions, signals, hook, previous, dedup, eval, snapshots, seen, firstOfDay, missed>>
buyerVars == <<strikes, suspension, config, bar, excused>>
vars == <<day, ops, supplierVars, buyerVars>>

bootVars == <<kyc, boot, counts, transactions, hook>>
alertVars == <<previous, dedup, eval, seen, missed>>
snapVars == <<snapshots, firstOfDay>>

Keys == {Identity[s] : s \in Suppliers}
Days == 0..MaxDay

\* The shipped threshold and decay window, scaled down.
DEFAULT_STRIKE_CONFIG == [threshold |-> 2, decay |-> 1, auto |-> TRUE]

Init ==
  /\ day = 0 /\ ops = 0
  /\ kyc = [s \in Suppliers |-> "pending"]
  /\ boot = [s \in Suppliers |-> NoBoot] /\ counts = [k \in Keys |-> 0]
  /\ transactions = [s \in Suppliers |-> << >>]
  /\ signals = [s \in Suppliers |-> [c \in Categories |-> [total |-> 0, score |-> 0]]]
  /\ hook = [w \in Webhooks |-> Idle]
  /\ previous = [s \in Suppliers |-> NoScore] /\ dedup = {} /\ eval = [e \in Evaluators |-> Idle]
  /\ snapshots = [s \in Suppliers |-> [d \in Days |-> NoScore]]
  /\ seen = [s \in Suppliers |-> "New Supplier"] /\ firstOfDay = snapshots /\ missed = FALSE
  /\ strikes = << >> /\ suspension = [isSuspended |-> FALSE, at |-> 0]
  /\ config = DEFAULT_STRIKE_CONFIG /\ bar = 0 /\ excused = FALSE

Quiet == MayOverlap \/ ((\A w \in Webhooks : hook[w] = Idle) /\ (\A e \in Evaluators : eval[e] = Idle))

Op(o) == o \in Ops /\ ops < MaxOps /\ ops' = ops + 1

-----------------------------------------------------------------------------

canGrant(s, status) ==
  /\ ~boot[s].granted
  /\ status = "verified"
  /\ counts[Identity[s]] < maxBootstrapPerIdentity

grant(s, status) ==
  IF canGrant(s, status)
  THEN /\ boot' = [boot EXCEPT ![s] = [granted |-> TRUE, at |-> day, consumed |-> FALSE]]
       /\ counts' = [counts EXCEPT ![Identity[s]] = @ + 1]
  ELSE UNCHANGED <<boot, counts>>

revoke(s) ==
  IF boot[s].granted
  THEN /\ boot' = [boot EXCEPT ![s] = NoBoot]
       /\ counts' = [counts EXCEPT ![Identity[s]] = IF @ > 0 THEN @ - 1 ELSE @]
  ELSE UNCHANGED <<boot, counts>>

expiresAt(s) == boot[s].at + bootstrapWindowDays

Lapsed(s) == boot[s].granted /\ ~boot[s].consumed /\ day > expiresAt(s)

tickSweep ==
  LET gone == {s \in Suppliers : Lapsed(s)} IN
  /\ Op("sweep") /\ gone # {}
  /\ boot' = [s \in Suppliers |-> IF s \in gone THEN NoBoot ELSE boot[s]]
  /\ counts' = [k \in Keys |-> counts[k] - Cardinality({s \in gone : Identity[s] = k})]
  /\ UNCHANGED <<day, kyc, transactions, hook, signals>> /\ UNCHANGED alertVars /\ UNCHANGED snapVars

countGenuineTransactions(txs, before) == Cardinality({i \in DOMAIN txs : txs[i] <= before})

\* A completed transaction that was created on day d.
recordTransaction(s, d) ==
  LET txs == Append(transactions[s], d) IN
  /\ Op("transaction")
  /\ transactions' = [transactions EXCEPT ![s] = txs]
  /\ boot' = IF boot[s].granted /\ ~boot[s].consumed /\ countGenuineTransactions(txs, d) >= minGenuineTransactions
             THEN [boot EXCEPT ![s].consumed = TRUE]
             ELSE boot
  /\ UNCHANGED <<day, kyc, counts, hook, signals>> /\ UNCHANGED alertVars /\ UNCHANGED snapVars

-----------------------------------------------------------------------------
\* processWebhook: the supplier is read, ...
getSupplierKyc(w, s, status) ==
  /\ Op("kyc") /\ Quiet /\ hook[w] = Idle
  /\ hook' = [hook EXCEPT ![w] = [pc |-> "update", s |-> s, status |-> status, prev |-> kyc[s]]]
  /\ UNCHANGED <<day, kyc, boot, counts, transactions, signals>> /\ UNCHANGED alertVars /\ UNCHANGED snapVars

\* ... the row is updated, ...
updateKycStatus(w) ==
  /\ hook[w].pc = "update"
  /\ kyc' = [kyc EXCEPT ![hook[w].s] = hook[w].status]
  /\ hook' = [hook EXCEPT ![w].pc = "grant"]
  /\ UNCHANGED <<day, ops, boot, counts, transactions, signals>> /\ UNCHANGED alertVars /\ UNCHANGED snapVars

\* ... and the bootstrap follows the change from the status that was read.
processWebhook(w) ==
  /\ hook[w].pc = "grant"
  /\ IF hook[w].status = "verified" /\ hook[w].prev # "verified"
     THEN grant(hook[w].s, hook[w].status)
     ELSE IF hook[w].prev = "verified" /\ hook[w].status # "verified"
          THEN revoke(hook[w].s) ELSE UNCHANGED <<boot, counts>>
  /\ hook' = [hook EXCEPT ![w] = Idle]
  /\ UNCHANGED <<day, ops, kyc, transactions, signals>> /\ UNCHANGED alertVars /\ UNCHANGED snapVars

\* POST /api/v1/webhooks/kyc, with a status the provider's parser accepts
handleKycWebhook(w) == \E s \in Suppliers, st \in Statuses \cup {"verified"} : getSupplierKyc(w, s, st)

-----------------------------------------------------------------------------
\* Math.round of n / d.
Rounded(n, d) == (2 * n + d) \div (2 * d)

\* The score that an unconsumed bootstrap is worth after so many days.
Decayed(elapsed) ==
  IF elapsed > scoreDecayStartDay
  THEN LET window == bootstrapWindowDays - scoreDecayStartDay
           gone   == Min({window, elapsed - scoreDecayStartDay})
       IN  Rounded(startingScore * (window - gone), Max({1, window}))
  ELSE startingScore

evaluate(s) ==
  IF ~boot[s].granted \/ Lapsed(s) THEN [active |-> FALSE, scoreContribution |-> 0]
  ELSE [active |-> TRUE,
        scoreContribution |-> IF boot[s].consumed THEN startingScore ELSE Decayed(day - boot[s].at)]

Suppressed(s, c) == signals[s][c].total < minCellSizeThreshold
Shown(s) == {c \in Categories : ~Suppressed(s, c)}
allCategoriesSuppressed(s) == Shown(s) = {}

contribution(s, c) == Rounded(Weight[c] * signals[s][c].score, 100)

baseScore(s) ==
  LET sum    == MapThenSumSet(LAMBDA c : contribution(s, c), Shown(s))
      weight == MapThenSumSet(LAMBDA c : Weight[c], Shown(s))
  IN  Rounded(sum * 100, weight)

overallScore(s) ==
  IF ~allCategoriesSuppressed(s) THEN baseScore(s)
  ELSE IF evaluate(s).active THEN evaluate(s).scoreContribution ELSE 700

determineRatingTier(score, allSuppressed) ==
  IF allSuppressed THEN "New Supplier"
  ELSE IF score >= 900 THEN "Top Rated" ELSE IF score >= 750 THEN "Standard" ELSE "At Risk"

\* The tier GET /:supplierId/reputation/signals shows.
overallRatingTier(s) == determineRatingTier(overallScore(s), allCategoriesSuppressed(s) /\ ~evaluate(s).active)

setSupplierEvaluations(s, ev) ==
  /\ Op("signals") /\ signals[s] # ev
  /\ signals' = [signals EXCEPT ![s] = ev]
  /\ UNCHANGED <<day>> /\ UNCHANGED bootVars /\ UNCHANGED alertVars /\ UNCHANGED snapVars

-----------------------------------------------------------------------------
\* runSnapshotJob with the suppliers' current scores; a row of the day stays.
\* POST /api/v1/admin/reputation/snapshots/run
runSnapshotJob(S, d) ==
  /\ Op("snapshot") /\ d <= day
  /\ snapshots' = [s \in Suppliers |->
       IF s \in S /\ snapshots[s][d] = NoScore THEN [snapshots[s] EXCEPT ![d] = overallScore(s)] ELSE snapshots[s]]
  /\ firstOfDay' = [s \in Suppliers |->
       IF s \in S /\ firstOfDay[s][d] = NoScore THEN [firstOfDay[s] EXCEPT ![d] = overallScore(s)] ELSE firstOfDay[s]]
  /\ UNCHANGED <<day, signals>> /\ UNCHANGED bootVars /\ UNCHANGED alertVars

-----------------------------------------------------------------------------
resolveTier(score, allSuppressed) ==
  IF allSuppressed THEN "New Supplier"
  ELSE LET met == {i \in DOMAIN Boundaries : score >= Boundaries[i].minScore}
       IN  IF met = {} THEN "At Risk" ELSE Boundaries[Min(met)].tier

findBoundaryScore(tier) ==
  LET found == {i \in DOMAIN Boundaries : Boundaries[i].tier = tier}
  IN  IF found = {} THEN 0 ELSE Boundaries[Min(found)].minScore

Abs(x) == IF x < 0 THEN -x ELSE x

\* The alerts that an evaluation asks for.
WantedAlerts(s, prev, current) ==
  LET all == allCategoriesSuppressed(s)
      before == resolveTier(prev, all)
      after == resolveTier(current, all)
  IN  (IF before # after /\ prev > current THEN {<<s, "demotion", findBoundaryScore(after), day>>} ELSE {})
      \cup {<<s, "approach", Boundaries[i].minScore, day>> :
              i \in {j \in DOMAIN Boundaries : Boundaries[j].tier # "At Risk" /\ Abs(current - Boundaries[j].minScore) <= approachThreshold}}

\* createAlert drops what the cache already holds for the day.
createAlert(wanted) == wanted \ dedup

TierRank(t) == CASE t = "Top Rated" -> 3 [] t = "Standard" -> 2 [] t = "At Risk" -> 1 [] OTHER -> 0

Dropped(old, new) == TierRank(new) > 0 /\ TierRank(old) > TierRank(new)

\* Up to the first dispatch; without alerts there is none.
evaluateSupplier(e, s) ==
  LET current == overallScore(s)
      prev    == IF previous[s] = NoScore THEN current ELSE previous[s]
      alerts  == createAlert(WantedAlerts(s, prev, current))
      tier    == IF allCategoriesSuppressed(s) THEN "New Supplier" ELSE overallRatingTier(s)
  IN
  /\ Op("evaluate") /\ Quiet /\ eval[e] = Idle
  /\ dedup' = dedup \cup alerts
  /\ IF alerts = {}
     THEN previous' = [previous EXCEPT ![s] = current] /\ UNCHANGED eval
     ELSE eval' = [eval EXCEPT ![e] = [pc |-> "dispatch", s |-> s, current |-> current]] /\ UNCHANGED previous
  /\ seen' = [seen EXCEPT ![s] = tier]
  /\ missed' = (missed \/ (Dropped(seen[s], tier) /\ ~\E a \in dedup' : a[1] = s /\ a[2] = "demotion" /\ a[4] = day))
  /\ UNCHANGED <<day, signals>> /\ UNCHANGED bootVars /\ UNCHANGED snapVars

\* Dispatch errors are swallowed; then the score is remembered.
dispatchNotification(e) ==
  /\ eval[e] # Idle
  /\ previous' = [previous EXCEPT ![eval[e].s] = eval[e].current]
  /\ eval' = [eval EXCEPT ![e] = Idle]
  /\ UNCHANGED <<day, ops, signals, dedup, seen, missed>> /\ UNCHANGED bootVars /\ UNCHANGED snapVars

-----------------------------------------------------------------------------
(* The conduct of a buyer.                                                 *)

\* The signals: what the check-in shows and what the supplier says.
Gps == {"none", "no_location", "untrusted", "within", "outside"}
Supplier == {"none", "present", "absent"}

gpsIndicatesAbsence(g) == g = "outside"

gpsUnusable(g) == g \in {"no_location", "untrusted"}

\* NoShowDetector.evaluate.
evaluateNoShow(g, s) ==
  LET noShow == gpsIndicatesAbsence(g) /\ s = "absent"
      insufficient ==
        /\ ~noShow
        /\ \/ g = "none" /\ s = "absent"
           \/ gpsUnusable(g) /\ s = "absent"
           \/ gpsIndicatesAbsence(g) /\ s = "none"
           \/ g = "none" /\ s = "none"
           \/ gpsUnusable(g) /\ s = "none"
  IN CASE noShow -> "no_show" [] insufficient -> "insufficient" [] OTHER -> "attended"

-----------------------------------------------------------------------------
\* evaluateDecayForBuyer, which every reading of the strikes runs first.
decayed(list) ==
  [i \in DOMAIN list |->
    IF list[i].status = "active" /\ list[i].expiresAt <= day
      THEN [list[i] EXCEPT !.status = "decayed"] ELSE list[i]]

\* getActiveStrikesInternal after the decay.
ActiveStrikes(list) ==
  Cardinality({i \in DOMAIN list : list[i].status = "active" /\ list[i].expiresAt > day})

issueStrike ==
  LET new == [status |-> "active", expiresAt |-> day + config.decay, escalated |-> FALSE,
              decision |-> "none"]
      list == decayed(Append(strikes, new))
      n == ActiveStrikes(list)
      suspends == config.auto /\ n >= config.threshold /\ ~suspension.isSuspended
  IN
  /\ Len(strikes) < MaxStrikes
  /\ strikes' = list
  /\ suspension' = IF suspends THEN [isSuspended |-> TRUE, at |-> n] ELSE suspension
  /\ bar' = IF suspends THEN config.threshold ELSE bar
  /\ excused' = FALSE
  /\ UNCHANGED config

\* A no-show verdict leads to a strike, any other verdict to none.
reportNoShow(g, s) == evaluateNoShow(g, s) = "no_show" /\ issueStrike

\* The administrator's route issues one without a verdict.
postStrike == issueStrike

\* getBuyerStrikes and getBuyerSuspensionStatus: a read that stores the decay.
getBuyerStrikes ==
  /\ strikes' = decayed(strikes)
  /\ UNCHANGED <<suspension, config, bar, excused>>

liftedByAppeal(n) == suspension.isSuspended /\ n < config.threshold

\* The status is checked before the decay, so a strike that nobody has read
\* since it expired can be appealed.
appealStrike(i) ==
  LET list == decayed([strikes EXCEPT ![i].status = "appealed"]) IN
  /\ strikes[i].status = "active"
  /\ strikes' = list
  /\ suspension' = IF liftedByAppeal(ActiveStrikes(list))
                   THEN [suspension EXCEPT !.isSuspended = FALSE] ELSE suspension
  /\ UNCHANGED <<config, bar, excused>>

escalateToArbitration(i) ==
  /\ strikes[i].status = "appealed" /\ ~strikes[i].escalated
  /\ strikes' = [strikes EXCEPT ![i].escalated = TRUE]
  /\ UNCHANGED <<suspension, config, bar, excused>>

\* The decision is recorded; overturning lifts a suspension, whatever the
\* other strikes are.  The strike keeps its status either way.
decideArbitration(i, decision) ==
  LET lifts == decision = "OVERTURNED" /\ suspension.isSuspended IN
  /\ strikes[i].escalated /\ strikes[i].decision = "none"
  /\ strikes' = [strikes EXCEPT ![i].decision = decision]
  /\ suspension' = IF lifts THEN [suspension EXCEPT !.isSuspended = FALSE] ELSE suspension
  /\ excused' = (excused \/ lifts)
  /\ UNCHANGED <<config, bar>>

reinstateBuyer(clearActiveStrikes) ==
  /\ strikes' = [i \in DOMAIN strikes |->
                  IF clearActiveStrikes /\ strikes[i].status = "active"
                    THEN [strikes[i] EXCEPT !.status = "rescinded"] ELSE strikes[i]]
  /\ suspension' = [isSuspended |-> FALSE, at |-> 0]
  /\ excused' = TRUE
  /\ UNCHANGED <<config, bar>>

\* Neither a suspension nor a strike's expiry is looked at again.
updateConfig(new) ==
  /\ new.threshold > 0 /\ new.decay > 0
  /\ config' = new
  /\ bar' = Min({bar, new.threshold})
  /\ excused' = TRUE
  /\ UNCHANGED <<strikes, suspension>>

\* The administrator's routes; the body is checked, then the service called.
getStrikesRoute == getBuyerStrikes
postAppeal(i) == appealStrike(i)
postEscalate(i) == escalateToArbitration(i)
postDecide(i, decision) == decision \in {"UPHELD", "OVERTURNED"} /\ decideArbitration(i, decision)
postReinstate(clearActiveStrikes) == reinstateBuyer(clearActiveStrikes)
putConfig(new) == Op("conduct") /\ updateConfig(new)

-----------------------------------------------------------------------------
Tick ==
  /\ day < MaxDay /\ day' = day + 1
  /\ UNCHANGED <<ops, supplierVars, buyerVars>>

Rest == UNCHANGED vars

SupplierNext ==
  \/ \E w \in Webhooks : handleKycWebhook(w) \/ updateKycStatus(w) \/ processWebhook(w)
  \/ tickSweep
  \/ \E s \in Suppliers, d \in Days : d <= day /\ recordTransaction(s, d)
  \/ \E s \in Suppliers, ev \in Evaluations : setSupplierEvaluations(s, ev)
  \/ \E S \in SUBSET Suppliers, d \in Days : S # {} /\ runSnapshotJob(S, d)
  \/ \E e \in Evaluators : dispatchNotification(e) \/ \E s \in Suppliers : evaluateSupplier(e, s)

BuyerNext ==
  \/ \E g \in Gps, s \in Supplier : reportNoShow(g, s)
  \/ postStrike \/ getStrikesRoute
  \/ \E i \in DOMAIN strikes : postAppeal(i) \/ postEscalate(i)
  \/ \E i \in DOMAIN strikes, d \in {"UPHELD", "OVERTURNED"} : postDecide(i, d)
  \/ \E c \in BOOLEAN : postReinstate(c)

Next ==
  \/ SupplierNext /\ UNCHANGED buyerVars
  \/ "conduct" \in Ops /\ BuyerNext /\ UNCHANGED <<day, ops, supplierVars>>
  \/ \E new \in [threshold : Thresholds, decay : DecayWindows, auto : BOOLEAN] :
       putConfig(new) /\ UNCHANGED <<day, supplierVars>>
  \/ Tick \/ Rest

Spec == Init /\ [][Next]_vars

-----------------------------------------------------------------------------
\* An identity never holds more bootstraps than the policy allows, and its
\* counter tells how many, through grants, revocations and sweeps, however
\* webhooks overlap.
IdentityLimitHolds ==
  \A k \in Keys :
     /\ counts[k] = Cardinality({s \in Suppliers : boot[s].granted /\ Identity[s] = k})
     /\ counts[k] <= maxBootstrapPerIdentity

\* With one webhook at a time only verified suppliers hold a bootstrap.
BootstrapNeedsVerification ==
  ~MayOverlap => \A s \in Suppliers :
     boot[s].granted /\ (\A w \in Webhooks : hook[w] = Idle) => kyc[s] = "verified"

\* What a bootstrap is worth never grows as days pass and never exceeds the
\* starting score.
BootstrapOnlyDecays ==
  \A a, b \in Days : a <= b => Decayed(a) >= Decayed(b) /\ Decayed(a) <= startingScore

\* The projected score stays within the scores it is made of, up to the
\* rounding of the contributions, and a small cell has no influence on it.
ScoreIsAnAverage ==
  \A s \in Suppliers :
     Shown(s) # {} =>
       LET raw == {signals[s][c].score : c \in {d \in Categories : signals[s][d].total >= minCellSizeThreshold}} IN
       /\ raw # {}
       /\ overallScore(s) >= Min(raw) - 5 /\ overallScore(s) <= Max(raw) + 5
       /\ overallScore(s) <= 1000

\* A row of the daily series is the score its day's first job found.
SnapshotsNeverChange == snapshots = firstOfDay

\* With one evaluation at a time, a supplier whose shown tier fell since the
\* last evaluation has a demotion alert of that day (suppliers without any
\* unsuppressed category are not rated).
DropsAreAlerted == ~MayOverlap => ~missed

\* Reputation is granted, scored and watched as promised.
ReputationSound ==
  /\ IdentityLimitHolds /\ BootstrapNeedsVerification /\ BootstrapOnlyDecays
  /\ ScoreIsAnAverage /\ SnapshotsNeverChange /\ DropsAreAlerted

\* The table in the detector's header: any sign of presence clears the buyer,
\* and only two independent signs of absence are a no-show.
VerdictTable ==
  \A g \in Gps, s \in Supplier :
    evaluateNoShow(g, s) =
      CASE g = "within" \/ s = "present" -> "attended"
        [] g = "outside" /\ s = "absent" -> "no_show"
        [] OTHER -> "insufficient"

\* A suspension was imposed at the threshold of its time, and it lasts only on
\* the strength of as many strikes, none of them appealed or rescinded, as the
\* lowest threshold since then.  Neither decay nor a raised threshold ends it:
\* updateConfig looks at no suspension, so a buyer may stay suspended with fewer
\* strikes than the present threshold, until an appeal or an operator.
SuspensionIsJustified ==
  suspension.isSuspended =>
    /\ suspension.at >= bar
    /\ Cardinality({i \in DOMAIN strikes : strikes[i].status \in {"active", "decayed"}}) >= bar

\* A buyer with as many strikes as the threshold asks for is suspended, unless
\* automatic suspension is off or an operator intervened since the last strike (by
\* a reinstatement, a decision or a change of the configuration: a lowered
\* threshold suspends nobody before the next strike).
ThresholdSuspends ==
  ActiveStrikes(strikes) >= config.threshold => suspension.isSuspended \/ excused \/ ~config.auto

\* A strike that was decided was escalated, and was appealed before; it never
\* counts again.
DecidedWasAppealed ==
  \A i \in DOMAIN strikes : strikes[i].escalated \/ strikes[i].decision # "none" => strikes[i].status = "appealed"

ConductSound == VerdictTable /\ SuspensionIsJustified /\ ThresholdSuspends /\ DecidedWasAppealed
=============================================================================
