---------------------------- MODULE SupplierTerms ----------------------------
(***************************************************************************)
(* The terms a booking of one supplier is bound by: the cancellation       *)
(* policy (its versions and the supplier's override), the hold fee and the *)
(* grace window of the slot's category, each of which may change between   *)
(* the booking and the cancellation.                                       *)
(*                                                                         *)
(* And the arithmetic of prices: pricing strategies, discount curves and   *)
(* their stacking, the monthly cap of instant payout fees, and the tax and *)
(* the deductions of partial refunds.  The formulas are operators; the     *)
(* stores they read (curves, accruals, tax rules) are variables.  The      *)
(* buyer of a bundle presents every curve as an active discount.           *)
(*                                                                         *)
(* Times are abstract instants; the hours until the slot starts are an     *)
(* argument of the calculation.  Ratios and rates are whole percents, so   *)
(* binary fractions are not reproduced; undefined is NONE.                 *)
(* Every change is made before the first await, so it is one step.         *)
(***************************************************************************)
EXTENDS Integers, Sequences, FiniteSets

CONSTANTS
  Catalogue,     \* terms an administrator may submit, valid or not
  HoldFees,      \* hold fees a supplier may ask for
  GraceValues,   \* grace windows an administrator may submit
  Categories,
  Prices, Hours, \* what the refund is quoted for
  CurveIds,      \* discount curves of one bundle, in order of creation
  Curves,        \* curves a supplier may submit
  Quantities, UnitPrice,
  Amounts,       \* instant payouts
  TaxRules,      \* rules that may be added
  Payment,       \* subtotal and tax lines of one captured payment
  MaxTime, MaxChanges, MaxMonth, MaxOps

NONE == -1
Absent == [active |-> FALSE, tiers |-> << >>, stackable |-> FALSE, with |-> {}, max |-> 1]

VARIABLES
  now,
  registry,    \* policy versions in order of registration
  current,     \* index of the current one
  override,    \* the supplier's terms, or << >>
  holdFee,     \* the supplier's hold fee, or NONE
  intent,      \* the booking: "none", "legacy" (no snapshot) or "snapshot"
  snapshot,    \* what the booking captured
  configs,     \* grace window by category, or NONE
  history,     \* changes of the grace windows
  changes,     \* number of changes so far
  plain,       \* history variable: every version was made current from its date
  agreed,      \* history variable: terms and fee in force when the booking was made
  currentAt,   \* history variable: the current version at each past instant
  store,       \* discount curves by id, in the order of CurveIds
  month,
  accrual,     \* instant payout fees of one supplier: [total, month]
  rules,       \* tax rules in order of addition
  refunded,    \* what refunds took of the payment: subtotal and tax so far
  ops,
  sorted,      \* history variable: no curve was patched out of order
  charged,     \* history variable: fees of the present month
  capped       \* history variable: highest cap those fees fell under, NONE if uncapped

termsVars == <<now, registry, current, override, holdFee, intent, snapshot, configs, history,
               changes, plain, agreed, currentAt>>
priceVars == <<store, month, accrual, rules, refunded, ops, sorted, charged, capped>>
vars == <<termsVars, priceVars>>

-----------------------------------------------------------------------------
\* The two policies the service ships with.
Tier(lo, hi, ratio, flat, pct) ==
  [minHours |-> lo, maxHours |-> hi, refundRatio |-> ratio, flatFee |-> flat,
   percentageFee |-> pct, taxReversalRatio |-> 10]

Terms(tiers) == [tiers |-> tiers, minRefund |-> 0, maxRefund |-> NONE]

LEGACY_V1_TERMS ==
  Terms(<< Tier(24, NONE, 100, 0, 5), Tier(12, 24, 50, 0, 5), Tier(0, 12, 0, 0, 5) >>)

PRORATED_V2_TERMS ==
  Terms(<< Tier(168, NONE, 100, 0, 0), Tier(72, 168, 85, 0, 0), Tier(24, 72, 60, 50, 0),
           Tier(12, 24, 30, 100, 0), Tier(0, 12, 0, 0, 0) >>)

createDefaultRegistry ==
  << [from |-> 0, until |-> NONE, terms |-> LEGACY_V1_TERMS],
     [from |-> 1, until |-> NONE, terms |-> PRORATED_V2_TERMS] >>

\* The tier before tiers[i] in the stable order by lower bound.
Before(tiers, i, j) ==
  tiers[i].minHours < tiers[j].minHours \/ (tiers[i].minHours = tiers[j].minHours /\ i < j)

IsPrevious(tiers, i, j) ==
  Before(tiers, i, j) /\ \A k \in DOMAIN tiers : ~(Before(tiers, i, k) /\ Before(tiers, k, j))

\* validateProratedCancellationTerms: adjacent tiers may not overlap, but a
\* tier without an upper bound is not compared with the next one.
validTerms(t) ==
  /\ t.tiers # << >>
  /\ \A i \in DOMAIN t.tiers :
       LET tier == t.tiers[i] IN
         /\ tier.minHours >= 0
         /\ tier.maxHours # NONE => tier.maxHours > tier.minHours
         /\ tier.refundRatio \in 0..100 /\ tier.percentageFee \in 0..100 /\ tier.flatFee >= 0
         /\ \A j \in DOMAIN t.tiers :
              (IsPrevious(t.tiers, j, i) /\ t.tiers[j].maxHours # NONE)
                => tier.minHours >= t.tiers[j].maxHours
  /\ t.maxRefund # NONE => t.maxRefund >= t.minRefund

\* selectTierForCancellation: the matching tier with the greatest lower bound.
Matching(t, h) ==
  {i \in DOMAIN t.tiers :
     h >= t.tiers[i].minHours /\ (t.tiers[i].maxHours = NONE \/ h < t.tiers[i].maxHours)}

selectTierForCancellation(t, h) ==
  LET ms == Matching(t, h) IN
  CHOOSE i \in ms : \A j \in ms \ {i} :
    t.tiers[i].minHours > t.tiers[j].minHours \/ (t.tiers[i].minHours = t.tiers[j].minHours /\ i < j)

Larger(a, b) == IF a > b THEN a ELSE b
Smaller(a, b) == IF a < b THEN a ELSE b

\* Math.round of a share of an amount of cents.
Share(amount, percent) == (amount * percent + 50) \div 100

\* computeRefundWithTerms, netRefund.
computeRefundWithTerms(t, price, h) ==
  IF Matching(t, h) = {} THEN 0
  ELSE LET tier == t.tiers[selectTierForCancellation(t, h)]
           base == Share(price, tier.refundRatio)
           fee == Share(base, tier.percentageFee) + tier.flatFee
           net == base + Share(base, tier.taxReversalRatio) - fee
           floor == IF t.minRefund = NONE THEN net ELSE Larger(t.minRefund, net)
           under == IF t.maxRefund = NONE THEN floor ELSE Smaller(t.maxRefund, floor)
       IN Larger(0, under)

applyHoldFeeToRefund(net, fee) == Larger(0, net - Larger(0, fee))

resolveHoldFeeCents == IF holdFee = NONE THEN 0 ELSE Larger(0, holdFee)

-----------------------------------------------------------------------------
resolveTermsForSupplier == override

\* snapshotCurrentPolicy: the supplier's override, else the current version.
snapshotCurrentPolicy ==
  IF resolveTermsForSupplier # << >> THEN override[1] ELSE registry[current].terms

\* snapshotPolicyAtTime: the version in force at an instant, by its dates.
ActiveAt(when) ==
  {i \in DOMAIN registry :
     registry[i].from <= when /\ (registry[i].until = NONE \/ when < registry[i].until)}

snapshotPolicyAtTime(when) ==
  LET active == ActiveAt(when) IN
  IF active = {} THEN current
  ELSE CHOOSE i \in active : \A j \in active \ {i} :
         registry[i].from > registry[j].from \/ (registry[i].from = registry[j].from /\ i < j)

\* calculateRefund: the snapshot, else the live override, else version 1.
\* Mutant: the supplier's live override wins over the snapshot.
termsOfLive ==
  IF resolveTermsForSupplier # << >> THEN override[1]
  ELSE IF intent = "snapshot" THEN snapshot.terms ELSE registry[1].terms

termsOf ==
  IF intent = "snapshot" THEN snapshot.terms
  ELSE IF resolveTermsForSupplier # << >> THEN override[1] ELSE registry[1].terms

calculateRefund(price, h) ==
  applyHoldFeeToRefund(computeRefundWithTerms(termsOf, price, h),
                       IF intent = "snapshot" THEN snapshot.holdFee ELSE 0)

-----------------------------------------------------------------------------
TermsInit ==
  /\ now = 1 /\ registry = createDefaultRegistry /\ current = 2
  /\ override = << >> /\ holdFee = NONE
  /\ intent \in {"none", "legacy"} /\ snapshot = << >> /\ agreed = << >>
  /\ configs = [c \in Categories |-> NONE] /\ history = << >>
  /\ changes = 0 /\ plain = TRUE
  /\ currentAt = [t \in 1..1 |-> 2]

Change == changes < MaxChanges /\ changes' = changes + 1

\* registerNewPolicyVersion returns the registry with the new version; whoever
\* supplies the registry to the service stores it.
closePrevious(from) == [registry EXCEPT ![current].until = from]

registerNewPolicyVersion(t, from, makeCurrent) ==
  LET entries == Append(IF makeCurrent THEN closePrevious(from) ELSE registry,
                        [from |-> from, until |-> NONE, terms |-> t])
  IN [entries |-> entries, currentVersion |-> IF makeCurrent THEN Len(entries) ELSE current]

adoptRegistry(t, from, makeCurrent) ==
  /\ Change /\ validTerms(t)
  /\ LET adopted == registerNewPolicyVersion(t, from, makeCurrent)
     IN registry' = adopted.entries /\ current' = adopted.currentVersion
  /\ plain' = (plain /\ makeCurrent /\ from = now)
  /\ currentAt' = [currentAt EXCEPT ![now] = current']
  /\ UNCHANGED <<now, override, holdFee, intent, snapshot, configs, history, agreed>>

setOverride(t) ==
  /\ Change /\ validTerms(t) /\ override' = << t >>
  /\ UNCHANGED <<now, registry, current, holdFee, intent, snapshot, configs, history, plain, agreed, currentAt>>

deleteOverride ==
  /\ Change /\ override # << >> /\ override' = << >>
  /\ UNCHANGED <<now, registry, current, holdFee, intent, snapshot, configs, history, plain, agreed, currentAt>>

\* PUT and DELETE /cancellation-overrides/:supplierId.
putCancellationOverride(t) == t.tiers # << >> /\ validTerms(t) /\ setOverride(t)
deleteCancellationOverride == deleteOverride

\* HoldFeePolicyService.upsertPolicy clamps a negative fee.
upsertPolicy(fee) ==
  /\ Change /\ holdFee' = Larger(0, fee)
  /\ UNCHANGED <<now, registry, current, override, intent, snapshot, configs, history, plain, agreed, currentAt>>

\* Creating an intent captures both policies.
createIntent ==
  /\ intent = "none"
  /\ intent' = "snapshot"
  /\ snapshot' = [terms |-> snapshotCurrentPolicy, holdFee |-> resolveHoldFeeCents]
  /\ agreed' = [terms |-> IF override # << >> THEN override[1] ELSE registry[current].terms,
                fee |-> holdFee]
  /\ UNCHANGED <<now, registry, current, override, holdFee, configs, history, changes, plain, currentAt>>

-----------------------------------------------------------------------------
DEFAULT_GRACE_WINDOW_SECONDS == 900
validGrace(v) == v \in 1..86400

resolve(c) == IF configs[c] = NONE THEN DEFAULT_GRACE_WINDOW_SECONDS ELSE configs[c]

\* GraceWindowService.set and its route, PUT /slot-categories/:category/grace-window.
set(c, v) ==
  /\ Change /\ validGrace(v)
  /\ configs' = [configs EXCEPT ![c] = v]
  /\ history' = Append(history, [category |-> c, previous |-> configs[c], new |-> v])
  /\ UNCHANGED <<now, registry, current, override, holdFee, intent, snapshot, plain, agreed, currentAt>>

putGraceWindow(c, v) == v \in 1..86400 /\ set(c, v)

deletedEntry(c) == [category |-> c, previous |-> configs[c], new |-> DEFAULT_GRACE_WINDOW_SECONDS]

delete(c) ==
  /\ Change /\ configs[c] # NONE
  /\ history' = Append(history, deletedEntry(c))
  /\ configs' = [configs EXCEPT ![c] = NONE]
  /\ UNCHANGED <<now, registry, current, override, holdFee, intent, snapshot, plain, agreed, currentAt>>

deleteGraceWindow(c) == delete(c)

\* getHistory of a category: most recent first.
getHistory(c) ==
  LET own == SelectSeq(history, LAMBDA e : e.category = c)
  IN [i \in 1..Len(own) |-> own[Len(own) + 1 - i]]

Tick ==
  /\ now < MaxTime /\ now' = now + 1
  /\ currentAt' = [t \in 1..now' |-> IF t = now' THEN current ELSE currentAt[t]]
  /\ UNCHANGED <<registry, current, override, holdFee, intent, snapshot, configs, history, changes, plain, agreed>>

-----------------------------------------------------------------------------
(* Prices.                                                                 *)

\* Math.round of a non-negative fraction.
Rounded(n, d) == (2 * n + d) \div (2 * d)

-----------------------------------------------------------------------------
\* Pricing strategies.
fixedStrategy(base) == base

\* minMultiplier in percent; the multiplier falls linearly inside the window.
timeDecayStrategy(base, untilStart, window, minMultiplier) ==
  IF untilStart >= window THEN base
  ELSE IF untilStart <= 0 THEN Rounded(base * minMultiplier, 100)
  ELSE Rounded(base * (100 * window - (window - untilStart) * (100 - minMultiplier)), 100 * window)

demandBasedStrategy(base, activeBookings, capacity, maxMultiplier) ==
  LET clamped == Smaller(Larger(0, activeBookings), capacity)
  IN Rounded(base * (100 * capacity + clamped * (maxMultiplier - 100)), 100 * capacity)

-----------------------------------------------------------------------------
\* Discount curves.
isSorted(tiers) == \A i \in 1..(Len(tiers) - 1) : tiers[i].minQuantity < tiers[i + 1].minQuantity

Reached(tiers, q) == {i \in DOMAIN tiers : q >= tiers[i].minQuantity}

Rate(tiers, q) ==
  LET r == Reached(tiers, q)
  IN IF r = {} THEN NONE ELSE tiers[CHOOSE i \in r : \A j \in r : j <= i].rate

canStack(a, b) == store[a].stackable /\ b \in store[a].with

\* resolveBundleDiscount: the first curve with the best positive rate.
Offers(q) == {i \in 1..Len(CurveIds) :
                store[CurveIds[i]].active /\ Rate(store[CurveIds[i]].tiers, q) > 0}

Best(q) ==
  CHOOSE i \in Offers(q) : \A j \in Offers(q) \ {i} :
    LET ri == Rate(store[CurveIds[i]].tiers, q)
        rj == Rate(store[CurveIds[j]].tiers, q)
    IN ri > rj \/ (ri = rj /\ i < j)

Stackable(best, q) ==
  {i \in 1..Len(CurveIds) :
     /\ CurveIds[i] # best /\ store[CurveIds[i]].active
     /\ canStack(best, CurveIds[i]) /\ canStack(CurveIds[i], best)
     /\ Rate(store[CurveIds[i]].tiers, q) # NONE}

\* Those taken: the first maxStackCount of them.
Stacked(best, q) ==
  {i \in Stackable(best, q) : Cardinality({j \in Stackable(best, q) : j <= i}) <= store[best].max}

SumRates(is, q) ==
  LET f[n \in 0..Len(CurveIds)] ==
        IF n = 0 THEN 0 ELSE f[n - 1] + (IF n \in is THEN Rate(store[CurveIds[n]].tiers, q) ELSE 0)
  IN f[Len(CurveIds)]

totalRate(best, q) ==
  IF store[best].stackable
  THEN Smaller(Rate(store[best].tiers, q) + SumRates(Stacked(best, q), q), 100)
  ELSE Rate(store[best].tiers, q)

resolveBundleDiscount(q) ==
  LET original == UnitPrice * q
      rate == IF Offers(q) = {} THEN 0 ELSE totalRate(CurveIds[Best(q)], q)
  IN [rate |-> rate, final |-> original - Rounded(original * rate, 100)]

Op == ops < MaxOps /\ ops' = ops + 1

\* POST, PATCH and DELETE /discount-curves.  Only POST checks the order.
createDiscountCurve(id, c) ==
  /\ store[id] = Absent /\ isSorted(c.tiers)
  /\ store' = [store EXCEPT ![id] = c]
  /\ UNCHANGED sorted

updateDiscountCurve(id, c) ==
  /\ store[id] # Absent
  /\ store' = [store EXCEPT ![id] = c]
  /\ sorted' = (sorted /\ isSorted(c.tiers))

deleteDiscountCurve(id) ==
  /\ store[id] # Absent
  /\ store' = [store EXCEPT ![id] = Absent]
  /\ UNCHANGED sorted

postDiscountCurve(id, c) == Op /\ createDiscountCurve(id, c) /\ UNCHANGED <<month, accrual, rules, refunded, charged, capped>>
patchDiscountCurve(id, c) == Op /\ updateDiscountCurve(id, c) /\ UNCHANGED <<month, accrual, rules, refunded, charged, capped>>
removeDiscountCurve(id) == Op /\ deleteDiscountCurve(id) /\ UNCHANGED <<month, accrual, rules, refunded, charged, capped>>

-----------------------------------------------------------------------------
\* Instant payout fees: basis points and monthly cap by tier (0 is no cap).
DEFAULT_SCHEDULE ==
  [basic |-> [basisPoints |-> 150, monthlyCap |-> 50000],
   premium |-> [basisPoints |-> 100, monthlyCap |-> 200000],
   unlisted |-> [basisPoints |-> 50, monthlyCap |-> 0]]

getCurrentAccrual == IF accrual.month # month THEN 0 ELSE accrual.total

feeDue(total, cap) ==
  IF cap > 0 /\ getCurrentAccrual >= cap THEN 0
  ELSE IF cap > 0 /\ getCurrentAccrual + total > cap THEN cap - getCurrentAccrual
  ELSE total

addAccrual(fee) ==
  accrual' = IF fee = 0 THEN accrual
             ELSE [total |-> getCurrentAccrual + fee, month |-> month]

calculateFee(tier, amount) ==
  LET conf == DEFAULT_SCHEDULE[tier]
      fee == feeDue(Rounded(amount * conf.basisPoints, 10000), conf.monthlyCap)
  IN /\ Op
     /\ addAccrual(fee)
     /\ charged' = charged + fee
     /\ capped' = IF fee = 0 \/ capped = NONE THEN capped
                  ELSE IF conf.monthlyCap = 0 THEN NONE ELSE Larger(capped, conf.monthlyCap)
     /\ UNCHANGED <<store, month, rules, refunded, sorted>>

NextMonth ==
  /\ month < MaxMonth /\ month' = month + 1
  /\ charged' = 0 /\ capped' = 0
  /\ UNCHANGED <<store, accrual, rules, refunded, ops, sorted>>

-----------------------------------------------------------------------------
\* Tax on a refund.  A jurisdiction is a sequence of parts; a rule applies to
\* its own jurisdiction and, failing an exact rule, to those below it.
IsPrefix(p, s) == Len(p) < Len(s) /\ SubSeq(s, 1, Len(p)) = p

ActiveRules(at) ==
  {i \in DOMAIN rules : rules[i].from <= at /\ (rules[i].to = NONE \/ at < rules[i].to)}

\* resolveRule: exact before prefix, then the latest date, then the first added.
resolveRule(j, at) ==
  LET exact == {i \in ActiveRules(at) : rules[i].jurisdiction = j}
      prefix == {i \in ActiveRules(at) : IsPrefix(rules[i].jurisdiction, j)}
      cs == IF exact # {} THEN exact ELSE prefix
  IN IF cs = {} THEN 0
     ELSE CHOOSE i \in cs : \A k \in cs \ {i} :
            rules[i].from > rules[k].from \/ (rules[i].from = rules[k].from /\ i < k)

addRule(r) ==
  /\ Op /\ (r.to # NONE => r.to > r.from) /\ r.coefficient \in 0..100
  /\ rules' = Append(rules, r)
  /\ UNCHANGED <<store, month, accrual, refunded, sorted, charged, capped>>

proportional(line, part) ==
  IF Payment.subtotal = 0 THEN 0 ELSE (line.amount * part) \div Payment.subtotal

refundableTax(line, part) ==
  (proportional(line, part) * rules[resolveRule(line.jurisdiction, month)].coefficient) \div 100

\* calculate: one line without a rule refuses the whole refund.  Nothing is kept
\* of earlier refunds; the caller adds them up, and a part is bounded by the
\* whole subtotal.
calculate(part) ==
  /\ Op /\ part <= Payment.subtotal
  /\ \A i \in DOMAIN Payment.lines : resolveRule(Payment.lines[i].jurisdiction, month) # 0
  /\ refunded' = [subtotal |-> refunded.subtotal + part,
                  tax |-> [i \in DOMAIN Payment.lines |->
                             refunded.tax[i] + refundableTax(Payment.lines[i], part)]]
  /\ UNCHANGED <<store, month, accrual, rules, sorted, charged, capped>>

-----------------------------------------------------------------------------
\* PartialRefundCalculator: fixed deductions first, percentages after, exact
\* up to the final rounding.  A refund is a numerator over 100^percentages.
AfterFixed(amount, rs) ==
  LET f[n \in 0..Len(rs)] ==
        IF n = 0 THEN amount
        ELSE IF rs[n].type = "fixed" THEN Larger(0, f[n - 1] - rs[n].value) ELSE f[n - 1]
  IN f[Len(rs)]

AfterPercent(amount, rs) ==
  LET f[n \in 0..Len(rs)] ==
        IF n = 0 THEN <<amount, 1>>
        ELSE IF rs[n].type = "percent" THEN <<f[n - 1][1] * (100 - rs[n].value), f[n - 1][2] * 100>>
        ELSE f[n - 1]
  IN f[Len(rs)]

roundHalfToEven(n, d) ==
  LET w == n \div d
      rem == n % d
  IN IF 2 * rem < d THEN w ELSE IF 2 * rem > d THEN w + 1 ELSE w + (w % 2)

partialRefund(amount, rs, currency) ==
  LET x == AfterPercent(AfterFixed(amount, rs), rs)
  IN IF currency = "XLM" THEN x[1] \div x[2] ELSE roundHalfToEven(x[1], x[2])

-----------------------------------------------------------------------------
Init ==
  /\ TermsInit
  /\ store = [id \in {CurveIds[i] : i \in DOMAIN CurveIds} |-> Absent]
  /\ month = 1 /\ accrual = [total |-> 0, month |-> 0]
  /\ rules = << >>
  /\ refunded = [subtotal |-> 0, tax |-> [i \in DOMAIN Payment.lines |-> 0]]
  /\ ops = 0 /\ sorted = TRUE /\ charged = 0 /\ capped = 0

TermsNext ==
  \/ \E t \in Catalogue :
       \/ putCancellationOverride(t)
       \/ \E from \in {now, now + 1}, made \in BOOLEAN : adoptRegistry(t, from, made)
  \/ deleteCancellationOverride
  \/ \E f \in HoldFees : upsertPolicy(f)
  \/ createIntent
  \/ \E c \in Categories : deleteGraceWindow(c) \/ \E v \in GraceValues : putGraceWindow(c, v)
  \/ Tick

PriceNext ==
  \/ \E id \in DOMAIN store :
       \/ removeDiscountCurve(id)
       \/ \E c \in Curves : postDiscountCurve(id, c) \/ patchDiscountCurve(id, c)
  \/ \E t \in DOMAIN DEFAULT_SCHEDULE, a \in Amounts : calculateFee(t, a)
  \/ \E r \in TaxRules : addRule(r)
  \/ \E part \in 1..Payment.subtotal : calculate(part)
  \/ NextMonth

Rest ==
  /\ now = MaxTime /\ changes = MaxChanges /\ month = MaxMonth /\ ops = MaxOps
  /\ UNCHANGED vars

Next ==
  \/ TermsNext /\ UNCHANGED priceVars
  \/ PriceNext /\ UNCHANGED termsVars
  \/ Rest

Spec == Init /\ [][Next]_vars

-----------------------------------------------------------------------------
\* A booking made under a snapshot is refunded by the terms and the hold fee
\* in force when it was made, whatever version, override or fee came later
\* (calculateRefund: "prefer the grandfathered snapshot").
QuoteIsGrandfathered ==
  intent = "snapshot" =>
    \A p \in Prices, h \in Hours :
      calculateRefund(p, h) =
        Larger(0, computeRefundWithTerms(agreed.terms, p, h)
                    - (IF agreed.fee = NONE THEN 0 ELSE agreed.fee))

\* Under the shipped policies a cancellation never pays more than an earlier one.
WaitingNeverPays ==
  now = 1 /\ changes = 0 =>
  \A t \in {LEGACY_V1_TERMS, PRORATED_V2_TERMS}, p \in Prices, h, g \in Hours :
    h >= g => computeRefundWithTerms(t, p, h) >= computeRefundWithTerms(t, p, g)

\* The dates of the versions tell, for every past instant, the version that
\* was current then (registerNewPolicyVersion closes the version it replaces),
\* as long as each version took effect when it was registered.
DatesTellTheVersion == plain => \A t \in 1..now : snapshotPolicyAtTime(t) = currentAt[t]

\* The window in force is the one the newest entry of the history announces,
\* and the entries of a category are chained.
HistoryTellsTheWindow ==
  \A c \in Categories :
    LET h == getHistory(c) IN
      /\ resolve(c) = IF h = << >> THEN DEFAULT_GRACE_WINDOW_SECONDS ELSE h[1].new
      /\ \A i \in 1..(Len(h) - 1) :
           h[i].previous = h[i + 1].new
             \/ (h[i].previous = NONE /\ h[i + 1].new = DEFAULT_GRACE_WINDOW_SECONDS)
      /\ \A i \in DOMAIN h : i = Len(h) => h[i].previous = NONE

\* The four together.
TermsSound ==
  QuoteIsGrandfathered /\ WaitingNeverPays /\ DatesTellTheVersion /\ HistoryTellsTheWindow

\* The fees of a month, whatever tiers the supplier passed through, never
\* exceed the highest cap they were charged under, and the accrual that the
\* next fee is measured against is exactly what was charged.
FeesWithinCap ==
  /\ getCurrentAccrual = charged
  /\ capped # NONE => charged <= capped

\* A bundle never costs less than nothing; as long as the tiers are sorted no
\* single curve on offer, nor a smaller quantity of the same curve's own
\* tiers, would have given a better rate than the one applied.
DiscountIsBest ==
  \A q \in Quantities :
    LET d == resolveBundleDiscount(q) IN
      /\ d.final >= 0 /\ d.final <= UnitPrice * q
      /\ sorted => \A id \in DOMAIN store :
           LET ts == store[id].tiers IN
             store[id].active =>
               \A i \in DOMAIN ts :
                 (ts[i].minQuantity <= q /\ (i = Len(ts) \/ ts[i + 1].minQuantity > q)) => d.rate >= ts[i].rate

\* However a payment is refunded in parts, more than it in all included, and
\* whatever rules are added in between, no tax line gives back more than its
\* share of what was refunded (the flooring in calculate).
TaxNeverOverRefunded ==
  \A i \in DOMAIN Payment.lines :
    refunded.tax[i] * Payment.subtotal <= Payment.lines[i].amount * refunded.subtotal

\* The formulas on bounded inputs: prices move one way and stay in bounds until
\* the slot starts, and the order in which refund rules are listed does not
\* matter.  (After the start the price stays at its lowest, where the comment on
\* time_decay says that the full base price applies; nothing is stated of it.)
FormulasSound ==
  ops = 0 /\ month = 1 =>
    /\ \A base \in {0, 1, 7, 99}, w \in 1..4, m \in {0, 33, 100}, u \in 0..4 :
         LET p(x) == timeDecayStrategy(base, x, w, m)
         IN p(u) <= p(u + 1) /\ p(u) <= base /\ p(u) >= Rounded(base * m, 100)
    /\ \A base \in {0, 1, 7, 99}, c \in 1..3, m \in {100, 150, 233}, b \in -1..4 :
         LET p(x) == demandBasedStrategy(base, x, c, m)
         IN p(b) <= p(b + 1) /\ p(b) >= fixedStrategy(base) /\ p(b) <= Rounded(base * m, 100)
    /\ \A amount \in {0, 5, 10, 15, 99}, cur \in {"USD", "XLM"},
          x, y \in [type : {"fixed", "percent"}, value : {0, 3, 50, 100}] :
         LET r == partialRefund(amount, <<x, y>>, cur)
         IN /\ r = partialRefund(amount, <<y, x>>, cur)
            /\ r \in 0..amount /\ r <= partialRefund(amount, <<x>>, cur)

\* The rules together.
PricesSound == FeesWithinCap /\ DiscountIsBest /\ TaxNeverOverRefunded /\ FormulasSound
=============================================================================
