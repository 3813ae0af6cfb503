---------------------------- MODULE PartnerQuota ----------------------------
(***************************************************************************)
(* Daily and monthly quotas of a partner's token: the check and the        *)
(* counting of a request are two calls of the store, with other requests   *)
(* in between; counters are reset lazily.                                  *)
(*                                                                         *)
(* Store = "sql" is the one the middleware uses, "memory" the one of the   *)
(* tests.  Time is counted in steps of which Day and Month windows have    *)
(* several; one token.  At most Cardinality(Requests) requests are at work *)
(* at a time.                                                              *)
(***************************************************************************)
EXTENDS Integers, Sequences, FiniteSets

CONSTANTS
  Store,
  Day, Month,             \* lengths of the windows
  daily_limit, monthly_limit,
  Requests, MaxTime, MaxRequests, MaxFailures

Idle == [pc |-> "idle"]
NoRow == [exists |-> FALSE]

VARIABLES
  now,
  row,        \* the token's row, or NoRow
  req,        \* requests in flight
  served,     \* history variable: the requests let through, with the times at
              \* which they asked and were answered and whether they were counted
  warned,     \* history variable: times of the warnings
  asked       \* number of requests

vars == <<now, row, req, served, warned, asked>>

Init ==
  /\ now = 0 /\ row = NoRow /\ req = [r \in Requests |-> Idle]
  /\ served = << >> /\ warned = << >> /\ asked = 0

-----------------------------------------------------------------------------
nextDailyReset(t) == (t \div Day + 1) * Day
nextMonthlyReset(t) == (t \div Month + 1) * Month

NewRow ==
  [exists |-> TRUE, daily_used |-> 0, monthly_used |-> 0,
   daily_reset_at |-> nextDailyReset(now), monthly_reset_at |-> nextMonthlyReset(now),
   notified |-> FALSE, updated_at |-> now]

\* The upsert of the SQL store sets updated_at to the present on every read.
getOrCreate == IF row.exists THEN IF Store = "sql" THEN [row EXCEPT !.updated_at = now] ELSE row ELSE NewRow

dailyReset(r, t) == t >= r.daily_reset_at
monthlyReset(r, t) == t >= r.monthly_reset_at
effectiveDailyUsed(r, t) == IF dailyReset(r, t) THEN 0 ELSE r.daily_used
effectiveMonthlyUsed(r, t) == IF monthlyReset(r, t) THEN 0 ELSE r.monthly_used

Exceeded(r, t) == effectiveDailyUsed(r, t) >= daily_limit \/ effectiveMonthlyUsed(r, t) >= monthly_limit

\* At least 80 per cent of a limit with this request.
Approaching(r, t) ==
  10 * (effectiveDailyUsed(r, t) + 1) >= 8 * daily_limit \/ 10 * (effectiveMonthlyUsed(r, t) + 1) >= 8 * monthly_limit

shouldNotify(r, t) == Approaching(r, t) /\ ~r.notified

\* checkAndConsume up to the call of consume.
check(q) ==
  LET r == getOrCreate IN
  /\ req[q] = Idle /\ asked < MaxRequests /\ asked' = asked + 1
  /\ row' = r
  /\ IF Exceeded(r, now)
     THEN UNCHANGED <<req, warned>>
     ELSE /\ req' = [req EXCEPT ![q] =
               [pc |-> "consume", now |-> now, notified |-> r.notified \/ shouldNotify(r, now),
                nextDaily |-> IF dailyReset(r, now) THEN nextDailyReset(now) ELSE r.daily_reset_at,
                nextMonthly |-> IF monthlyReset(r, now) THEN nextMonthlyReset(now) ELSE r.monthly_reset_at]]
          /\ warned' = IF shouldNotify(r, now) THEN Append(warned, now) ELSE warned
  /\ UNCHANGED <<now, served>>

\* Mutant: the counter goes on after the window has passed.
memoryConsumeNoReset(r, c) ==
  [r EXCEPT !.daily_used = @ + 1, !.monthly_used = @ + 1,
            !.daily_reset_at = IF c.now >= @ THEN c.nextDaily ELSE @,
            !.monthly_reset_at = IF c.now >= @ THEN c.nextMonthly ELSE @,
            !.notified = c.notified, !.updated_at = c.now]

\* The two stores' consume.
memoryConsume(r, c) ==
  [r EXCEPT !.daily_used = IF c.now >= r.daily_reset_at THEN 1 ELSE @ + 1,
            !.daily_reset_at = IF c.now >= @ THEN c.nextDaily ELSE @,
            !.monthly_used = IF c.now >= r.monthly_reset_at THEN 1 ELSE @ + 1,
            !.monthly_reset_at = IF c.now >= @ THEN c.nextMonthly ELSE @,
            !.notified = c.notified, !.updated_at = c.now]

sqlConsume(r, c) ==
  [r EXCEPT !.daily_used = IF c.nextDaily > r.updated_at THEN 1 ELSE @ + 1,
            !.monthly_used = IF c.nextMonthly > r.updated_at THEN 1 ELSE @ + 1,
            !.daily_reset_at = c.nextDaily, !.monthly_reset_at = c.nextMonthly,
            !.notified = c.notified, !.updated_at = now]

Passed(t, c) == [asked |-> t, answered |-> now, counted |-> c]
Failures == Cardinality({i \in DOMAIN served : ~served[i].counted})

\* consume and next(); whether the second read then fails makes no difference to
\* the request.
consume(q) ==
  /\ req[q] # Idle
  /\ row' = IF Store = "sql" THEN sqlConsume(row, req[q]) ELSE memoryConsume(row, req[q])
  /\ served' = Append(served, Passed(req[q].now, TRUE))
  /\ req' = [req EXCEPT ![q] = Idle]
  /\ UNCHANGED <<now, warned, asked>>

\* The store fails, at the read or at consume: enforceQuota lets the request
\* through, uncounted.
storeFails(q) ==
  /\ Failures < MaxFailures
  /\ IF req[q] = Idle
     THEN /\ asked < MaxRequests /\ asked' = asked + 1
          /\ served' = Append(served, Passed(now, FALSE)) /\ UNCHANGED req
     ELSE /\ served' = Append(served, Passed(req[q].now, FALSE))
          /\ req' = [req EXCEPT ![q] = Idle] /\ UNCHANGED asked
  /\ UNCHANGED <<now, row, warned>>

\* What GET /api/v1/partner/quota answers.
getQuotaStatus ==
  LET r == getOrCreate IN
  [dailyUsed |-> effectiveDailyUsed(r, now), monthlyUsed |-> effectiveMonthlyUsed(r, now),
   dailyResetAt |-> IF dailyReset(r, now) THEN nextDailyReset(now) ELSE r.daily_reset_at,
   monthlyResetAt |-> IF monthlyReset(r, now) THEN nextMonthlyReset(now) ELSE r.monthly_reset_at]

Tick == now < MaxTime /\ now' = now + 1 /\ UNCHANGED <<row, req, served, warned, asked>>

Rest == UNCHANGED vars

Next ==
  \/ \E q \in Requests : check(q) \/ consume(q) \/ storeFails(q)
  \/ Tick \/ Rest

Spec == Init /\ [][Next]_vars

-----------------------------------------------------------------------------
InWindow(window, t) == t \div window = now \div window
ServedIn(window) == Cardinality({i \in DOMAIN served : InWindow(window, served[i].asked)})
CountedIn(window) == Cardinality({i \in DOMAIN served : served[i].counted /\ InWindow(window, served[i].asked)})
UncountedIn(window) == ServedIn(window) - CountedIn(window)

InFlight == Cardinality({q \in Requests : req[q] # Idle})
AtATime == Cardinality(Requests)

\* With the store in memory no window lets more requests through than its limit,
\* plus the ones at work at the same time as the last, plus the ones let through
\* because the store failed (quotaEnforcement.ts:64-69).
QuotaHolds ==
  /\ ServedIn(Day) <= daily_limit + (AtATime - 1) + UncountedIn(Day)
  /\ ServedIn(Month) <= monthly_limit + (AtATime - 1) + UncountedIn(Month)

\* With the store in memory and one request at a time, the status page shows the
\* requests that were counted in this window, and a reset that lies ahead at the
\* end of the window.
StatusIsExact ==
  (row.exists /\ InFlight = 0 /\ AtATime = 1) =>
     /\ getQuotaStatus.dailyUsed = CountedIn(Day)
     /\ getQuotaStatus.monthlyUsed = CountedIn(Month)
     /\ getQuotaStatus.dailyResetAt = nextDailyReset(now)
     /\ getQuotaStatus.monthlyResetAt = nextMonthlyReset(now)

\* With either store a request is refused only when as many requests as the limit
\* of the day or of the month allows were let through in that window, asked or
\* answered.
RefusalIsEarned ==
  LET InOrInto(window) == {i \in DOMAIN served :
        InWindow(window, served[i].asked) \/ InWindow(window, served[i].answered)}
  IN (row.exists /\ Exceeded(row, now)) =>
       \/ Cardinality(InOrInto(Day)) >= daily_limit
       \/ Cardinality(InOrInto(Month)) >= monthly_limit

\* No partner is refused too early; with the store in memory none is served too
\* often and each is shown what it used.  The store the middleware uses counts
\* every request as the first of its windows: ExceededIsRefused.
QuotaSound ==
  /\ RefusalIsEarned
  /\ Store = "memory" => QuotaHolds /\ StatusIsExact

\* Documented: "If exceeded, returns 429 Too Many Requests": a token that has
\* used up its day is not served until the next.
ExceededIsRefused == ServedIn(Day) <= daily_limit

=============================================================================
