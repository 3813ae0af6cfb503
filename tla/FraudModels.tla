---------------------------- MODULE FraudModels ----------------------------
(***************************************************************************)
(* The anti-fraud services: the registry of model versions with its        *)
(* traffic split and the two-admin rollback, the scorer in front of the    *)
(* booking-intent route with its challenges and its review queue, the      *)
(* drift detector with its alarms, and the search for rating cycles.       *)
(*                                                                         *)
(* The services share no state; Ops says which of them are at work.        *)
(* Versions are numbers, in the order in which their names sort.           *)
(***************************************************************************)
EXTENDS Integers, Sequences, FiniteSets, FiniteSetsExt, SequencesExt

CONSTANTS
  Ops,                      \* of "models", "freeze", "scores", "drift", "ratings"
  Versions, Tenants,
  BUCKET_SPACE,             \* what the weights add up to, 100 in the code
  Bucket,                   \* hashTenantToBucket of each tenant
  Requests,                 \* promotion requests: weights and tenantOverrides
  Admins, Promotions,       \* promote requests that may be under way together
  ROLLBACK_TTL, MAX_HISTORY,
  Bookings,                 \* requests of the booking-intent route under way
  Signals,                  \* what such a request may look like
  HashOf,                   \* hashFingerprint
  WindowMs, MaxIntents, Threshold, StepUpMode, ChallengeTtl,
  MAX_MODEL_VERSIONS, MinLiveSamples, FlapCooldown,
  Nodes, Weights,           \* of the rating graph
  maxCycleLength, minCycleWeight, symmetricRatingThreshold,
  MaxTime, MaxOps           \* bounds

None == 0

VARIABLES
  now, ops,
  models, snapshot, history, pending, promoting, frozen,  \* registry and rollback
  requestOf,   \* the request behind every snapshot ever made
  rollbacks,   \* rollbacks that were applied
  removed,     \* the overrides the last promotion reported as removed
  windows, ipIndex, fingerprintIndex, fingerprintUaIndex, \* of the scorer
  booking, challenges, queue, featureStoreLog,
  calls,       \* every evaluation: actor and time
  passed,      \* challenges that let a request through
  live, baseline, alarmCache,                             \* of the detector
  alarms,      \* alarms emitted: key and time
  ratings      \* the edges added, in order

vars == <<now, ops, models, snapshot, history, pending, promoting, frozen, requestOf, rollbacks,
          removed, windows, ipIndex, fingerprintIndex, fingerprintUaIndex, booking, challenges,
          queue, featureStoreLog, calls, passed, live, baseline, alarmCache, alarms, ratings>>
registry == <<models, snapshot, history, pending, promoting, frozen, requestOf, rollbacks, removed>>
scorer == <<windows, ipIndex, fingerprintIndex, fingerprintUaIndex>>
screening == <<scorer, booking, challenges, queue, featureStoreLog, calls, passed>>
detector == <<live, baseline, alarmCache, alarms>>

EmptyMap == [x \in {} |-> None]
NoSnapshot == [id |-> 0, weights |-> EmptyMap, overrides |-> EmptyMap]
NoBooking == [pc |-> "idle", token |-> None]

Init ==
  /\ now = 0 /\ ops = 0
  /\ models = {} /\ snapshot = NoSnapshot /\ history = << >> /\ pending = EmptyMap
  /\ promoting = [p \in Promotions |-> {}] /\ frozen = FALSE
  /\ requestOf = EmptyMap /\ rollbacks = {} /\ removed = {}
  /\ windows = EmptyMap /\ ipIndex = {} /\ fingerprintIndex = {} /\ fingerprintUaIndex = EmptyMap
  /\ booking = [b \in Bookings |-> NoBooking] /\ challenges = EmptyMap
  /\ queue = << >> /\ featureStoreLog = << >> /\ calls = << >> /\ passed = << >>
  /\ live = EmptyMap /\ baseline = EmptyMap /\ alarmCache = EmptyMap /\ alarms = {}
  /\ ratings = << >>

Op(name) == name \in Ops /\ ops < MaxOps /\ ops' = ops + 1

Get(f, k) == IF k \in DOMAIN f THEN f[k] ELSE None
Put(f, k, v) == [x \in DOMAIN f \cup {k} |-> IF x = k THEN v ELSE f[x]]
Without(f, k) == [x \in DOMAIN f \ {k} |-> f[x]]

-----------------------------------------------------------------------------
(* The traffic router.                                                     *)

weightOf(map, v) == Get(map, v)

\* buildCumulative: the upper bound of every version's buckets, in name order.
buildCumulative(weights) ==
  LET ordered == SetToSortSeq(DOMAIN weights, <)
      sum(i) == FoldSeq(LAMBDA v, s : s + weightOf(weights, v), 0, SubSeq(ordered, 1, i)) IN
  [i \in 1..Len(ordered) |->
     [version |-> ordered[i], upper |-> IF sum(i) > BUCKET_SPACE THEN BUCKET_SPACE ELSE sum(i)]]

\* pickDefaultVersion: the heaviest version, the first by name of equals.
pickDefaultVersion(weights) ==
  LET positive == {v \in DOMAIN weights : weights[v] > 0}
      best == {v \in positive : \A u \in positive : weights[u] <= weights[v]} IN
  IF best = {} THEN None ELSE Min(best)

\* buildSnapshot: an override counts only when its version has traffic.
buildSnapshot(request, id) ==
  [id |-> id, weights |-> request.weights,
   overrides |-> [t \in {u \in DOMAIN request.overrides :
                           /\ request.overrides[u] \in models
                           /\ weightOf(request.weights, request.overrides[u]) > 0}
                    |-> request.overrides[t]]]

versionsOf(s) == {v \in DOMAIN s.weights : s.weights[v] > 0}

cellOf(bucket, cumulative, versions) ==
  LET cells == {i \in 1..Len(cumulative) :
                  bucket < cumulative[i].upper /\ cumulative[i].version \in versions} IN
  cumulative[IF cells = {} THEN Len(cumulative) ELSE Min(cells)].version

routeRequest(t, s) ==
  IF t \in DOMAIN s.overrides THEN s.overrides[t] ELSE cellOf(Bucket[t], buildCumulative(s.weights), versionsOf(s))

-----------------------------------------------------------------------------
(* The registry and its routes.                                            *)

registerModel(v, trafficWeight) ==
  /\ Op("models")
  /\ models' = IF v \in models \/ trafficWeight \notin 0..BUCKET_SPACE THEN models ELSE models \cup {v}
  /\ UNCHANGED <<now, snapshot, history, pending, promoting, frozen, requestOf, rollbacks, removed,
                 screening, detector, ratings>>

\* validateWeights: no error.
validateWeights(request) ==
  LET w == request.weights IN
  /\ DOMAIN w # {} => models # {}
  /\ DOMAIN w \subseteq models
  /\ \A v \in DOMAIN w : w[v] \in 0..BUCKET_SPACE
  /\ MapThenSumSet(LAMBDA v : w[v], DOMAIN w) = BUCKET_SPACE
  /\ \A t \in DOMAIN request.overrides : request.overrides[t] \in models

removedOverrides(request) ==
  {t \in DOMAIN snapshot.overrides :
     \/ Get(request.overrides, t) # snapshot.overrides[t]
     \/ weightOf(request.weights, snapshot.overrides[t]) <= 0}

recordPromotion(entry) == SubSeq(<<entry>> \o history, 1,
                                 IF Len(history) < MAX_HISTORY THEN Len(history) + 1 ELSE MAX_HISTORY)

\* promote followed by recordPromotion; a request that does not validate throws.
promote(request) ==
  LET id == Cardinality(DOMAIN requestOf) + 1 IN
  IF validateWeights(request)
  THEN /\ snapshot' = buildSnapshot(request, id)
       /\ removed' = removedOverrides(request)
       /\ history' = recordPromotion([id |-> id, request |-> request])
       /\ requestOf' = Put(requestOf, id, request)
  ELSE UNCHANGED <<snapshot, removed, history, requestOf>>

\* POST /promote validates, writes the audit log, and promotes after it.
postPromote(p, request) ==
  /\ promoting[p] = {} /\ Op("models")
  /\ promoting' = [promoting EXCEPT ![p] = IF validateWeights(request) THEN {request} ELSE {}]
  /\ UNCHANGED <<now, models, snapshot, history, pending, frozen, requestOf, rollbacks, removed,
                 screening, detector, ratings>>

promoteLogged(p) ==
  /\ \E request \in promoting[p] : promote(request)
  /\ promoting' = [promoting EXCEPT ![p] = {}]
  /\ UNCHANGED <<now, ops, models, pending, frozen, rollbacks, screening, detector, ratings>>

-----------------------------------------------------------------------------
(* The rollback by two admins.                                             *)

getPriorPromotion == IF Len(history) > 1 THEN history[2].id ELSE None

isChangeFrozen == frozen

\* initiateRollback to the given snapshot, or to the prior one.
initiateRollback(a, wanted) ==
  LET target == IF wanted # None THEN wanted ELSE getPriorPromotion
      found == {h \in ToSet(history) : h.id = target}
      accepted == ~isChangeFrozen /\ found # {} /\ target # history[1].id IN
  /\ Op("models")
  /\ pending' = IF accepted
                THEN Put(pending, ops + 1, [target |-> target, initiator |-> a, expiresAt |-> now + ROLLBACK_TTL,
                                       request |-> (CHOOSE h \in found : TRUE).request])
                ELSE pending
  /\ UNCHANGED <<now, models, snapshot, history, promoting, frozen, requestOf, rollbacks, removed,
                 screening, detector, ratings>>

spent(id) == Without(pending, id)

\* approveRollback: an expired request is dropped, another admin's is applied.
approveRollback(id, a) ==
  LET p == pending[id] IN
  /\ Op("models")
  /\ IF now > p.expiresAt
     THEN pending' = Without(pending, id) /\ UNCHANGED <<snapshot, history, requestOf, removed, rollbacks>>
     ELSE IF a = p.initiator \/ isChangeFrozen
     THEN UNCHANGED <<pending, snapshot, history, requestOf, removed, rollbacks>>
     ELSE /\ pending' = spent(id)
          /\ promote(p.request)
          /\ rollbacks' = rollbacks \cup {[id |-> id, target |-> p.target, restored |-> DOMAIN requestOf' \ DOMAIN requestOf]}
  /\ UNCHANGED <<now, models, promoting, frozen, screening, detector, ratings>>

\* FRAUD_ROLLBACK_FREEZE_UNTIL begins or ends.
changeFreeze ==
  /\ Op("freeze")
  /\ frozen' = ~frozen
  /\ UNCHANGED <<now, models, snapshot, history, pending, promoting, requestOf, rollbacks, removed,
                 screening, detector, ratings>>

postInitiate == \E a \in Admins, wanted \in {None} \cup DOMAIN requestOf : initiateRollback(a, wanted)
postApprove == \E a \in Admins, id \in DOMAIN pending : approveRollback(id, a)

-----------------------------------------------------------------------------
(* The scorer and the wall in front of the booking-intent route.           *)

recordVelocity(actor) ==
  Append(SelectSeq(IF actor \in DOMAIN windows THEN windows[actor] ELSE << >>,
                   LAMBDA t : now - t <= WindowMs), now)

hashFingerprint(f) == HashOf[f]

fingerprintOf(s) ==
  IF s.header # None THEN hashFingerprint(s.header)
  ELSE IF s.stored # None THEN hashFingerprint(s.stored) ELSE None

boundUa(s) == IF s.header # None /\ s.ua # None THEN Get(fingerprintUaIndex, fingerprintOf(s)) ELSE None

others(index, key, actor) == {a \in {e[2] : e \in {x \in index : x[1] = key}} : a # actor}
sharedIp(s) == fingerprintOf(s) # None /\ others(ipIndex, s.ip, s.actor) # {}
sharedFingerprint(s) == fingerprintOf(s) # None /\ others(fingerprintIndex, fingerprintOf(s), s.actor) # {}

reasons(s) ==
  {r \in {"velocity", "fingerprint", "userAgent", "disposable", "sharedIp", "sharedFingerprint"} :
     CASE r = "velocity" -> Len(recordVelocity(s.actor)) > MaxIntents
       [] r = "fingerprint" -> s.header # None /\ s.stored # None /\ s.header # s.stored
       [] r = "userAgent" -> boundUa(s) # None /\ boundUa(s) # s.ua
       [] r = "disposable" -> s.disposable
       [] r = "sharedIp" -> sharedIp(s)
       [] OTHER -> sharedFingerprint(s)}

score(s) == Cardinality(reasons(s)) + IF sharedIp(s) /\ sharedFingerprint(s) THEN 3 ELSE 0

\* evaluate: the score, and what the scorer remembers of the request.
evaluate(s) ==
  LET fp == fingerprintOf(s) IN
  /\ windows' = Put(windows, s.actor, recordVelocity(s.actor))
  /\ fingerprintUaIndex' = IF s.header # None /\ s.ua # None /\ boundUa(s) = None
                           THEN Put(fingerprintUaIndex, fp, s.ua) ELSE fingerprintUaIndex
  /\ ipIndex' = IF fp # None THEN ipIndex \cup {<<s.ip, s.actor>>} ELSE ipIndex
  /\ fingerprintIndex' = IF fp # None THEN fingerprintIndex \cup {<<fp, s.actor>>} ELSE fingerprintIndex
  /\ calls' = Append(calls, [actor |-> s.actor, at |-> now])

decision(s) ==
  CASE score(s) >= Threshold -> "blocked"
    [] score(s) = Threshold - 1 /\ score(s) > 0 -> "review"
    [] OTHER -> "allowed"

sweep == [t \in {u \in DOMAIN challenges : now < challenges[u].expiresAt} |-> challenges[t]]

issue(s) == Put(sweep, ops + 1, [actor |-> s.actor, body |-> s.body, expiresAt |-> now + ChallengeTtl])

\* A request meets the wall, with a challenge token or without one.  The store
\* of quarantined requests is only written, so it has no variable.
antiFraudScoring(b, s, token) ==
  LET blocked == decision(s) = "blocked"
      retry == blocked /\ StepUpMode = "challenge" /\ token # None IN
  /\ booking[b].pc = "idle" /\ Op("scores")
  /\ evaluate(s)
  /\ booking' = [booking EXCEPT ![b] =
       IF blocked /\ ~retry THEN NoBooking
       ELSE [pc |-> IF retry THEN "mfa" ELSE "create", token |-> token, actor |-> s.actor,
             body |-> s.body, review |-> decision(s) = "review"]]
  /\ challenges' = IF blocked /\ StepUpMode = "challenge" /\ token = None THEN issue(s) ELSE challenges
  /\ UNCHANGED <<now, registry, queue, featureStoreLog, passed, detector, ratings>>

consumed(token) == Without(challenges, token)

consume(token, actor, body) ==
  LET record == challenges[token] IN
  CASE token \notin DOMAIN challenges -> [ok |-> FALSE, left |-> challenges]
    [] token \in DOMAIN challenges /\ now >= record.expiresAt -> [ok |-> FALSE, left |-> Without(challenges, token)]
    [] OTHER -> LET ok == record.actor = actor /\ record.body = body IN
                [ok |-> ok, left |-> IF ok THEN consumed(token) ELSE challenges]

\* resolveChallengeRetry, after the second factor was verified or was not.
resolveChallengeRetry(b, fresh) ==
  LET x == booking[b]
      verdict == IF fresh THEN consume(x.token, x.actor, x.body) ELSE [ok |-> FALSE, left |-> challenges] IN
  /\ x.pc = "mfa"
  /\ challenges' = verdict.left
  /\ booking' = [booking EXCEPT ![b] = IF verdict.ok THEN [x EXCEPT !.pc = "create"] ELSE NoBooking]
  /\ passed' = IF verdict.ok THEN Append(passed, x.token) ELSE passed
  /\ UNCHANGED <<now, ops, registry, scorer, queue, featureStoreLog, calls, detector, ratings>>

\* The route creates n intents and queues each of them when the score is borderline.
enqueueHitlReviewForIntent(b, n) ==
  /\ booking[b].pc = "create"
  /\ queue' = IF booking[b].review THEN queue \o [i \in 1..n |-> "pending"] ELSE queue
  /\ booking' = [booking EXCEPT ![b] = NoBooking]
  /\ UNCHANGED <<now, ops, registry, scorer, challenges, featureStoreLog, calls, passed, detector, ratings>>

\* Mutant: a referred item may be decided again.
decidableReferred(i) == queue[i] \in {"pending", "referred"}

decidable(i) == queue[i] = "pending"

decide(i, outcome) ==
  /\ Op("scores")
  /\ queue' = IF decidable(i) THEN [queue EXCEPT ![i] = outcome] ELSE queue
  /\ featureStoreLog' = IF decidable(i) THEN Append(featureStoreLog, <<i, outcome>>) ELSE featureStoreLog
  /\ UNCHANGED <<now, registry, scorer, booking, challenges, calls, passed, detector, ratings>>

postDecision == \E i \in DOMAIN queue, outcome \in {"approved", "rejected", "referred"} : decide(i, outcome)

-----------------------------------------------------------------------------
(* The drift detector.  The two statistics of a histogram pair are chosen:  *)
(* only their severities matter here.                                      *)

Overflow == -1

boundedKey(v) ==
  IF v \in DOMAIN live \cup DOMAIN baseline \/ Cardinality(DOMAIN live) < MAX_MODEL_VERSIONS
  THEN v ELSE Overflow

recordFraudScore(v) ==
  LET key == boundedKey(v) IN
  /\ Op("drift")
  /\ live' = Put(live, key, Get(live, key) + 1)
  /\ UNCHANGED <<now, registry, screening, baseline, alarmCache, alarms, ratings>>

setFraudScoreBaseline(v, total) ==
  /\ Op("drift")
  /\ baseline' = Put(baseline, boundedKey(v), total)
  /\ UNCHANGED <<now, registry, screening, live, alarmCache, alarms, ratings>>

clearBaseline(v) ==
  /\ Op("drift")
  /\ baseline' = Without(baseline, boundedKey(v))
  /\ UNCHANGED <<now, registry, screening, live, alarmCache, alarms, ratings>>

clearFraudDriftState(v) ==
  /\ Op("drift")
  /\ live' = Without(live, boundedKey(v)) /\ baseline' = Without(baseline, boundedKey(v))
  /\ UNCHANGED <<now, registry, screening, alarmCache, alarms, ratings>>

Severities == {"ok", "warning", "critical"}
Statistics == {"psi", "kl"}

\* The versions the check does not skip.
measured == {v \in DOMAIN live \cap DOMAIN baseline : baseline[v] > 0 /\ live[v] >= MinLiveSamples}

cacheKey(v, severity, statistic) == <<v, severity, statistic>>

withinFlapCooldown(v, severity, statistic) ==
  /\ FlapCooldown > 0
  /\ cacheKey(v, severity, statistic) \in DOMAIN alarmCache
  /\ now - alarmCache[cacheKey(v, severity, statistic)] < FlapCooldown

\* runDriftCheck with maybeEmit for both statistics of every measured version.
runDriftCheck(severity) ==
  LET breaches == {b \in measured \X Statistics : severity[b] # "ok"}
      emitted == {b \in breaches : ~withinFlapCooldown(b[1], severity[b], b[2])}
      keys == {cacheKey(b[1], severity[b], b[2]) : b \in emitted} IN
  /\ Op("drift")
  /\ alarmCache' = [k \in DOMAIN alarmCache \cup keys |-> IF k \in keys THEN now ELSE alarmCache[k]]
  /\ alarms' = alarms \cup {[breach |-> <<b[1], severity[b], b[2]>>, at |-> now, sent |-> b \in emitted] :
                             b \in breaches}
  /\ UNCHANGED <<now, registry, screening, live, baseline, ratings>>

driftTimer == \E severity \in [measured \X Statistics -> Severities] : runDriftCheck(severity)

-----------------------------------------------------------------------------
(* The rating graph and its cycles.                                        *)

addRating(source, target, weight) ==
  /\ Op("ratings")
  /\ ratings' = Append(ratings, [source |-> source, target |-> target, weight |-> weight])
  /\ UNCHANGED <<now, registry, screening, detector>>

\* The sources in the order of their first rating, and the ratings of one.
keys == FoldSeq(LAMBDA e, s : IF e.source \in ToSet(s) THEN s ELSE Append(s, e.source), << >>, ratings)
edgesOf(n) == {i \in DOMAIN ratings : ratings[i].source = n}

tooLong(pathNodes) == Len(pathNodes) >= maxCycleLength

\* dfs: the cycles through start that avoid the nodes visited before it.
RECURSIVE dfs(_, _, _, _, _)
dfs(start, current, pathNodes, pathEdges, visited) ==
  IF tooLong(pathNodes) THEN {}
  ELSE LET nodes == Append(pathNodes, current)
           open == {i \in edgesOf(current) : ratings[i].target \notin visited} IN
       {Append(pathEdges, i) : i \in {j \in open : ratings[j].target = start}}
         \cup UNION {dfs(start, ratings[i].target, nodes, Append(pathEdges, i), visited) :
                       i \in {j \in open : ratings[j].target \notin ToSet(nodes) \cup {start}}}

\* A cycle is a sequence of ratings; averages are compared as sums.
heavyEnough(cycle) ==
  LET total == FoldSeq(LAMBDA i, s : s + ratings[i].weight, 0, cycle) IN
  total >= Len(cycle) * IF Len(cycle) = 2 THEN symmetricRatingThreshold ELSE minCycleWeight

detectCycles ==
  {c \in UNION {dfs(keys[k], keys[k], << >>, << >>, ToSet(SubSeq(keys, 1, k - 1))) : k \in DOMAIN keys} :
     heavyEnough(c)}

-----------------------------------------------------------------------------
tick ==
  /\ now < MaxTime /\ now' = now + 1
  /\ UNCHANGED <<ops, registry, screening, detector, ratings>>

Next ==
  \/ \E v \in Versions, w \in {1, BUCKET_SPACE + 1} : registerModel(v, w)
  \/ \E p \in Promotions : promoteLogged(p) \/ \E r \in Requests : postPromote(p, r)
  \/ postInitiate \/ postApprove \/ changeFreeze
  \/ \E b \in Bookings :
       \/ \E s \in Signals, token \in {None} \cup DOMAIN challenges \cup ToSet(passed) : antiFraudScoring(b, s, token)
       \/ \E fresh \in BOOLEAN : resolveChallengeRetry(b, fresh)
       \/ \E n \in 0..2 : enqueueHitlReviewForIntent(b, n)
  \/ postDecision
  \/ \E v \in Versions : recordFraudScore(v) \/ clearBaseline(v) \/ clearFraudDriftState(v)
                          \/ \E n \in {0, 1} : setFraudScoreBaseline(v, n)
  \/ driftTimer
  \/ \E source, target \in Nodes, weight \in Weights : addRating(source, target, weight)
  \/ tick

Spec == Init /\ [][Next]_vars

-----------------------------------------------------------------------------
\* Of the buckets every version of the active snapshot gets as many as
\* its weight says, and a tenant never reaches a version without traffic.
TrafficFollowsWeights ==
  snapshot.id # 0 =>
    /\ LET cumulative == buildCumulative(snapshot.weights)
           routed == [b \in 0..(BUCKET_SPACE - 1) |-> cellOf(b, cumulative, versionsOf(snapshot))] IN
       \A v \in DOMAIN snapshot.weights :
         Cardinality({b \in DOMAIN routed : routed[b] = v}) = snapshot.weights[v]
    /\ \A t \in Tenants : routeRequest(t, snapshot) \in versionsOf(snapshot)
    /\ pickDefaultVersion(snapshot.weights) \in versionsOf(snapshot)

\* The active snapshot is the newest entry of the history, the history is the
\* run of the latest promotions, and an override that was active before the
\* latest promotion and is not any more was reported.
HistoryIsTrue ==
  history # << >> =>
    LET n == Cardinality(DOMAIN requestOf)
        before == IF n > 1 THEN buildSnapshot(requestOf[n - 1], n - 1) ELSE NoSnapshot IN
    /\ snapshot = buildSnapshot(history[1].request, n)
    /\ \A i \in DOMAIN history : history[i] = [id |-> n + 1 - i, request |-> requestOf[n + 1 - i]]
    /\ removed = {t \in DOMAIN before.overrides : Get(snapshot.overrides, t) # before.overrides[t]}

\* A rollback request is applied once, and what it makes active is the routing
\* of its target snapshot, whatever was promoted in between.
RollbackRestores ==
  /\ \A r \in rollbacks : \A id \in r.restored : requestOf[id] = requestOf[r.target]
  /\ \A r, s \in rollbacks : r.id = s.id => r = s

\* A challenge lets one request through even when retries overlap, the velocity
\* of an actor is the number of calls of the last window, and every decided
\* review item has exactly one labelled outcome.
ScreeningSound ==
  /\ \A i, j \in DOMAIN passed : passed[i] = passed[j] => i = j
  /\ \A a \in DOMAIN windows :
       Len(windows[a]) = Cardinality({i \in DOMAIN calls : /\ calls[i].actor = a
                                                           /\ Last(windows[a]) - calls[i].at <= WindowMs})
  /\ \A i \in DOMAIN queue :
       LET outcomes == SelectSeq(featureStoreLog, LAMBDA e : e[1] = i) IN
       IF queue[i] = "pending" THEN outcomes = << >> ELSE outcomes = << <<i, queue[i]>> >>

\* Every breach a check finds was alarmed with its own severity within the
\* cooldown, two alarms of a kind are a cooldown apart, and the number of
\* versions with scores stays bounded.
AlarmsSound ==
  /\ \A x \in alarms : \E y \in alarms :
       y.sent /\ y.breach = x.breach /\ y.at <= x.at /\ (x.at - y.at < FlapCooldown \/ x = y)
  /\ \A x, y \in alarms : x.sent /\ y.sent /\ x.breach = y.breach /\ x.at < y.at
                            => y.at - x.at >= FlapCooldown
  /\ Cardinality(DOMAIN live) <= MAX_MODEL_VERSIONS + 1

\* The cycles found are exactly the simple cycles of at most maxCycleLength
\* ratings that are heavy enough, each of them once, from its oldest source.
CyclesAreComplete ==
  LET n == Len(ratings)
      walks == UNION {[1..k -> 1..n] : k \in 1..maxCycleLength}
      next(c, i) == c[IF i = Len(c) THEN 1 ELSE i + 1]
      age(i) == CHOOSE k \in DOMAIN keys : keys[k] = ratings[i].source IN
  detectCycles = {c \in walks :
    /\ \A i \in DOMAIN c : ratings[c[i]].target = ratings[next(c, i)].source
    /\ \A i, j \in DOMAIN c : i # j => ratings[c[i]].source # ratings[c[j]].source
    /\ \A i \in DOMAIN c : age(c[1]) <= age(c[i])
    /\ heavyEnough(c)}

\* What the anti-fraud services promise together.
FraudSound ==
  /\ TrafficFollowsWeights /\ HistoryIsTrue /\ RollbackRestores
  /\ ScreeningSound /\ AlarmsSound /\ CyclesAreComplete
=============================================================================
