----------------------------- MODULE Credentials ----------------------------
(***************************************************************************)
(* Second factors, sign-in through a provider, the minting of time tokens  *)
(* and the revocation of signing keys:                                     *)
(*   "mfa"     enrolment, one-time codes, the lock-out after failures and  *)
(*             the challenge that protected routes ask for;                *)
(*   "oauth"   the cookies of a browser between start and callback;        *)
(*   "mint"    one token per intent under a lock per supplier, sent        *)
(*             through the contract service and its health tiers;          *)
(*   "revoke"  broadcast, acknowledgement and alarm.                       *)
(*                                                                         *)
(* External: the row of mfa_enrollments (each query one step), the         *)
(* provider's endpoints, Horizon, Redis pub/sub.  A secret is a number, a  *)
(* code the pair of secret and period; nobody finds one by chance.         *)
(***************************************************************************)
EXTENDS Integers, Sequences, FiniteSets, SequencesExt, FiniteSetsExt

CONSTANTS
  Ops, MayOverlap, MayFail, MayCrash,
  Calls,                                    \* overlapping requests
  windowPeriods, maxFailedAttempts, lockoutDuration, freshness, challengeTtl,
  MaxSecrets,
  Oidc,                                     \* the provider signs id tokens
  MaxFlows,
  Intents, SupplierOf, Keys,                \* Keys: issuer keys given as option, "" for none
  Amounts, maxUnits,
  probeWindowSize, minProbeSamples, failureThreshold, circuitOpenDuration,
  Replicas, threshold,                      \* threshold in percent
  alarmWindow, ackTtl,
  MaxTime, MaxOps

VARIABLES
  ops, time, pc,
  row, code, challenge, used, guard,
  cookies, flows, issued,
  intent, locks, minted, health,
  revoked, bus, acks, alarm

mfaVars == <<row, code, challenge, used, guard>>
oauthVars == <<cookies, flows, issued>>
mintVars == <<intent, locks, minted, health>>
revokeVars == <<revoked, bus, acks, alarm>>
vars == <<ops, time, pc, mfaVars, oauthVars, mintVars, revokeVars>>

NoRow == [secret |-> 0, verified |-> FALSE, counter |-> -1, failed |-> 0, until |-> -1]
NoPc == [at |-> "idle"]
NoCookies == [state |-> 0, pkce |-> 0, nonce |-> 0, redirect |-> 0]

Init ==
  /\ ops = 0 /\ time = 0 /\ pc = [c \in Calls |-> NoPc]
  /\ row = NoRow /\ code = 0 /\ challenge = {} /\ used = {}
  /\ guard = [twice |-> FALSE, unproven |-> FALSE, locked |-> FALSE, fails |-> 0, end |-> -1, stale |-> FALSE]
  /\ cookies = NoCookies /\ flows = << >> /\ issued = {}
  /\ intent = [i \in Intents |-> [minted |-> FALSE, units |-> 0]] /\ locks = << >>
  /\ minted = [i \in Intents |-> [units |-> 0, unsaved |-> 0]]
  /\ health = [samples |-> << >>, consecutive |-> 0, open |-> 0]
  /\ revoked = [r \in Replicas |-> FALSE] /\ bus = {}
  /\ acks = [by |-> {}, ttl |-> 0] /\ alarm = [timer |-> 0, raised |-> FALSE, seen |-> {}, silent |-> FALSE]

Op(name) == name \in Ops /\ ops < MaxOps /\ ops' = ops + 1
Idle(c) == pc[c].at = "idle" /\ (MayOverlap \/ \A d \in Calls : pc[d].at = "idle")
Go(c, x) == pc' = [pc EXCEPT ![c] = x]
At(c, l) == pc[c].at = l
To(c, l) == pc' = [pc EXCEPT ![c].at = l]
Done(c) == Go(c, NoPc)

-----------------------------------------------------------------------------
(* Second factors.                                                         *)

\* enroll: a verified enrolment is a conflict; the row is read before the
\* new secret is stored.
enroll(c) ==
  /\ Idle(c) /\ code < MaxSecrets /\ Op("mfa")
  /\ IF row.verified THEN Done(c) ELSE Go(c, [at |-> "upsert"])
  /\ UNCHANGED <<time, mfaVars, oauthVars, mintVars, revokeVars>>

upsertEnrollment(c) ==
  /\ At(c, "upsert") /\ code < MaxSecrets
  /\ code' = code + 1 /\ row' = [NoRow EXCEPT !.secret = code + 1]
  /\ guard' = [guard EXCEPT !.fails = 0, !.end = -1]
  /\ Done(c)
  /\ UNCHANGED <<ops, time, challenge, used, oauthVars, mintVars, revokeVars>>

Codes == {[secret |-> 0, step |-> 0]}
         \cup [secret : 1 .. code, step : Max({0, time - windowPeriods - 1}) .. time + windowPeriods]

\* verifyCode: a locked row refuses, an expired lock is cleared and the row
\* read again.
verifyCode(c, x) ==
  /\ Idle(c) /\ Op("mfa") /\ row.secret # 0
  /\ IF row.until > time THEN Done(c)
     ELSE Go(c, [at |-> IF row.until # -1 THEN "clear" ELSE "match", code |-> x, now |-> time, row |-> row])
  /\ UNCHANGED <<time, mfaVars, oauthVars, mintVars, revokeVars>>

clearExpiredLockout(c) ==
  /\ At(c, "clear")
  /\ row' = IF row.until # -1 /\ row.until <= pc[c].now THEN [row EXCEPT !.failed = 0, !.until = -1] ELSE row
  /\ guard' = [guard EXCEPT !.fails = 0]
  /\ To(c, "reread")
  /\ UNCHANGED <<ops, time, code, challenge, used, oauthVars, mintVars, revokeVars>>

findAgain(c) ==
  /\ At(c, "reread") /\ Go(c, [pc[c] EXCEPT !.at = "match", !.row = row])
  /\ UNCHANGED <<ops, time, mfaVars, oauthVars, mintVars, revokeVars>>

verifyTotpCode(x, secret, now) ==
  x.secret = secret /\ x.step \in now - windowPeriods .. now + windowPeriods

locksAt(n) == n >= maxFailedAttempts

recordFailedAttempt(c) ==
  LET x == pc[c] IN
  /\ At(c, "match") /\ ~verifyTotpCode(x.code, x.row.secret, x.now)
  /\ row' = [row EXCEPT !.failed = @ + 1,
                        !.until = IF locksAt(row.failed + 1) /\ @ = -1 THEN x.now + lockoutDuration ELSE @]
  /\ guard' = [guard EXCEPT !.fails = Min({maxFailedAttempts, @ + 1}),
                            !.end = IF guard.fails + 1 = maxFailedAttempts THEN x.now + lockoutDuration ELSE @]
  /\ Done(c)
  /\ UNCHANGED <<ops, time, code, challenge, used, oauthVars, mintVars, revokeVars>>

advances(r, step) == r.counter < step

\* The conditional update: refused when the period was used.
advanceLastUsedCounter(c) ==
  LET x == pc[c] IN
  /\ At(c, "match") /\ verifyTotpCode(x.code, x.row.secret, x.now)
  /\ IF advances(row, x.code.step)
     THEN /\ row' = [row EXCEPT !.counter = x.code.step]
          /\ used' = used \cup {x.code}
          /\ guard' = [guard EXCEPT !.twice = @ \/ x.code \in used, !.locked = @ \/ guard.end > x.now]
          /\ To(c, "reset")
     ELSE Done(c) /\ UNCHANGED <<row, used, guard>>
  /\ UNCHANGED <<ops, time, code, challenge, oauthVars, mintVars, revokeVars>>

resetFailedAttempts(c) ==
  /\ At(c, "reset")
  /\ row' = [row EXCEPT !.failed = 0, !.until = -1]
  /\ guard' = [guard EXCEPT !.fails = 0, !.end = -1]
  /\ To(c, IF pc[c].row.verified THEN "issue" ELSE "verified")
  /\ UNCHANGED <<ops, time, code, challenge, used, oauthVars, mintVars, revokeVars>>

markVerified(c) ==
  /\ At(c, "verified")
  /\ row' = [row EXCEPT !.verified = TRUE]
  /\ guard' = [guard EXCEPT !.unproven = @ \/ row.secret # pc[c].code.secret]
  /\ To(c, "issue")
  /\ UNCHANGED <<ops, time, code, challenge, used, oauthVars, mintVars, revokeVars>>

issueChallenge(c) ==
  /\ At(c, "issue")
  /\ challenge' = challenge \cup {pc[c].now} /\ Done(c)
  /\ UNCHANGED <<ops, time, row, code, used, guard, oauthVars, mintVars, revokeVars>>

verifyChallenge(at) == time - at < challengeTtl /\ time - at <= freshness

\* requireFreshMfa in front of a route.
assertFreshMfa(at) ==
  /\ Op("mfa") /\ at \in challenge
  /\ guard' = [guard EXCEPT !.stale = @ \/ (verifyChallenge(at) /\ time - at > freshness)]
  /\ UNCHANGED <<time, pc, row, code, challenge, used, oauthVars, mintVars, revokeVars>>

\* What is left of enroll and of verifyCode after the first query.
enrollContinues(c) == upsertEnrollment(c)
verifyContinues(c) ==
  \/ clearExpiredLockout(c) \/ findAgain(c) \/ recordFailedAttempt(c) \/ advanceLastUsedCounter(c)
  \/ resetFailedAttempts(c) \/ markVerified(c) \/ issueChallenge(c)

postMfaEnroll == \E c \in Calls : enroll(c)
postMfaVerify == \E c \in Calls, x \in Codes : verifyCode(c, x)

-----------------------------------------------------------------------------
(* Sign-in through a provider: one browser, a flow per start.              *)

redirectCookie(f, withRedirect) == IF withRedirect THEN f ELSE 0

getStart(withRedirect) ==
  LET f == Len(flows) + 1 IN
  /\ Len(flows) < MaxFlows /\ Op("oauth")
  /\ flows' = Append(flows, [redirect |-> withRedirect, code |-> "open"])
  /\ cookies' = [state |-> f, pkce |-> f, nonce |-> f, redirect |-> redirectCookie(f, withRedirect)]
  /\ UNCHANGED <<time, pc, mfaVars, issued, mintVars, revokeVars>>

stateMatches(stored, state) == stored # 0 /\ stored = state

\* The cookies travel with the request; a mismatch clears those the browser
\* has by then.
getCallback(c, f) ==
  /\ Idle(c) /\ f \in DOMAIN flows /\ Op("oauth")
  /\ IF stateMatches(cookies.state, f) /\ cookies.pkce # 0
     THEN Go(c, [at |-> "exchange", flow |-> f, jar |-> cookies]) /\ UNCHANGED cookies
     ELSE Done(c) /\ cookies' = NoCookies
  /\ UNCHANGED <<time, mfaVars, flows, issued, mintVars, revokeVars>>

verifyNonce(stored, ofToken) == stored = ofToken

\* The provider redeems a code once; one that signs id tokens also checks
\* the verifier.
exchangeCodeForToken(c) ==
  LET x == pc[c] IN
  /\ At(c, "exchange")
  /\ IF flows[x.flow].code = "open" /\ (Oidc => x.jar.pkce = x.flow)
     THEN /\ flows' = [flows EXCEPT ![x.flow].code = "redeemed"]
          /\ IF Oidc => (x.jar.nonce # 0 /\ verifyNonce(x.jar.nonce, x.flow))
             THEN To(c, "userinfo") /\ UNCHANGED cookies
             ELSE Done(c) /\ cookies' = NoCookies
     ELSE Done(c) /\ cookies' = NoCookies /\ UNCHANGED flows
  /\ UNCHANGED <<ops, time, mfaVars, issued, mintVars, revokeVars>>

\* The user's data is fetched, the application's token signed, the cookies
\* cleared.
fetchUserInfo(c, ok) ==
  LET x == pc[c] IN
  /\ At(c, "userinfo") /\ (ok \/ MayFail)
  /\ issued' = IF ok THEN issued \cup {[flow |-> x.flow, jar |-> x.jar]} ELSE issued
  /\ cookies' = NoCookies /\ Done(c)
  /\ UNCHANGED <<ops, time, mfaVars, flows, mintVars, revokeVars>>

\* The callback after its checks of the cookies.
callbackContinues(c) == exchangeCodeForToken(c) \/ \E ok \in BOOLEAN : fetchUserInfo(c, ok)

-----------------------------------------------------------------------------
(* Time tokens.                                                            *)

issuerKey(i, key) == IF key = "" THEN SupplierOf[i] ELSE key

\* The ticket in the promise chain of the key.
mintTimeToken(c, i, key, amount) ==
  /\ pc[c].at = "idle" /\ Op("mint")
  /\ Go(c, [at |-> "lock", intent |-> i, key |-> issuerKey(i, key), amount |-> amount])
  /\ locks' = Append(locks, [by |-> c, key |-> issuerKey(i, key)])
  /\ UNCHANGED <<time, mfaVars, oauthVars, intent, minted, health, revokeVars>>

\* Mutant: nobody waits.
acquiredAtOnce(c) == TRUE

acquired(c) == \A k \in DOMAIN locks : locks[k].by = c \/ locks[k].key # pc[c].key
                                       \/ \E j \in 1 .. k - 1 : locks[j].by = c

releaseLock(c) == SelectSeq(locks, LAMBDA l : l.by # c)
MintEnds(c) == Done(c) /\ locks' = releaseLock(c)

\* Under the lock: the intent is read again, a minted one answered.
acquireSupplierLock(c) ==
  /\ At(c, "lock") /\ acquired(c)
  /\ IF intent[pc[c].intent].minted THEN MintEnds(c) ELSE To(c, "limit") /\ UNCHANGED locks
  /\ UNCHANGED <<ops, time, mfaVars, oauthVars, intent, minted, health, revokeVars>>

\* The amount minted for an intent is not stored with it: each counts as one.
issuedUnits(key) == Cardinality({i \in Intents : SupplierOf[i] = key /\ intent[i].minted})

exceeds(c) == issuedUnits(pc[c].key) + pc[c].amount > maxUnits

checkLimit(c) ==
  /\ At(c, "limit")
  /\ IF exceeds(c) THEN MintEnds(c) ELSE To(c, "send") /\ UNCHANGED locks
  /\ UNCHANGED <<ops, time, mfaVars, oauthVars, intent, minted, health, revokeVars>>

calculateErrorRate(s) == IF s = << >> THEN 0 ELSE (100 * Len(SelectSeq(s, LAMBDA ok : ~ok))) \div Len(s)

\* getHealthStatus.
tier == IF health.open > 0 THEN "unavailable"
        ELSE IF Len(health.samples) >= minProbeSamples /\ calculateErrorRate(health.samples) >= 50 THEN "degraded"
        ELSE "normal"

\* recordSuccess, recordFailure and addProbeSample.
recorded(ok) ==
  LET s == Append(health.samples, ok)
      n == IF ok THEN 0 ELSE Min({failureThreshold, health.consecutive + 1}) IN
  [samples |-> IF Len(s) > probeWindowSize THEN Tail(s) ELSE s, consecutive |-> n,
   open |-> IF ~ok /\ n >= failureThreshold THEN circuitOpenDuration ELSE health.open]

\* sendTransaction: refused unless the tier is normal.  A call that is lost
\* on its way back is repeated by the retry policy.
sendTransaction(c, outcome) ==
  /\ At(c, "send") /\ (outcome = "ok" \/ MayFail)
  /\ IF tier # "normal" THEN MintEnds(c) /\ UNCHANGED <<minted, health>>
     ELSE /\ health' = recorded(outcome = "ok")
          /\ IF outcome = "ok"
             THEN minted' = [minted EXCEPT ![pc[c].intent].units = @ + pc[c].amount] /\ To(c, "store") /\ UNCHANGED locks
             ELSE MintEnds(c) /\ UNCHANGED minted
  /\ UNCHANGED <<ops, time, mfaVars, oauthVars, intent, revokeVars>>

\* The token is recorded with its intent, or the write throws: the caller sees a
\* failure, and the intent looks like one that was never minted.
updateTokenInfo(c, ok) ==
  LET i == pc[c].intent IN
  /\ At(c, "store") /\ (ok \/ MayFail)
  /\ IF ok THEN intent' = [intent EXCEPT ![i] = [minted |-> TRUE, units |-> pc[c].amount]] /\ UNCHANGED minted
     ELSE minted' = [minted EXCEPT ![i].unsaved = @ + pc[c].amount] /\ UNCHANGED intent
  /\ MintEnds(c)
  /\ UNCHANGED <<ops, time, mfaVars, oauthVars, health, revokeVars>>

\* A read through the contract service.
call(ok) ==
  /\ "mint" \in Ops /\ health.open = 0 /\ (ok \/ (MayFail /\ ops < MaxOps))
  /\ ops' = IF ok THEN ops ELSE ops + 1
  /\ health' = recorded(ok)
  /\ UNCHANGED <<time, pc, mfaVars, oauthVars, intent, locks, minted, revokeVars>>

-----------------------------------------------------------------------------
(* The revocation of a signing key.                                        *)

\* What rejectRevokedKey asks of its replica.
isRevoked(r) == revoked[r]

\* Broadcast to the replicas subscribed now, then trackRevocation: one timer
\* per key.
revoke(reached) ==
  /\ Op("revoke") /\ (MayFail \/ reached = Replicas)
  /\ bus' = bus \cup {[kind |-> "revoke", to |-> r] : r \in reached}
  /\ alarm' = IF alarm.timer > 0 THEN alarm
              ELSE [timer |-> alarmWindow, raised |-> FALSE, seen |-> {r \in Replicas : isRevoked(r)}, silent |-> FALSE]
  /\ UNCHANGED <<time, pc, mfaVars, oauthVars, mintVars, revoked, acks>>

\* _handleMessage: the key is refused from here on and an ack published,
\* which may get lost.
handleMessage(r, acked) ==
  LET m == [kind |-> "revoke", to |-> r] IN
  /\ m \in bus /\ (acked \/ MayFail)
  /\ revoked' = [revoked EXCEPT ![r] = TRUE]
  /\ alarm' = [alarm EXCEPT !.seen = @ \cup {r}]
  /\ bus' = (bus \ {m}) \cup (IF acked THEN {[kind |-> "ack", to |-> r]} ELSE {})
  /\ UNCHANGED <<ops, time, pc, mfaVars, oauthVars, mintVars, acks>>

recordAck(r) ==
  LET m == [kind |-> "ack", to |-> r] IN
  /\ m \in bus /\ bus' = bus \ {m}
  /\ acks' = [by |-> acks.by \cup {r}, ttl |-> ackTtl]
  /\ UNCHANGED <<ops, time, pc, mfaVars, oauthVars, mintVars, revoked, alarm>>

getAckRate == (100 * Cardinality(acks.by)) \div Cardinality(Replicas)

\* _checkAckRate at the end of the window.
checkAckRate ==
  /\ alarm.timer = 1
  /\ alarm' = [alarm EXCEPT !.timer = 0, !.raised = getAckRate < threshold, !.silent = getAckRate >= threshold]
  /\ UNCHANGED <<ops, time, pc, mfaVars, oauthVars, mintVars, revoked, bus, acks>>

\* A replica starts again with no revoked key.
Restart(r) ==
  /\ MayCrash /\ Op("revoke") /\ revoked' = [revoked EXCEPT ![r] = FALSE]
  /\ UNCHANGED <<time, pc, mfaVars, oauthVars, mintVars, bus, acks, alarm>>

-----------------------------------------------------------------------------

Tick ==
  /\ time < MaxTime /\ time' = time + 1 /\ (alarm.timer # 1)
  /\ health' = [health EXCEPT !.open = Max({0, @ - 1})]
  /\ alarm' = [alarm EXCEPT !.timer = Max({0, @ - 1})]
  /\ acks' = IF acks.ttl <= 1 THEN [by |-> {}, ttl |-> 0] ELSE [acks EXCEPT !.ttl = @ - 1]
  /\ UNCHANGED <<ops, pc, mfaVars, oauthVars, intent, locks, minted, revoked, bus>>

\* With no bound on time: the circuit closes.
Later ==
  /\ MaxTime = 0 /\ health.open > 0 /\ health' = [health EXCEPT !.open = @ - 1]
  /\ UNCHANGED <<ops, time, pc, mfaVars, oauthVars, intent, locks, minted, revokeVars>>

MintStep(c) ==
  acquireSupplierLock(c) \/ checkLimit(c) \/ (\E ok \in BOOLEAN : updateTokenInfo(c, ok))
  \/ \E o \in {"ok", "fail"} : sendTransaction(c, o)

Next ==
  \/ postMfaEnroll \/ postMfaVerify
  \/ \E c \in Calls : enrollContinues(c) \/ verifyContinues(c) \/ callbackContinues(c)
  \/ \E at \in challenge : assertFreshMfa(at)
  \/ \E b \in BOOLEAN : getStart(b)
  \/ \E c \in Calls, f \in 1 .. MaxFlows : getCallback(c, f)
  \/ \E c \in Calls, i \in Intents, k \in Keys, a \in Amounts : mintTimeToken(c, i, k, a)
  \/ \E c \in Calls : MintStep(c)
  \/ \E ok \in BOOLEAN : call(ok)
  \/ \E reached \in SUBSET Replicas : revoke(reached)
  \/ \E r \in Replicas : recordAck(r) \/ Restart(r) \/ \E acked \in BOOLEAN : handleMessage(r, acked)
  \/ checkAckRate
  \/ Tick \/ Later

Spec == Init /\ [][Next]_vars

\* The event loop runs what is ready, the circuit's time passes, and reads
\* that succeed go on.
FairSpec == Spec /\ (\A c \in Calls : WF_vars(MintStep(c))) /\ WF_vars(Later) /\ WF_vars(call(TRUE))

-----------------------------------------------------------------------------

\* A code is accepted once, however requests overlap, while no enrolment is
\* replaced between them; in turn, a verified secret was proved by a code of its
\* own, and none is accepted during the lock-out after maxFailedAttempts.  A
\* challenge admits within its freshness only.
SecondFactorSound ==
  /\ ~guard.twice /\ ~guard.stale
  /\ ~MayOverlap => ~guard.unproven /\ ~guard.locked

\* A token of the application is issued for the flow whose cookies the browser
\* held, with the redirect of that flow.
SignInIsOwn ==
  \A x \in issued : /\ x.jar.state = x.flow /\ x.jar.nonce = x.flow
                    /\ x.jar.redirect = IF flows[x.flow].redirect THEN x.flow ELSE 0

\* However calls overlap, a token is minted once for an intent and a supplier's
\* tokens stay within the limit, for amounts of one and calls that name the
\* supplier alike.  A mint whose record failed after it was sent
\* (tokenService.ts:275-281) is not known to the next call, which mints again,
\* although the service is documented as idempotent (tokenService.ts:84): every
\* further mint is owed to one such write.
MintedOnce ==
  LET Total(S, of(_)) == FoldSet(LAMBDA j, n : n + of(j), 0, S)
      Units(i) == minted[i].units
      Unsaved(i) == minted[i].unsaved
      Siblings(i) == {j \in Intents : SupplierOf[j] = SupplierOf[i]} IN
  (Amounts = {1} /\ Cardinality(Keys) = 1) =>
    \A i \in Intents : /\ Units(i) <= 1 + Unsaved(i)
                       /\ Total(Siblings(i), Units) <= maxUnits + Total(Siblings(i), Unsaved)

\* A window that ends without an alarm had the threshold of replicas refuse
\* the key, though messages and acks get lost, unless replicas start again.
SilenceMeansRevoked ==
  ~MayCrash /\ alarm.silent => 100 * Cardinality(alarm.seen) >= threshold * Cardinality(Replicas)

\* Codes, sign-ins, tokens and revocations are sound.
CredentialsSound == SecondFactorSound /\ SignInIsOwn /\ MintedOnce /\ SilenceMeansRevoked

=============================================================================
