-------------------------- MODULE CheckoutSessions --------------------------
(***************************************************************************)
(* Checkout sessions: the service, its compare-and-set on the session row  *)
(* and the payment provider it calls in the middle of a request.           *)
(*                                                                         *)
(* Every operation first runs getSession, which turns a pending session    *)
(* that is past its expiry into an expired one, and later writes with      *)
(* UPDATE ... WHERE status = expected.  Paying reads, charges, and then    *)
(* runs completeSession or failSession, which read again.                  *)
(***************************************************************************)
EXTENDS Integers, FiniteSets, FiniteSetTheorems, TLAPS

CONSTANTS
  Sessions,    \* checkout sessions
  Requests,    \* calls made to the service, each made at most once
  NoRequest,   \* no request: a column that is null
  Ops,         \* the operations these calls may be
  TTL,         \* SESSION_TTL_SECONDS
  MaxTime,     \* bound on the clock
  MayFail      \* the provider, the path quote or the database may throw

AllOps == {"create", "get", "complete", "fail", "cancel", "pay", "refund"}

\* Routes that read the session to compare its customer with the caller before
\* they call the service, which reads it again.
OwnerOps == {"get", "cancel", "pay"}

ASSUME RequestsAssumption == Sessions # {} /\ NoRequest \notin Requests
ASSUME OpsAssumption == Ops \subseteq AllOps
ASSUME TimeAssumption == TTL \in Nat /\ MaxTime \in Nat
ASSUME SwitchAssumption == MayFail \in BOOLEAN

Outcomes == {"completed", "failed", "cancelled", "expired"}
Statuses == {"absent", "pending"} \cup Outcomes

VARIABLES
  status,     \* the status column of each session
  expiresAt,  \* its expires_at
  token,      \* its payment_token: the request whose charge or callback set it
  quote,      \* lastPartialRefundQuoteId in its metadata
  pc,         \* where each request is
  req,        \* what each request carries between its awaits
  answer,     \* how each request was answered
  now,        \* the clock, in seconds
  charged,    \* the requests whose charge the provider accepted (history)
  inTurn,     \* no call has arrived while another one on its session was in
              \* flight (history)
  thrown      \* a call out of the service has thrown (history)

vars == <<status, expiresAt, token, quote, pc, req, answer, now, charged, inTurn, thrown>>

row == <<status, expiresAt, token, quote>>

Steps == {"new", "read", "charge", "quote", "update", "done"}
Answers == {"none", "ok", "conflict", "gone", "forbidden", "error"}

\* ask is the operation the caller asked for and op the one under way: paying
\* turns into completing or failing, and "owner" is the route's own read; late is 1 once a read has found the
\* session past its expiry.
Carried == [session : Sessions, ask : AllOps, op : AllOps \cup {"owner"}, expect : Statuses, to : Statuses,
            late : {0, 1}]

Idle == [session |-> CHOOSE s \in Sessions : TRUE, ask |-> "get",
         op |-> "get", expect |-> "pending", to |-> "pending", late |-> 0]

Init ==
  /\ status = [s \in Sessions |-> "absent"]
  /\ expiresAt = [s \in Sessions |-> 0]
  /\ token = [s \in Sessions |-> NoRequest]
  /\ quote = [s \in Sessions |-> NoRequest]
  /\ pc = [r \in Requests |-> "new"]
  /\ req = [r \in Requests |-> Idle]
  /\ answer = [r \in Requests |-> "none"]
  /\ now = 0
  /\ charged = {}
  /\ inTurn = TRUE /\ thrown = FALSE

-----------------------------------------------------------------------------
InFlight(r) == pc[r] \notin {"new", "done"}

Goto(r, step) == pc' = [pc EXCEPT ![r] = step]

Reply(r, a) ==
  /\ Goto(r, "done")
  /\ answer' = [answer EXCEPT ![r] = a]

\* createSession: one insert.
createSession(r, s) ==
  /\ "create" \in Ops /\ pc[r] = "new"
  /\ status[s] = "absent"
  /\ status' = [status EXCEPT ![s] = "pending"]
  /\ expiresAt' = [expiresAt EXCEPT ![s] = now + TTL]
  /\ Reply(r, "ok")
  /\ UNCHANGED <<token, quote, req, now, charged, inTurn, thrown>>

\* A call on an existing session arrives.
arrive(r, s, op) ==
  /\ op \in Ops \ {"create"} /\ pc[r] = "new"
  /\ status[s] # "absent"
  /\ inTurn' = (inTurn /\ \A q \in Requests : InFlight(q) => req[q].session # s)
  /\ Goto(r, "read")
  /\ req' = [req EXCEPT ![r].session = s, ![r].ask = op, ![r].op = IF op \in OwnerOps THEN "owner" ELSE op]
  /\ UNCHANGED <<row, answer, now, charged, thrown>>

\* The routes, and the service call for a partial refund.
postSessions(r, s) == createSession(r, s)
getSessionRoute(r, s) == arrive(r, s, "get")
postComplete(r, s) == arrive(r, s, "complete")
postPay(r, s) == arrive(r, s, "pay")
postFail(r, s) == arrive(r, s, "fail")
postCancel(r, s) == arrive(r, s, "cancel")
partialRefund(r, s) == arrive(r, s, "refund")

PastExpiry(s) == now > expiresAt[s]

\* The status an operation asks for before it goes on, and where it goes.
Required(op) == IF op = "refund" THEN "completed" ELSE "pending"

Admits(op, st) == st = Required(op)

NextStep(op) ==
  CASE op = "pay" -> "charge" [] op = "refund" -> "quote" [] OTHER -> "update"

Target(op) ==
  CASE op = "complete" -> "completed"
    [] op = "fail" -> "failed"
    [] op = "cancel" -> "cancelled"
    [] op = "refund" -> "completed"
    [] OTHER -> "pending"

Carry(r, expect, to, late) ==
  req' = [req EXCEPT ![r] = [@ EXCEPT !.expect = expect, !.to = to, !.late = late]]

\* The caller of a route is the customer or an administrator, or is refused.
assertOwnerOrAdmin(r) ==
  \/ Reply(r, "forbidden") /\ UNCHANGED req
  \/ req[r].ask = "get" /\ Reply(r, "ok") /\ req' = [req EXCEPT ![r].op = "get"]
  \/ /\ req[r].ask # "get" /\ Goto(r, "read") /\ req' = [req EXCEPT ![r].op = req[r].ask]
     /\ UNCHANGED answer

\* The check that follows getSession in every operation.
Proceed(r, op, st) ==
  \/ op = "owner" /\ assertOwnerOrAdmin(r)
  \/ /\ op # "owner" /\ Admits(op, st)
     /\ Goto(r, NextStep(op))
     /\ Carry(r, Required(op), Target(op), 0)
     /\ UNCHANGED answer
  \/ op # "owner" /\ ~Admits(op, st) /\ Reply(r, "conflict") /\ UNCHANGED req

\* getSession: a pending session past its expiry is first written as expired.
getSession(r) ==
  LET s == req[r].session
      expires == status[s] = "pending" /\ PastExpiry(s)
  IN
  /\ pc[r] = "read"
  /\ \/ /\ expires
        /\ Goto(r, "update") /\ Carry(r, "pending", "expired", 1)
        /\ UNCHANGED answer
     \/ status[s] = "expired" /\ Reply(r, "gone") /\ UNCHANGED req
     \/ ~expires /\ status[s] # "expired" /\ Proceed(r, req[r].op, status[s])
  /\ UNCHANGED <<row, now, charged, inTurn, thrown>>

\* Mutant: the two answers of the provider are swapped.
chargeSwapped(r) ==
  /\ pc[r] = "charge"
  /\ Goto(r, "read")
  /\ \/ req' = [req EXCEPT ![r].op = "fail"] /\ charged' = charged \cup {r}
     \/ req' = [req EXCEPT ![r].op = "complete"] /\ UNCHANGED charged
  /\ UNCHANGED <<row, answer, now, inTurn, thrown>>

\* The provider answers; what follows reads the session again.
charge(r) ==
  /\ pc[r] = "charge"
  /\ Goto(r, "read")
  /\ \/ /\ req' = [req EXCEPT ![r].op = "complete"]
        /\ charged' = charged \cup {r}
     \/ /\ req' = [req EXCEPT ![r].op = "fail"]
        /\ UNCHANGED charged
  /\ UNCHANGED <<row, answer, now, inTurn, thrown>>

\* findPathPaymentQuote.
findPathPaymentQuote(r) ==
  /\ pc[r] = "quote"
  /\ Goto(r, "update")
  /\ UNCHANGED <<row, req, answer, now, charged, inTurn, thrown>>

\* Mutant: the update does not compare the status.
UnchangedSinceIgnored(r) == TRUE

\* Mutant: only the lazy expiry writes without comparing.
UnchangedSinceOrExpiring(r) ==
  req[r].to = "expired" \/ status[req[r].session] = req[r].expect

\* WHERE id = $1 AND status = $6.
UnchangedSince(r) == status[req[r].session] = req[r].expect

Answer(to) == IF to = "expired" THEN "gone" ELSE "ok"

\* updateSession and the answer that follows it.
updateSession(r) ==
  LET s == req[r].session
      c == req[r]
  IN
  /\ pc[r] = "update"
  /\ IF UnchangedSince(r)
     THEN /\ status' = [status EXCEPT ![s] = c.to]
          /\ token' = IF c.op = "complete" /\ c.to = "completed"
                      THEN [token EXCEPT ![s] = r] ELSE token
          /\ quote' = IF c.op = "refund" /\ c.to = "completed"
                      THEN [quote EXCEPT ![s] = r] ELSE quote
          /\ Reply(r, Answer(c.to))
     ELSE Reply(r, "conflict") /\ UNCHANGED <<status, token, quote>>
  /\ UNCHANGED <<expiresAt, req, now, charged, inTurn, thrown>>

\* A call out of the service throws; the charge may have been accepted.
callFails(r) ==
  /\ MayFail
  /\ pc[r] \in {"read", "charge", "quote", "update"}
  /\ Reply(r, "error")
  /\ \/ UNCHANGED charged
     \/ pc[r] = "charge" /\ charged' = charged \cup {r}
  /\ thrown' = TRUE
  /\ UNCHANGED <<row, req, now, inTurn>>

Tick ==
  /\ now < MaxTime
  /\ now' = now + 1
  /\ UNCHANGED <<row, pc, req, answer, charged, inTurn, thrown>>

\* Nothing is in flight: the service waits for the next call.
Rest == (\A r \in Requests : ~InFlight(r)) /\ UNCHANGED vars

Next ==
  \/ \E r \in Requests, s \in Sessions :
       \/ postSessions(r, s) \/ getSessionRoute(r, s) \/ postComplete(r, s) \/ postPay(r, s)
       \/ postFail(r, s) \/ postCancel(r, s) \/ partialRefund(r, s)
  \/ \E r \in Requests :
       getSession(r) \/ charge(r) \/ findPathPaymentQuote(r) \/ updateSession(r)
       \/ callFails(r)
  \/ Tick
  \/ Rest

Spec == Init /\ [][Next]_vars

-----------------------------------------------------------------------------
\* TypeOK: the session rows and what the requests carry keep their types.
TypeOK ==
  /\ status \in [Sessions -> Statuses]
  /\ expiresAt \in [Sessions -> Nat]
  /\ token \in [Sessions -> Requests \cup {NoRequest}]
  /\ quote \in [Sessions -> Requests \cup {NoRequest}]
  /\ pc \in [Requests -> Steps]
  /\ req \in [Requests -> Carried]
  /\ answer \in [Requests -> Answers]
  /\ now \in Nat
  /\ charged \subseteq Requests

\* OneOutcome: a session that has left pending keeps its outcome, whatever
\* requests, provider callbacks and lazy expiries race for it (the compare
\* in updateSession; CHECKOUT_API.md: no further transitions).
OneOutcome ==
  [][\A s \in Sessions : status[s] \in Outcomes => status'[s] = status[s]]_vars

\* CompletedIsBacked: a completed session names the request that completed it,
\* and if that request was a payment the provider accepted its charge; only
\* completed sessions carry a refund quote (paySession, completeSession,
\* processPartialRefundPathPayment).
CompletedIsBacked ==
  \A s \in Sessions :
    /\ status[s] = "completed" <=> token[s] # NoRequest
    /\ quote[s] # NoRequest => status[s] = "completed"
    /\ \A r \in Requests :
         token[s] = r /\ req[r].ask = "pay" => r \in charged

\* OneWinner: of the callers who ask for an outcome of a session at most one is
\* told that it succeeded (the 409 for the losers of updateSession).
OneWinner ==
  LET won(r) == answer[r] = "ok" /\ req[r].op \in {"complete", "fail", "cancel"}
  IN  \A q, r \in Requests :
        won(q) /\ won(r) /\ req[q].session = req[r].session => q = r

\* SessionsSound: of all calls that end a session one has won, and a completed
\* session has a charge that the provider accepted, however the calls overlap,
\* throw and meet the expiry (updateSession's compare, paySession).
SessionsSound == TypeOK /\ CompletedIsBacked /\ OneWinner

Quiet(s) == \A r \in Requests : InFlight(r) => req[r].session # s

PaidFor(s) == {r \in charged : req[r].session = s}

\* ChargedAtMostOnce: the provider is charged once for a session; a retried
\* payment is safe (CHECKOUT_API.md, status machine rules).
ChargedAtMostOnce == \A s \in Sessions : Cardinality(PaidFor(s)) <= 1

\* ChargeIsHonoured: when no request is under way, a session that was charged
\* is completed, unless its own payment found it past its expiry after the
\* charge (paySession charges before it moves the session).
ChargeIsHonoured ==
  \A s \in Sessions :
    Quiet(s) /\ PaidFor(s) # {} =>
      status[s] = "completed" \/ \E r \in PaidFor(s) : req[r].late = 1

\* ExpiredIsGone: a read that finds the session past its expiry is answered
\* with 410 (CHECKOUT_API.md: expired sessions return 410).
ExpiredIsGone ==
  \A r \in Requests :
    (req[r].late = 1 /\ answer[r] # "none") => answer[r] \in {"gone", "error"}

\* SerialCallsSound: calls on a session that wait for each other are not served
\* once it has expired; and while nothing throws they charge a session at most
\* once and honour the charge (the steps of paySession around the provider's
\* call).
SerialCallsSound ==
  inTurn => ExpiredIsGone /\ (~thrown => ChargedAtMostOnce /\ ChargeIsHonoured)

-----------------------------------------------------------------------------
(* Theorems, for any sessions, calls, expiry and failures: a session has   *)
(* one outcome, one caller is told that it brought it about, a completed   *)
(* session is paid for, and calls in turn charge it once.                  *)

\* The operations that ask for an outcome.
Enders == {"complete", "fail", "cancel"}

\* What a call is about to do at each of its awaits.
Planned(r) ==
  LET c == req[r] IN
  /\ pc[r] = "new" => c.op = "get" /\ c.ask = "get"
  /\ pc[r] = "read" => c.op \in Enders \cup {"owner", "pay", "refund"}
  /\ c.op = "owner" => c.ask \in OwnerOps
  /\ pc[r] = "charge" => c.op = "pay"
  /\ pc[r] = "quote" => c.op = "refund" /\ c.expect = "completed" /\ c.to = "completed"
  /\ pc[r] = "update" =>
       \/ c.to = "expired" /\ c.expect = "pending"
       \/ c.op = "refund" /\ c.expect = "completed" /\ c.to = "completed"
       \/ c.op \in Enders /\ c.expect = "pending" /\ c.to = Target(c.op)

\* A call is answered when it is done.
Answered(r) == pc[r] # "done" => answer[r] = "none"

\* A payment completes a session only after the provider has accepted it.
Paid(r) == req[r].ask = "pay" /\ req[r].op = "complete" => r \in charged

\* A token is left by a call that is done.
Signed == \A s \in Sessions, r \in Requests : token[s] = r => pc[r] = "done"

Won(r) == answer[r] = "ok" /\ req[r].op \in Enders

\* A call that has won left its session ended.
Ended(r) == Won(r) => status[req[r].session] \in Outcomes

RaceInv ==
  /\ TypeOK
  /\ \A r \in Requests : Planned(r) /\ Answered(r) /\ Paid(r) /\ Ended(r)
  /\ Signed
  /\ CompletedIsBacked
  /\ OneWinner

-----------------------------------------------------------------------------
\* Most steps need no arithmetic: Zenon is tried first, and SMT on what is left.
USE ZenonT(2), SMTT(15), ZenonT(15)

\* The race has not begun: nothing is paid, answered or ended.
LEMMA InitRace == Init => RaceInv
<1> SUFFICES ASSUME Init PROVE RaceInv
  OBVIOUS
<1> USE RequestsAssumption, TimeAssumption DEF Init
<1>1. Idle \in Carried
  BY DEF Idle, Carried, AllOps, Statuses, Outcomes
<1>2. TypeOK
  BY <1>1 DEF TypeOK, Statuses, Outcomes, Steps, Answers
<1>3. \A r \in Requests : Planned(r) /\ Answered(r) /\ Paid(r) /\ Ended(r)
  BY DEF Planned, Answered, Paid, Ended, Won, Idle, Enders
<1>4. Signed /\ CompletedIsBacked
  BY DEF Signed, CompletedIsBacked
<1>5. OneWinner
  BY DEF OneWinner, Enders
<1> QED BY <1>2, <1>3, <1>4, <1>5 DEF RaceInv

-----------------------------------------------------------------------------
\* A step of one call that leaves the session rows alone.
Local(r) ==
  /\ pc[r] # "done"
  /\ pc' \in [Requests -> Steps] /\ req' \in [Requests -> Carried] /\ answer' \in [Requests -> Answers]
  /\ \A q \in Requests \ {r} : pc'[q] = pc[q] /\ req'[q] = req[q] /\ answer'[q] = answer[q]
  /\ charged' \in {charged, charged \cup {r}}
  /\ UNCHANGED <<row, now>>

\* Such a step keeps the invariant if its call keeps to its plan, is paid, and
\* is not told that it has won.
LEMMA LocalStep ==
  ASSUME RaceInv, NEW r \in Requests, Local(r),
         Planned(r)', Answered(r)', Paid(r)', ~Won(r)'
  PROVE  RaceInv'
<1> USE DEF RaceInv
<1>1. TypeOK'
  BY DEF TypeOK, Local, row
<1>2. \A q \in Requests : Planned(q)' /\ Answered(q)' /\ Paid(q)' /\ Ended(q)'
  <2> SUFFICES ASSUME NEW q \in Requests, q # r
               PROVE  Planned(q)' /\ Answered(q)' /\ Paid(q)' /\ Ended(q)'
    BY DEF Ended
  <2>1. Planned(q)' /\ Answered(q)'
    BY DEF Local, Planned, Answered
  <2>2. Paid(q)'
    BY DEF Local, Paid
  <2>3. Ended(q)'
    BY DEF Local, Ended, Won, row
  <2> QED BY <2>1, <2>2, <2>3
<1>3. Signed'
  BY DEF Local, Signed, row
<1>4. \A s \in Sessions : token[s] # r
  BY DEF Local, Signed
<1>5. CompletedIsBacked'
  BY <1>4 DEF Local, CompletedIsBacked, row
<1>6. OneWinner'
  BY DEF Local, OneWinner, Won, Enders
<1> QED BY <1>1, <1>2, <1>3, <1>5, <1>6

-----------------------------------------------------------------------------
\* A call on an existing session arrives.
LEMMA ArriveStep ==
  ASSUME RaceInv, NEW r \in Requests, NEW s \in Sessions, NEW op \in AllOps, arrive(r, s, op)
  PROVE  RaceInv'
<1> DEFINE first == IF op \in OwnerOps THEN "owner" ELSE op
<1>1. /\ pc' = [pc EXCEPT ![r] = "read"]
      /\ req' = [req EXCEPT ![r] = [@ EXCEPT !.session = s, !.ask = op, !.op = first]]
      /\ UNCHANGED <<row, answer, now, charged>>
  BY DEF arrive, Goto
<1>2. req[r] \in Carried /\ pc \in [Requests -> Steps] /\ req \in [Requests -> Carried] /\ answer \in [Requests -> Answers]
  BY DEF RaceInv, TypeOK
<1>3. first \in AllOps \cup {"owner"} /\ op # "create" /\ pc[r] = "new" /\ answer[r] = "none"
  BY DEF arrive, RaceInv, Answered
<1>4. req'[r] = [req[r] EXCEPT !.session = s, !.ask = op, !.op = first]
  BY <1>1, <1>2
<1>5. req'[r] \in Carried /\ req'[r].op = first /\ req'[r].ask = op
  BY <1>2, <1>3, <1>4 DEF Carried
<1>6. Local(r)
  BY <1>1, <1>2, <1>3, <1>5 DEF Local, Steps
<1>7. Planned(r)'
  BY <1>1, <1>2, <1>3, <1>5 DEF Planned, AllOps, OwnerOps, Enders
<1>8. Answered(r)' /\ Paid(r)' /\ ~Won(r)'
  BY <1>1, <1>2, <1>3, <1>5 DEF Answered, Paid, Won, OwnerOps
<1> QED BY <1>6, <1>7, <1>8, LocalStep

\* A call that changes its operation alone, and goes on or is answered.
LEMMA TurnStep ==
  ASSUME RaceInv, NEW r \in Requests, NEW op \in AllOps \cup {"owner"}, NEW step \in Steps, NEW a \in Answers,
         pc[r] \notin {"new", "done"},
         pc' = [pc EXCEPT ![r] = step],
         req' = [req EXCEPT ![r] = [@ EXCEPT !.op = op]],
         answer' = [answer EXCEPT ![r] = a],
         charged' \in {charged, charged \cup {r}},
         UNCHANGED <<row, now>>,
         step \in {"read", "done"},
         step = "read" => op \in Enders \cup {"pay", "refund"},
         step = "done" \/ a = "none",
         a = "ok" => op = "get",
         op = "owner" => req[r].op = "owner",
         op = "complete" /\ req[r].ask = "pay" => r \in charged'
  PROVE  RaceInv'
<1>1. req[r] \in Carried /\ pc \in [Requests -> Steps] /\ req \in [Requests -> Carried] /\ answer \in [Requests -> Answers]
  BY DEF RaceInv, TypeOK
<1>2. req'[r] = [req[r] EXCEPT !.op = op]
  BY <1>1
<1>3. req'[r] \in Carried /\ req'[r].op = op /\ req'[r].ask = req[r].ask
  BY <1>1, <1>2 DEF Carried
<1>4. Local(r)
  BY <1>1, <1>3 DEF Local
<1>5. Planned(r)'
  BY <1>1, <1>3 DEF Planned, RaceInv, Enders
<1>6. Answered(r)' /\ Paid(r)' /\ ~Won(r)'
  BY <1>1, <1>3 DEF Answered, Paid, Won, Enders
<1> QED BY <1>4, <1>5, <1>6, LocalStep

\* A call that is answered without success.
LEMMA LoseStep ==
  ASSUME RaceInv, NEW r \in Requests, NEW a \in Answers \ {"none", "ok"},
         pc[r] \notin {"new", "done"}, Reply(r, a),
         charged' \in {charged, charged \cup {r}},
         UNCHANGED <<row, req, now>>
  PROVE  RaceInv'
<1>1. pc \in [Requests -> Steps] /\ req \in [Requests -> Carried] /\ answer \in [Requests -> Answers]
  BY DEF RaceInv, TypeOK
<1>2. Local(r)
  BY <1>1 DEF Local, Reply, Goto, Steps
<1>3. Planned(r)'
  BY <1>1 DEF Planned, RaceInv, Reply, Goto
<1>4. Answered(r)' /\ Paid(r)' /\ ~Won(r)'
  BY <1>1 DEF Answered, Paid, Won, RaceInv, Reply, Goto
<1> QED BY <1>2, <1>3, <1>4, LocalStep

\* A call that has read the session and carries on with what it will write.
LEMMA CarryStep ==
  ASSUME RaceInv, NEW r \in Requests, NEW step \in {"charge", "quote", "update"},
         NEW expect \in Statuses, NEW to \in Statuses, NEW late \in {0, 1},
         pc[r] = "read", Goto(r, step), Carry(r, expect, to, late),
         UNCHANGED <<row, answer, now, charged>>,
         step = "charge" => req[r].op = "pay",
         step = "quote" => req[r].op = "refund" /\ expect = "completed" /\ to = "completed",
         step = "update" =>
           \/ to = "expired" /\ expect = "pending"
           \/ req[r].op \in Enders /\ expect = "pending" /\ to = Target(req[r].op)
  PROVE  RaceInv'
<1>1. req[r] \in Carried /\ pc \in [Requests -> Steps] /\ req \in [Requests -> Carried] /\ answer \in [Requests -> Answers]
  BY DEF RaceInv, TypeOK
<1>2. req'[r] = [req[r] EXCEPT !.expect = expect, !.to = to, !.late = late]
  BY <1>1 DEF Carry
<1>3. /\ req'[r] \in Carried
      /\ req'[r].op = req[r].op /\ req'[r].ask = req[r].ask
      /\ req'[r].expect = expect /\ req'[r].to = to
  BY <1>1, <1>2 DEF Carried
<1>4. Local(r)
  BY <1>1, <1>3 DEF Local, Goto, Carry, Steps
<1>5. Planned(r)'
  BY <1>1, <1>3 DEF Planned, RaceInv, Goto, Target
<1>6. Answered(r)' /\ Paid(r)' /\ ~Won(r)'
  BY <1>1, <1>3 DEF Answered, Paid, Won, RaceInv, Goto
<1> QED BY <1>4, <1>5, <1>6, LocalStep

-----------------------------------------------------------------------------
\* A session is created.
LEMMA CreateStep ==
  ASSUME RaceInv, NEW r \in Requests, NEW s \in Sessions, createSession(r, s)
  PROVE  RaceInv'
<1> USE TimeAssumption DEF createSession, Reply, Goto
<1>1. TypeOK'
  BY DEF RaceInv, TypeOK, Statuses, Steps, Answers
<1>2. token[s] = NoRequest /\ quote[s] = NoRequest
  BY DEF RaceInv, CompletedIsBacked
<1>3. \A q \in Requests : Planned(q)' /\ Answered(q)' /\ Paid(q)'
  BY DEF RaceInv, TypeOK, Planned, Answered, Paid
<1>4. ~Won(r)' /\ \A q \in Requests \ {r} : Won(q)' <=> Won(q)
  BY DEF RaceInv, TypeOK, Planned, Won, Enders
<1>5. \A q \in Requests : Ended(q)'
  BY <1>4 DEF RaceInv, TypeOK, Ended, Outcomes
<1>6. Signed'
  BY DEF RaceInv, TypeOK, Signed
<1>7. CompletedIsBacked'
  BY <1>2 DEF RaceInv, TypeOK, CompletedIsBacked
<1>8. OneWinner'
  BY <1>4 DEF RaceInv, OneWinner, Won, Enders
<1> QED BY <1>1, <1>3, <1>5, <1>6, <1>7, <1>8 DEF RaceInv

\* getSession and the check that follows it.
LEMMA ReadStep ==
  ASSUME RaceInv, NEW r \in Requests, getSession(r)
  PROVE  RaceInv'
<1> DEFINE s == req[r].session
           op == req[r].op
<1>0. /\ req[r] \in Carried /\ pc[r] = "read" /\ answer[r] = "none"
      /\ pc \in [Requests -> Steps] /\ req \in [Requests -> Carried] /\ answer \in [Requests -> Answers]
      /\ UNCHANGED <<row, now, charged>>
  BY DEF RaceInv, TypeOK, Answered, getSession
<1>1. op \in Enders \cup {"owner", "pay", "refund"} /\ (op = "owner" => req[r].ask \in OwnerOps)
  BY <1>0 DEF RaceInv, Planned
<1>2. CASE Goto(r, "update") /\ Carry(r, "pending", "expired", 1) /\ UNCHANGED answer
  BY <1>0, <1>2, CarryStep DEF Statuses, Outcomes
<1>3. CASE Reply(r, "gone") /\ UNCHANGED req
  BY <1>0, <1>3, LoseStep DEF Answers
<1>4. CASE Proceed(r, op, status[s])
  <2>1. CASE op = "owner" /\ Reply(r, "forbidden") /\ UNCHANGED req
    BY <1>0, <2>1, LoseStep DEF Answers
  <2>2. CASE op = "owner" /\ req[r].ask = "get" /\ Reply(r, "ok") /\ req' = [req EXCEPT ![r].op = "get"]
    BY <1>0, <2>2, TurnStep DEF Answers, Steps, AllOps, Reply, Goto
  <2>3. CASE /\ op = "owner" /\ req[r].ask # "get" /\ Goto(r, "read")
             /\ req' = [req EXCEPT ![r].op = req[r].ask] /\ UNCHANGED answer
    <3>1. req[r].ask \in {"cancel", "pay"}
      BY <1>1, <2>3 DEF OwnerOps
    <3>2. answer' = [answer EXCEPT ![r] = "none"]
      BY <1>0, <2>3
    <3> QED BY <1>0, <2>3, <3>1, <3>2, TurnStep DEF Answers, Steps, AllOps, Goto, Enders
  <2>4. CASE /\ op # "owner" /\ Goto(r, NextStep(op)) /\ Carry(r, Required(op), Target(op), 0)
             /\ UNCHANGED answer
    <3>1. Required(op) \in Statuses /\ Target(op) \in Statuses /\ NextStep(op) \in {"charge", "quote", "update"}
      BY DEF Required, Target, NextStep, Statuses, Outcomes
    <3>2. NextStep(op) = "charge" => op = "pay"
      BY DEF NextStep
    <3>3. NextStep(op) = "quote" => op = "refund" /\ Required(op) = "completed" /\ Target(op) = "completed"
      BY DEF NextStep, Required, Target
    <3>4. NextStep(op) = "update" => op \in Enders /\ Required(op) = "pending"
      BY <1>1, <2>4 DEF NextStep, Required, Enders
    <3> QED BY <1>0, <2>4, <3>1, <3>2, <3>3, <3>4, CarryStep
  <2>5. CASE Reply(r, "conflict") /\ UNCHANGED req
    BY <1>0, <2>5, LoseStep DEF Answers
  <2> QED BY <1>4, <2>1, <2>2, <2>3, <2>4, <2>5 DEF Proceed, assertOwnerOrAdmin
<1> QED BY <1>2, <1>3, <1>4 DEF getSession

\* updateSession: the compare lets one call through, which finds the session as
\* it was when the call read it.
LEMMA UpdateStep ==
  ASSUME RaceInv, NEW r \in Requests, updateSession(r)
  PROVE  RaceInv' /\ \A s \in Sessions : status[s] \in Outcomes => status'[s] = status[s]
<1> DEFINE s == req[r].session
           c == req[r]
<1>0. /\ c \in Carried /\ s \in Sessions /\ pc[r] = "update" /\ answer[r] = "none"
      /\ status \in [Sessions -> Statuses] /\ token \in [Sessions -> Requests \cup {NoRequest}]
      /\ quote \in [Sessions -> Requests \cup {NoRequest}]
      /\ pc \in [Requests -> Steps] /\ req \in [Requests -> Carried] /\ answer \in [Requests -> Answers]
      /\ UNCHANGED <<expiresAt, req, now, charged>>
  BY DEF RaceInv, TypeOK, Answered, updateSession, Carried
<1>1. CASE Reply(r, "conflict") /\ UNCHANGED <<status, token, quote>>
  <2>1. UNCHANGED <<row, req, now>> /\ charged' = charged
    BY <1>0, <1>1 DEF row
  <2> QED BY <1>0, <1>1, <2>1, LoseStep DEF Answers
<1>2. CASE /\ UnchangedSince(r)
           /\ status' = [status EXCEPT ![s] = c.to]
           /\ token' = IF c.op = "complete" /\ c.to = "completed" THEN [token EXCEPT ![s] = r] ELSE token
           /\ quote' = IF c.op = "refund" /\ c.to = "completed" THEN [quote EXCEPT ![s] = r] ELSE quote
           /\ Reply(r, Answer(c.to))
  <2> USE <1>0, <1>2
  <2>1. \/ c.to = "expired" /\ status[s] = "pending"
        \/ c.op = "refund" /\ status[s] = "completed" /\ c.to = "completed"
        \/ c.op \in Enders /\ status[s] = "pending" /\ c.to = Target(c.op)
    BY DEF RaceInv, Planned, UnchangedSince
  <2>2. c.to \in Outcomes /\ status'[s] = c.to
    BY <2>1 DEF Outcomes, Enders, Target
  <2>3. pc'[r] = "done" /\ answer'[r] = Answer(c.to) /\ answer'[r] \in Answers
    BY DEF Reply, Goto, Answer, Answers
  <2>4. \A q \in Requests \ {r} : pc'[q] = pc[q] /\ answer'[q] = answer[q]
    BY DEF Reply, Goto
  <2>5. status[s] \in Outcomes => status'[s] = status[s]
    BY <2>1, <2>2 DEF Outcomes
  <2>6. \A t \in Sessions \ {s} : status'[t] = status[t] /\ token'[t] = token[t] /\ quote'[t] = quote[t]
    OBVIOUS
  <2>7. TypeOK'
    <3>1. status' \in [Sessions -> Statuses]
      BY <2>2 DEF Statuses
    <3>2. token' \in [Sessions -> Requests \cup {NoRequest}] /\ quote' \in [Sessions -> Requests \cup {NoRequest}]
      OBVIOUS
    <3>3. pc' \in [Requests -> Steps] /\ answer' \in [Requests -> Answers]
      BY <2>3 DEF Reply, Goto, Steps
    <3> QED BY <3>1, <3>2, <3>3 DEF RaceInv, TypeOK
  <2>8. \A q \in Requests : Planned(q)' /\ Answered(q)' /\ Paid(q)'
    BY <2>3, <2>4 DEF RaceInv, Planned, Answered, Paid
  <2>9. \A q \in Requests \ {r} : (Won(q)' <=> Won(q))
    BY <2>4 DEF Won
  <2>10. Won(r)' => status[s] = "pending" /\ c.to = Target(c.op)
    BY <2>1, <2>3 DEF Won, Answer, Enders
  <2>11. \A q \in Requests : Ended(q)'
    <3> SUFFICES ASSUME NEW q \in Requests, Won(q)' PROVE status'[req[q].session] \in Outcomes
      BY DEF Ended
    <3>1. CASE q = r
      BY <2>2, <3>1
    <3>2. CASE q # r
      <4>1. status[req[q].session] \in Outcomes /\ req[q].session \in Sessions
        BY <2>9, <3>2 DEF RaceInv, Ended, Carried
      <4> QED BY <2>5, <2>6, <4>1
    <3> QED BY <3>1, <3>2
  <2>12. Signed'
    BY <2>3, <2>4 DEF RaceInv, Signed
  <2>13. CompletedIsBacked'
    <3> SUFFICES ASSUME NEW t \in Sessions
                 PROVE  /\ status'[t] = "completed" <=> token'[t] # NoRequest
                        /\ quote'[t] # NoRequest => status'[t] = "completed"
                        /\ \A q \in Requests : token'[t] = q /\ req[q].ask = "pay" => q \in charged
      BY DEF CompletedIsBacked
    <3>1. CASE t # s
      BY <2>6, <3>1 DEF RaceInv, CompletedIsBacked
    <3>2. CASE t = s
      <4>1. /\ status[s] = "completed" <=> token[s] # NoRequest
            /\ quote[s] # NoRequest => status[s] = "completed"
            /\ \A q \in Requests : token[s] = q /\ req[q].ask = "pay" => q \in charged
        BY DEF RaceInv, CompletedIsBacked
      <4>2. c.ask = "pay" /\ c.op = "complete" => r \in charged
        BY DEF RaceInv, Paid
      <4>3. CASE c.to = "expired" /\ status[s] = "pending"
        BY <2>2, <3>2, <4>1, <4>3
      <4>4. CASE c.op = "refund" /\ status[s] = "completed" /\ c.to = "completed"
        BY <2>2, <3>2, <4>1, <4>4
      <4>5. CASE c.op = "complete" /\ status[s] = "pending" /\ c.to = "completed"
        BY <2>2, <3>2, <4>1, <4>2, <4>5, RequestsAssumption
      <4>6. CASE c.op \in {"fail", "cancel"} /\ status[s] = "pending" /\ c.to \in {"failed", "cancelled"}
        BY <2>2, <3>2, <4>1, <4>6
      <4> QED BY <2>1, <4>3, <4>4, <4>5, <4>6 DEF Enders, Target
    <3> QED BY <3>1, <3>2
  <2>14. OneWinner'
    <3>1. ASSUME NEW q \in Requests, NEW p \in Requests, Won(q)', Won(p)', req[q].session = req[p].session
          PROVE  q = p
      <4>1. \A x \in Requests \ {r} : Won(x) => ~(Won(r)' /\ req[x].session = s)
        BY <2>10 DEF RaceInv, Ended, Outcomes
      <4>2. q # r /\ p # r => q = p
        BY <2>9, <3>1 DEF RaceInv, OneWinner, Won, Enders
      <4> QED BY <2>9, <3>1, <4>1, <4>2
    <3> QED BY <3>1 DEF OneWinner, Won, Enders
  <2> QED BY <2>5, <2>6, <2>7, <2>8, <2>11, <2>12, <2>13, <2>14 DEF RaceInv
<1> QED BY <1>1, <1>2 DEF updateSession

\* The answer of the provider.
LEMMA ChargeStep ==
  ASSUME RaceInv, NEW r \in Requests, charge(r)
  PROVE  RaceInv'
<1>1. /\ pc[r] = "charge" /\ answer[r] = "none" /\ answer \in [Requests -> Answers]
      /\ pc' = [pc EXCEPT ![r] = "read"] /\ UNCHANGED <<row, answer, now>>
  BY DEF RaceInv, TypeOK, Answered, charge, Goto
<1>2. answer' = [answer EXCEPT ![r] = "none"]
  BY <1>1
<1>3. CASE req' = [req EXCEPT ![r].op = "complete"] /\ charged' = charged \cup {r}
  BY <1>1, <1>2, <1>3, TurnStep DEF Answers, Steps, AllOps, Enders
<1>4. CASE req' = [req EXCEPT ![r].op = "fail"] /\ UNCHANGED charged
  BY <1>1, <1>2, <1>4, TurnStep DEF Answers, Steps, AllOps, Enders
<1> QED BY <1>3, <1>4 DEF charge

\* The quote for a partial refund.
LEMMA QuoteStep ==
  ASSUME RaceInv, NEW r \in Requests, findPathPaymentQuote(r)
  PROVE  RaceInv'
<1> USE DEF findPathPaymentQuote, Goto
<1>1. pc \in [Requests -> Steps] /\ req \in [Requests -> Carried] /\ answer \in [Requests -> Answers]
  BY DEF RaceInv, TypeOK
<1>2. Local(r)
  BY <1>1 DEF Local, Steps
<1>3. Planned(r)' /\ Answered(r)' /\ Paid(r)' /\ ~Won(r)'
  BY <1>1 DEF RaceInv, Planned, Answered, Paid, Won
<1> QED BY <1>2, <1>3, LocalStep

\* A call out of the service throws.
LEMMA FailStep ==
  ASSUME RaceInv, NEW r \in Requests, callFails(r)
  PROVE  RaceInv'
<1>1. pc[r] \notin {"new", "done"} /\ Reply(r, "error") /\ UNCHANGED <<row, req, now>>
      /\ charged' \in {charged, charged \cup {r}}
  BY DEF callFails
<1> QED BY <1>1, LoseStep DEF Answers

\* Every step keeps the invariant, and no session that has ended changes.
LEMMA RaceStep ==
  ASSUME RaceInv, [Next]_vars
  PROVE  RaceInv' /\ \A s \in Sessions : status[s] \in Outcomes => status'[s] = status[s]
<1> DEFINE Kept == \A s \in Sessions : status[s] \in Outcomes => status'[s] = status[s]
<1>1. CASE \E r \in Requests, s \in Sessions : createSession(r, s)
  <2> PICK r \in Requests, s \in Sessions : createSession(r, s)
    BY <1>1
  <2>1. Kept
    BY DEF createSession, RaceInv, TypeOK, Outcomes
  <2> QED BY <2>1, CreateStep
<1>2. CASE \E r \in Requests, s \in Sessions, op \in AllOps : arrive(r, s, op)
  <2> PICK r \in Requests, s \in Sessions, op \in AllOps : arrive(r, s, op)
    BY <1>2
  <2>1. Kept
    BY DEF arrive, row
  <2> QED BY <2>1, ArriveStep
<1>3. CASE \E r \in Requests : getSession(r)
  <2> PICK r \in Requests : getSession(r)
    BY <1>3
  <2>1. Kept
    BY DEF getSession, row
  <2> QED BY <2>1, ReadStep
<1>4. CASE \E r \in Requests : charge(r)
  BY <1>4, ChargeStep DEF charge, row
<1>5. CASE \E r \in Requests : findPathPaymentQuote(r)
  BY <1>5, QuoteStep DEF findPathPaymentQuote, row
<1>6. CASE \E r \in Requests : updateSession(r)
  BY <1>6, UpdateStep
<1>7. CASE \E r \in Requests : callFails(r)
  BY <1>7, FailStep DEF callFails, row
<1>8. CASE Tick
  <2>1. UNCHANGED <<row, pc, req, answer, charged>> /\ now' \in Nat
    BY <1>8, TimeAssumption DEF Tick, RaceInv, TypeOK
  <2>2. TypeOK'
    BY <2>1 DEF RaceInv, TypeOK, row
  <2>3. \A r \in Requests : Planned(r)' /\ Answered(r)' /\ Paid(r)' /\ Ended(r)'
    BY <2>1 DEF RaceInv, Planned, Answered, Paid, Ended, Won, row
  <2>4. Signed' /\ CompletedIsBacked' /\ OneWinner'
    BY <2>1 DEF RaceInv, Signed, CompletedIsBacked, OneWinner, row
  <2> QED BY <2>1, <2>2, <2>3, <2>4 DEF RaceInv, row
<1>9. CASE UNCHANGED vars
  <2>1. TypeOK' /\ Signed' /\ CompletedIsBacked' /\ OneWinner'
    BY <1>9 DEF vars, RaceInv, TypeOK, Signed, CompletedIsBacked, OneWinner
  <2>2. \A r \in Requests : Planned(r)' /\ Answered(r)' /\ Paid(r)' /\ Ended(r)'
    BY <1>9 DEF vars, RaceInv, Planned, Answered, Paid, Ended, Won
  <2> QED BY <1>9, <2>1, <2>2 DEF RaceInv, vars
<1> QED
  <2>1. "get" \in AllOps /\ "complete" \in AllOps /\ "pay" \in AllOps /\ "fail" \in AllOps
        /\ "cancel" \in AllOps /\ "refund" \in AllOps
    BY DEF AllOps
  <2> QED BY <1>1, <1>2, <1>3, <1>4, <1>5, <1>6, <1>7, <1>8, <1>9, <2>1
          DEF Next, Rest, postSessions, getSessionRoute, postComplete, postPay, postFail, postCancel, partialRefund

-----------------------------------------------------------------------------
\* The invariant of the races holds in every behaviour, for any sessions, calls,
\* expiry and failures (checkout.ts, checkout-session-repository.ts).
THEOREM RaceInvariant == Spec => []RaceInv
<1>1. RaceInv /\ [Next]_vars => RaceInv'
  BY RaceStep
<1> QED BY InitRace, <1>1, PTL DEF Spec

\* Of all calls that end a session one is told that it won, and a completed
\* session names the call that completed it, with an accepted charge if that was
\* a payment: updateSession's compare and the order of paySession are enough,
\* however the calls overlap, throw and meet the expiry.
THEOREM SessionsSoundHolds == Spec => []SessionsSound
<1>1. RaceInv => SessionsSound
  BY DEF RaceInv, SessionsSound
<1> QED BY RaceInvariant, <1>1, PTL

\* A session that has ended keeps its outcome (CHECKOUT_API.md: no further
\* transitions), whatever races for it.
THEOREM OneOutcomeHolds == Spec => OneOutcome
<1>1. RaceInv /\ [Next]_vars
      => [\A s \in Sessions : status[s] \in Outcomes => status'[s] = status[s]]_vars
  BY RaceStep
<1> QED BY RaceInvariant, <1>1, PTL DEF Spec, OneOutcome

-----------------------------------------------------------------------------
(* Calls that wait for each other.                                         *)

\* One call at a time is in flight on a session.
Exclusive ==
  \A q, r \in Requests : q # r /\ InFlight(q) /\ InFlight(r) => req[q].session # req[r].session

\* A read that has found its session past the expiry still finds it pending when
\* it writes.
Late(r) ==
  req[r].late = 1 =>
    \/ /\ pc[r] = "update" /\ req[r].to = "expired" /\ req[r].expect = "pending"
       /\ status[req[r].session] = "pending"
    \/ pc[r] = "done" /\ answer[r] \in {"gone", "error"}

ExpiryInv == Exclusive /\ \A r \in Requests : Late(r)

\* A call at the provider finds its session pending, and so does the call after
\* an accepted charge, which completes it unless it has expired.
Charging(r) ==
  LET st == status[req[r].session] IN
  /\ InFlight(r) => st # "absent"
  /\ pc[r] = "charge" => st = "pending"
  /\ r \in charged =>
       /\ req[r].op = "complete"
       /\ InFlight(r) => st = "pending"
       /\ pc[r] = "update" => req[r].to = "completed" \/ req[r].late = 1
       /\ ~InFlight(r) => st = "completed" \/ (st = "expired" /\ req[r].late = 1)

Once == \A q, r \in charged : req[q].session = req[r].session => q = r

TurnInv == (\A r \in Requests : Charging(r)) /\ Once

\* The inductive invariant: the races, and what holds of calls in turn.
CheckoutInv == RaceInv /\ (inTurn => ExpiryInv) /\ (inTurn /\ ~thrown => TurnInv)

\* getSession reads, and sends its call on, to the end, or to the expiry.
LEMMA ReadEffect ==
  ASSUME RaceInv, NEW r \in Requests, getSession(r)
  PROVE  /\ pc[r] = "read" /\ UNCHANGED <<status, charged>>
         /\ \A q \in Requests \ {r} : pc'[q] = pc[q] /\ req'[q] = req[q] /\ answer'[q] = answer[q]
         /\ req'[r].session = req[r].session
         /\ \/ /\ pc'[r] = "update" /\ req'[r].to = "expired" /\ req'[r].expect = "pending"
               /\ req'[r].late = 1 /\ req'[r].op = req[r].op /\ status[req[r].session] = "pending"
            \/ /\ pc'[r] \in {"read", "done"} /\ req'[r].late = req[r].late
               /\ req[r].op = "complete" =>
                    pc'[r] = "done" /\ req'[r] = req[r] /\ status[req[r].session] # "pending"
            \/ /\ pc'[r] = NextStep(req[r].op) /\ req'[r].op = req[r].op /\ req[r].op # "owner"
               /\ req'[r].late = 0 /\ req'[r].to = Target(req[r].op)
               /\ status[req[r].session] = Required(req[r].op)
<1> DEFINE s == req[r].session
           expires == status[s] = "pending" /\ PastExpiry(s)
<1>0. /\ pc \in [Requests -> Steps] /\ req \in [Requests -> Carried] /\ answer \in [Requests -> Answers]
      /\ req[r] \in Carried
  BY DEF RaceInv, TypeOK
<1>1. pc[r] = "read" /\ UNCHANGED <<status, charged>>
  BY DEF getSession, row
<1>2. CASE expires /\ Goto(r, "update") /\ Carry(r, "pending", "expired", 1) /\ UNCHANGED answer
  BY <1>0, <1>1, <1>2 DEF Goto, Carry, Carried
<1>3. CASE status[s] = "expired" /\ Reply(r, "gone") /\ UNCHANGED req
  BY <1>0, <1>1, <1>3 DEF Reply, Goto
<1>4. CASE req[r].op = "owner" /\ assertOwnerOrAdmin(r)
  <2>1. pc'[r] \in {"read", "done"} /\ \A q \in Requests \ {r} : pc'[q] = pc[q] /\ answer'[q] = answer[q]
    BY <1>0, <1>1, <1>4 DEF assertOwnerOrAdmin, Reply, Goto
  <2>2. UNCHANGED req \/ \E x \in AllOps : req' = [req EXCEPT ![r] = [@ EXCEPT !.op = x]]
    BY <1>0, <1>4 DEF assertOwnerOrAdmin, Carried, AllOps
  <2>3. /\ req'[r].session = s /\ req'[r].late = req[r].late
        /\ \A q \in Requests \ {r} : req'[q] = req[q]
    BY <1>0, <2>2 DEF Carried
  <2> QED BY <1>1, <1>4, <2>1, <2>3
<1>5. CASE /\ req[r].op # "owner" /\ Admits(req[r].op, status[s]) /\ Goto(r, NextStep(req[r].op))
           /\ Carry(r, Required(req[r].op), Target(req[r].op), 0) /\ UNCHANGED answer
  BY <1>0, <1>1, <1>5 DEF Goto, Carry, Carried, Admits
<1>6. CASE req[r].op # "owner" /\ ~Admits(req[r].op, status[s]) /\ Reply(r, "conflict") /\ UNCHANGED req
  BY <1>0, <1>1, <1>6 DEF Reply, Goto, Admits, Required
<1> QED BY <1>2, <1>3, <1>4, <1>5, <1>6 DEF getSession, Proceed

\* What has overlapped or thrown has.
LEMMA HistoryStep ==
  ASSUME [Next]_vars
  PROVE  (inTurn' => inTurn) /\ (~thrown' => ~thrown)
<1> DEFINE Goal == (inTurn' => inTurn) /\ (~thrown' => ~thrown)
<1>1. ASSUME NEW r \in Requests, NEW s \in Sessions, createSession(r, s) PROVE Goal
  BY <1>1 DEF createSession
<1>2. ASSUME NEW r \in Requests, NEW s \in Sessions, NEW op, arrive(r, s, op) PROVE Goal
  BY <1>2 DEF arrive
<1>3. ASSUME NEW r \in Requests, getSession(r) \/ charge(r) \/ findPathPaymentQuote(r) \/ callFails(r) PROVE Goal
  BY <1>3 DEF getSession, charge, findPathPaymentQuote, callFails
<1>4. ASSUME NEW r \in Requests, updateSession(r) PROVE Goal
  BY <1>4 DEF updateSession
<1>5. CASE Tick \/ UNCHANGED vars
  BY <1>5 DEF Tick, vars
<1> QED BY <1>1, <1>2, <1>3, <1>4, <1>5
        DEF Next, Rest, postSessions, getSessionRoute, postComplete, postPay, postFail, postCancel, partialRefund

\* Every step in turn leaves one call in flight on a session, and a late read the
\* session it has found.
LEMMA ExpiryStep ==
  ASSUME RaceInv, ExpiryInv, [Next]_vars, inTurn'
  PROVE  ExpiryInv'
<1> USE DEF ExpiryInv
<1>0. /\ status \in [Sessions -> Statuses] /\ pc \in [Requests -> Steps] /\ req \in [Requests -> Carried]
      /\ answer \in [Requests -> Answers]
      /\ \A r \in Requests : req[r] \in Carried /\ req[r].session \in Sessions
  BY DEF RaceInv, TypeOK, Carried
<1>1. ASSUME NEW r \in Requests, NEW s \in Sessions, createSession(r, s)
      PROVE  ExpiryInv'
  <2>1. /\ pc[r] = "new" /\ pc'[r] = "done" /\ UNCHANGED req
        /\ \A q \in Requests \ {r} : pc'[q] = pc[q] /\ answer'[q] = answer[q]
    BY <1>0, <1>1 DEF createSession, Reply, Goto
  <2>2. status[s] = "absent" /\ \A t \in Sessions \ {s} : status'[t] = status[t]
    BY <1>0, <1>1 DEF createSession
  <2>3. \A q \in Requests : InFlight(q)' => InFlight(q)
    BY <2>1 DEF InFlight
  <2>4. \A q \in Requests : Late(q)'
    BY <1>0, <2>1, <2>2 DEF Late
  <2> QED BY <2>1, <2>3, <2>4 DEF Exclusive
<1>2. ASSUME NEW r \in Requests, NEW s \in Sessions, NEW op \in AllOps, arrive(r, s, op)
      PROVE  ExpiryInv'
  <2>1. /\ pc[r] = "new" /\ pc'[r] = "read" /\ UNCHANGED <<status, answer>>
        /\ \A q \in Requests \ {r} : pc'[q] = pc[q]
    BY <1>0, <1>2 DEF arrive, Goto, row
  <2>2. /\ req'[r].session = s /\ req'[r].late = req[r].late
        /\ \A q \in Requests \ {r} : req'[q] = req[q]
    BY <1>0, <1>2 DEF arrive, Carried
  <2>3. \A q \in Requests : InFlight(q) => req[q].session # s
    BY <1>2 DEF arrive
  <2>4. \A q \in Requests \ {r} : InFlight(q)' <=> InFlight(q)
    BY <2>1 DEF InFlight
  <2>5. \A q \in Requests : Late(q)'
    BY <2>1, <2>2 DEF Late
  <2> QED BY <2>2, <2>3, <2>4, <2>5 DEF Exclusive
<1>3. ASSUME NEW r \in Requests, getSession(r)
      PROVE  ExpiryInv'
  <2>1. /\ pc[r] = "read" /\ UNCHANGED status /\ req'[r].session = req[r].session
        /\ \A q \in Requests \ {r} : pc'[q] = pc[q] /\ req'[q] = req[q] /\ answer'[q] = answer[q]
    BY <1>3, ReadEffect
  <2>2. Late(r)'
    BY <1>3, <2>1, ReadEffect DEF Late
  <2>3. \A q \in Requests \ {r} : Late(q)'
    BY <2>1 DEF Late
  <2>4. Exclusive'
    BY <2>1 DEF Exclusive, InFlight
  <2> QED BY <2>2, <2>3, <2>4
<1>4. ASSUME NEW r \in Requests, charge(r) \/ findPathPaymentQuote(r)
      PROVE  ExpiryInv'
  <2>1. /\ pc[r] \in {"charge", "quote"} /\ UNCHANGED <<status, answer>>
        /\ \A q \in Requests \ {r} : pc'[q] = pc[q]
    BY <1>0, <1>4 DEF charge, findPathPaymentQuote, Goto, row
  <2>2. /\ req'[r].session = req[r].session /\ req'[r].late = req[r].late
        /\ \A q \in Requests \ {r} : req'[q] = req[q]
    BY <1>0, <1>4 DEF charge, findPathPaymentQuote, Carried
  <2>3. \A q \in Requests : Late(q)'
    BY <2>1, <2>2 DEF Late
  <2> QED BY <2>1, <2>2, <2>3 DEF Exclusive, InFlight
<1>5. ASSUME NEW r \in Requests, updateSession(r)
      PROVE  ExpiryInv'
  <2>1. /\ pc[r] = "update" /\ pc'[r] = "done" /\ UNCHANGED req
        /\ \A q \in Requests \ {r} : pc'[q] = pc[q] /\ answer'[q] = answer[q]
        /\ \A s \in Sessions \ {req[r].session} : status'[s] = status[s]
    BY <1>0, <1>5 DEF updateSession, Reply, Goto
  <2>2. \A q \in Requests \ {r} : Late(q)'
    <3> SUFFICES ASSUME NEW q \in Requests \ {r}, Late(q) PROVE Late(q)'
      OBVIOUS
    <3>1. CASE req[q].session # req[r].session
      BY <1>0, <2>1, <3>1 DEF Late
    <3>2. CASE req[q].session = req[r].session
      BY <2>1, <3>2 DEF Late, Exclusive, InFlight
    <3> QED BY <3>1, <3>2
  <2>3. Late(r)'
    <3> SUFFICES ASSUME req[r].late = 1 PROVE answer'[r] = "gone"
      BY <2>1 DEF Late
    <3>1. req[r].to = "expired" /\ UnchangedSince(r)
      BY <2>1 DEF Late, UnchangedSince
    <3> QED BY <1>0, <1>5, <3>1 DEF updateSession, Reply, Answer
  <2> QED BY <2>1, <2>2, <2>3 DEF Exclusive, InFlight
<1>6. ASSUME NEW r \in Requests, callFails(r)
      PROVE  ExpiryInv'
  <2>1. /\ pc'[r] = "done" /\ answer'[r] = "error" /\ UNCHANGED <<status, req>>
        /\ \A q \in Requests \ {r} : pc'[q] = pc[q] /\ answer'[q] = answer[q]
    BY <1>0, <1>6 DEF callFails, Reply, Goto, row
  <2> QED BY <2>1 DEF Exclusive, InFlight, Late
<1>7. CASE Tick \/ UNCHANGED vars
  <2>1. UNCHANGED <<status, pc, req, answer>>
    BY <1>7 DEF Tick, vars, row
  <2> QED BY <2>1 DEF Exclusive, Late, InFlight
<1> QED
  <2>1. "get" \in AllOps /\ "complete" \in AllOps /\ "pay" \in AllOps /\ "fail" \in AllOps
        /\ "cancel" \in AllOps /\ "refund" \in AllOps
    BY DEF AllOps
  <2> QED BY <1>1, <1>2, <1>3, <1>4, <1>5, <1>6, <1>7, <2>1
          DEF Next, Rest, postSessions, getSessionRoute, postComplete, postPay, postFail, postCancel, partialRefund

\* Every step in turn keeps one charge per session, and honours it, while
\* nothing throws.
LEMMA TurnsStep ==
  ASSUME RaceInv, ExpiryInv, TurnInv, [Next]_vars, inTurn', ~thrown'
  PROVE  TurnInv'
<1> USE DEF TurnInv, ExpiryInv
<1>0. /\ status \in [Sessions -> Statuses] /\ pc \in [Requests -> Steps] /\ req \in [Requests -> Carried]
      /\ charged \subseteq Requests
      /\ \A r \in Requests : req[r] \in Carried /\ req[r].session \in Sessions
  BY DEF RaceInv, TypeOK, Carried
<1>1. ASSUME NEW r \in Requests, NEW s \in Sessions, createSession(r, s)
      PROVE  TurnInv'
  <2>1. r \notin charged /\ ~InFlight(r)' /\ (\A q \in Requests \ {r} : InFlight(q)' <=> InFlight(q))
    BY <1>0, <1>1 DEF createSession, Reply, Goto, RaceInv, Planned, InFlight, Charging
  <2>2. UNCHANGED <<req, charged>> /\ status' = [status EXCEPT ![s] = "pending"] /\ status[s] = "absent"
    BY <1>1 DEF createSession
  <2>3. Once'
    BY <2>1, <2>2 DEF Once
  <2>4. \A q \in Requests : Charging(q)'
    BY <1>0, <1>1, <2>1, <2>2 DEF createSession, Reply, Goto, Charging, Outcomes
  <2> QED BY <2>3, <2>4
<1>2. ASSUME NEW r \in Requests, NEW s \in Sessions, NEW op \in AllOps, arrive(r, s, op)
      PROVE  TurnInv'
  <2>1. r \notin charged /\ pc' = [pc EXCEPT ![r] = "read"] /\ UNCHANGED <<status, charged>>
    BY <1>0, <1>2 DEF arrive, Goto, RaceInv, Planned, Charging, row
  <2>2. req'[r].session = s /\ \A q \in Requests \ {r} : req'[q] = req[q]
    BY <1>0, <1>2 DEF arrive, Carried
  <2>3. status[s] # "absent" /\ \A q \in Requests : InFlight(q) => req[q].session # s
    BY <1>2 DEF arrive
  <2>4. InFlight(r)' /\ (\A q \in Requests \ {r} : InFlight(q)' <=> InFlight(q))
    BY <1>0, <2>1 DEF InFlight
  <2>6. Once'
    BY <1>0, <2>1, <2>2 DEF Once
  <2>7. \A q \in Requests : Charging(q)'
    BY <1>0, <2>1, <2>2, <2>3, <2>4 DEF Charging
  <2> QED BY <2>6, <2>7
<1>3. ASSUME NEW r \in Requests, getSession(r)
      PROVE  TurnInv'
  <2>1. /\ pc[r] = "read" /\ UNCHANGED <<status, charged>> /\ req'[r].session = req[r].session
        /\ \A q \in Requests \ {r} : pc'[q] = pc[q] /\ req'[q] = req[q]
    BY <1>3, ReadEffect
  <2>2. InFlight(r) /\ \A q \in Requests \ {r} : InFlight(q)' <=> InFlight(q)
    BY <2>1 DEF InFlight
  <2>3. Once'
    BY <1>0, <2>1 DEF Once
  <2>4. pc'[r] = "charge" => status[req[r].session] = "pending"
    BY <1>3, ReadEffect DEF NextStep, Required
  <2>5. r \in charged =>
          /\ req'[r].op = "complete" /\ pc'[r] = "update"
          /\ req'[r].to = "completed" \/ req'[r].late = 1
    BY <1>3, <2>1, <2>2, ReadEffect DEF Charging, NextStep, Target
  <2>6. Charging(r)'
    BY <2>1, <2>2, <2>4, <2>5 DEF Charging, InFlight
  <2>7. \A q \in Requests \ {r} : Charging(q)'
    BY <2>1, <2>2 DEF Charging
  <2> QED BY <2>3, <2>6, <2>7
<1>4. ASSUME NEW r \in Requests, charge(r)
      PROVE  TurnInv'
  <2>1. pc[r] = "charge" /\ pc' = [pc EXCEPT ![r] = "read"] /\ UNCHANGED status
    BY <1>4 DEF charge, Goto, row
  <2>2. req'[r].session = req[r].session /\ \A q \in Requests \ {r} : req'[q] = req[q]
    BY <1>0, <1>4 DEF charge, Carried
  <2>3. InFlight(r) /\ \A q \in Requests : InFlight(q)' <=> InFlight(q)
    BY <1>0, <2>1 DEF InFlight
  <2>4. r \notin charged
    BY <2>1 DEF Charging, RaceInv, Planned
  <2>5. \A q \in charged : req[q].session # req[r].session
    BY <1>0, <2>1, <2>3, <2>4 DEF Charging, Exclusive, Outcomes
  <2>6. charged' = charged \/ (charged' = charged \cup {r} /\ req'[r].op = "complete")
    BY <1>0, <1>4 DEF charge, Carried
  <2>8. Once'
    BY <1>0, <2>2, <2>5, <2>6 DEF Once
  <2>9. \A q \in Requests : Charging(q)'
    BY <1>0, <2>1, <2>2, <2>3, <2>4, <2>6 DEF Charging
  <2> QED BY <2>8, <2>9
<1>5. ASSUME NEW r \in Requests, findPathPaymentQuote(r)
      PROVE  TurnInv'
  <2>1. pc[r] = "quote" /\ pc' = [pc EXCEPT ![r] = "update"] /\ UNCHANGED <<status, req, charged>>
    BY <1>5 DEF findPathPaymentQuote, Goto, row
  <2>2. \A q \in Requests : InFlight(q)' <=> InFlight(q)
    BY <1>0, <2>1 DEF InFlight
  <2>3. Once'
    BY <2>1, <2>2 DEF Once
  <2>4. r \notin charged
    BY <2>1 DEF Charging, RaceInv, Planned
  <2>5. \A q \in Requests : Charging(q)'
    BY <1>0, <2>1, <2>2, <2>4 DEF Charging
  <2> QED BY <2>3, <2>5
<1>6. ASSUME NEW r \in Requests, updateSession(r)
      PROVE  TurnInv'
  <2>1. /\ pc[r] = "update" /\ pc' = [pc EXCEPT ![r] = "done"] /\ UNCHANGED <<req, charged>>
        /\ \A s \in Sessions \ {req[r].session} : status'[s] = status[s]
        /\ status' \in [Sessions -> Statuses]
    BY <1>0, <1>6, UpdateStep DEF updateSession, Reply, Goto, RaceInv, TypeOK
  <2>2. InFlight(r) /\ ~InFlight(r)' /\ (\A q \in Requests \ {r} : InFlight(q)' <=> InFlight(q))
    BY <1>0, <2>1 DEF InFlight
  <2>3. Once'
    BY <2>1, <2>2 DEF Once
  <2>4. r \in charged =>
          \/ status'[req[r].session] = "completed"
          \/ status'[req[r].session] = "expired" /\ req[r].late = 1
    <3> SUFFICES ASSUME r \in charged
                 PROVE  \/ status'[req[r].session] = "completed"
                        \/ status'[req[r].session] = "expired" /\ req[r].late = 1
      OBVIOUS
    <3>1. /\ req[r].expect = "pending" /\ status[req[r].session] = "pending"
          /\ req[r].to = "completed" \/ (req[r].to = "expired" /\ req[r].late = 1)
      BY <2>1, <2>2 DEF Charging, RaceInv, Planned, Late
    <3> QED BY <1>0, <1>6, <3>1 DEF updateSession, UnchangedSince
  <2>5. Charging(r)'
    BY <1>0, <2>1, <2>2, <2>4 DEF Charging
  <2>6. ASSUME NEW q \in Requests \ {r} PROVE Charging(q)'
    <3>1. CASE req[q].session # req[r].session
      BY <1>0, <2>1, <2>2, <3>1 DEF Charging
    <3>2. CASE req[q].session = req[r].session
      <4>1. ~InFlight(q)
        BY <2>2, <3>2 DEF Exclusive
      <4>2. status[req[q].session] \in Outcomes => status'[req[q].session] = status[req[q].session]
        BY <1>0, <1>6, UpdateStep
      <4> QED BY <1>0, <2>1, <2>2, <4>1, <4>2 DEF Charging, InFlight, Outcomes
    <3> QED BY <3>1, <3>2
  <2> QED BY <2>3, <2>5, <2>6
<1>7. ASSUME NEW r \in Requests, callFails(r)
      PROVE  TurnInv'
  BY <1>7 DEF callFails
<1>8. CASE Tick \/ UNCHANGED vars
  <2>1. UNCHANGED <<status, pc, req, charged>>
    BY <1>8 DEF Tick, vars, row
  <2> QED BY <2>1 DEF Once, Charging, InFlight
<1> QED
  <2>1. "get" \in AllOps /\ "complete" \in AllOps /\ "pay" \in AllOps /\ "fail" \in AllOps
        /\ "cancel" \in AllOps /\ "refund" \in AllOps
    BY DEF AllOps
  <2> QED BY <1>1, <1>2, <1>3, <1>4, <1>5, <1>6, <1>7, <1>8, <2>1
          DEF Next, Rest, postSessions, getSessionRoute, postComplete, postPay, postFail, postCancel, partialRefund

\* The inductive invariant holds in every behaviour, for any sessions, calls,
\* expiry and failures.
THEOREM CheckoutHolds == Spec => []CheckoutInv
<1>1. Init => (inTurn => ExpiryInv) /\ (inTurn /\ ~thrown => TurnInv)
  BY DEF Init, ExpiryInv, Late, TurnInv, Exclusive, Charging, Once, InFlight, Idle
<1>2. CheckoutInv /\ [Next]_vars => CheckoutInv'
  <2> SUFFICES ASSUME CheckoutInv, [Next]_vars PROVE CheckoutInv'
    OBVIOUS
  <2>1. RaceInv' /\ (inTurn' => inTurn) /\ (~thrown' => ~thrown)
    BY RaceStep, HistoryStep DEF CheckoutInv
  <2>2. inTurn' => ExpiryInv'
    BY <2>1, ExpiryStep DEF CheckoutInv
  <2>3. inTurn' /\ ~thrown' => TurnInv'
    BY <2>1, TurnsStep DEF CheckoutInv
  <2> QED BY <2>1, <2>2, <2>3 DEF CheckoutInv
<1>3. Init => CheckoutInv
  BY <1>1, InitRace DEF CheckoutInv
<1> QED BY <1>2, <1>3, PTL DEF Spec

\* Calls that wait for each other are not served once the session has expired;
\* while nothing throws they charge a session at most once, also across its
\* expiry, and honour the charge: paySession charges only what it has found
\* pending.
THEOREM SerialCallsHold == Spec => []SerialCallsSound
<1>1. CheckoutInv => SerialCallsSound
  <2>1. ASSUME ExpiryInv, RaceInv PROVE ExpiredIsGone
    BY <2>1 DEF ExpiryInv, RaceInv, Late, Answered, ExpiredIsGone
  <2>2. ASSUME RaceInv, TurnInv, NEW s \in Sessions PROVE Cardinality(PaidFor(s)) <= 1
    <3>1. CASE PaidFor(s) = {}
      BY <3>1, FS_EmptySet
    <3>2. CASE PaidFor(s) # {}
      <4>1. PICK r : r \in PaidFor(s)
        BY <3>2
      <4>2. PaidFor(s) = {r}
        BY <2>2, <4>1 DEF PaidFor, TurnInv, Once
      <4>3. Cardinality({r}) = 1
        BY FS_Singleton
      <4> QED BY <4>2, <4>3
    <3> QED BY <3>1, <3>2
  <2>3. ASSUME RaceInv, TurnInv PROVE ChargeIsHonoured
    <3> SUFFICES ASSUME NEW s \in Sessions, Quiet(s), NEW r \in PaidFor(s)
                 PROVE  status[s] = "completed" \/ req[r].late = 1
      BY DEF ChargeIsHonoured
    <3>1. r \in Requests /\ r \in charged /\ req[r].session = s
      BY <2>3 DEF PaidFor, RaceInv, TypeOK
    <3> QED BY <2>3, <3>1 DEF Quiet, TurnInv, Charging
  <2> QED BY <2>1, <2>2, <2>3 DEF CheckoutInv, SerialCallsSound, ChargedAtMostOnce
<1> QED BY <1>1, CheckoutHolds, PTL
=============================================================================
