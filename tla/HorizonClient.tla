--------------------------- MODULE HorizonClient ---------------------------
(***************************************************************************)
(* The client of the Horizon API: the choice of a healthy host, the token  *)
(* bucket of each host, the retries and the circuit of the contract        *)
(* service, the event stream with its cursor, the paged reads, the         *)
(* recovery from sequence collisions, and the in-process escrow client.    *)
(*                                                                         *)
(* Horizon itself is external: every request may be answered, refused,     *)
(* rate limited or lost.  Sleeps between retries are free steps.           *)
(***************************************************************************)
EXTENDS Integers, Sequences, FiniteSets, SequencesExt, FiniteSetsExt

CONSTANTS
  Ops,                        \* of "calls", "stream", "pages", "payments", "holds", "quotes", "payouts"
  Calls, Hosts,               \* calls under way together; hosts 1, 2, ...
  QUARANTINE_COOLDOWN, ERROR_WINDOW, MAX_ERRORS,
  initialCapacity, maxQueueDepth, maxRetries,
  failureThreshold, circuitOpenDuration, probeWindowSize, minProbeSamples,
  FirstCursor, ResumeAfter,   \* what the stream finds in its store, and its option
  MayLoseStore,               \* the cursor store may fail
  limit, maxRecords,          \* of the paged read
  Senders, maxCollisions,     \* payments of one account, maxRetries of the recovery
  Bookings,
  Quotes, Paths, tolerance,   \* quote requests, answers of Horizon, tolerance in basis points
  dustThreshold, oracleMaxAge,
  Payouts, Balance, Minimum,  \* amounts to pay, the balance and the reserve of the account
  MayOverlap,                 \* payouts may overlap
  Tokens,                     \* values of the header with the tokens left
  MaxTime, MaxOps, MaxEvents  \* bounds

Unknown == -1      \* a header that is absent, the state of a bucket before one
NoCursor == -1

VARIABLES
  now, ops,
  host, bucket, backoffs, service, call,
  outcomes,                   \* of all calls of the service, TRUE for success
  quota,                      \* the last header of a host and the requests sent since
  head, stream, store, handled,
  pages,
  sequence, payment, applied,
  holds, holding, holdTxs,
  quote, balance, payout

vars == <<now, ops, host, bucket, backoffs, service, call, outcomes, quota, head, stream, store,
          handled, pages, sequence, payment, applied, holds, holding, holdTxs, quote, balance, payout>>
http == <<host, bucket, backoffs, service, call, outcomes, quota>>
streaming == <<stream, store, handled>>
payments == <<sequence, payment, applied>>
escrow == <<holds, holding, holdTxs, quote, balance, payout>>

IdleCall == [pc |-> "idle", write |-> FALSE, host |-> 0, at |-> 0, since |-> 0, attempt |-> 0]

Init ==
  /\ now = 0 /\ ops = 0
  /\ host = [h \in Hosts |-> [quarantined |-> FALSE, at |-> 0, errors |-> << >>]]
  /\ bucket = [h \in Hosts |-> [remaining |-> initialCapacity, resetAt |-> 0, queue |-> << >>]]
  /\ backoffs = {}
  /\ service = [failures |-> 0, openUntil |-> 0, probes |-> << >>, tier |-> "normal"]
  /\ call = [c \in Calls |-> IdleCall] /\ outcomes = << >>
  /\ quota = [h \in Hosts |-> [given |-> initialCapacity, sent |-> 0]]
  /\ head = 1
  /\ stream = [pc |-> "off", at |-> 0, crashed |-> {}] /\ store = FirstCursor /\ handled = {}
  /\ pages = [pc |-> "off", order |-> "asc", cursor |-> NoCursor, records |-> << >>, first |-> 0]
  /\ sequence = 0 /\ payment = [s \in Senders |-> [pc |-> "idle", seq |-> 0, attempt |-> 0, round |-> 0]]
  /\ applied = << >>
  /\ holds = [b \in Bookings |-> "none"] /\ holding = << >> /\ holdTxs = << >>
  /\ quote = {} /\ balance = Balance /\ payout = [p \in Payouts |-> "idle"]

Op(name) == name \in Ops /\ ops < MaxOps /\ ops' = ops + 1

-----------------------------------------------------------------------------
(* The host manager.                                                       *)

released(h) == [host[h] EXCEPT !.quarantined = FALSE, !.errors = << >>]

recordSuccess(h) == IF host[h].quarantined THEN released(h) ELSE host[h]

errorsOf(errors) == SelectSeq(Append(errors, now), LAMBDA t : now - t <= ERROR_WINDOW)

\* recordError, for an error that is no client error and is worth a retry.
recordError(x) ==
  LET errors == errorsOf(x.errors) IN
  IF x.quarantined THEN x
  ELSE [x EXCEPT !.errors = errors, !.quarantined = Len(errors) >= MAX_ERRORS,
                 !.at = IF Len(errors) >= MAX_ERRORS THEN now ELSE @]

\* The next host that getHealthyHost probes, and the host it settles on.
due(from, since) == {h \in Hosts : h >= from /\ host[h].quarantined /\ since - host[h].at >= QUARANTINE_COOLDOWN}
healthy == {h \in Hosts : ~host[h].quarantined}

\* The ways a call ends: an answer, a rate limit, a server error, a client
\* error, an answer that is no JSON, a timeout, a refused connection, a full
\* queue, no healthy host.  Which are tried again, and which become an error of
\* the provider, that counts as a failure.
shouldRetryContractError(end) == end \in {"error", "limited", "timeout", "full", "unhealthy"}
mapContractError(end) == end \notin {"ok", "rejected"}

\* RetryPolicy.execute around one attempt.
execute(c, end) ==
  CASE end # "ok" /\ shouldRetryContractError(end) /\ call[c].attempt < maxRetries -> "retry"
    [] mapContractError(end) -> "failure"
    [] OTHER -> "success"

isCircuitOpen == now < service.openUntil

-----------------------------------------------------------------------------
(* The contract service around a call.                                     *)

calculateTier(x) ==
  LET bad == Len(SelectSeq(x.probes, LAMBDA p : ~p)) IN
  CASE now < x.openUntil -> "unavailable"
    [] Len(x.probes) >= minProbeSamples /\ 2 * bad >= Len(x.probes) -> "degraded"
    [] OTHER -> "normal"

addProbeSample(success) ==
  LET all == Append(service.probes, success) IN IF Len(all) > probeWindowSize THEN Tail(all) ELSE all

withTier(failures, success) ==
  LET x == [failures |-> failures, probes |-> addProbeSample(success), tier |-> service.tier,
            openUntil |-> IF ~success /\ failures >= failureThreshold
                          THEN now + circuitOpenDuration ELSE service.openUntil] IN
  [x EXCEPT !.tier = calculateTier(x)]

\* recordSuccess or recordFailure, and maybeTransitionTier.
recorded(success) == withTier(IF success THEN 0 ELSE service.failures + 1, success)

\* How a call goes on: another attempt, or the end with its sample.
settle(c, transition) ==
  IF transition = "retry"
  THEN /\ call' = [call EXCEPT ![c].attempt = @ + 1,
                               ![c].pc = IF call[c].write THEN "acquire" ELSE "host",
                               ![c].at = 1, ![c].since = now]
       /\ UNCHANGED <<service, outcomes>>
  ELSE /\ call' = [call EXCEPT ![c] = IdleCall]
       /\ service' = recorded(transition = "success")
       /\ outcomes' = Append(outcomes, transition = "success")

\* A read is refused while the circuit is open; a write chooses its host first.
callStart(c, write) ==
  /\ call[c].pc = "idle" /\ Op("calls")
  /\ call' = [call EXCEPT ![c] =
       IF ~write /\ isCircuitOpen THEN IdleCall
       ELSE [IdleCall EXCEPT !.pc = "host", !.write = write, !.at = 1, !.since = now]]
  /\ UNCHANGED <<now, host, bucket, backoffs, service, outcomes, quota, head, streaming, pages, payments, escrow>>

\* getHealthyHost: hosts whose cooldown is over are probed in turn, one await each.
probeNext(c) ==
  LET d == due(call[c].at, call[c].since) IN
  /\ call[c].pc = "host" /\ d # {}
  /\ call' = [call EXCEPT ![c].pc = "probe", ![c].at = Min(d)]
  /\ UNCHANGED <<now, ops, host, bucket, backoffs, service, outcomes, quota, head, streaming, pages, payments, escrow>>

probeHost(c, ok) ==
  LET h == call[c].at IN
  /\ call[c].pc = "probe"
  /\ host' = [host EXCEPT ![h] = IF ok THEN released(h) ELSE [@ EXCEPT !.at = call[c].since]]
  /\ call' = [call EXCEPT ![c].pc = "host", ![c].at = h + 1]
  /\ UNCHANGED <<now, ops, bucket, backoffs, service, outcomes, quota, head, streaming, pages, payments, escrow>>

\* With a host a write meets the health tier and the circuit; without one a
\* read fails as an attempt, a write outside of the service.
getHealthyHost(c) ==
  /\ call[c].pc = "host" /\ due(call[c].at, call[c].since) = {}
  /\ IF healthy = {}
     THEN IF call[c].write
          THEN call' = [call EXCEPT ![c] = IdleCall] /\ UNCHANGED <<service, outcomes>>
          ELSE settle(c, execute(c, "unhealthy"))
     ELSE /\ call' = [call EXCEPT ![c] = IF call[c].write /\ calculateTier(service) # "normal" THEN IdleCall
                                         ELSE [@ EXCEPT !.pc = "acquire", !.host = Min(healthy)]]
          /\ UNCHANGED <<service, outcomes>>
  /\ UNCHANGED <<now, ops, host, bucket, backoffs, quota, head, streaming, pages, payments, escrow>>

-----------------------------------------------------------------------------
(* The token bucket of a host.                                             *)

\* drain: as many of the waiting calls as there are tokens, in their order.
woken(b) == IF b.remaining = Unknown THEN Len(b.queue) ELSE Min({Len(b.queue), b.remaining})

drain(b) ==
  LET n == woken(b) IN
  [b EXCEPT !.queue = SubSeq(@, n + 1, Len(@)), !.remaining = IF @ = Unknown THEN @ ELSE @ - n]

Released(h, b) == ToSet(bucket[h].queue) \ ToSet(drain(b).queue)

acquire(c) ==
  LET h == call[c].host
      b == bucket[h]
      past == b.remaining = 0 /\ b.resetAt > 0 /\ now >= b.resetAt
      full == Len(b.queue) >= maxQueueDepth
      go == b.remaining # 0 \/ past IN
  /\ call[c].pc = "acquire"
  /\ bucket' = [bucket EXCEPT ![h] =
       IF past THEN [@ EXCEPT !.remaining = Unknown]
       ELSE IF b.remaining > 0 THEN [@ EXCEPT !.remaining = @ - 1]
       ELSE IF go \/ full THEN @ ELSE [@ EXCEPT !.queue = Append(@, c)]]
  /\ quota' = IF go THEN [quota EXCEPT ![h].sent = @ + 1, ![h].given = IF past THEN Unknown ELSE @] ELSE quota
  /\ IF go THEN call' = [call EXCEPT ![c].pc = "fetch"] /\ UNCHANGED <<service, outcomes>>
     ELSE IF full THEN settle(c, execute(c, "full"))
     ELSE call' = [call EXCEPT ![c].pc = "queued"] /\ UNCHANGED <<service, outcomes>>
  /\ UNCHANGED <<now, ops, host, backoffs, head, streaming, pages, payments, escrow>>

\* update from the headers of a response.
updated(b, remaining, resetAt) ==
  [b EXCEPT !.remaining = IF remaining # Unknown THEN remaining ELSE @,
            !.resetAt = IF resetAt # Unknown THEN resetAt ELSE @]

\* The bucket is drained, the calls let go are sent.
drained(h, b, given) ==
  /\ bucket' = [bucket EXCEPT ![h] = drain(b)]
  /\ quota' = [quota EXCEPT ![h] = [given |-> IF given = Unknown THEN @.given ELSE given,
                                    sent |-> (IF given = Unknown THEN @.sent ELSE 0) + Cardinality(Released(h, b))]]

\* fetchJson when Horizon answers: a response of any status counts as a success
\* of the host before a server error or a rate limit counts against it.
fetchAnswered(c, status, remaining, resetAt) ==
  LET h == call[c].host
      b == updated(bucket[h], remaining, resetAt)
      bad == shouldRetryContractError(status)
      transition == execute(c, status)
      wait == IF resetAt > now THEN resetAt - now ELSE 1
      awake == [d \in Calls |-> IF d \in Released(h, b) THEN [call[d] EXCEPT !.pc = "fetch"] ELSE call[d]] IN
  /\ call[c].pc = "fetch"
  /\ host' = [host EXCEPT ![h] = IF bad THEN recordError(recordSuccess(h)) ELSE recordSuccess(h)]
  /\ drained(h, b, remaining)
  /\ backoffs' = IF status = "limited" THEN backoffs \cup {<<h, now + wait>>} ELSE backoffs
  /\ IF transition = "retry"
     THEN /\ call' = [awake EXCEPT ![c].attempt = @ + 1, ![c].pc = IF call[c].write THEN "acquire" ELSE "host",
                                   ![c].at = 1, ![c].since = now]
          /\ UNCHANGED <<service, outcomes>>
     ELSE /\ call' = [awake EXCEPT ![c] = IdleCall]
          /\ service' = recorded(transition = "success") /\ outcomes' = Append(outcomes, transition = "success")
  /\ UNCHANGED <<now, ops, head, streaming, pages, payments, escrow>>

\* fetchJson when the request is cut off: after a timeout it is tried again, a
\* refused connection is not; neither counts against the host.
fetchFailed(c, end) ==
  /\ call[c].pc = "fetch"
  /\ settle(c, execute(c, end))
  /\ UNCHANGED <<now, ops, host, bucket, backoffs, quota, head, streaming, pages, payments, escrow>>

\* backoff after its wait.
backoff(x) ==
  LET h == x[1]
      b == [bucket[h] EXCEPT !.remaining = Unknown] IN
  /\ x \in backoffs /\ now >= x[2]
  /\ backoffs' = backoffs \ {x}
  /\ bucket' = [bucket EXCEPT ![h] = drain(b)]
  /\ quota' = [quota EXCEPT ![h] = [given |-> Unknown, sent |-> 0]]
  /\ call' = [d \in Calls |-> IF d \in Released(h, b) THEN [call[d] EXCEPT !.pc = "fetch"] ELSE call[d]]
  /\ UNCHANGED <<now, ops, host, service, outcomes, head, streaming, pages, payments, escrow>>

-----------------------------------------------------------------------------
(* The event stream: the cursor is stored after the handler is done.       *)

NewEvent ==
  /\ head < MaxEvents /\ head' = head + 1 /\ Ops \cap {"stream", "pages"} # {}
  /\ UNCHANGED <<now, ops, http, streaming, pages, payments, escrow>>

\* The cursor a connection asks for: "now" is the head at that moment.
cursorOf(read) ==
  IF ResumeAfter # NoCursor THEN ResumeAfter
  ELSE IF read /\ store # NoCursor THEN store ELSE head

streamEvents ==
  /\ stream.pc = "off" /\ Op("stream")
  /\ stream' = [stream EXCEPT !.pc = "connect"]
  /\ UNCHANGED <<now, http, head, store, handled, pages, payments, escrow>>

\* outcome: an open stream, a failure worth a reconnect, or the end of the
\* stream (a client error, no healthy host, no body, an abort).
connect(read, outcome) ==
  /\ stream.pc = "connect" /\ (~read => MayLoseStore)
  /\ outcome = "failure" => ops < MaxOps
  /\ ops' = IF outcome = "failure" THEN ops + 1 ELSE ops
  /\ stream' = CASE outcome = "open" -> [stream EXCEPT !.pc = "open", !.at = cursorOf(read)]
                 [] outcome = "failure" -> stream
                 [] outcome = "end" -> [stream EXCEPT !.pc = "off"]
  /\ UNCHANGED <<now, http, head, store, handled, pages, payments, escrow>>

deliver(ok, saved) ==
  /\ stream.pc = "open" /\ stream.at < head /\ (~saved => MayLoseStore)
  /\ ~ok => ops < MaxOps
  /\ ops' = IF ok THEN ops ELSE ops + 1
  /\ handled' = IF ok THEN handled \cup {stream.at + 1} ELSE handled
  /\ store' = IF ok /\ saved THEN stream.at + 1 ELSE store
  /\ stream' = IF ok THEN [stream EXCEPT !.at = @ + 1] ELSE [stream EXCEPT !.pc = "connect", !.crashed = @ \cup {stream.at + 1}]
  /\ UNCHANGED <<now, http, head, pages, payments, escrow>>

\* The connection breaks, or the server closes it.
streamEnds(broken) ==
  /\ stream.pc = "open" /\ (broken => ops < MaxOps)
  /\ ops' = IF broken THEN ops + 1 ELSE ops
  /\ stream' = [stream EXCEPT !.pc = IF broken THEN "connect" ELSE "off"]
  /\ UNCHANGED <<now, http, head, store, handled, pages, payments, escrow>>

-----------------------------------------------------------------------------
(* The paged read of an account's transactions 1, 2, ... head.             *)

fetchAllStart(order) ==
  /\ pages.pc \in {"off", "done"} /\ Op("pages")
  /\ pages' = [pc |-> "page", order |-> order, cursor |-> NoCursor, records |-> << >>, first |-> head]
  /\ UNCHANGED <<now, http, head, streaming, payments, escrow>>

\* The page Horizon answers with: up to n records after the cursor.
pageAfter(cursor, n) ==
  LET from == IF cursor = NoCursor THEN (IF pages.order = "asc" THEN 0 ELSE head + 1) ELSE cursor
      size == Min({n, IF pages.order = "asc" THEN head - from ELSE from - 1}) IN
  [i \in 1 .. size |-> IF pages.order = "asc" THEN from + i ELSE from - i]

afterPage(page) ==
  LET fresh == SelectSeq(page, LAMBDA r : r \notin ToSet(pages.records))
      kept == SubSeq(fresh, 1, Min({Len(fresh), maxRecords - Len(pages.records)})) IN
  IF kept = << >> THEN [pages EXCEPT !.pc = "done"]
  ELSE [pages EXCEPT !.records = @ \o kept, !.cursor = Last(kept)]

\* A page that fails for another reason than the rate limit ends the read with
\* an error; a rate limited one is asked for again.
fetchPage(ok) ==
  /\ pages.pc = "page"
  /\ pages' = IF Len(pages.records) >= maxRecords THEN [pages EXCEPT !.pc = "done"]
              ELSE IF ~ok THEN [pages EXCEPT !.pc = "off"]
              ELSE afterPage(pageAfter(pages.cursor, Min({limit, maxRecords - Len(pages.records)})))
  /\ UNCHANGED <<now, ops, http, head, streaming, payments, escrow>>

-----------------------------------------------------------------------------
(* Payments of one account under sequence recovery.                        *)

\* The transaction is built for the sequence the sender has seen.
submitStart(s, seq) ==
  /\ payment[s].pc = "idle" /\ Op("payments") /\ s \notin ToSet(applied)
  /\ payment' = [payment EXCEPT ![s] = [pc |-> "send", seq |-> seq, attempt |-> 0, round |-> 0]]
  /\ UNCHANGED <<now, http, head, streaming, pages, sequence, applied, escrow>>

\* What the network does with a transaction: one whose sequence is next is
\* applied, one it has applied already is answered as before, others collide.
AlreadyApplied(s) == s \in ToSet(applied) /\ payment[s].seq <= sequence
Accepted(s) == payment[s].seq = sequence + 1

again(s) ==
  IF payment[s].attempt < maxRetries THEN [payment[s] EXCEPT !.attempt = @ + 1]
  ELSE [payment[s] EXCEPT !.pc = "failed"]

\* Mutant: a transaction without an answer is built again as well.
unansweredRebuilt(s) ==
  IF payment[s].attempt < maxRetries THEN [payment[s] EXCEPT !.attempt = @ + 1]
  ELSE [payment[s] EXCEPT !.pc = "refetch"]

unanswered(s) == again(s)

\* sendTransaction once: answered, or with its answer lost before or after it
\* was applied.  A collision is first tried again as it is, then recovered.
send(s, fate) ==
  LET p == payment[s]
      reaches == fate # "lost" /\ Accepted(s) /\ ~AlreadyApplied(s)
      fine == reaches \/ AlreadyApplied(s) IN
  /\ p.pc = "send"
  /\ applied' = IF reaches THEN Append(applied, s) ELSE applied
  /\ sequence' = IF reaches THEN sequence + 1 ELSE sequence
  /\ payment' = [payment EXCEPT ![s] =
       IF fate # "answered" THEN unanswered(s)
       ELSE IF fine THEN [p EXCEPT !.pc = "done"]
       ELSE IF p.attempt < maxRetries THEN again(s)
       ELSE IF p.round = maxCollisions THEN [p EXCEPT !.pc = "failed"]
       ELSE [p EXCEPT !.pc = "refetch"]]
  /\ UNCHANGED <<now, ops, http, head, streaming, pages, escrow>>

\* getAccountSequence and rebuildXdr.
sendTransactionWithSequenceRecovery(s, ok) ==
  /\ payment[s].pc = "refetch"
  /\ payment' = [payment EXCEPT ![s] =
       IF ok THEN [pc |-> "send", seq |-> sequence + 1, attempt |-> 0, round |-> @.round + 1]
       ELSE [@ EXCEPT !.pc = "failed"]]
  /\ UNCHANGED <<now, ops, http, head, streaming, pages, sequence, applied, escrow>>

-----------------------------------------------------------------------------
(* The escrow client with its holds in memory: each operation awaits the   *)
(* contract hash and then acts on the holds.                               *)

assertContractIntegrity(b, phase) ==
  /\ Op("holds") /\ holding' = Append(holding, <<b, phase>>)
  /\ UNCHANGED <<now, http, head, streaming, pages, payments, holds, holdTxs, quote, balance, payout>>

holdable(b) == holds[b] = "none"

holdDone(i, matches) ==
  LET b == holding[i][1]
      phase == holding[i][2]
      fine == matches /\ IF phase = "hold" THEN holdable(b) ELSE holds[b] # "none" IN
  /\ holding' = RemoveAt(holding, i)
  /\ holds' = IF fine THEN [holds EXCEPT ![b] = phase] ELSE holds
  /\ holdTxs' = IF fine THEN Append(holdTxs, <<b, phase>>) ELSE holdTxs
  /\ UNCHANGED <<now, ops, http, head, streaming, pages, payments, quote, balance, payout>>

-----------------------------------------------------------------------------
(* Quotes for path payments: the age of the oracle's rate is checked       *)
(* before Horizon is asked.  Amounts are in stroops, rates in units of one *)
(* destination unit per source unit.                                       *)

Money == <<now, http, head, streaming, pages, payments, holds, holding, holdTxs>>

\* q: [amount, oracleRate or 0, oracleAt].
quoteStart(q) ==
  LET age == now - q.oracleAt IN
  /\ quote = {} \/ \A x \in quote : x.pc # "asked"
  /\ Op("quotes")
  /\ quote' = IF q.amount <= 0 \/ q.amount < dustThreshold \/ age > oracleMaxAge \/ age < 0 THEN {}
              ELSE {[pc |-> "asked", q |-> q, dest |-> 0, min |-> 0, paths |-> << >>]}
  /\ UNCHANGED <<Money, balance, payout>>

bestRecord(paths) == CHOOSE i \in DOMAIN paths : \A j \in DOMAIN paths :
  paths[j] < paths[i] \/ (paths[j] = paths[i] /\ i <= j)

slipped(q, dest) ==
  q.oracleRate > 0 /\ (q.oracleRate * q.amount - dest) * 10000 > tolerance * q.oracleRate * q.amount

\* findPathPaymentQuote after the answer with its paths.
findPathPaymentQuote(x, paths) ==
  LET dest == paths[bestRecord(paths)] IN
  /\ x \in quote /\ x.pc = "asked"
  /\ quote' = IF paths = << >> THEN {}
              ELSE IF slipped(x.q, dest) THEN {}
              ELSE {[x EXCEPT !.pc = "quoted", !.dest = dest, !.paths = paths,
                              !.min = (dest * (10000 - tolerance)) \div 10000]}
  /\ UNCHANGED <<ops, Money, balance, payout>>

(* Payouts: the balance is read, compared with the reserve, and the        *)
(* transaction sent.                                                       *)

computeMinBalance(subentries, baseReserve) == (2 + subentries) * baseReserve

payoutStart(p) ==
  /\ payout[p] = "idle" /\ Op("payouts")
  /\ MayOverlap \/ \A o \in Payouts : payout[o] \in {"idle", "done"}
  /\ payout' = [payout EXCEPT ![p] = "read"]
  /\ UNCHANGED <<Money, quote, balance>>

covered(p) == balance >= computeMinBalance(Minimum.subentries, Minimum.baseReserve) + p

submitPayout(p) ==
  /\ payout[p] = "read"
  /\ payout' = [payout EXCEPT ![p] = IF covered(p) THEN "send" ELSE "idle"]
  /\ UNCHANGED <<ops, Money, quote, balance>>

payoutSent(p, ok) ==
  /\ payout[p] = "send"
  /\ balance' = IF ok THEN balance - p ELSE balance
  /\ payout' = [payout EXCEPT ![p] = IF ok THEN "done" ELSE "idle"]
  /\ UNCHANGED <<ops, Money, quote>>

-----------------------------------------------------------------------------

Tick ==
  /\ now < MaxTime /\ Ops \cap {"calls", "quotes"} # {} /\ now' = now + 1
  /\ UNCHANGED <<ops, http, head, streaming, pages, payments, escrow>>

Headers == {<<Unknown, Unknown>>} \cup (Tokens \X {now + 1})

Next ==
  \/ \E c \in Calls :
       \/ \E write \in BOOLEAN : callStart(c, write)
       \/ probeNext(c) \/ \E ok \in BOOLEAN : probeHost(c, ok)
       \/ getHealthyHost(c) \/ acquire(c)
       \/ \E status \in {"ok", "malformed", "rejected", "error", "limited"}, x \in Headers :
            fetchAnswered(c, status, x[1], x[2])
       \/ \E end \in {"timeout", "refused"} : fetchFailed(c, end)
  \/ \E x \in backoffs : backoff(x)
  \/ NewEvent \/ streamEvents
  \/ \E read \in BOOLEAN, outcome \in {"open", "failure", "end"} : connect(read, outcome)
  \/ \E ok, saved \in BOOLEAN : deliver(ok, saved)
  \/ \E broken \in BOOLEAN : streamEnds(broken)
  \/ \E order \in {"asc", "desc"} : fetchAllStart(order)
  \/ \E ok \in BOOLEAN : fetchPage(ok)
  \/ \E s \in Senders :
       \/ \E seq \in {1, sequence + 1} : submitStart(s, seq)
       \/ \E fate \in {"answered", "lost", "unanswered"} : send(s, fate)
       \/ \E ok \in BOOLEAN : sendTransactionWithSequenceRecovery(s, ok)
  \/ \E b \in Bookings, phase \in {"hold", "release", "refund"} : assertContractIntegrity(b, phase)
  \/ \E i \in DOMAIN holding, matches \in BOOLEAN : holdDone(i, matches)
  \/ \E q \in Quotes : quoteStart(q)
  \/ \E x \in quote, paths \in Paths : findPathPaymentQuote(x, paths)
  \/ \E p \in Payouts : payoutStart(p) \/ submitPayout(p) \/ \E ok \in BOOLEAN : payoutSent(p, ok)
  \/ Tick

Spec == Init /\ [][Next]_vars

-----------------------------------------------------------------------------

\* A host is set aside only after enough errors close together, and the count
\* of failures, the window of samples and the open circuit of the contract
\* service are those of the outcomes of its calls.
TroubleHasCause ==
  /\ \A h \in Hosts : host[h].quarantined =>
       /\ Len(host[h].errors) >= MAX_ERRORS
       /\ Last(host[h].errors) - host[h].errors[1] <= ERROR_WINDOW
  /\ LET n == Len(outcomes)
         trailing == {k \in 0 .. n : \A i \in (n - k + 1) .. n : ~outcomes[i]} IN
     /\ service.failures = Max(trailing)
     /\ service.probes = SubSeq(outcomes, Max({1, n - probeWindowSize + 1}), n)
     /\ isCircuitOpen => \E i \in 1 .. n - failureThreshold + 1 :
                          \A j \in i .. i + failureThreshold - 1 : ~outcomes[j]

\* No more requests go to a host than its last header allowed, and a call
\* waits only where no token is left for it, in a queue of bounded length.
TokensAreCounted ==
  \A h \in Hosts :
    /\ quota[h].given # Unknown /\ bucket[h].remaining # Unknown =>
         quota[h].sent + bucket[h].remaining = quota[h].given
    /\ bucket[h].queue # << >> => bucket[h].remaining <= 0
    /\ Len(bucket[h].queue) <= maxQueueDepth
    /\ ToSet(bucket[h].queue) = {c \in Calls : call[c].pc = "queued" /\ call[c].host = h}

\* The handler misses no event after the first cursor of the stream, however
\* often it fails or the connection breaks, and the stored cursor is never
\* ahead of what was handled.
NoEventIsSkipped ==
  LET start == IF ResumeAfter # NoCursor THEN ResumeAfter ELSE FirstCursor IN
  start # NoCursor /\ ~MayLoseStore =>
    /\ \A e \in handled : (start + 1) .. e \subseteq handled
    /\ store # FirstCursor => store \in handled

\* A finished paged read has every transaction there was at its start, once
\* and in order, up to the number asked for.
PagesAreComplete ==
  pages.pc = "done" =>
    LET r == pages.records IN
    /\ \A i \in 2 .. Len(r) : r[i] = r[i - 1] + (IF pages.order = "asc" THEN 1 ELSE -1)
    /\ Len(r) >= Min({maxRecords, pages.first})
    /\ r # << >> => IF pages.order = "asc" THEN r[1] = 1 ELSE r[1] >= pages.first

\* However answers are lost and sequences collide, a payment is applied at most
\* once, and one that is reported done was applied.
AppliedOnce ==
  /\ IsInjective(applied)
  /\ \A s \in Senders : payment[s].pc = "done" => s \in ToSet(applied)

\* Overlapping holds of a booking lock its funds once, and nothing is settled
\* that was not held.
HeldOnce ==
  \A i \in DOMAIN holdTxs :
    LET before == {j \in 1 .. i - 1 : holdTxs[j] = <<holdTxs[i][1], "hold">>} IN
    (holdTxs[i][2] = "hold") <=> (before = {})

\* A quote takes the best path, never below the tolerance of the oracle's rate,
\* and its guard gives up no more than the tolerance of what was quoted.
QuoteIsFair ==
  \A x \in quote : x.pc = "quoted" =>
    /\ \A i \in DOMAIN x.paths : x.paths[i] <= x.dest
    /\ x.q.oracleRate > 0 => x.dest * 10000 >= x.q.oracleRate * x.q.amount * (10000 - tolerance)
    /\ x.min <= x.dest /\ (x.min + 1) * 10000 > x.dest * (10000 - tolerance)

\* Payouts that do not overlap leave the account its reserve.
ReserveIsKept ==
  ~MayOverlap /\ balance # Balance => balance >= computeMinBalance(Minimum.subentries, Minimum.baseReserve)

\* What the Horizon client keeps in every state.
HorizonSound ==
  /\ TroubleHasCause /\ TokensAreCounted /\ NoEventIsSkipped /\ PagesAreComplete
  /\ AppliedOnce /\ HeldOnce /\ QuoteIsFair /\ ReserveIsKept
=============================================================================
