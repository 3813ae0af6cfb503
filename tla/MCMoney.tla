------------------------------- MODULE MCMoney -------------------------------
(***************************************************************************)
(* What moves money after a booking: the settlement reconciler with        *)
(* quarantine and replay, the settlement webhook, the refunds on chain,    *)
(* the ledger of cancellation reversals, disputes, and the operations      *)
(* around payouts.  They share no state, so one of them runs at a time     *)
(* while the others stay in their initial state.                           *)
(***************************************************************************)
EXTENDS Money

CONSTANTS Parts   \* the parts that run

VARIABLES
  part,
  entries, netRefund, pc, prev, hashedAt, sum, released, trace, paused, clock, serial,
  payoutOps, payoutTime, refunds, call, stale, requests, handed, inserts, redemptions, broken, dlq, reader, rollup,
  lastCap, holds

Delivery(id, tr, event) == [id |-> id, tx |-> tr, event |-> event]

\* Repeated and contradicting reports, and one of a settlement that only begins.
Reports ==
  {Delivery(1, "t1", "settlement_completed"), Delivery(2, "t1", "settlement_completed"),
   Delivery(3, "t1", "settlement_failed"), Delivery(4, "t2", "settlement_failed"),
   Delivery(5, "t2", "settlement_initiated")}

Request(id, payment, booking, amount, currency, key, escrow) ==
  [id |-> id, payment |-> payment, booking |-> booking, amount |-> amount, currency |-> currency,
   key |-> key, tenant |-> "t", escrow |-> escrow]

Cancel == Request(1, "p", "b", -2, "USD", "k1", 1)
Again == Request(2, "p", "b", -2, "USD", "k1", 1)
Correct == Request(3, "p", "b", 1, "USD", "k2", 0)
Foreign == Request(4, "p", "b", -2, "EUR", "k3", 0)
Other == Request(5, "p2", "b2", -2, "USD", "k4", 0)
Back == Request(6, "p", "b", -1, "USD", "k6", 0)

SessionCurrency == [p \in {"p", "p2"} |-> "USD"]
MaxClock == 1

\* In memory.
Reversals == INSTANCE CancellationReversals WITH
  Requests <- {Cancel, Again, Correct, Foreign, Back}, NetRefunds <- {1, 2}, Pg <- FALSE, Traced <- {}

\* In PostgreSQL, which the routes use: requests of two payments, and traces.
ReversalsTraced == INSTANCE CancellationReversals WITH
  Requests <- {Cancel, Correct, Other, Back}, NetRefunds <- {1, 2}, Pg <- TRUE, Traced <- {"p"}

\* Requests of one key, and one of another.
ReversalsOfKey == INSTANCE CancellationReversals WITH
  Requests <- {Cancel, Again, Back}, NetRefunds <- {1, 2, 3}, Pg <- TRUE, Traced <- {}

Calls == {"c", "d"}
Captured == 10
RefundAmounts == {0, 4, 6, 7}
ApprovalTtl == 1
MaxRequests == 2
RedemptionIds == {1, 2, 3}
ClockSteps == {0, 1}
MaxEntries == 4
PageLimit == 2
Limit == [refunds |-> 5, approvals |-> 4, ledger |-> 4, dlq |-> 6, retries |-> 3, drain |-> 4]

\* One family of operations around payouts: refunds of a captured payment, their
\* approval, the ledger of redemptions, dead letters, retries, and the drain of
\* old holds.
PayoutOp(family) == INSTANCE PayoutOps WITH
  Ops <- {family}, MaxOps <- Limit[family], NHolds <- IF family = "drain" THEN 2 ELSE 0, batchSize <- 1,
  MayFail <- TRUE, Admins <- {"a", "b"}, Threshold <- 6,
  maxDelayCeiling <- 7, maxRetries <- 3, baseDelay <- 2, MaxTime <- 2,
  ops <- payoutOps, time <- payoutTime, approvals <- requests, queue <- inserts, chain <- redemptions

settling ==
  <<tip, txLedger, doomed, settlement, alerts, inFlight, loop, quarantine, replay, approvals, faults>>
refunding == <<record, tx, nTx, caller, refundLoop, refundFaults, orderly, landed>>
reporting == <<at, reply, row, settlements, webhookFaults, lapsed, lost>>
reversing == <<entries, netRefund, pc, prev, hashedAt, sum, released, trace, paused, clock, serial>>
disputing == <<dispute, age, arbitration, queue, pool, appeal, moved, from, inTurn>>
payouts ==
  <<payoutOps, payoutTime, refunds, call, stale, requests, handed, inserts, redemptions, broken, dlq, reader, rollup,
    lastCap, holds>>
all == <<part, settling, refunding, reporting, reversing, disputing, payouts>>

\* A part that does not run is in one of its initial states.
ReversalInit ==
  CASE part = "reversals" -> Reversals!Init
    [] part = "reversals traced" -> ReversalsTraced!Init
    [] part = "reversals of key" -> ReversalsOfKey!Init
    [] OTHER -> Reversals!Init /\ netRefund = [b \in {"b"} |-> 1]

MCInit ==
  /\ part \in Parts
  /\ Init /\ Refund!Init /\ Webhook!Init /\ Dispute!Init
  /\ doomed \subseteq IF part \in {"settlement", "settlement pair"} THEN {"s1"} ELSE {}
  /\ ReversalInit
  /\ IF part = "drain" THEN PayoutOp("drain")!Init ELSE PayoutOp("refunds")!Init

\* One settlement with two runs and two administrators, or two settlements that
\* one run awaits in turn.
SettlementNext ==
  \/ /\ part = "settlement" /\ Next
     /\ settlement'["s2"].status = "none" /\ txLedger'["s2"] = 0
  \/ /\ part = "settlement pair" /\ Next
     /\ loop'["l2"] = Asleep /\ replay' = replay /\ tip' <= 4 /\ faults' = 0

\* One refund that callers and runs handle in any order, or two refunds of one
\* caller in one run.
RefundNext ==
  \/ /\ part = "refund" /\ Refund!Next
     /\ record'["r2"].status = "none"
  \/ /\ part = "refund pair" /\ Refund!Next
     /\ caller'["c2"] = NoRefund /\ refundLoop'["l2"].at = "asleep"

\* Queries fail while all reports come in; or keys expire and are swept, and the
\* process restarts, while the outcomes come in.
WebhookNext ==
  \/ part = "webhook" /\ Webhook!Next /\ ~lapsed' /\ ~lost'
  \/ /\ part = "webhook expiring" /\ Webhook!Next
     /\ webhookFaults' <= 1 /\ \A d \in Deliveries : d.event \notin Webhook!Queued => at'[d] = "new"

\* Requests one at a time, in memory and in PostgreSQL; or overlapping ones.
ReversalNext ==
  \/ part = "reversals" /\ Reversals!Next /\ serial'
  \/ part = "reversals traced" /\ ReversalsTraced!Next /\ serial'
  \/ part = "reversals of key" /\ ReversalsOfKey!Next

\* Calls wait for an appeal to end; or they come in while it is audited, and the
\* pool and the ruling are given.
DisputeNext ==
  \/ part = "disputes" /\ Dispute!Next /\ inTurn'
  \/ /\ part = "disputes overlap" /\ Dispute!Next
     /\ pool' = pool /\ \A d \in Disputes : dispute'[d].arbiter # 0 => dispute'[d].ruling # "none"

PayoutNext == \E family \in DOMAIN Limit : part = family /\ PayoutOp(family)!Next

MCNext ==
  \/ SettlementNext /\ UNCHANGED <<part, refunding, reporting, reversing, disputing, payouts>>
  \/ RefundNext /\ UNCHANGED <<part, settling, reporting, reversing, disputing, payouts>>
  \/ WebhookNext /\ UNCHANGED <<part, settling, refunding, reversing, disputing, payouts>>
  \/ ReversalNext /\ UNCHANGED <<part, settling, refunding, reporting, disputing, payouts>>
  \/ DisputeNext /\ UNCHANGED <<part, settling, refunding, reporting, reversing, payouts>>
  \/ PayoutNext /\ UNCHANGED <<part, settling, refunding, reporting, reversing, disputing>>

\* Without requests the operations around payouts are at rest, and so is the
\* webhook once the outcomes are acknowledged.
Idle ==
  /\ \/ part \in DOMAIN Limit
     \/ part = "webhook expiring" /\ \A d \in Deliveries : d.event \in Webhook!Queued => at[d] = "done"
  /\ UNCHANGED all

MCSpec == MCInit /\ [][MCNext \/ Idle]_all

-----------------------------------------------------------------------------
\* The types of a component are a conjunct of an invariant about it.

\* A key has one entry however its requests interleave.  While requests come one
\* at a time, the entries of a payment are linked in order, an insert leaves the
\* booking's entries with the sum -netRefund, a repeated request does not release
\* the escrow again, and a payment trace that certifies itself shows rows that are
\* complete and in balance.  The chain verifies in memory; the rows of PostgreSQL,
\* which the routes use, need not, since created_at is hashed and not stored.
LedgerSound ==
  /\ [](part = "reversals" => Reversals!TypeOK /\ Reversals!ChainIntact /\ Reversals!OneEntryPerKey)
  /\ [](part = "reversals traced" =>
         ReversalsTraced!TypeOK /\ ReversalsTraced!ChainIntact /\ ReversalsTraced!OneEntryPerKey)
  /\ [](part = "reversals of key" =>
         ReversalsOfKey!TypeOK /\ ReversalsOfKey!ChainIntact /\ ReversalsOfKey!OneEntryPerKey)
  /\ [][/\ part = "reversals" => Reversals!SumStep /\ Reversals!ReleaseStep
        /\ part = "reversals of key" => ReversalsOfKey!SumStep /\ ReversalsOfKey!ReleaseStep
        /\ part = "reversals traced" =>
             ReversalsTraced!SumStep /\ ReversalsTraced!ReleaseStep /\ ReversalsTraced!CertifiedStep]_all

\* No more is refunded than was captured, beyond what overlapping requests add
\* that were checked before one another's entries; a large refund has the approval
\* of another administrator in time, and is handed back once; the chain of
\* redemptions verifies until a row is changed; pages of dead letters miss none
\* that was there unless pending ones are listed and inspected meanwhile; delays
\* grow up to their ceiling and every attempt is counted once.
PayoutOpsSound == \A family \in DOMAIN Limit : part = family => PayoutOp(family)!PayoutOpsSound
=============================================================================
