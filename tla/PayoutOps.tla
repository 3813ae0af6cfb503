------------------------------ MODULE PayoutOps -----------------------------
(***************************************************************************)
(* The operators' side of money: refunds of a captured payment, the        *)
(* approval of large ones by a second admin, the chained ledger of         *)
(* redemptions and its verifier, dead letters of payouts read page by      *)
(* page, the delays of retries, and the draining of an old contract.       *)
(*                                                                         *)
(* A hash is the tuple of what is hashed.  External: the refund_entries    *)
(* table (one query, one step), the clock, the audit log.                  *)
(***************************************************************************)
EXTENDS Integers, Sequences, FiniteSets, SequencesExt, FiniteSetsExt

CONSTANTS
  Ops, MayFail,
  Calls, Captured, RefundAmounts,
  Admins, Threshold, ApprovalTtl, MaxRequests,
  RedemptionIds, ClockSteps,      \* how far the clock moves between inserts
  MaxEntries, PageLimit,
  baseDelay, multiplier, maxDelayCeiling, maxRetries,
  NHolds, batchSize,
  MaxTime, MaxOps

VARIABLES
  ops, time,
  refunds, call,                  \* refund_entries; the request in hand
  stale,                          \* history variable: refunded on a sum read before another entry
  approvals, handed,              \* store; requests handed back for refunding
  queue, chain, broken,           \* insertQueue; the ledger; an entry was changed
  dlq, reader,                    \* entries in order of arrival; a reader of pages
  rollup, lastCap,
  holds

refundVars == <<refunds, call, stale>>
approvalVars == <<approvals, handed>>
ledgerVars == <<queue, chain, broken>>
dlqVars == <<dlq, reader>>
retryVars == <<rollup, lastCap>>
vars == <<ops, time, refundVars, approvalVars, ledgerVars, dlqVars, retryVars, holds>>

NoReader == [on |-> FALSE, status |-> "any", offset |-> 0, seen |-> {}, start |-> {}, ended |-> FALSE, moved |-> FALSE]
NoCall == [at |-> "idle", amount |-> 0, old |-> FALSE]

Init ==
  /\ ops = 0 /\ time = 0
  /\ refunds = << >> /\ call = [c \in Calls |-> NoCall] /\ stale = 0
  /\ approvals = << >> /\ handed = << >>
  /\ queue = << >> /\ chain = << >> /\ broken = "no"
  /\ dlq = << >> /\ reader = NoReader
  /\ rollup = [attempts |-> 0, scheduled |-> 0, exhausted |-> 0, ceilingHits |-> 0] /\ lastCap = [a \in 0 .. maxRetries |-> 0]
  /\ holds \in [1 .. NHolds -> [old : BOOLEAN, status : {"pending", "finalized"}]]

Op(name) == name \in Ops /\ ops < MaxOps /\ ops' = ops + 1
SumOf(s) == FoldSeq(LAMBDA x, n : x + n, 0, s)

-----------------------------------------------------------------------------
(* Refunds.                                                                *)

sumRefundedCents == SumOf(refunds)

exceedsRemaining(amount) == amount > Captured - sumRefundedCents

\* The sum is read and compared, the entry created after the next await.
createRefund(c, amount) ==
  /\ call[c].at = "idle" /\ Op("refunds")
  /\ call' = IF exceedsRemaining(amount) THEN call
             ELSE [call EXCEPT ![c] = [at |-> "create", amount |-> amount, old |-> FALSE]]
  /\ UNCHANGED <<time, refunds, stale, approvalVars, ledgerVars, dlqVars, retryVars, holds>>

create(c) ==
  /\ call[c].at = "create"
  /\ refunds' = Append(refunds, call[c].amount)
  /\ stale' = IF call[c].old THEN stale + call[c].amount ELSE stale
  /\ call' = [d \in Calls |-> IF d = c THEN NoCall ELSE [call[d] EXCEPT !.old = call[d].at = "create"]]
  /\ UNCHANGED <<ops, time, approvalVars, ledgerVars, dlqVars, retryVars, holds>>

\* POST /refunds: only positive amounts.
postRefund == \E c \in Calls, a \in RefundAmounts : a > 0 /\ createRefund(c, a)

\* What getPaymentTrace shows as remaining.
remainingCents == Captured - sumRefundedCents

-----------------------------------------------------------------------------
(* Approval by a second admin.                                             *)

requiresApproval(amount) == amount >= Threshold

initiate(by, amount) ==
  /\ Len(approvals) < MaxRequests /\ Op("approvals")
  /\ approvals' = IF ~requiresApproval(amount) THEN approvals
                  ELSE Append(approvals, [status |-> "pending", by |-> by, amount |-> amount, left |-> ApprovalTtl,
                                          approver |-> "", late |-> FALSE])
  /\ handed' = IF requiresApproval(amount) THEN handed ELSE Append(handed, 0)
  /\ UNCHANGED <<time, refundVars, ledgerVars, dlqVars, retryVars, holds>>

\* getById turns a pending request whose time is up into an expired one.
\* Mutant: the time is not looked at.
expiryCheckedNot(x) == x

expiryChecked(x) == IF x.status = "pending" /\ x.left = 0 THEN [x EXCEPT !.status = "expired"] ELSE x

requirePending(k) == expiryChecked(approvals[k]).status = "pending"

selfApproval(by, initiator) == by = initiator

\* The audit entry is written after the decision: when that fails, the caller
\* gets an error and no refund request.
approve(k, by, audited) ==
  LET x == expiryChecked(approvals[k]) IN
  /\ Op("approvals") /\ k \in DOMAIN approvals /\ (audited \/ MayFail)
  /\ IF requirePending(k) /\ ~selfApproval(by, x.by)
     THEN /\ approvals' = [approvals EXCEPT ![k] = [x EXCEPT !.status = "approved", !.approver = by, !.late = (x.left = 0)]]
          /\ handed' = IF audited THEN Append(handed, k) ELSE handed
     ELSE approvals' = [approvals EXCEPT ![k] = x] /\ UNCHANGED handed
  /\ UNCHANGED <<time, refundVars, ledgerVars, dlqVars, retryVars, holds>>

deny(k) ==
  /\ Op("approvals") /\ k \in DOMAIN approvals
  /\ approvals' = [approvals EXCEPT ![k] = IF requirePending(k) THEN [@ EXCEPT !.status = "denied"] ELSE expiryChecked(@)]
  /\ UNCHANGED <<time, handed, refundVars, ledgerVars, dlqVars, retryVars, holds>>

\* list: every request is looked at.
listApprovals ==
  /\ Op("approvals") /\ approvals' = [k \in DOMAIN approvals |-> expiryChecked(approvals[k])]
  /\ UNCHANGED <<time, handed, refundVars, ledgerVars, dlqVars, retryVars, holds>>

-----------------------------------------------------------------------------
(* The ledger of redemptions.                                              *)

deriveEntryHash(id, prev, at) == <<id, prev, at>>

\* insert takes its place in the queue.
insert(id) ==
  /\ Op("ledger") /\ broken = "no" /\ queue' = Append(queue, id)
  /\ UNCHANGED <<time, refundVars, approvalVars, chain, broken, dlqVars, retryVars, holds>>

duplicate(id) == \E k \in DOMAIN chain : chain[k].id = id

\* The predecessor has ended: the entry is chained to the tail.
runInsert(step) ==
  LET id == Head(queue)
      prev == IF chain = << >> THEN << >> ELSE Last(chain).hash IN
  /\ queue # << >> /\ broken = "no"
  /\ queue' = Tail(queue) /\ time' = time + step
  /\ chain' = IF duplicate(id) THEN chain
              ELSE Append(chain, [id |-> id, prev |-> prev, at |-> time + step, hash |-> deriveEntryHash(id, prev, time + step)])
  /\ UNCHANGED <<ops, refundVars, approvalVars, broken, dlqVars, retryVars, holds>>

\* A row of the ledger is changed afterwards: its id or time, its hash with
\* the link of the next row, or it is taken out.
Change(k, kind) ==
  /\ Op("ledger") /\ broken = "no" /\ k \in DOMAIN chain
  /\ broken' = IF kind = "delete" /\ k = Len(chain) THEN "tail" ELSE "changed"
  /\ chain' = CASE kind = "id" -> [chain EXCEPT ![k].id = 0]
              [] kind = "time" -> [chain EXCEPT ![k].at = @ + 1]
              [] kind = "hash" -> [j \in DOMAIN chain |-> IF j = k THEN [chain[j] EXCEPT !.hash = << >>]
                                                          ELSE IF j = k + 1 THEN [chain[j] EXCEPT !.prev = << >>] ELSE chain[j]]
              [] kind = "delete" -> RemoveAt(chain, k)
  /\ UNCHANGED <<time, queue, refundVars, approvalVars, dlqVars, retryVars, holds>>

hashHolds(x) == x.hash = deriveEntryHash(x.id, x.prev, x.at)

verifyChain(s) ==
  /\ s # << >> => s[1].prev = << >>
  /\ \A k \in DOMAIN s : hashHolds(s[k]) /\ (k > 1 => s[k].prev = s[k - 1].hash)

\* The script reads the rows in the order of their time; rows of one instant
\* come in any order.
fetchRowsFromDb ==
  {[k \in DOMAIN chain |-> chain[p[k]]] :
     p \in {q \in [DOMAIN chain -> DOMAIN chain] : /\ \A i, j \in DOMAIN chain : i # j => q[i] # q[j]
                                                   /\ \A i, j \in DOMAIN chain : i < j => chain[q[i]].at <= chain[q[j]].at}}

walkChain(rows) == verifyChain(rows)

-----------------------------------------------------------------------------
(* Dead letters of payouts.                                                *)

add(later) ==
  /\ Len(dlq) < MaxEntries /\ Op("dlq")
  /\ dlq' = Append(dlq, [at |-> IF dlq = << >> THEN 0 ELSE Last(dlq).at + (IF later THEN 1 ELSE 0), status |-> "pending"])
  /\ UNCHANGED <<time, refundVars, approvalVars, ledgerVars, reader, retryVars, holds>>

\* Those of a status, newest first; of one instant in the order of arrival.
ofStatus(status) == {e \in DOMAIN dlq : status = "any" \/ dlq[e].status = status}

listed(status) ==
  LET before(a, b) == dlq[a].at > dlq[b].at \/ (dlq[a].at = dlq[b].at /\ a < b)
      es == ofStatus(status) IN
  [n \in 1 .. Cardinality(es) |-> CHOOSE e \in es : Cardinality({x \in es : before(x, e)}) = n - 1]

page(status, offset) == SubSeq(listed(status), offset + 1, Min({offset + PageLimit, Len(listed(status))}))

\* GET /payout-dlq of any status or of one, with the next offset, until a page
\* is short.
getPayoutDlq(status) ==
  LET p == page(status, reader.offset) IN
  /\ Op("dlq") /\ ~reader.ended /\ (reader.on => status = reader.status)
  /\ reader' = [reader EXCEPT !.on = TRUE, !.status = status, !.offset = @ + PageLimit, !.seen = @ \cup Range(p),
                              !.start = IF reader.on THEN @ ELSE ofStatus(status), !.ended = Len(p) < PageLimit]
  /\ UNCHANGED <<time, refundVars, approvalVars, ledgerVars, dlq, retryVars, holds>>

\* GET /payout-dlq/:entryId marks the entry.  History: a reader of pages lost an
\* entry of its status by it.
markInspected(e) ==
  /\ Op("dlq") /\ e \in DOMAIN dlq /\ dlq' = [dlq EXCEPT ![e].status = "inspected"]
  /\ reader' = [reader EXCEPT !.moved = @ \/ (reader.on /\ reader.status = "pending" /\ dlq[e].status = "pending")]
  /\ UNCHANGED <<time, refundVars, approvalVars, ledgerVars, retryVars, holds>>

-----------------------------------------------------------------------------
(* Delays of retries, and the draining of an old contract.                 *)

backoffCap(attempt) == Min({maxDelayCeiling, baseDelay * multiplier ^ attempt})

isRetryable(attempt) == attempt < maxRetries

resolveRetryOutcome(cap, exhausted) ==
  IF exhausted THEN "exhausted" ELSE IF cap = maxDelayCeiling THEN "ceilingHits" ELSE "scheduled"

recordAttempt(attempt) ==
  LET cap == backoffCap(attempt) IN
  /\ Op("retries")
  /\ rollup' = [rollup EXCEPT !.attempts = @ + 1, ![resolveRetryOutcome(cap, ~isRetryable(attempt))] = @ + 1]
  /\ lastCap' = [lastCap EXCEPT ![attempt] = cap]
  /\ UNCHANGED <<time, refundVars, approvalVars, ledgerVars, dlqVars, holds>>

\* EscrowDrainWorker.drain.
drain ==
  LET targets == SelectSeq([h \in 1 .. NHolds |-> h], LAMBDA h : holds[h].old /\ holds[h].status = "finalized")
      batch == Range(SubSeq(targets, 1, Min({batchSize, Len(targets)}))) IN
  /\ Op("drain")
  /\ holds' = [h \in 1 .. NHolds |-> IF h \in batch THEN [holds[h] EXCEPT !.status = "drained"] ELSE holds[h]]
  /\ UNCHANGED <<time, refundVars, approvalVars, ledgerVars, dlqVars, retryVars>>

-----------------------------------------------------------------------------

Tick ==
  /\ "approvals" \in Ops /\ time < MaxTime /\ time' = time + 1
  /\ approvals' = [k \in DOMAIN approvals |-> [approvals[k] EXCEPT !.left = Max({0, @ - 1})]]
  /\ UNCHANGED <<ops, handed, refundVars, ledgerVars, dlqVars, retryVars, holds>>

Next ==
  \/ postRefund \/ \E c \in Calls : create(c)
  \/ \E by \in Admins, a \in RefundAmounts : initiate(by, a)
  \/ \E k \in 1 .. MaxRequests, by \in Admins, audited \in BOOLEAN : approve(k, by, audited)
  \/ (\E k \in 1 .. MaxRequests : deny(k)) \/ listApprovals
  \/ (\E id \in RedemptionIds : insert(id)) \/ \E s \in ClockSteps : runInsert(s)
  \/ \E k \in 1 .. MaxOps, kind \in {"id", "time", "hash", "delete"} : Change(k, kind)
  \/ (\E later \in BOOLEAN : add(later)) \/ (\E st \in {"any", "pending"} : getPayoutDlq(st)) \/ \E e \in 1 .. MaxEntries : markInspected(e)
  \/ \E a \in 0 .. maxRetries : recordAttempt(a)
  \/ drain \/ Tick

Spec == Init /\ [][Next]_vars

-----------------------------------------------------------------------------

\* No more is refunded than was captured, but for refunds that were checked
\* before another one was entered: createRefund reads the sum and creates the
\* entry after another await, so overlapping requests (which
\* refund.concurrency.test.ts:157 calls serialised, on a repository of its own)
\* may exceed it by their own amounts, and by no more.
RefundedWithinCaptured == remainingCents + stale >= 0

\* A large refund is approved by another admin, before its time is up, and
\* handed back for refunding once at most.
ApprovedByAnother ==
  /\ \A k \in DOMAIN approvals : approvals[k].status = "approved" => approvals[k].approver # approvals[k].by /\ ~approvals[k].late
  /\ \A i, j \in DOMAIN handed : handed[i] = handed[j] /\ handed[i] # 0 => i = j

\* The chain of queued inserts verifies, with each redemption once; a row
\* changed afterwards, or taken out before the tail, is found, also by the script
\* in whatever order rows of one instant come; rows of different instants that
\* nobody touched verify.
LedgerIsEvident ==
  /\ broken # "changed" => verifyChain(chain) /\ \A i, j \in DOMAIN chain : chain[i].id = chain[j].id => i = j
  /\ broken = "changed" => ~verifyChain(chain)
  /\ \A rows \in fetchRowsFromDb :
       /\ broken = "changed" => ~walkChain(rows)
       /\ broken # "changed" /\ (\A i, j \in DOMAIN chain : chain[i].at = chain[j].at => i = j) => walkChain(rows)

\* Pages read one after the other show every dead letter of the status asked for
\* that was there at the first, though others arrive and entries are inspected;
\* but a reader of the pending ones may miss some when one of them is inspected
\* between the pages, which moves the others up.
PagesCoverDeadLetters == reader.ended /\ ~reader.moved => reader.start \subseteq reader.seen

\* Delays grow up to the ceiling, and every attempt has one outcome.
RetriesAreCounted ==
  /\ rollup.attempts = rollup.scheduled + rollup.exhausted + rollup.ceilingHits
  /\ \A a, b \in 0 .. maxRetries : a < b /\ lastCap[b] > 0 => lastCap[a] <= lastCap[b] /\ lastCap[b] <= maxDelayCeiling

\* Refunds, approvals, redemptions and dead letters are sound.
PayoutOpsSound == RefundedWithinCaptured /\ ApprovedByAnother /\ LedgerIsEvident /\ PagesCoverDeadLetters /\ RetriesAreCounted

=============================================================================
