------------------------------- MODULE Money -------------------------------
(***************************************************************************)
(* Money on its way out: the settlements that the reconciler follows on    *)
(* the chain, the provider's reports that register them, the refunds of    *)
(* escrow, and the disputes that move it.  What they promise, and proofs   *)
(* of it for every value of the constants.                                 *)
(***************************************************************************)
EXTENDS SettlementReconciler, TLAPS

CONSTANTS
  Deliveries, MaxReportFaults,
  Refunds, Callers, NoRefund, maxAttempts, MaxTx, MaxRefundFaults,
  Disputes, Appeals, Arbiters, Conflicted, Rulings, PanelMinSize,
  appealWindow, inactivityTimeout, seniorReviewTimeout, autoResolveWindow

VARIABLES
  at, reply, row, settlements, webhookFaults, lapsed, lost,
  record, tx, nTx, caller, refundLoop, refundFaults, orderly, landed,
  dispute, age, arbitration, queue, pool, appeal, moved, from, inTurn

-----------------------------------------------------------------------------
(* The reconciler, for any settlements, runs and administrators.          *)

\* Most steps need no arithmetic: Zenon is tried first, and SMT on what is left.
USE ZenonT(2), SMTT(15), ZenonT(15)

\* Ledgers that close and reorganisations that are shallow enough leave a
\* finalized settlement on the chain.
LEMMA ChainStep ==
  ASSUME Assumed, ReconcilerInv,
         \/ \E S \in SUBSET Settlements : closeLedger(S)
         \/ \E depth \in 1..MaxReorg, again \in SUBSET Settlements : reorganise(depth, again)
  PROVE  ReconcilerInv'
<1>0. /\ tip \in 0..MaxLedger /\ txLedger \in [Settlements -> Nat] /\ \A s \in Settlements : Deep(s)
      /\ \A s \in Settlements : txLedger[s] \in Nat
      /\ \A l \in Loops : loop[l].latest \in Nat /\ loop[l].latest <= tip
  BY DEF ReconcilerInv, Kinds, RunInv, LoopKind
<1>1. UNCHANGED <<doomed, settlement, alerts, inFlight, loop, quarantine, replay, approvals>>
  BY DEF closeLedger, reorganise
<1> DEFINE Kept == /\ tip' \in 0..MaxLedger /\ tip <= tip' /\ txLedger' \in [Settlements -> Nat]
                   /\ \A s \in Settlements : Deep(s)'
<1>2. Kept
  <2>1. ASSUME NEW S \in SUBSET Settlements, closeLedger(S) PROVE Kept
    <3>1. /\ tip' = tip + 1 /\ tip < MaxLedger
          /\ \A s \in Settlements : txLedger'[s] = txLedger[s] \/ (txLedger[s] = 0 /\ txLedger'[s] = tip + 1)
          /\ txLedger' \in [Settlements -> Nat]
      BY <1>0, <2>1 DEF closeLedger
    <3> QED BY <1>0, <1>1, <3>1 DEF Deep, Assumed
  <2>2. ASSUME NEW depth \in 1..MaxReorg, NEW again \in SUBSET Settlements, reorganise(depth, again)
        PROVE  Kept
    <3>1. /\ tip' = tip /\ txLedger' \in [Settlements -> Nat]
          /\ \A s \in Settlements : txLedger'[s] \in {txLedger[s], tip, 0}
          /\ \A s \in Settlements : txLedger[s] <= tip - depth => txLedger'[s] = txLedger[s]
      BY <1>0, <2>2 DEF reorganise, Assumed
    <3>2. \A s \in Settlements : settlement[s].status = "finalized" => txLedger[s] <= tip - depth
      BY <1>0 DEF Deep, Assumed
    <3> QED BY <1>0, <1>1, <3>1, <3>2 DEF Deep
  <2> QED BY <2>1, <2>2
<1>3. Kinds' /\ QuarantineCounts' /\ \A s \in Settlements : Recorded(s)'
  BY <1>1, <1>2 DEF ReconcilerInv, Kinds, QuarantineCounts, Recorded
<1>4. RunInv'
  BY <1>0, <1>1, <1>2 DEF ReconcilerInv, RunInv
<1> QED BY <1>2, <1>3, <1>4 DEF ReconcilerInv

\* A step of a route or of the run changes the record of one settlement and leaves
\* the chain alone.
LEMMA RecordStep ==
  ASSUME Assumed, ReconcilerInv, UNCHANGED chain, Kinds', RunInv', QuarantineCounts',
         NEW s \in Settlements, Recorded(s)',
         settlement'[s].status = "finalized" => settlement[s].status = "finalized" \/ Deep(s)',
         \A q \in Settlements \ {s} :
           /\ settlement'[q].status = settlement[q].status
           /\ settlement'[q].attempts = settlement[q].attempts
           /\ alerts'[q] = alerts[q] /\ replay'[q] = replay[q]
  PROVE  ReconcilerInv'
<1>1. \A q \in Settlements \ {s} : Deep(q)' /\ Recorded(q)'
  BY DEF chain, ReconcilerInv, Deep, Recorded
<1>2. Deep(s)'
  BY DEF chain, ReconcilerInv, Deep
<1> QED BY <1>1, <1>2 DEF ReconcilerInv

\* A payout that fails once more is in quarantine exactly from the threshold on.
LEMMA FailureCounts ==
  ASSUME Assumed, quarantine \in [Settlements -> QuarantineKind], QuarantineCounts,
         NEW s \in Settlements, recordFailure(s)
  PROVE  quarantine' \in [Settlements -> QuarantineKind] /\ QuarantineCounts'
<1> DEFINE total == IF quarantine[s].failures = Threshold THEN Threshold ELSE quarantine[s].failures + 1
           status == IF total >= Threshold THEN "quarantined" ELSE "active"
           new == [status |-> status, failures |-> total]
<1>1. total \in 0..Threshold
  BY DEF QuarantineKind, Assumed
<1>2. status \in {"quarantined", "active"} /\ (status = "quarantined" <=> total >= Threshold)
  OBVIOUS
<1>3. quarantine' = [quarantine EXCEPT ![s] = new]
  BY DEF recordFailure
<1> HIDE DEF total, status
<1>4. new \in QuarantineKind /\ new.status = status /\ new.failures = total
  BY <1>1, <1>2 DEF QuarantineKind
<1> HIDE DEF new
<1>5. quarantine'[s] = new /\ \A q \in Settlements \ {s} : quarantine'[q] = quarantine[q]
  BY <1>3
<1> QED BY <1>2, <1>3, <1>4, <1>5 DEF QuarantineCounts

\* A run that is done with one settlement goes on with the rest.
LEMMA GoesOn ==
  ASSUME Kinds, Assumed, NEW l \in Loops, NEW s \in Settlements, loop' = Next1(l, s)
  PROVE  /\ loop' \in [Loops -> LoopKind]
         /\ \A m \in Loops \ {l} : loop'[m] = loop[m]
         /\ loop'[l].at = "poll" /\ loop'[l].todo = loop[l].todo \ {s}
         /\ loop'[l].latest = loop[l].latest /\ loop'[l].cur = NoOne
<1> DEFINE left == loop[l].todo \ {s}
           new == [loop[l] EXCEPT !.todo = left, !.at = "poll", !.cur = NoOne]
<1>0. loop[l] \in LoopKind /\ loop \in [Loops -> LoopKind]
  BY DEF Kinds
<1>1. left \in SUBSET Settlements
  BY <1>0 DEF LoopKind
<1>2. loop' = [loop EXCEPT ![l] = new]
  BY <1>0 DEF Next1
<1> HIDE DEF left
<1>3. /\ new \in LoopKind /\ new.at = "poll" /\ new.todo = left /\ new.latest = loop[l].latest
      /\ new.cur = NoOne
  BY <1>0, <1>1 DEF LoopKind
<1> HIDE DEF new
<1>4. loop'[l] = new /\ \A m \in Loops \ {l} : loop'[m] = loop[m]
  BY <1>0, <1>2
<1> QED BY <1>0, <1>2, <1>3, <1>4 DEF left

\* The steps of the run that change no record.
LEMMA QuietStep ==
  ASSUME Assumed, ReconcilerInv, NEW l \in Loops,
         \/ tick(l) \/ getLatestLedgerSequence(l) \/ latestLedgerThrows(l) \/ finalityThrows(l) \/ endRun(l)
         \/ \E s \in Settlements : skipBackoff(l, s)
  PROVE  ReconcilerInv'
<1>0. /\ Kinds /\ RunInv /\ loop \in [Loops -> LoopKind] /\ \A m \in Loops : loop[m] \in LoopKind
      /\ \A m \in Loops : loop[m].todo \subseteq Settlements /\ loop[m].latest \in Nat
      /\ tip \in Nat
  BY DEF ReconcilerInv, Kinds, LoopKind
<1>1. UNCHANGED <<chain, settlement, alerts, quarantine, replay, approvals>>
  BY DEF tick, getLatestLedgerSequence, latestLedgerThrows, finalityThrows, endRun, skipBackoff
<1>2. \A s \in Settlements : Deep(s)' /\ Recorded(s)'
  BY <1>1 DEF chain, ReconcilerInv, Deep, Recorded
<1> SUFFICES loop' \in [Loops -> LoopKind] /\ RunInv'
  BY <1>1, <1>2 DEF chain, ReconcilerInv, Kinds, QuarantineCounts
<1>3. CASE tick(l)
  <2> DEFINE active == {s \in Settlements : settlement[s].status \in Active}
             new == [at |-> "ledger", todo |-> active, cur |-> NoOne, latest |-> 0]
  <2>1. loop' = [loop EXCEPT ![l] = new] /\ inFlight' = TRUE /\ ~inFlight
    BY <1>3 DEF tick
  <2>2. new \in LoopKind /\ new.at = "ledger" /\ new.todo = active /\ new.latest = 0 /\ new.cur = NoOne
    BY DEF LoopKind
  <2>3. \A s \in active : settlement[s].status \in Active
    OBVIOUS
  <2> HIDE DEF new, active
  <2>4. loop'[l] = new /\ \A m \in Loops \ {l} : loop'[m] = loop[m] /\ loop[m].at = "asleep"
    BY <1>0, <2>1 DEF RunInv
  <2> QED BY <1>0, <1>1, <2>1, <2>2, <2>3, <2>4 DEF RunInv, chain
<1>4. CASE getLatestLedgerSequence(l)
  <2>1. /\ loop' = [loop EXCEPT ![l].at = "poll", ![l].latest = tip] /\ inFlight' = inFlight
        /\ loop[l].at = "ledger"
    BY <1>4 DEF getLatestLedgerSequence
  <2>2. /\ loop' \in [Loops -> LoopKind]
        /\ loop'[l].at = "poll" /\ loop'[l].todo = loop[l].todo /\ loop'[l].latest = tip
        /\ loop'[l].cur = NoOne
        /\ \A m \in Loops \ {l} : loop'[m] = loop[m]
    BY <1>0, <2>1 DEF LoopKind, RunInv
  <2> QED BY <1>0, <1>1, <2>1, <2>2 DEF RunInv, chain
<1>5. CASE latestLedgerThrows(l) \/ endRun(l)
  <2>1. loop' = [loop EXCEPT ![l] = Asleep] /\ inFlight' = FALSE /\ loop[l].at # "asleep"
    BY <1>5 DEF latestLedgerThrows, endRun, EndRun
  <2>2. /\ Asleep \in LoopKind /\ Asleep.at = "asleep" /\ Asleep.todo = {} /\ Asleep.latest = 0
        /\ Asleep.cur = NoOne
    BY DEF Asleep, LoopKind
  <2>3. \A m \in Loops \ {l} : loop'[m] = loop[m] /\ loop[m].at = "asleep"
    BY <1>0, <2>1 DEF RunInv
  <2> QED BY <1>0, <1>1, <2>1, <2>2, <2>3 DEF RunInv, chain
<1>6. CASE finalityThrows(l) \/ \E s \in Settlements : skipBackoff(l, s)
  <2>1. PICK s \in Settlements : loop' = Next1(l, s) /\ loop[l].at # "asleep" /\ inFlight' = inFlight
    BY <1>0, <1>6 DEF finalityThrows, skipBackoff, RunInv
  <2>2. /\ loop' \in [Loops -> LoopKind]
        /\ \A m \in Loops \ {l} : loop'[m] = loop[m]
        /\ loop'[l].at = "poll" /\ loop'[l].todo = loop[l].todo \ {s}
        /\ loop'[l].latest = loop[l].latest /\ loop'[l].cur = NoOne
    BY <1>0, <2>1, GoesOn
  <2> QED BY <1>0, <1>1, <2>1, <2>2 DEF RunInv, chain
<1> QED BY <1>3, <1>4, <1>5, <1>6

\* The run stamps the settlement it is about to ask about.
LEMMA PollStep ==
  ASSUME Assumed, ReconcilerInv, NEW l \in Loops, NEW s \in Settlements, poll(l, s)
  PROVE  ReconcilerInv'
<1>0. /\ Kinds /\ RunInv /\ loop \in [Loops -> LoopKind] /\ \A m \in Loops : loop[m] \in LoopKind
      /\ settlement \in [Settlements -> SettlementKind] /\ settlement[s] \in SettlementKind
      /\ \A m \in Loops : loop[m].todo \subseteq Settlements
      /\ Deep(s) /\ Recorded(s)
  BY DEF ReconcilerInv, Kinds, LoopKind
<1>1. /\ UNCHANGED <<chain, alerts, inFlight, quarantine, replay, approvals>>
      /\ loop[l].at = "poll" /\ s \in loop[l].todo
  BY DEF poll
<1>2. /\ loop' \in [Loops -> LoopKind]
      /\ \A m \in Loops \ {l} : loop'[m] = loop[m]
      /\ loop'[l].at = "answer" /\ loop'[l].cur = s /\ loop'[l].todo = loop[l].todo
      /\ loop'[l].latest = loop[l].latest
  BY <1>0 DEF poll, LoopKind
<1>3. /\ settlement' \in [Settlements -> SettlementKind]
      /\ \A q \in Settlements : settlement'[q].status = settlement[q].status
      /\ \A q \in Settlements : settlement'[q].attempts = settlement[q].attempts
  <2>1. 0 \in 0..maxDelayCeiling
    BY DEF Assumed
  <2> QED BY <1>0, <2>1 DEF poll, SettlementKind
<1>4. Kinds' /\ QuarantineCounts'
  BY <1>1, <1>2, <1>3 DEF ReconcilerInv, Kinds, QuarantineCounts, chain
<1>5. RunInv'
  BY <1>0, <1>1, <1>2, <1>3 DEF RunInv, chain
<1>6. Recorded(s)'
  BY <1>0, <1>1, <1>3 DEF Recorded
<1> QED BY <1>1, <1>3, <1>4, <1>5, <1>6, RecordStep

\* What Horizon's answer does to the settlement it is about: flagged when it was
\* ready and is gone, one attempt more or failed when it is not there, failed when
\* the network rejected it, and otherwise as far as its confirmations take it.
LEMMA AnswerEffect ==
  ASSUME Assumed, ReconcilerInv, NEW l \in Loops, getTransactionFinality(l)
  PROVE  LET s == loop[l].cur IN
         /\ s \in Settlements /\ s \in loop[l].todo /\ settlement[s].status \in Active
         /\ settlement' \in [Settlements -> SettlementKind] /\ alerts' \in [Settlements -> Nat]
         /\ \A q \in Settlements \ {s} : settlement'[q] = settlement[q] /\ alerts'[q] = alerts[q]
         /\ alerts'[s] = IF settlement'[s].status = "reorg_flagged" THEN 1 ELSE 0
         /\ \/ settlement'[s].status = "reorg_flagged"
            \/ settlement'[s].status = "failed"
            \/ /\ settlement'[s].status = settlement[s].status
               /\ settlement'[s].attempts < maxRetries
            \/ /\ txLedger[s] # 0 /\ s \notin doomed
               /\ settlement'[s].attempts = settlement[s].attempts
               /\ \/ /\ settlement'[s].status = "finalized"
                     /\ Confirmations(l, s) >= minConfirmations + stabilityConfirmations
                  \/ /\ settlement'[s].status = "payout_ready"
                     /\ Confirmations(l, s) >= minConfirmations
<1> DEFINE s == loop[l].cur
           old == settlement[s]
<1>1. s \in loop[l].todo /\ s \in Settlements /\ old.status \in Active
  BY DEF getTransactionFinality, ReconcilerInv, RunInv, Kinds, LoopKind
<1>2. /\ settlement \in [Settlements -> SettlementKind] /\ old \in SettlementKind
      /\ alerts \in [Settlements -> Nat] /\ alerts[s] = 0 /\ old.attempts < maxRetries
      /\ old.attempts \in Nat /\ txLedger[s] \in 0..MaxLedger
  BY <1>1 DEF ReconcilerInv, Kinds, Recorded, Deep, Active, SettlementKind, Assumed
<1> HIDE DEF s
<1>3. CASE txLedger[s] = 0 /\ old.status = "payout_ready"
  <2>1. Vanished(s)
    BY <1>3 DEF getTransactionFinality, s
  <2>2. settlement' = [settlement EXCEPT ![s].status = "reorg_flagged"]
    BY <2>1 DEF Vanished, SetStatus
  <2>3. alerts' = [alerts EXCEPT ![s] = 1]
    BY <1>2, <2>1 DEF Vanished
  <2>4. /\ settlement' \in [Settlements -> SettlementKind] /\ settlement'[s].status = "reorg_flagged"
        /\ \A q \in Settlements \ {s} : settlement'[q] = settlement[q]
    BY <1>1, <1>2, <2>2 DEF SettlementKind, Statuses
  <2> QED BY <1>1, <1>2, <2>3, <2>4 DEF s
<1>4. CASE txLedger[s] = 0 /\ old.status # "payout_ready"
  <2>1. Missing(s)
    BY <1>4 DEF getTransactionFinality, s
  <2> DEFINE n == old.attempts + 1
             status == IF isRetryable(n) THEN old.status ELSE "failed"
             new == [old EXCEPT !.attempts = n, !.status = status]
  <2>2. settlement' = [settlement EXCEPT ![s] = new] /\ alerts' = alerts
    BY <1>1, <1>2, <2>1 DEF Missing
  <2>3. /\ n \in 0..maxRetries /\ status \in Statuses
        /\ status = "failed" \/ (status = old.status /\ n < maxRetries)
    BY <1>2 DEF isRetryable, SettlementKind, Statuses, Assumed
  <2> HIDE DEF n, status
  <2>4. new \in SettlementKind /\ new.status = status /\ new.attempts = n
    BY <1>2, <2>3 DEF SettlementKind
  <2> HIDE DEF new
  <2>5. settlement'[s] = new /\ \A q \in Settlements \ {s} : settlement'[q] = settlement[q]
    BY <1>1, <1>2, <2>2
  <2>6. status # "reorg_flagged"
    BY <1>1, <2>3 DEF Active
  <2> QED BY <1>1, <1>2, <2>2, <2>3, <2>4, <2>5, <2>6 DEF s
<1>5. CASE txLedger[s] # 0 /\ s \in doomed
  <2>1. SetStatus(s, "failed") /\ alerts' = alerts
    BY <1>5 DEF getTransactionFinality, s
  <2>2. /\ settlement' \in [Settlements -> SettlementKind] /\ settlement'[s].status = "failed"
        /\ \A q \in Settlements \ {s} : settlement'[q] = settlement[q]
    BY <1>1, <1>2, <2>1 DEF SetStatus, SettlementKind, Statuses
  <2> QED BY <1>1, <1>2, <2>1, <2>2 DEF s
<1>6. CASE txLedger[s] # 0 /\ s \notin doomed
  <2> DEFINE status == Reached(s, Confirmations(l, s))
             new == [old EXCEPT !.ledgerNumber = txLedger[s], !.status = status]
  <2>1. settlement' = [settlement EXCEPT ![s] = new] /\ alerts' = alerts
    BY <1>1, <1>2, <1>6 DEF getTransactionFinality, s
  <2>2. /\ status \in Statuses
        /\ \/ status = old.status
           \/ status = "finalized" /\ Confirmations(l, s) >= minConfirmations + stabilityConfirmations
           \/ status = "payout_ready" /\ Confirmations(l, s) >= minConfirmations
        /\ status # "reorg_flagged"
    BY <1>1 DEF Reached, Statuses, Active
  <2> HIDE DEF status
  <2>3. new \in SettlementKind /\ new.status = status /\ new.attempts = old.attempts
    BY <1>2, <2>2 DEF SettlementKind
  <2> HIDE DEF new
  <2>4. settlement'[s] = new /\ \A q \in Settlements \ {s} : settlement'[q] = settlement[q]
    BY <1>1, <1>2, <2>1
  <2> QED BY <1>1, <1>2, <1>6, <2>1, <2>2, <2>3, <2>4 DEF s
<1> QED BY <1>3, <1>4, <1>5, <1>6

\* Confirmations counted to a ledger read earlier are no more than there are now.
LEMMA Confirmed ==
  ASSUME Assumed, ReconcilerInv, NEW l \in Loops, NEW s \in Settlements, txLedger[s] # 0
  PROVE  Confirmations(l, s) <= tip - txLedger[s] + 1 /\ Confirmations(l, s) \in Nat
  BY DEF ReconcilerInv, Kinds, RunInv, LoopKind, Deep, Confirmations

\* An answer keeps the invariant.
LEMMA AnswerStep ==
  ASSUME Assumed, ReconcilerInv, NEW l \in Loops, getTransactionFinality(l)
  PROVE  ReconcilerInv'
<1>s. PICK s \in Settlements : s = loop[l].cur
  BY AnswerEffect
<1>0. Kinds /\ RunInv /\ \A m \in Loops : loop[m].todo \subseteq Settlements
  BY DEF ReconcilerInv, Kinds, LoopKind
<1>1. UNCHANGED <<chain, inFlight, replay, approvals>> /\ loop' = Next1(l, s) /\ loop[l].at = "answer"
  BY <1>s DEF getTransactionFinality
<1>2. /\ s \in Settlements /\ s \in loop[l].todo /\ settlement[s].status \in Active
      /\ settlement' \in [Settlements -> SettlementKind] /\ alerts' \in [Settlements -> Nat]
      /\ \A q \in Settlements \ {s} : settlement'[q] = settlement[q] /\ alerts'[q] = alerts[q]
      /\ alerts'[s] = IF settlement'[s].status = "reorg_flagged" THEN 1 ELSE 0
      /\ \/ settlement'[s].status = "reorg_flagged"
         \/ settlement'[s].status = "failed"
         \/ /\ settlement'[s].status = settlement[s].status
            /\ settlement'[s].attempts < maxRetries
         \/ /\ txLedger[s] # 0 /\ s \notin doomed
            /\ settlement'[s].attempts = settlement[s].attempts
            /\ \/ /\ settlement'[s].status = "finalized"
                  /\ Confirmations(l, s) >= minConfirmations + stabilityConfirmations
               \/ /\ settlement'[s].status = "payout_ready"
                  /\ Confirmations(l, s) >= minConfirmations
  BY <1>s, AnswerEffect
<1>3. /\ loop' \in [Loops -> LoopKind]
      /\ \A m \in Loops \ {l} : loop'[m] = loop[m]
      /\ loop'[l].at = "poll" /\ loop'[l].todo = loop[l].todo \ {s}
      /\ loop'[l].latest = loop[l].latest /\ loop'[l].cur = NoOne
  BY <1>0, <1>1, <1>2, GoesOn
<1>4. quarantine' \in [Settlements -> QuarantineKind] /\ QuarantineCounts'
  <2>1. UNCHANGED quarantine \/ recordFailure(s)
    BY <1>s DEF getTransactionFinality, Vanished, Missing
  <2> QED BY <1>2, <2>1, FailureCounts DEF ReconcilerInv, Kinds, QuarantineCounts
<1>5. Kinds'
  BY <1>0, <1>1, <1>2, <1>3, <1>4 DEF Kinds, chain
<1>6. RunInv'
  <2>1. \A m \in Loops \ {l} : loop[m].at = "asleep" /\ loop[m].todo = {}
    BY <1>0, <1>1 DEF RunInv, Asleep
  <2> QED BY <1>0, <1>1, <1>2, <1>3, <2>1 DEF RunInv, chain
<1>7. Recorded(s) /\ replay[s] = NoReplay
  BY <1>2 DEF ReconcilerInv, Recorded, Active
<1>8. Recorded(s)'
  BY <1>1, <1>2, <1>7 DEF Recorded, Active
<1>9. settlement'[s].status = "finalized" => Deep(s)'
  <2> SUFFICES ASSUME settlement'[s].status = "finalized" PROVE Deep(s)'
    OBVIOUS
  <2>1. /\ txLedger[s] # 0 /\ s \notin doomed
        /\ Confirmations(l, s) >= minConfirmations + stabilityConfirmations
    BY <1>2 DEF Active
  <2>2. Confirmations(l, s) <= tip - txLedger[s] + 1 /\ Confirmations(l, s) \in Nat
    BY <1>2, <2>1, Confirmed
  <2>3. tip \in Nat /\ txLedger[s] \in Nat /\ txLedger[s] <= tip
    BY <1>0, <1>2 DEF Kinds, ReconcilerInv, Deep
  <2> QED BY <1>1, <2>1, <2>2, <2>3 DEF Deep, chain, Assumed
<1> QED BY <1>1, <1>2, <1>4, <1>5, <1>6, <1>8, <1>9, RecordStep

\* The webhook, the administrators and the release of a quarantine.
LEMMA RouteStep ==
  ASSUME Assumed, ReconcilerInv, NEW s \in Settlements,
         \/ \E status \in {"pending_finality", "failed"} : handleSettlementWebhook(s, status)
         \/ \E a \in Admins : initiateReplay(a, s) \/ approveReplay(a, s)
         \/ release(s)
  PROVE  ReconcilerInv'
<1>0. /\ Kinds /\ RunInv /\ QuarantineCounts /\ Recorded(s)
      /\ settlement \in [Settlements -> SettlementKind] /\ settlement[s] \in SettlementKind
      /\ replay \in [Settlements -> ReplayKind]
      /\ \A m \in Loops : loop[m].todo \subseteq Settlements
  BY DEF ReconcilerInv, Kinds, LoopKind
<1>1. UNCHANGED <<chain, alerts, inFlight, loop>>
  BY DEF handleSettlementWebhook, initiateReplay, approveReplay, release
<1>2. ASSUME NEW status \in {"pending_finality", "failed"}, handleSettlementWebhook(s, status)
      PROVE  ReconcilerInv'
  <2>1. /\ UNCHANGED <<quarantine, replay, approvals>> /\ settlement[s].status = "none"
        /\ settlement' \in [Settlements -> SettlementKind]
        /\ settlement'[s].status = status /\ settlement'[s].attempts = settlement[s].attempts
        /\ \A q \in Settlements \ {s} : settlement'[q] = settlement[q]
    BY <1>0, <1>2 DEF handleSettlementWebhook, SettlementKind, Statuses, Active
  <2>2. Kinds' /\ QuarantineCounts'
    BY <1>0, <1>1, <2>1 DEF Kinds, QuarantineCounts, chain
  <2>3. \A m \in Loops : s \notin loop[m].todo
    BY <1>0, <2>1 DEF RunInv, Active
  <2>4. RunInv'
    BY <1>0, <1>1, <2>1, <2>3 DEF RunInv, chain
  <2>5. Recorded(s)'
    BY <1>0, <1>1, <2>1 DEF Recorded, Assumed
  <2> QED BY <1>1, <2>1, <2>2, <2>4, <2>5, RecordStep
<1>3. ASSUME NEW a \in Admins, initiateReplay(a, s) PROVE ReconcilerInv'
  <2> DEFINE new == [by |-> a, left |-> ReplayTTL]
  <2>1. /\ UNCHANGED <<settlement, quarantine, approvals>> /\ settlement[s].status = "failed"
        /\ replay' = [replay EXCEPT ![s] = new]
    BY <1>3 DEF initiateReplay
  <2>2. new \in ReplayKind
    BY DEF ReplayKind, Assumed
  <2> HIDE DEF new
  <2>3. Kinds' /\ QuarantineCounts' /\ RunInv'
    BY <1>0, <1>1, <2>1, <2>2 DEF Kinds, QuarantineCounts, RunInv, chain
  <2>4. Recorded(s)'
    BY <1>0, <1>1, <2>1 DEF Recorded
  <2>5. \A q \in Settlements \ {s} : replay'[q] = replay[q]
    BY <1>0, <2>1
  <2> QED BY <1>1, <2>1, <2>3, <2>4, <2>5, RecordStep
<1>4. ASSUME NEW a \in Admins, approveReplay(a, s) PROVE ReconcilerInv'
  <2>1. /\ UNCHANGED quarantine /\ settlement[s].status = "failed"
        /\ replay' = [replay EXCEPT ![s] = NoReplay]
    BY <1>0, <1>4 DEF approveReplay, Recorded
  <2>2. NoReplay \in ReplayKind
    BY DEF NoReplay, ReplayKind, Assumed
  <2>3. /\ replay' \in [Settlements -> ReplayKind] /\ replay'[s] = NoReplay
        /\ \A q \in Settlements \ {s} : replay'[q] = replay[q]
    BY <1>0, <2>1, <2>2
  <2>4. approvals' \in [Settlements -> (Admins \cup {NoOne}) \X (Admins \cup {NoOne})]
    <3>1. replay[s].by \in Admins \cup {NoOne}
      BY <1>0 DEF ReplayKind
    <3> QED BY <1>0, <1>4, <3>1 DEF approveReplay, Kinds
  <2>5. /\ settlement' \in [Settlements -> SettlementKind]
        /\ \A q \in Settlements \ {s} : settlement'[q] = settlement[q]
        /\ \/ settlement'[s] = settlement[s]
           \/ settlement'[s].status = "pending_finality" /\ settlement'[s].attempts = 0
    <3>1. CASE replay[s].left < 0
      BY <1>0, <1>4, <3>1 DEF approveReplay
    <3>2. CASE ~(replay[s].left < 0)
      <4> DEFINE new == [settlement[s] EXCEPT !.status = "pending_finality", !.attempts = 0,
                                              !.sincePoll = maxDelayCeiling]
      <4>1. settlement' = [settlement EXCEPT ![s] = new]
        BY <1>0, <1>4, <3>2 DEF approveReplay
      <4>2. new \in SettlementKind /\ new.status = "pending_finality" /\ new.attempts = 0
        <5>1. 0 \in 0..maxRetries /\ maxDelayCeiling \in 0..maxDelayCeiling
          BY DEF Assumed
        <5> QED BY <1>0, <5>1 DEF SettlementKind, Statuses, Active
      <4> HIDE DEF new
      <4> QED BY <1>0, <4>1, <4>2
    <3> QED BY <3>1, <3>2
  <2>6. Kinds' /\ QuarantineCounts'
    BY <1>0, <1>1, <2>1, <2>3, <2>4, <2>5 DEF Kinds, QuarantineCounts, chain
  <2>7. \A m \in Loops : s \notin loop[m].todo
    BY <1>0, <2>1 DEF RunInv, Active
  <2>8. RunInv'
    BY <1>0, <1>1, <2>5, <2>7 DEF RunInv, chain
  <2>9. Recorded(s)'
    BY <1>0, <1>1, <2>1, <2>3, <2>5 DEF Recorded, Active, Assumed
  <2>10. settlement'[s].status # "finalized"
    BY <2>1, <2>5
  <2> QED BY <1>1, <2>3, <2>5, <2>6, <2>8, <2>9, <2>10, RecordStep
<1>5. CASE release(s)
  <2> DEFINE new == [status |-> "released", failures |-> 0]
  <2>1. /\ UNCHANGED <<settlement, replay, approvals>>
        /\ quarantine' = [quarantine EXCEPT ![s] = new]
    BY <1>5 DEF release
  <2>2. new \in QuarantineKind /\ new.status = "released" /\ new.failures = 0
    BY DEF QuarantineKind, Assumed
  <2> HIDE DEF new
  <2>3. Kinds' /\ RunInv' /\ Recorded(s)'
    BY <1>0, <1>1, <2>1, <2>2 DEF Kinds, RunInv, Recorded, chain
  <2>4. QuarantineCounts'
    BY <1>0, <2>1, <2>2 DEF Kinds, QuarantineCounts, Assumed
  <2> QED BY <1>1, <2>1, <2>3, <2>4, RecordStep
<1> QED BY <1>2, <1>3, <1>4, <1>5

\* Time changes no phase, and a replay that was asked for stays asked for.
LEMMA TickEffect ==
  ASSUME Assumed, ReconcilerInv, Tick
  PROVE  /\ settlement' \in [Settlements -> SettlementKind] /\ replay' \in [Settlements -> ReplayKind]
         /\ \A s \in Settlements :
              /\ settlement'[s].status = settlement[s].status
              /\ settlement'[s].attempts = settlement[s].attempts
              /\ replay[s] = NoReplay => replay'[s] = NoReplay
<1>0. /\ settlement \in [Settlements -> SettlementKind] /\ replay \in [Settlements -> ReplayKind]
  BY DEF ReconcilerInv, Kinds
<1>1. /\ settlement' \in [Settlements -> SettlementKind]
      /\ \A s \in Settlements :
           /\ settlement'[s].status = settlement[s].status
           /\ settlement'[s].attempts = settlement[s].attempts
  <2> DEFINE aged(s) == IF settlement[s].sincePoll < maxDelayCeiling THEN settlement[s].sincePoll + 1
                        ELSE settlement[s].sincePoll
  <2>1. \A s \in Settlements : settlement[s] \in SettlementKind /\ aged(s) \in 0..maxDelayCeiling
    BY <1>0 DEF SettlementKind, Assumed
  <2>2. settlement' = [s \in Settlements |-> [settlement[s] EXCEPT !.sincePoll = aged(s)]]
    BY <2>1 DEF Tick, SettlementKind
  <2> HIDE DEF aged
  <2> QED BY <2>1, <2>2 DEF SettlementKind
<1>2. replay' \in [Settlements -> ReplayKind]
  <2> DEFINE left(s) == IF replay[s].left >= 0 THEN replay[s].left - 1 ELSE replay[s].left
  <2>1. \A s \in Settlements : replay[s] \in ReplayKind /\ left(s) \in -1..ReplayTTL
    BY <1>0 DEF ReplayKind, Assumed
  <2>2. replay' = [s \in Settlements |-> [replay[s] EXCEPT !.left = left(s)]]
    BY <2>1 DEF Tick, ReplayKind
  <2> HIDE DEF left
  <2> QED BY <2>1, <2>2 DEF ReplayKind
<1>3. \A s \in Settlements : replay[s] = NoReplay => replay'[s] = NoReplay
  BY DEF Tick, NoReplay
<1> QED BY <1>1, <1>2, <1>3

\* Every step keeps the reconciler's invariant.
LEMMA ReconcilerStep ==
  ASSUME Assumed, ReconcilerInv, [Next]_vars
  PROVE  ReconcilerInv'
<1>1. CASE Tick
  <2>1. UNCHANGED <<chain, alerts, inFlight, loop, quarantine, approvals>>
    BY <1>1 DEF Tick
  <2>2. Kinds' /\ QuarantineCounts'
    BY <1>1, <2>1, TickEffect DEF ReconcilerInv, Kinds, QuarantineCounts, chain
  <2>3. \A m \in Loops : loop[m].todo \subseteq Settlements
    BY DEF ReconcilerInv, Kinds, LoopKind
  <2>4. RunInv'
    BY <1>1, <2>1, <2>3, TickEffect DEF ReconcilerInv, RunInv, chain
  <2>5. \A s \in Settlements : Deep(s)' /\ Recorded(s)'
    BY <1>1, <2>1, TickEffect DEF ReconcilerInv, Deep, Recorded, chain
  <2> QED BY <2>2, <2>4, <2>5 DEF ReconcilerInv
<1>2. CASE UNCHANGED vars
  BY <1>2 DEF vars, chain, ReconcilerInv, Kinds, RunInv, QuarantineCounts, Deep, Recorded
<1> QED BY <1>1, <1>2, ChainStep, QuietStep, PollStep, AnswerStep, RouteStep DEF Next, Run

\* The invariant holds throughout.
LEMMA ReconcilerHolds ==
  ASSUME Assumed
  PROVE  Spec => []ReconcilerInv
<1>1. Init => ReconcilerInv
  <2> SUFFICES ASSUME Init PROVE ReconcilerInv
    OBVIOUS
  <2>1. Kinds
    BY DEF Init, Kinds, SettlementKind, LoopKind, QuarantineKind, ReplayKind, NoReplay, Asleep,
          Statuses, Assumed
  <2>2. RunInv
    <3>1. inFlight = FALSE /\ tip = 1 /\ \A l \in Loops : loop[l] = Asleep
      BY DEF Init
    <3>2. Asleep.at = "asleep" /\ Asleep.todo = {} /\ Asleep.cur = NoOne /\ Asleep.latest = 0
      BY DEF Asleep
    <3> QED BY <3>1, <3>2 DEF RunInv
  <2>3. QuarantineCounts
    BY DEF Init, QuarantineCounts, Assumed
  <2>4. \A s \in Settlements : Deep(s) /\ Recorded(s)
    BY DEF Init, Deep, Recorded, Active
  <2> QED BY <2>1, <2>2, <2>3, <2>4 DEF ReconcilerInv
<1>2. ReconcilerInv /\ [Next]_vars => ReconcilerInv'
  BY ReconcilerStep
<1> QED BY <1>1, <1>2, PTL DEF Spec

\* The variables are of their kinds, and the guard is set while a run is under way.
THEOREM TypesHold ==
  ASSUME Assumed
  PROVE  Spec => []TypeOK
<1>1. ReconcilerInv => TypeOK
  BY DEF ReconcilerInv, Kinds, RunInv, TypeOK, SettlementKind, QuarantineKind, ReplayKind, Asleep
<1> QED BY <1>1, ReconcilerHolds, PTL

\* A finalized settlement's transaction is on the chain and succeeded, whatever
\* reorganisations shallower than the two windows together come before, during
\* or after the run that finalized it.
THEOREM FinalizedHolds ==
  ASSUME Assumed
  PROVE  Spec => []FinalizedIsOnChain
<1>1. ReconcilerInv => FinalizedIsOnChain
  BY DEF ReconcilerInv, Deep, FinalizedIsOnChain
<1> QED BY <1>1, ReconcilerHolds, PTL

\* FORK_DETECTED is emitted once, when a settlement is flagged; a settlement that
\* is followed has attempts left; and a payout is in quarantine exactly from the
\* threshold on.
THEOREM RecordsHold ==
  ASSUME Assumed
  PROVE  Spec => [](AlertedOnce /\ RetriesBounded /\ QuarantineCounts)
<1>1. ReconcilerInv => AlertedOnce /\ RetriesBounded /\ QuarantineCounts
  BY DEF ReconcilerInv, Recorded, AlertedOnce, RetriesBounded
<1> QED BY <1>1, ReconcilerHolds, PTL

\* A settlement becomes ready for payout only while its transaction succeeded and
\* has the minimum of confirmations on the chain as it is then.
THEOREM ReadyHolds ==
  ASSUME Assumed
  PROVE  Spec => ReadyWasDeep
<1>1. ReconcilerInv /\ [Next]_vars => [ReadyStep]_vars
  <2> SUFFICES ASSUME ReconcilerInv, Next PROVE ReadyStep
    BY DEF ReadyStep, vars
  <2>0. settlement \in [Settlements -> SettlementKind]
    BY DEF ReconcilerInv, Kinds
  <2>1. ASSUME NEW l \in Loops, getTransactionFinality(l) PROVE ReadyStep
    <3>1. PICK s \in Settlements : s = loop[l].cur
      BY <2>1, AnswerEffect
    <3> SUFFICES ASSUME settlement[s].status # "payout_ready", settlement'[s].status = "payout_ready"
                 PROVE  Depth(s) >= minConfirmations /\ s \notin doomed
      BY <2>1, <3>1, AnswerEffect DEF ReadyStep
    <3>2. txLedger[s] # 0 /\ s \notin doomed /\ Confirmations(l, s) >= minConfirmations
      BY <2>1, <3>1, AnswerEffect
    <3>3. Confirmations(l, s) <= tip - txLedger[s] + 1 /\ Confirmations(l, s) \in Nat
      BY <3>2, Confirmed
    <3>4. tip \in Nat /\ txLedger[s] \in Nat
      BY DEF ReconcilerInv, Kinds
    <3> QED BY <3>2, <3>3, <3>4 DEF Depth, Assumed
  <2>2. ASSUME NEW s \in Settlements, NEW status \in {"pending_finality", "failed"},
               handleSettlementWebhook(s, status)
        PROVE  ReadyStep
    <3>1. settlement'[s].status = status /\ \A q \in Settlements \ {s} : settlement'[q] = settlement[q]
      BY <2>0, <2>2 DEF handleSettlementWebhook, SettlementKind
    <3> QED BY <3>1 DEF ReadyStep
  <2>3. ASSUME NEW a \in Admins, NEW s \in Settlements, approveReplay(a, s) PROVE ReadyStep
    <3>1. /\ settlement' = settlement \/ settlement'[s].status = "pending_finality"
          /\ \A q \in Settlements \ {s} : settlement'[q] = settlement[q]
      BY <2>0, <2>3 DEF approveReplay, SettlementKind
    <3> QED BY <3>1 DEF ReadyStep
  <2>4. ASSUME NEW l \in Loops, NEW s \in Settlements, poll(l, s) PROVE ReadyStep
    <3>1. \A q \in Settlements : settlement'[q].status = settlement[q].status
      BY <2>0, <2>4 DEF poll, SettlementKind
    <3> QED BY <3>1 DEF ReadyStep
  <2>5. CASE Tick
    BY <2>5, TickEffect DEF ReadyStep
  <2>6. CASE UNCHANGED settlement
    BY <2>6 DEF ReadyStep
  <2> QED BY <2>1, <2>2, <2>3, <2>4, <2>5, <2>6
          DEF Next, Run, closeLedger, reorganise, tick, getLatestLedgerSequence, endRun, skipBackoff,
              latestLedgerThrows, finalityThrows, initiateReplay, release
<1> QED BY <1>1, ReconcilerHolds, PTL DEF Spec, ReadyWasDeep

\* A settlement that is finalized or flagged stays so, and one that failed is
\* taken up again only by a replay in time that two different administrators made.
THEOREM EndedHolds ==
  ASSUME Assumed
  PROVE  Spec => EndedStaysEnded
<1>1. ReconcilerInv /\ [Next]_vars => [EndedStep]_vars
  <2> SUFFICES ASSUME ReconcilerInv, Next PROVE EndedStep
    BY DEF EndedStep, vars
  <2>0. /\ settlement \in [Settlements -> SettlementKind] /\ replay \in [Settlements -> ReplayKind]
        /\ approvals \in [Settlements -> (Admins \cup {NoOne}) \X (Admins \cup {NoOne})]
        /\ \A s \in Settlements : replay[s].left \in Int
    BY DEF ReconcilerInv, Kinds, ReplayKind
  <2>1. ASSUME NEW l \in Loops, getTransactionFinality(l) PROVE EndedStep
    <3>1. /\ settlement[loop[l].cur].status \in Active
          /\ \A q \in Settlements \ {loop[l].cur} : settlement'[q] = settlement[q]
      BY <2>1, AnswerEffect
    <3> QED BY <3>1 DEF EndedStep, Active
  <2>2. ASSUME NEW s \in Settlements, NEW status \in {"pending_finality", "failed"},
               handleSettlementWebhook(s, status)
        PROVE  EndedStep
    <3>1. settlement[s].status = "none" /\ \A q \in Settlements \ {s} : settlement'[q] = settlement[q]
      BY <2>0, <2>2 DEF handleSettlementWebhook, SettlementKind
    <3> QED BY <3>1 DEF EndedStep
  <2>3. ASSUME NEW a \in Admins, NEW s \in Settlements, approveReplay(a, s) PROVE EndedStep
    <3>1. CASE replay[s].left < 0
      BY <2>3, <3>1 DEF approveReplay, EndedStep
    <3>2. CASE ~(replay[s].left < 0)
      <4>1. /\ settlement[s].status = "failed" /\ settlement'[s].status = "pending_finality"
            /\ \A q \in Settlements \ {s} : settlement'[q] = settlement[q]
        BY <2>0, <2>3, <3>2 DEF approveReplay, SettlementKind, ReconcilerInv, Recorded
      <4>2. approvals' = [approvals EXCEPT ![s] = <<replay[s].by, a>>] /\ replay[s].by # a
        BY <2>3, <3>2 DEF approveReplay, SecondAdmin
      <4>3. approvals'[s][1] # approvals'[s][2]
        BY <2>0, <4>2
      <4> QED BY <2>0, <3>2, <4>1, <4>3 DEF EndedStep
    <3> QED BY <3>1, <3>2
  <2>4. ASSUME NEW l \in Loops, NEW s \in Settlements, poll(l, s) PROVE EndedStep
    <3>1. \A q \in Settlements : settlement'[q].status = settlement[q].status
      BY <2>0, <2>4 DEF poll, SettlementKind
    <3> QED BY <3>1 DEF EndedStep
  <2>5. CASE Tick
    BY <2>5, TickEffect DEF EndedStep
  <2>6. CASE UNCHANGED settlement
    BY <2>6 DEF EndedStep
  <2> QED BY <2>1, <2>2, <2>3, <2>4, <2>5, <2>6
          DEF Next, Run, closeLedger, reorganise, tick, getLatestLedgerSequence, endRun, skipBackoff,
              latestLedgerThrows, finalityThrows, initiateReplay, release
<1> QED BY <1>1, ReconcilerHolds, PTL DEF Spec, EndedStaysEnded

-----------------------------------------------------------------------------
(* The webhook, for any reports.                                           *)

Webhook == INSTANCE SettlementWebhook WITH MaxFaults <- MaxReportFaults, faults <- webhookFaults

\* Every step keeps the variables of their kinds, and registers nothing anew.
LEMMA KindsStep ==
  ASSUME Webhook!Assumed, Webhook!Kinds, [Webhook!Next]_Webhook!vars
  PROVE  Webhook!Kinds' /\ Webhook!RegisteredStep
<1>0. \A d \in Deliveries : d.tx \in Webhook!Transactions /\ d.id # 0
  BY DEF Webhook!Transactions, Webhook!Assumed
<1> USE DEF Webhook!Kinds, Webhook!RegisteredStep
<1>1. ASSUME NEW d \in Deliveries, Webhook!getExistingResponse(d) PROVE Webhook!Kinds' /\ Webhook!RegisteredStep
  BY <1>0, <1>1 DEF Webhook!getExistingResponse, Webhook!Respond, Webhook!Live
<1>2. ASSUME NEW d \in Deliveries, Webhook!saveKey(d) PROVE Webhook!Kinds' /\ Webhook!RegisteredStep
  BY <1>0, <1>2 DEF Webhook!saveKey
<1>3. ASSUME NEW d \in Deliveries, Webhook!concurrentResponse(d) PROVE Webhook!Kinds' /\ Webhook!RegisteredStep
  BY <1>0, <1>3 DEF Webhook!concurrentResponse, Webhook!Respond, Webhook!Live
<1>4. ASSUME NEW d \in Deliveries, Webhook!register(d) PROVE Webhook!Kinds' /\ Webhook!RegisteredStep
  <2>1. settlements' \in [Webhook!Transactions -> Webhook!Queued \cup {"none"}]
    BY <1>0, <1>4 DEF Webhook!register, Webhook!Registered
  <2>2. Webhook!RegisteredStep
    BY <1>0, <1>4 DEF Webhook!register, Webhook!Registered
  <2> QED BY <1>0, <1>4, <2>1, <2>2 DEF Webhook!register, Webhook!Respond
<1>5. ASSUME NEW d \in Deliveries, Webhook!queryThrows(d) PROVE Webhook!Kinds' /\ Webhook!RegisteredStep
  BY <1>0, <1>5 DEF Webhook!queryThrows
<1>6. CASE Webhook!crash
  BY <1>6 DEF Webhook!crash, Webhook!Queued
<1>7. CASE Webhook!sweep
  BY <1>7 DEF Webhook!sweep
<1>8. ASSUME NEW t \in Webhook!Transactions, Webhook!expire(t) PROVE Webhook!Kinds' /\ Webhook!RegisteredStep
  BY <1>8 DEF Webhook!expire
<1>9. CASE UNCHANGED Webhook!vars
  BY <1>9 DEF Webhook!vars
<1> QED BY <1>1, <1>2, <1>3, <1>4, <1>5, <1>6, <1>7, <1>8, <1>9 DEF Webhook!Next, Webhook!Step,
      Webhook!Rest

\* What has expired or was lost stays so.
LEMMA HistoryStep ==
  ASSUME [Webhook!Next]_Webhook!vars
  PROVE  (~lapsed' => ~lapsed) /\ (~lost' => ~lost)
<1>1. ASSUME NEW d \in Deliveries, Webhook!Step(d) PROVE UNCHANGED <<lapsed, lost>>
  BY <1>1 DEF Webhook!Step, Webhook!getExistingResponse, Webhook!saveKey, Webhook!concurrentResponse,
        Webhook!register
<1>2. ASSUME NEW d \in Deliveries, Webhook!queryThrows(d) PROVE (~lapsed' => ~lapsed) /\ (~lost' => ~lost)
  BY <1>2 DEF Webhook!queryThrows
<1>3. Webhook!crash \/ (\E t \in Webhook!Transactions : Webhook!expire(t)) => (~lapsed' => ~lapsed) /\ (~lost' => ~lost)
  BY DEF Webhook!crash, Webhook!expire
<1>4. Webhook!sweep \/ UNCHANGED Webhook!vars => UNCHANGED <<lapsed, lost>>
  BY DEF Webhook!sweep, Webhook!vars
<1> QED BY <1>1, <1>2, <1>3, <1>4 DEF Webhook!Next, Webhook!Rest

\* The first insert for a transaction finds no answer and no winner.
LEMMA Inserted ==
  ASSUME Webhook!Assumed, Webhook!Kinds, Webhook!ReportInv, NEW d \in Deliveries, row[d.tx].by = 0, at[d] = "save",
         row' = [row EXCEPT ![d.tx] = [by |-> d.id, expired |-> FALSE]],
         NEW to \in {"register", "new"}, at' = [at EXCEPT ![d] = to],
         UNCHANGED <<reply, settlements>>
  PROVE  Webhook!ReportInv'
<1>0. \A e \in Deliveries : e.tx \in Webhook!Transactions /\ e.id # 0
  BY DEF Webhook!Transactions, Webhook!Assumed
<1>1. \A t \in Webhook!Transactions : row'[t].expired = FALSE
  BY <1>0 DEF Webhook!ReportInv, Webhook!Kinds
<1>2. /\ row'[d.tx].by = d.id
      /\ \A t \in Webhook!Transactions \ {d.tx} : row'[t] = row[t]
  BY <1>0 DEF Webhook!Kinds
<1>3. /\ at'[d] = to /\ reply'[d] = reply[d]
      /\ \A e \in Deliveries \ {d} : at'[e] = at[e] /\ reply'[e] = reply[e]
  BY DEF Webhook!Kinds
<1>4. ASSUME NEW e \in Deliveries PROVE Webhook!Handled(e)'
  <2>1. CASE e.tx = d.tx
    BY <1>0, <1>2, <1>3, <2>1 DEF Webhook!ReportInv, Webhook!Handled, Webhook!Kinds
  <2>2. CASE e.tx # d.tx
    BY <1>0, <1>2, <1>3, <2>2 DEF Webhook!ReportInv, Webhook!Handled
  <2> QED BY <2>1, <2>2
<1> QED BY <1>1, <1>4 DEF Webhook!ReportInv

\* The rows and answers agree before the first report and after every step.
LEMMA ReportStep ==
  ASSUME Webhook!Assumed, Webhook!Kinds, Webhook!ReportInv, [Webhook!Next]_Webhook!vars, ~lapsed'
  PROVE  Webhook!ReportInv'
<1> USE DEF Webhook!ReportInv
<1>0. \A d \in Deliveries : d.tx \in Webhook!Transactions /\ d.id # 0
  BY DEF Webhook!Transactions, Webhook!Assumed
<1>1. ASSUME NEW d \in Deliveries, Webhook!getExistingResponse(d) PROVE Webhook!ReportInv'
  BY <1>0, <1>1 DEF Webhook!getExistingResponse, Webhook!Respond, Webhook!Live, Webhook!Kinds,
        Webhook!Handled
<1>2. ASSUME NEW d \in Deliveries, Webhook!saveKey(d) PROVE Webhook!ReportInv'
  <2>1. CASE row[d.tx].by = 0
    BY <1>0, <1>2, <2>1, Inserted DEF Webhook!saveKey, Webhook!Kinds
  <2>2. CASE row[d.tx].by # 0
    BY <1>0, <1>2, <2>2 DEF Webhook!saveKey, Webhook!Kinds, Webhook!Handled
  <2> QED BY <2>1, <2>2
<1>3. ASSUME NEW d \in Deliveries, Webhook!concurrentResponse(d) PROVE Webhook!ReportInv'
  BY <1>0, <1>3 DEF Webhook!concurrentResponse, Webhook!Respond, Webhook!Live, Webhook!Kinds,
        Webhook!Handled
<1>4. ASSUME NEW d \in Deliveries, Webhook!register(d) PROVE Webhook!ReportInv'
  BY <1>0, <1>4 DEF Webhook!register, Webhook!Respond, Webhook!Kinds, Webhook!Handled
<1>5. ASSUME NEW d \in Deliveries, Webhook!queryThrows(d) PROVE Webhook!ReportInv'
  <2>1. CASE UNCHANGED row
    BY <1>0, <1>5, <2>1 DEF Webhook!queryThrows, Webhook!Kinds, Webhook!Handled
  <2>2. CASE /\ at[d] = "save" /\ row[d.tx].by = 0
              /\ row' = [row EXCEPT ![d.tx] = [by |-> d.id, expired |-> FALSE]]
    <3>1. at' = [at EXCEPT ![d] = "new"] /\ UNCHANGED <<reply, settlements>>
      BY <1>5 DEF Webhook!queryThrows
    <3> QED BY <2>2, <3>1, Inserted
  <2> QED BY <1>5, <2>1, <2>2 DEF Webhook!queryThrows
<1>6. CASE Webhook!crash
  BY <1>0, <1>6 DEF Webhook!crash, Webhook!Kinds, Webhook!Handled, Webhook!Queued
<1>7. CASE Webhook!sweep
  BY <1>7 DEF Webhook!sweep, Webhook!Kinds
<1>8. ASSUME NEW t \in Webhook!Transactions, Webhook!expire(t) PROVE FALSE
  BY <1>8 DEF Webhook!expire
<1>9. CASE UNCHANGED Webhook!vars
  BY <1>9 DEF Webhook!vars, Webhook!Kinds, Webhook!Handled
<1> QED BY <1>1, <1>2, <1>3, <1>4, <1>5, <1>6, <1>7, <1>8, <1>9 DEF Webhook!Next, Webhook!Step,
      Webhook!Rest

\* The winner of a key registers its report, unless something is lost.
LEMMA OwnedStep ==
  ASSUME Webhook!Assumed, Webhook!Kinds, Webhook!ReportInv, Webhook!Owned, [Webhook!Next]_Webhook!vars, ~lapsed', ~lost'
  PROVE  Webhook!Owned'
<1>0. \A d \in Deliveries : d.tx \in Webhook!Transactions
  BY DEF Webhook!Transactions
<1> USE DEF Webhook!ReportInv
<1>1. ASSUME NEW d \in Deliveries, Webhook!getExistingResponse(d) PROVE Webhook!Owned'
  BY <1>0, <1>1 DEF Webhook!getExistingResponse, Webhook!Respond, Webhook!Kinds, Webhook!Owned
<1>2. ASSUME NEW d \in Deliveries, Webhook!saveKey(d) PROVE Webhook!Owned'
  <2>1. \A t \in Webhook!Transactions :
          row'[t] = row[t] \/ (t = d.tx /\ row'[t].by = d.id /\ at'[d] = "register")
    BY <1>0, <1>2 DEF Webhook!saveKey, Webhook!Kinds
  <2>2. \A e \in Deliveries : at[e] = "register" => at'[e] = "register"
    BY <1>2 DEF Webhook!saveKey, Webhook!Kinds
  <2>3. UNCHANGED settlements
    BY <1>2 DEF Webhook!saveKey
  <2> QED BY <2>1, <2>2, <2>3 DEF Webhook!Owned
<1>3. ASSUME NEW d \in Deliveries, Webhook!concurrentResponse(d) PROVE Webhook!Owned'
  BY <1>0, <1>3 DEF Webhook!concurrentResponse, Webhook!Respond, Webhook!Kinds, Webhook!Owned
<1>4. ASSUME NEW d \in Deliveries, Webhook!register(d) PROVE Webhook!Owned'
  <2>1. settlements'[d.tx] # "none" \/ d.event \notin Webhook!Queued
    BY <1>0, <1>4 DEF Webhook!register, Webhook!Registered, Webhook!Kinds, Webhook!Queued
  <2>2. \A t \in Webhook!Transactions \ {d.tx} : settlements'[t] = settlements[t]
    BY <1>0, <1>4 DEF Webhook!register, Webhook!Kinds
  <2>3. \A e \in Deliveries : at[e] = "register" /\ e # d => at'[e] = "register"
    BY <1>4 DEF Webhook!register, Webhook!Respond, Webhook!Kinds
  <2>4. UNCHANGED row /\ (settlements[d.tx] # "none" => settlements'[d.tx] # "none")
    BY <1>0, <1>4 DEF Webhook!register, Webhook!Kinds
  <2> QED BY <1>0, <2>1, <2>2, <2>3, <2>4 DEF Webhook!Owned
<1>5. ASSUME NEW d \in Deliveries, Webhook!queryThrows(d) PROVE Webhook!Owned'
  BY <1>0, <1>5 DEF Webhook!queryThrows, Webhook!Kinds, Webhook!Owned
<1>6. CASE Webhook!sweep
  BY <1>6 DEF Webhook!sweep, Webhook!Kinds
<1>7. CASE UNCHANGED Webhook!vars
  BY <1>7 DEF Webhook!vars, Webhook!Owned
<1>8. ~Webhook!crash /\ \A t \in Webhook!Transactions : ~Webhook!expire(t)
  BY DEF Webhook!crash, Webhook!expire
<1> QED BY <1>1, <1>2, <1>3, <1>4, <1>5, <1>6, <1>7, <1>8 DEF Webhook!Next, Webhook!Step, Webhook!Rest

\* For any reports, failures, restarts and expiries, in any order: the inductive
\* invariant of the webhook.
THEOREM WebhookHolds == ASSUME Webhook!Assumed PROVE Webhook!Spec => []Webhook!WebhookInv
<1>1. Webhook!Init => Webhook!WebhookInv
  BY DEF Webhook!Init, Webhook!WebhookInv, Webhook!Kinds, Webhook!ReportInv, Webhook!Handled,
        Webhook!Owned, Webhook!NoRow, Webhook!Queued
<1>2. Webhook!WebhookInv /\ [Webhook!Next]_Webhook!vars => Webhook!WebhookInv'
  <2> SUFFICES ASSUME Webhook!WebhookInv, [Webhook!Next]_Webhook!vars PROVE Webhook!WebhookInv'
    OBVIOUS
  <2>1. Webhook!Kinds' /\ (~lapsed' => ~lapsed) /\ (~lost' => ~lost)
    BY KindsStep, HistoryStep DEF Webhook!WebhookInv
  <2>2. ~lapsed' => Webhook!ReportInv'
    BY <2>1, ReportStep DEF Webhook!WebhookInv
  <2>3. ~lapsed' /\ ~lost' => Webhook!Owned'
    BY <2>1, OwnedStep DEF Webhook!WebhookInv
  <2> QED BY <2>1, <2>2, <2>3 DEF Webhook!WebhookInv
<1> QED BY <1>1, <1>2, PTL DEF Webhook!Spec

\* However the handlers of a transaction's reports interleave, fail and start
\* again, all of them answer with one payload until a key expires.
THEOREM OneResponseHolds == ASSUME Webhook!Assumed PROVE Webhook!Spec => [](Webhook!TypeOK /\ Webhook!OneResponse)
<1>1. Webhook!WebhookInv => Webhook!TypeOK /\ Webhook!OneResponse
  BY DEF Webhook!WebhookInv, Webhook!Kinds, Webhook!ReportInv, Webhook!Handled, Webhook!TypeOK,
        Webhook!OneResponse
<1> QED BY <1>1, WebhookHolds, PTL

\* For any reports of a transaction, outcomes or not, in any order: every one that
\* is acknowledged repeats the report that won the key, and that report, if it is
\* of an outcome, is registered or about to be, as long as no key has expired, the
\* process lives and no failed insert was committed.
THEOREM AcknowledgedHolds == ASSUME Webhook!Assumed PROVE Webhook!Spec => []Webhook!AcknowledgedIsRegistered
<1>1. Webhook!WebhookInv => Webhook!AcknowledgedIsRegistered
  BY DEF Webhook!Assumed, Webhook!WebhookInv, Webhook!Kinds, Webhook!ReportInv, Webhook!Handled,
        Webhook!Owned, Webhook!AcknowledgedIsRegistered, Webhook!Transactions
<1> QED BY <1>1, WebhookHolds, PTL

\* In every environment: once registered, a settlement is not registered anew.
THEOREM RegisteredOnce == ASSUME Webhook!Assumed PROVE Webhook!Spec => [][Webhook!RegisteredStep]_Webhook!vars
<1>1. Webhook!WebhookInv /\ [Webhook!Next]_Webhook!vars => [Webhook!RegisteredStep]_Webhook!vars
  BY KindsStep DEF Webhook!WebhookInv
<1> QED BY <1>1, WebhookHolds, PTL DEF Webhook!Spec

-----------------------------------------------------------------------------
(* Together.                                                               *)

Refund == INSTANCE RefundSettlement WITH
  MaxFaults <- MaxRefundFaults, loop <- refundLoop, faults <- refundFaults

Dispute == INSTANCE Disputes WITH chain <- arbitration

\* A finalized settlement is on the chain and succeeded, whatever
\* reorganisations came before, during and after the run that finalized it.  Its
\* counters agree with what happened to it: FORK_DETECTED is emitted once, when
\* it is flagged; a missing transaction is polled fewer times than the maximum;
\* a payout is in quarantine exactly when it failed often enough since its last
\* release.  A settlement becomes ready only with the minimum of confirmations;
\* what is finalized or flagged stays so, and what failed is taken up again only
\* by a replay that two different administrators made.
SettlementSound ==
  /\ [](TypeOK /\ FinalizedIsOnChain /\ AlertedOnce /\ RetriesBounded /\ QuarantineCounts)
  /\ ReadyWasDeep /\ EndedStaysEnded

\* A buyer is paid at most once while one caller at a time submits, one run at a
\* time reconciles and what throws has not landed.  In every case a refund is
\* settled only by a transaction of its own with enough confirmations.  In turn,
\* the phases of a refund follow each other, and a refund on the chain fails only
\* when its own transaction is rejected.
RefundSound ==
  /\ [](Refund!TypeOK /\ Refund!PaidOnce /\ Refund!SettledWasPaid)
  /\ Refund!PhaseFlow /\ Refund!FailedWasRejected

\* Until a key expires, reports of one transaction are answered alike in
\* whatever order they run.  Unless something is lost, the report they repeat, if
\* it is of an outcome, is registered or about to be; where it is an initiated
\* report, the outcomes acknowledged after it are not registered.  A settlement is
\* never registered anew by another report, also after the keys have expired.
ReportsAgree ==
  /\ [](Webhook!TypeOK /\ Webhook!OneResponse /\ Webhook!AcknowledgedIsRegistered)
  /\ [][Webhook!RegisteredStep]_Webhook!vars

\* A dispute moves the ledgers once, by its ruling, and an overturned ruling is
\* taken back.  A dispute that waits for an arbiter is in the arbitration queue,
\* and a reversal goes back to the status before the deadline, also where other
\* calls come in while an appeal is audited.  While they do not, a terminal
\* dispute is reopened by nothing but the reversal, in its window, of a
\* resolution by deadline.
DisputesSound ==
  /\ [](/\ Dispute!TypeOK /\ Dispute!LedgerFollowsRuling
        /\ Dispute!WaitingIsQueued /\ Dispute!ReversalRestores)
  /\ [][Dispute!TerminalStep]_Dispute!vars

\* What the treasury relies on when it pays out a settlement, reads the alerts or
\* replays what failed.
THEOREM SettlementSoundHolds == ASSUME Assumed PROVE Spec => SettlementSound
<1>1. [](TypeOK /\ FinalizedIsOnChain /\ AlertedOnce /\ RetriesBounded /\ QuarantineCounts)
        /\ ReadyWasDeep /\ EndedStaysEnded => SettlementSound
  BY DEF SettlementSound
<1> QED BY <1>1, TypesHold, FinalizedHolds, RecordsHold, ReadyHolds, EndedHolds, PTL

\* What a buyer and the treasury rely on when a refund is queued.
THEOREM RefundSoundHolds == ASSUME Refund!Assumed PROVE Refund!Spec => RefundSound
<1>1. [](Refund!TypeOK /\ Refund!PaidOnce /\ Refund!SettledWasPaid)
        /\ Refund!PhaseFlow /\ Refund!FailedWasRejected => RefundSound
  BY DEF RefundSound
<1> QED BY <1>1, Refund!SettledHolds, Refund!PaidOnceHolds, Refund!PhaseHolds, Refund!RejectedHolds, PTL

\* What the provider relies on when it repeats its reports.
THEOREM ReportsAgreeHolds == ASSUME Webhook!Assumed PROVE Webhook!Spec => ReportsAgree
<1>1. [](Webhook!TypeOK /\ Webhook!OneResponse /\ Webhook!AcknowledgedIsRegistered)
        /\ [][Webhook!RegisteredStep]_Webhook!vars => ReportsAgree
  BY DEF ReportsAgree
<1> QED BY <1>1, OneResponseHolds, AcknowledgedHolds, RegisteredOnce, PTL

\* What buyer, supplier and treasury rely on when a dispute is settled.
THEOREM DisputesSoundHolds == ASSUME Dispute!Assumed PROVE Dispute!Spec => DisputesSound
<1>1. [](/\ Dispute!TypeOK /\ Dispute!LedgerFollowsRuling
         /\ Dispute!WaitingIsQueued /\ Dispute!ReversalRestores)
        /\ [][Dispute!TerminalStep]_Dispute!vars => DisputesSound
  BY DEF DisputesSound
<1> QED BY <1>1, Dispute!DisputeStatesHold, Dispute!DisputeEndsHold, PTL
=============================================================================
