------------------------ MODULE SettlementReconciler ------------------------
(***************************************************************************)
(* Payout settlements: registered by the provider's webhook, followed on   *)
(* the chain by the reconciler's poll loop until they are final, failed or *)
(* seen to vanish, counted into quarantine when they fail, and replayed by *)
(* two administrators.                                                     *)
(*                                                                         *)
(* The loop awaits the latest ledger once and the finality of each         *)
(* transaction in turn; between two awaits the chain, the clock and the    *)
(* administrators move on.  Settlements live in memory, so they are shared *)
(* by reference between the loop and the routes.                           *)
(***************************************************************************)
EXTENDS Integers, FiniteSets

CONSTANTS
  Settlements,             \* transaction ids of the provider's settlements
  Loops,                   \* runs of reconcile() that could be under way
  Admins,                  \* administrators
  NoOne,                   \* nobody
  minConfirmations,        \* MIN_LEDGER_CONFIRMATIONS
  stabilityConfirmations,  \* confirmations more before a settlement is finalized
  maxRetries,              \* of the provider's retry configuration
  baseDelay, multiplier, maxDelayCeiling,  \* of its backoff, in ticks
  Threshold,               \* PAYOUT_QUARANTINE_THRESHOLD
  ReplayTTL,               \* how long a replay waits for its approval, in ticks
  MaxLedger,               \* bound on the ledgers that close
  MaxReorg,                \* the deepest reorganisation of the chain
  MaxFaults                \* bound on reorganisations and on calls that throw

VARIABLES
  tip,       \* the sequence of the latest ledger
  txLedger,  \* the ledger each transaction is in, 0 when in none
  doomed,    \* the transactions the network applies as failed
  settlement,\* _settlements: [status, attempts, sincePoll, ledgerNumber]
  alerts,    \* how often FORK_DETECTED was emitted for each settlement
  inFlight,  \* the reconciler's guard against overlapping runs
  loop,      \* per run: [at, todo, cur, latest]
  quarantine,\* per payout: [status, failures]
  replay,    \* pendingReplays: [by, left], left = -1 once the time is up
  approvals, \* who asked for and who approved each settlement's last replay
  faults     \* what has gone wrong so far

chain == <<tip, txLedger, doomed>>
vars == <<chain, settlement, alerts, inFlight, loop, quarantine, replay, approvals, faults>>

Active == {"pending_finality", "payout_ready"}
Statuses == Active \cup {"none", "finalized", "failed", "reorg_flagged"}

NoReplay == [by |-> NoOne, left |-> -1]
Asleep == [at |-> "asleep", todo |-> {}, cur |-> NoOne, latest |-> 0]

Init ==
  /\ tip = 1
  /\ txLedger = [s \in Settlements |-> 0]
  /\ doomed \in SUBSET Settlements
  /\ settlement = [s \in Settlements |-> [status |-> "none", attempts |-> 0,
                                          sincePoll |-> maxDelayCeiling, ledgerNumber |-> 0]]
  /\ alerts = [s \in Settlements |-> 0]
  /\ inFlight = FALSE
  /\ loop = [l \in Loops |-> Asleep]
  /\ quarantine = [s \in Settlements |-> [status |-> "none", failures |-> 0]]
  /\ replay = [s \in Settlements |-> NoReplay]
  /\ approvals = [s \in Settlements |-> <<NoOne, NoOne>>]
  /\ faults = 0

Fault == faults < MaxFaults /\ faults' = faults + 1

-----------------------------------------------------------------------------
\* Transactions get into ledgers early enough to become final under MaxLedger.
LastInclusion == MaxLedger - (minConfirmations + stabilityConfirmations) + 1

\* The chain: ledgers close with the transactions of some settlements, and the
\* last ledgers may be replaced, their transactions lost or put elsewhere.
closeLedger(S) ==
  /\ tip < MaxLedger
  /\ S # {} => tip < LastInclusion
  /\ \A s \in S : txLedger[s] = 0
  /\ tip' = tip + 1
  /\ txLedger' = [s \in Settlements |-> IF s \in S THEN tip + 1 ELSE txLedger[s]]
  /\ UNCHANGED <<doomed, settlement, alerts, inFlight, loop, quarantine, replay, approvals, faults>>

reorganise(depth, again) ==
  LET hit == {s \in Settlements : txLedger[s] > tip - depth} IN
  /\ Fault
  /\ hit # {} /\ again \subseteq hit
  /\ again # {} => tip <= LastInclusion
  /\ txLedger' = [s \in Settlements |-> IF s \in again THEN tip
                                        ELSE IF s \in hit THEN 0 ELSE txLedger[s]]
  /\ UNCHANGED <<tip, doomed, settlement, alerts, inFlight, loop, quarantine, replay, approvals>>

Depth(s) == IF txLedger[s] = 0 THEN 0 ELSE tip - txLedger[s] + 1

\* handleSettlementWebhook after its deduplication.
handleSettlementWebhook(s, status) ==
  /\ settlement[s].status = "none"
  /\ settlement' = [settlement EXCEPT ![s].status = status]
  /\ UNCHANGED <<chain, alerts, inFlight, loop, quarantine, replay, approvals, faults>>

-----------------------------------------------------------------------------
\* The interval fires: skipped while a run is under way.  A run that finds no
\* active settlement changes nothing.
tick(l) ==
  LET active == {s \in Settlements : settlement[s].status \in Active} IN
  /\ ~inFlight /\ active # {}
  /\ inFlight' = TRUE
  /\ loop' = [loop EXCEPT ![l] = [at |-> "ledger", todo |-> active, cur |-> NoOne, latest |-> 0]]
  /\ UNCHANGED <<chain, settlement, alerts, quarantine, replay, approvals, faults>>

EndRun(l) == loop' = [loop EXCEPT ![l] = Asleep] /\ inFlight' = FALSE

getLatestLedgerSequence(l) ==
  /\ loop[l].at = "ledger"
  /\ loop' = [loop EXCEPT ![l].at = "poll", ![l].latest = tip]
  /\ UNCHANGED <<chain, settlement, alerts, inFlight, quarantine, replay, approvals, faults>>

latestLedgerThrows(l) ==
  /\ loop[l].at = "ledger" /\ Fault
  /\ EndRun(l)
  /\ UNCHANGED <<chain, settlement, alerts, quarantine, replay, approvals>>

\* calculatePayoutBackoffDelay: full jitter draws from 0 to this cap.
BackoffCap(attempt) ==
  IF baseDelay * multiplier ^ attempt < maxDelayCeiling
  THEN baseDelay * multiplier ^ attempt ELSE maxDelayCeiling

Next1(l, s) == [loop EXCEPT ![l].todo = @ \ {s}, ![l].at = "poll", ![l].cur = NoOne]

\* Still within the backoff window that was drawn.
skipBackoff(l, s) ==
  /\ loop[l].at = "poll" /\ s \in loop[l].todo
  /\ settlement[s].status = "pending_finality"
  /\ \E delay \in 0..BackoffCap(settlement[s].attempts) : settlement[s].sincePoll < delay
  /\ loop' = Next1(l, s)
  /\ UNCHANGED <<chain, settlement, alerts, inFlight, quarantine, replay, approvals, faults>>

poll(l, s) ==
  /\ loop[l].at = "poll" /\ s \in loop[l].todo
  /\ settlement' = [settlement EXCEPT ![s].sincePoll = 0]
  /\ loop' = [loop EXCEPT ![l].at = "answer", ![l].cur = s]
  /\ UNCHANGED <<chain, alerts, inFlight, quarantine, replay, approvals, faults>>

\* PayoutQuarantineService.recordFailure; counts from the threshold on are not
\* told apart.
recordFailure(s) ==
  LET total == IF quarantine[s].failures = Threshold THEN Threshold
               ELSE quarantine[s].failures + 1
  IN quarantine' = [quarantine EXCEPT ![s] =
       [status |-> IF total >= Threshold THEN "quarantined" ELSE "active",
        failures |-> total]]

SetStatus(s, status) == settlement' = [settlement EXCEPT ![s].status = status]

\* A transaction that was payout_ready is gone.
Vanished(s) ==
  /\ SetStatus(s, "reorg_flagged")
  /\ alerts' = [alerts EXCEPT ![s] = IF @ = 0 THEN 1 ELSE @]
  /\ UNCHANGED quarantine

isRetryable(attempt) == attempt < maxRetries

\* Mutant: a transaction that is not there is not counted as an attempt.
MissingUncounted(s) == UNCHANGED <<settlement, quarantine, alerts>>

\* A transaction that is not there yet.
Missing(s) ==
  LET nextAttempt == settlement[s].attempts + 1 IN
  /\ settlement' = [settlement EXCEPT
       ![s].attempts = nextAttempt,
       ![s].status = IF isRetryable(nextAttempt) THEN @ ELSE "failed"]
  /\ IF isRetryable(nextAttempt) THEN UNCHANGED quarantine ELSE recordFailure(s)
  /\ UNCHANGED alerts

\* The status that so many confirmations give.
Reached(s, confirmations) ==
  IF settlement[s].status = "payout_ready"
     /\ confirmations >= minConfirmations + stabilityConfirmations THEN "finalized"
  ELSE IF confirmations >= minConfirmations THEN "payout_ready" ELSE settlement[s].status

Confirmations(l, s) ==
  IF loop[l].latest < txLedger[s] THEN 0 ELSE loop[l].latest - txLedger[s] + 1

\* What the loop does with Horizon's answer for the settlement it asked about.
getTransactionFinality(l) ==
  LET s == loop[l].cur IN
  /\ loop[l].at = "answer"
  /\ CASE txLedger[s] = 0 /\ settlement[s].status = "payout_ready" -> Vanished(s)
       [] txLedger[s] = 0 /\ settlement[s].status # "payout_ready" -> Missing(s)
       [] txLedger[s] # 0 /\ s \in doomed ->
            SetStatus(s, "failed") /\ recordFailure(s) /\ UNCHANGED alerts
       [] OTHER ->
            /\ settlement' = [settlement EXCEPT
                 ![s].ledgerNumber = txLedger[s],
                 ![s].status = Reached(s, Confirmations(l, s))]
            /\ UNCHANGED <<alerts, quarantine>>
  /\ loop' = Next1(l, s)
  /\ UNCHANGED <<chain, inFlight, replay, approvals, faults>>

finalityThrows(l) ==
  /\ loop[l].at = "answer" /\ Fault
  /\ loop' = Next1(l, loop[l].cur)
  /\ UNCHANGED <<chain, settlement, alerts, inFlight, quarantine, replay, approvals>>

endRun(l) ==
  /\ loop[l].at = "poll" /\ loop[l].todo = {}
  /\ EndRun(l)
  /\ UNCHANGED <<chain, settlement, alerts, quarantine, replay, approvals, faults>>

-----------------------------------------------------------------------------
\* POST /payouts/:transactionId/replay, by one administrator.
initiateReplay(a, s) ==
  /\ settlement[s].status = "failed"
  /\ replay' = [replay EXCEPT ![s] = [by |-> a, left |-> ReplayTTL]]
  /\ UNCHANGED <<chain, settlement, alerts, inFlight, loop, quarantine, approvals, faults>>

SecondAdmin(a, s) == replay[s].by # NoOne /\ replay[s].by # a

\* POST .../replay/approve: the request is deleted when it is too old, and the
\* settlement is reset when another administrator asked for it.
approveReplay(a, s) ==
  /\ replay[s] # NoReplay
  /\ IF replay[s].left < 0
     THEN UNCHANGED <<settlement, approvals>>
     ELSE /\ SecondAdmin(a, s)
          /\ settlement' = [settlement EXCEPT ![s].status = "pending_finality",
                                              ![s].attempts = 0,
                                              ![s].sincePoll = maxDelayCeiling]
          /\ approvals' = [approvals EXCEPT ![s] = <<replay[s].by, a>>]
  /\ replay' = [replay EXCEPT ![s] = NoReplay]
  /\ UNCHANGED <<chain, alerts, inFlight, loop, quarantine, faults>>

\* Mutant: the failure count survives the release.
releaseKeepingCount(s) ==
  /\ quarantine[s].status # "none"
  /\ quarantine' = [quarantine EXCEPT ![s].status = "released"]
  /\ UNCHANGED <<chain, settlement, alerts, inFlight, loop, replay, approvals, faults>>

\* POST /payouts/:payoutId/quarantine/release.
release(s) ==
  /\ quarantine[s].status \notin {"none", "released"}
  /\ quarantine' = [quarantine EXCEPT ![s] = [status |-> "released", failures |-> 0]]
  /\ UNCHANGED <<chain, settlement, alerts, inFlight, loop, replay, approvals, faults>>

\* Ages beyond the largest delay are not told apart.
Tick ==
  /\ settlement' = [s \in Settlements |->
       [settlement[s] EXCEPT !.sincePoll = IF @ < maxDelayCeiling THEN @ + 1 ELSE @]]
  /\ replay' = [s \in Settlements |->
       [replay[s] EXCEPT !.left = IF @ >= 0 THEN @ - 1 ELSE @]]
  /\ UNCHANGED <<chain, alerts, inFlight, loop, quarantine, approvals, faults>>

Run(l) ==
  \/ tick(l) \/ getLatestLedgerSequence(l) \/ getTransactionFinality(l) \/ endRun(l)
  \/ \E s \in Settlements : skipBackoff(l, s) \/ poll(l, s)

Next ==
  \/ \E S \in SUBSET Settlements : closeLedger(S)
  \/ \E depth \in 1..MaxReorg, again \in SUBSET Settlements : reorganise(depth, again)
  \/ \E s \in Settlements, status \in {"pending_finality", "failed"} :
       handleSettlementWebhook(s, status)
  \/ \E l \in Loops : Run(l) \/ latestLedgerThrows(l) \/ finalityThrows(l)
  \/ \E a \in Admins, s \in Settlements : initiateReplay(a, s) \/ approveReplay(a, s)
  \/ \E s \in Settlements : release(s)
  \/ Tick

Spec == Init /\ [][Next]_vars

\* The interval keeps firing, Horizon answers, ledgers close, time goes on.
FairSpec ==
  /\ Spec
  /\ \A l \in Loops : WF_vars(Run(l))
  /\ WF_vars(closeLedger({})) /\ WF_vars(Tick)

-----------------------------------------------------------------------------
\* Every variable is of its kind, and the guard is set while a run is under way.
TypeOK ==
  /\ settlement \in [Settlements -> [status : Statuses, attempts : 0..maxRetries,
                                     sincePoll : 0..maxDelayCeiling, ledgerNumber : 0..MaxLedger]]
  /\ quarantine \in [Settlements -> [status : {"none", "active", "quarantined", "released"},
                                     failures : 0..Threshold]]
  /\ replay \in [Settlements -> [by : Admins \cup {NoOne}, left : -1..ReplayTTL]]
  /\ \A l \in Loops : loop[l] # Asleep => inFlight
  /\ \A l \in Loops : loop[l].cur # NoOne => loop[l].cur \in loop[l].todo

\* A finalized settlement's transaction is on the chain and succeeded, whatever
\* reorganisations of less than the two windows together came before, during
\* the run that finalized it, or after.
FinalizedIsOnChain ==
  \A s \in Settlements :
    settlement[s].status = "finalized" => txLedger[s] # 0 /\ s \notin doomed

\* What a settlement that becomes ready has on the chain.
ReadyStep ==
  \A s \in Settlements :
    settlement[s].status # "payout_ready" /\ settlement'[s].status = "payout_ready"
      => Depth(s) >= minConfirmations /\ s \notin doomed

\* A settlement becomes ready for payout only while its transaction has the
\* minimum of confirmations on the chain as it is then, although the latest
\* ledger was read at the start of the run.
ReadyWasDeep == [][ReadyStep]_vars

\* How a settlement leaves an end.
EndedStep ==
  \A s \in Settlements :
    settlement'[s].status # settlement[s].status =>
      /\ settlement[s].status \notin {"finalized", "reorg_flagged"}
      /\ settlement[s].status = "failed" =>
           /\ settlement'[s].status = "pending_finality"
           /\ approvals'[s][1] # approvals'[s][2]
           /\ replay[s].left >= 0

\* A settlement that is finalized or flagged stays so, and one that failed is
\* taken up again only by a replay that two different administrators made.
EndedStaysEnded == [][EndedStep]_vars

\* FORK_DETECTED is emitted once for a settlement, when it is flagged.
AlertedOnce ==
  \A s \in Settlements :
    alerts[s] = IF settlement[s].status = "reorg_flagged" THEN 1 ELSE 0

\* A settlement whose transaction is missing waits for fewer polls than the
\* provider's maximum, also after a replay.
RetriesBounded ==
  \A s \in Settlements :
    settlement[s].status \in Active => settlement[s].attempts < maxRetries

\* A payout is in quarantine exactly when it has failed at least Threshold
\* times since it was last released.
QuarantineCounts ==
  \A s \in Settlements :
    quarantine[s].status = "quarantined" <=> quarantine[s].failures >= Threshold

-----------------------------------------------------------------------------
\* What the proofs take of the constants.  A reorganisation is shallower than
\* the two windows of confirmations together.
Assumed ==
  /\ minConfirmations \in Nat /\ stabilityConfirmations \in Nat
  /\ maxRetries \in Nat \ {0} /\ Threshold \in Nat \ {0}
  /\ maxDelayCeiling \in Nat /\ ReplayTTL \in Nat /\ MaxLedger \in Nat \ {0}
  /\ MaxReorg \in Nat /\ MaxReorg < minConfirmations + stabilityConfirmations
  /\ NoOne \notin Settlements /\ NoOne \notin Admins

SettlementKind == [status : Statuses, attempts : 0..maxRetries, sincePoll : 0..maxDelayCeiling,
                   ledgerNumber : 0..MaxLedger]
LoopKind == [at : {"asleep", "ledger", "poll", "answer"}, todo : SUBSET Settlements,
             cur : Settlements \cup {NoOne}, latest : Nat]
QuarantineKind == [status : {"none", "active", "quarantined", "released"}, failures : 0..Threshold]
ReplayKind == [by : Admins \cup {NoOne}, left : -1..ReplayTTL]

Kinds ==
  /\ tip \in 0..MaxLedger /\ txLedger \in [Settlements -> Nat]
  /\ settlement \in [Settlements -> SettlementKind]
  /\ alerts \in [Settlements -> Nat]
  /\ loop \in [Loops -> LoopKind]
  /\ quarantine \in [Settlements -> QuarantineKind]
  /\ replay \in [Settlements -> ReplayKind]
  /\ approvals \in [Settlements -> (Admins \cup {NoOne}) \X (Admins \cup {NoOne})]

\* A finalized settlement is below every reorganisation.
Deep(s) ==
  /\ txLedger[s] <= tip
  /\ settlement[s].status = "finalized" =>
       /\ txLedger[s] # 0 /\ s \notin doomed
       /\ tip - txLedger[s] + 1 >= minConfirmations + stabilityConfirmations

\* What holds of one settlement's record: the alert and the flag go together, the
\* attempts are below the maximum, and only a failed one waits for a replay.
Recorded(s) ==
  /\ alerts[s] = IF settlement[s].status = "reorg_flagged" THEN 1 ELSE 0
  /\ settlement[s].status \in Active => settlement[s].attempts < maxRetries
  /\ settlement[s].status = "none" => settlement[s].attempts = 0
  /\ replay[s] # NoReplay => settlement[s].status = "failed"

\* One run at a time is awake, what it has to do is active, and the ledger it
\* read is not ahead of the chain.
RunInv ==
  /\ \A l \in Loops : loop[l].at # "asleep" => inFlight
  /\ \A l, m \in Loops : loop[l].at # "asleep" /\ loop[m].at # "asleep" => l = m
  /\ \A l \in Loops :
       /\ loop[l].at = "asleep" => loop[l] = Asleep
       /\ loop[l].at = "answer" => loop[l].cur \in loop[l].todo
       /\ loop[l].at # "answer" => loop[l].cur = NoOne
       /\ \A s \in loop[l].todo : settlement[s].status \in Active
       /\ loop[l].latest <= tip

ReconcilerInv ==
  /\ Kinds /\ RunInv /\ QuarantineCounts
  /\ \A s \in Settlements : Deep(s) /\ Recorded(s)
=============================================================================
