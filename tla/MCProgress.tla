----------------------------- MODULE MCProgress -----------------------------
(***************************************************************************)
(* What the system promises to finish: reservations, the projection of     *)
(* escrow events, settlements, disputes, the shutdown of the process, and  *)
(* the background work of the outbox, the sweepers, the reminders and the  *)
(* minting of tokens.  They share no state; one of them runs at a time.    *)
(*                                                                         *)
(* index.ts starts the settlement reconciler, the scheduler of disputes    *)
(* and the outbox relay.  The loops of the escrow listener, the sweeper,   *)
(* the compaction, the refunds and the reminders are exported and started  *)
(* by nobody under src/: what is said of them holds once they are started, *)
(* until a call that throws ends the loop.                                 *)
(***************************************************************************)
EXTENDS Integers, FiniteSets

VARIABLES
  part,
  bookable, status, pc, req, now, paused, refunds, strikes,
  log, tip, cursor, claimed, tick, intentStatus, slots, projected, applied, overlapped, faults,
  ledger, txLedger, doomed, settlement, alerts, inFlight, loop, quarantine, replay, approvals,
  chainFaults,
  dispute, age, chain, queue, pool, appeal, moved, from, inTurn,
  inWork, worker, busy, started, closing, phase, http, res, closes, deadline, outcome, exit,
  created_at, table, leaseLeft, ackAge, at, batch, event, published, lapsed, outboxFaults,
  created, held, left, offered, pausedTenants,
  choreOps, choreTime, reminders, claims, proc, reminding, concurrency, since, burst, sms, expired, refunder,
  credentialOps, credentialTime, minter, factor, code, challenge, used, guard, cookies, flows, issued, intent,
  locks, minted, health, revoked, bus, acks, alarm

Requests == {"r1", "r2", "r3"}

\* One slot, failing calls, requests that wait for each other.
Booking == INSTANCE BookingIntents WITH
  Slots <- {"s1"}, Ops <- {"create", "materialize", "confirm", "cancel", "refund", "expire"},
  Types <- {"standard"}, MaxTime <- 1,
  StartTime <- [s \in {"s1"} |-> 1], NoShowGrace <- 0, ValidUntil <- [s \in {"s1"} |-> 1],
  MayOverlap <- FALSE, MayPause <- FALSE, MayFail <- TRUE

Event(n, kind) ==
  [ledger |-> n, kind |-> kind, slot |-> "s1", intent |-> 1, contract |-> "escrow"]

\* One listener that may die and whose calls may fail, a failing release among
\* them; three events, of which a page of two may part a ledger.
Escrow == INSTANCE EscrowListener WITH
  Listeners <- {"l1"}, InstanceId <- [l \in {"l1"} |-> l],
  NIntents <- 1, SlotOf <- <<"s1">>, InitialStatus <- <<"hold_placed">>,
  Logs <- {<<Event(1, a), Event(m, b), Event(2, "Refunded")>> :
             a \in {"Held", "Slashed"}, b \in {"Captured", "Refunded"}, m \in 1..2},
  MaxLedger <- 3, FinalityDepth <- 1, PageLimit <- 2, AllowList <- {"escrow"}, MaxFaults <- 2,
  MayForget <- FALSE, MayBook <- FALSE, status <- intentStatus, bookable <- slots

minConfirmations == 2

\* One settlement, a reorganisation or a failing call, replays.
Settlement == INSTANCE SettlementReconciler WITH
  Settlements <- {"s1"}, Loops <- {"l1"}, Admins <- {"a1", "a2"}, NoOne <- "no one",
  stabilityConfirmations <- 1, maxRetries <- 2, baseDelay <- 1, multiplier <- 2,
  maxDelayCeiling <- 2, Threshold <- 1, ReplayTTL <- 1, MaxLedger <- 4, MaxReorg <- 2,
  MaxFaults <- 1, tip <- ledger, faults <- chainFaults

\* Nobody but the scheduler has to act on the dispute.
Dispute == INSTANCE Disputes WITH
  Disputes <- {"d1"}, Appeals <- {"q1", "q2"}, Arbiters <- 1..2, Conflicted <- {},
  Rulings <- {"BUYER_FAVOR"}, PanelMinSize <- 1, appealWindow <- 1, inactivityTimeout <- 1,
  seniorReviewTimeout <- 1, autoResolveWindow <- 1

\* The process takes a signal while a request, workers and drivers may hang.
Shutdown == INSTANCE Lifecycle WITH
  Requests <- {"r1"}, Workers <- {"relay", "interval"}, Awaited <- {"relay"},
  Resources <- {"database"}, req <- inWork

\* Two workers; a publish fails, a worker dies, or a fetch that throws ends its loop.
Outbox == INSTANCE Outbox WITH
  Events <- 1..2, Workers <- {"w1", "w2"}, BatchSize <- 2, Lease <- 1, Retention <- 1,
  CompactionBatch <- 1, SafetyThreshold <- 1, MaxFaults <- 1, MayLoseFetch <- TRUE, faults <- outboxFaults

TenantOf == <<"a", "a", "b">>

\* Three holds of two tenants, swept one by one.
Holds == INSTANCE HoldSweeper WITH
  Holds <- 1..3, SlotOf <- <<"s1", "s2", "s3">>,
  TTL <- 1, batchSize <- 1, safetyThreshold <- 2, maxPerTenantPerBatch <- 2,
  status <- held, bookable <- offered

\* Two reminders whose deliveries and updates may fail; four holds, some of
\* which can never be refunded.
Chore(p) == INSTANCE Housekeeping WITH
  Ops <- {p}, MaxOps <- IF p = "reminders" THEN 1 ELSE 3, NReminders <- 2, Lead <- <<0, 1>>, limit <- 1,
  DEDUP_TTL <- 1, MAX_RETRIES <- 2, Chunks <- 2, scaleUpThreshold <- 1, scaleDownThreshold <- 1,
  Providers <- <<"twilio", "vonage">>, maxAttempts <- 2, Outcomes <- {"sent"},
  NHolds <- IF p = "refunds" THEN 4 ELSE 0, batchSize <- 2, safetyThreshold <- 3, MaxTime <- 0,
  ops <- choreOps, time <- choreTime, loop <- reminding, holds <- expired

\* Two calls mint for one supplier while the contract's health falls and recovers.
Mint == INSTANCE Credentials WITH
  Ops <- {"mint"}, MaxOps <- 4, MayOverlap <- FALSE, MayFail <- TRUE, MayCrash <- FALSE, Calls <- 1..2,
  windowPeriods <- 1, maxFailedAttempts <- 2, lockoutDuration <- 2, freshness <- 1, challengeTtl <- 3,
  MaxSecrets <- 2, Oidc <- FALSE, MaxFlows <- 2, Intents <- 1..3, SupplierOf <- [i \in 1..3 |-> "p"],
  Keys <- {""}, Amounts <- {1}, maxUnits <- 2, probeWindowSize <- 3, minProbeSamples <- 2, failureThreshold <- 2,
  circuitOpenDuration <- 1, Replicas <- 1..3, threshold <- 60, alarmWindow <- 2, ackTtl <- 3, MaxTime <- 0,
  ops <- credentialOps, time <- credentialTime, pc <- minter, row <- factor

booking == <<bookable, status, pc, req, now, paused, refunds, strikes>>
listener == <<log, tip, cursor, claimed, tick, intentStatus, slots, projected, applied, overlapped, faults>>
settling ==
  <<ledger, txLedger, doomed, settlement, alerts, inFlight, loop, quarantine, replay, approvals,
    chainFaults>>
disputing == <<dispute, age, chain, queue, pool, appeal, moved, from, inTurn>>
process ==
  <<inWork, worker, busy, started, closing, phase, http, res, closes, deadline, outcome, exit>>
outbox == <<created_at, table, leaseLeft, ackAge, at, batch, event, published, lapsed, outboxFaults>>
holds == <<created, held, left, offered, pausedTenants>>
chores ==
  <<choreOps, choreTime, reminders, claims, proc, reminding, concurrency, since, burst, sms, expired, refunder>>
minting ==
  <<credentialOps, credentialTime, minter, factor, code, challenge, used, guard, cookies, flows, issued, intent,
    locks, minted, health, revoked, bus, acks, alarm>>
payments == <<booking, listener, settling, disputing>>
background == <<process, outbox, holds, chores, minting>>
all == <<part, payments, background>>

\* A part that does not run is in one of its initial states.
MCInit ==
  /\ part \in {"booking", "escrow", "settlement", "disputes", "shutdown", "outbox", "holds", "reminders", "refunds",
              "mint"}
  /\ Booking!Init /\ Dispute!Init
  /\ Escrow!Init /\ (part = "escrow" \/ log = <<Event(1, "Held"), Event(2, "Captured"), Event(2, "Refunded")>>)
  /\ Settlement!Init /\ (part = "settlement" \/ doomed = {})
  /\ Shutdown!Init /\ Outbox!Init /\ Holds!Init /\ Mint!Init
  /\ \E p \in {"reminders", "refunds"} : Chore(p)!Init /\ (p = "refunds" <=> part = "refunds")

\* Nothing is in flight and nothing more is asked of the booking service.
Rest == \A r \in Requests : pc[r] \in {"new", "done"}

PaymentsNext ==
  \/ part = "booking" /\ Booking!Next /\ UNCHANGED <<listener, settling, disputing>>
  \/ part = "booking" /\ Rest /\ UNCHANGED payments
  \/ part = "escrow" /\ Escrow!Next /\ UNCHANGED <<booking, settling, disputing>>
  \/ part = "settlement" /\ Settlement!Next /\ UNCHANGED <<booking, listener, disputing>>
  \/ part = "disputes" /\ Dispute!Next /\ UNCHANGED <<booking, listener, settling>>

BackgroundNext ==
  \/ part = "shutdown" /\ Shutdown!Next /\ UNCHANGED <<outbox, holds, chores, minting>>
  \/ part = "outbox" /\ Outbox!Next /\ UNCHANGED <<process, holds, chores, minting>>
  \/ part = "holds" /\ Holds!Next /\ UNCHANGED <<process, outbox, chores, minting>>
  \/ (\E p \in {"reminders", "refunds"} : part = p /\ Chore(p)!Next) /\ UNCHANGED <<process, outbox, holds, minting>>
  \/ part = "mint" /\ Mint!Next /\ UNCHANGED <<process, outbox, holds, chores>>

MCNext ==
  \/ PaymentsNext /\ UNCHANGED <<part, background>>
  \/ BackgroundNext /\ UNCHANGED <<part, payments>>

\* The fairness of each component, asked of the one that runs.
PaymentsFairness ==
  /\ \A r \in Requests : WF_booking(part = "booking" /\ Booking!Continue(r))
  /\ WF_listener(part = "escrow" /\ Escrow!runEscrowListenerTick("l1"))
  /\ WF_listener(part = "escrow" /\ Escrow!closeLedger)
  /\ WF_settling(part = "settlement" /\ Settlement!Run("l1"))
  /\ WF_settling(part = "settlement" /\ Settlement!closeLedger({}))
  /\ WF_settling(part = "settlement" /\ Settlement!Tick)
  /\ WF_disputing(part = "disputes" /\ Dispute!scanAndAutoResolve)
  /\ WF_disputing(part = "disputes" /\ Dispute!Tick)
  /\ \A q \in {"q1", "q2"} : WF_disputing(part = "disputes" /\ Dispute!openSeniorReview(q))

BackgroundFairness ==
  /\ WF_process(part = "shutdown" /\ Shutdown!System)
  /\ WF_process(part = "shutdown" /\ Shutdown!deadlineFires)
  /\ WF_process(part = "shutdown" /\ Shutdown!hardExit)
  /\ \A w \in {"w1", "w2"} :
       /\ WF_outbox(part = "outbox" /\ Outbox!Step(w))
       /\ WF_outbox(part = "outbox" /\ Outbox!restart(w))
  /\ WF_outbox(part = "outbox" /\ Outbox!compactOutboxOnce)
  /\ WF_outbox(part = "outbox" /\ Outbox!Tick)
  /\ WF_holds(part = "holds" /\ Holds!sweepRefundableHoldExpiryOnce)
  /\ WF_holds(part = "holds" /\ Holds!Tick)
  /\ WF_chores(part = "reminders" /\ Chore("reminders")!ReminderStep)
  /\ WF_chores(part = "reminders" /\ Chore("reminders")!Tick)
  /\ \A p \in 0..2 : WF_chores(part = "reminders" /\ Chore("reminders")!ProcStep(p))
  /\ WF_chores(part = "refunds" /\ Chore("refunds")!RefundStep)
  /\ \A c \in 1..2 : WF_minting(part = "mint" /\ Mint!MintStep(c))
  /\ WF_minting(part = "mint" /\ Mint!Later)
  /\ WF_minting(part = "mint" /\ Mint!call(TRUE))

MCSpec == MCInit /\ [][MCNext]_all /\ PaymentsFairness /\ BackgroundFairness

-----------------------------------------------------------------------------
(* What the part that runs owes to its k-th slot, event, hold or call, and *)
(* what settles it.  The part never changes, so that each leads-to below   *)
(* is one for every part.                                                  *)

PaymentOwed(k) ==
  CASE part = "booking" -> k = 1 /\ "s1" \notin bookable /\ \A i \in Booking!On("s1") : status[i] \notin Booking!Live
    [] part = "escrow" -> log[k].ledger + 1 <= 3 /\ ~Escrow!Parted(k)
    [] part = "settlement" -> k = 1 /\ settlement["s1"].status \in Settlement!Active
    [] part = "disputes" -> k = 1 /\ inTurn /\ dispute["d1"].status \in {"EVIDENCED", "ADJUDICATED", "SENIOR_REVIEW"}
    [] OTHER -> FALSE

PaymentSettled(k) ==
  CASE part = "booking" -> "s1" \in bookable \/ \E i \in Booking!On("s1") : status[i] \in Booking!Live
    [] part = "escrow" -> k \in projected \cup Escrow!Abandoned
    [] part = "settlement" -> settlement["s1"].status \notin Settlement!Active
    [] part = "disputes" -> dispute["d1"].status \in Dispute!Terminal
    [] OTHER -> TRUE

WorkOwed(k) ==
  CASE part = "shutdown" -> k = 1 /\ started
    [] part = "outbox" -> k \in table
    [] part = "holds" -> Holds!Eligible(k)
    [] part = "reminders" -> k \in DOMAIN reminders
    [] part = "refunds" -> expired[k] = "expired" /\ refunder.pc \in {"find", "refund", "sleep"}
    [] part = "mint" -> k = 3 \/ minter[k].at = "lock"
    [] OTHER -> FALSE

\* The safety brakes of the compaction and of the sweeper.
CompactionBraked == ~Outbox!WithinThreshold(Cardinality({e \in table : Outbox!Candidate(e)}))
SweeperBraked == ~Holds!WithinThreshold(Cardinality({h \in 1..3 : Holds!Eligible(h)}))

WorkSettled(k) ==
  CASE part = "shutdown" -> exit # "none"
    [] part = "outbox" -> k \in 1..2 => published[k] > 0 /\ (k \notin table \/ CompactionBraked)
    [] part = "holds" -> held[k] # "active" \/ TenantOf[k] \in pausedTenants \/ SweeperBraked
    [] part = "reminders" -> k \in DOMAIN reminders => reminders[k].status # "pending" \/ reminding = "ended"
    [] part = "refunds" ->
         \/ expired[k] = "refunded" \/ refunder.pc \in {"ended", "stopped"}
         \/ Chore("refunds")!Braked \/ Chore("refunds")!Starved(k)
    [] part = "mint" -> IF k = 3 THEN Mint!tier = "normal" ELSE minter[k].at # "lock"
    [] OTHER -> TRUE

\* A slot that no live intent owns comes back on the market or is taken again; a
\* settlement that is polled is finalized, fails or is flagged; and a dispute with
\* evidence ends although nobody acts on it, unless a call came in while an appeal
\* was audited before.  A final escrow event is projected although ticks fail and
\* the listener dies, but for two kinds: one that a page ending inside its ledger
\* cut off (escrowEventListener.ts:224), and one whose claim stayed when its call
\* failed, its release failed or the listener died (229, 243).
PaymentsEnd == \A k \in 1..3 : PaymentOwed(k) ~> PaymentSettled(k)

\* A signal ends the process although requests, workers and drivers hang.  While
\* one relay goes on every event of the outbox is published, and its row leaves
\* the table unless the brake of the compaction is on; a hold past its deadline
\* gives its slot back unless its tenant is paused or the brake of the sweeper is
\* on.  A reminder is sent or given up, unless a throwing call ended the loop
\* (reminderWorker.ts:43, 58, 62, 121).  While the refund loop runs an expired
\* hold is refunded, unless the brake is on or a whole batch of holds that cannot
\* be refunded comes before it (holdAutoRefundWorker.ts:68, 78).  The wait for a
\* supplier's lock ends, and mints are accepted again after failures.
BackgroundWorkEnds == \A k \in 1..3 : WorkOwed(k) ~> WorkSettled(k)
=============================================================================
