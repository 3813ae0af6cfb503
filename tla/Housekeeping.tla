---------------------------- MODULE Housekeeping ----------------------------
(***************************************************************************)
(* Work done in the background: the delivery of reminders under claims in  *)
(* Redis, SMS over several providers with retries, and the refund of       *)
(* expired holds in batches.                                               *)
(*                                                                         *)
(* Nothing under src/ calls runReminderWorker, startScheduler or           *)
(* createHoldAutoRefundWorker: the module says what they do once started.  *)
(* A call that throws outside a try ends the loop that awaits it.          *)
(*                                                                         *)
(* External: Redis, the SMS providers, and the refund of one hold, which   *)
(* is BookingIntents'.  Waiting times count down with Tick; a step is what *)
(* runs between two awaits.                                                *)
(***************************************************************************)
EXTENDS Integers, Sequences, FiniteSets, SequencesExt, FiniteSetsExt

CONSTANTS
  Ops,                      \* of "reminders", "sms", "refunds"
  NReminders, Lead,         \* reminders 1..NReminders, ticks until they are due
  limit, DEDUP_TTL, MAX_RETRIES,
  Chunks,                   \* parallel chunks of the worker loop: 1..maxConcurrency
  scaleUpThreshold, scaleDownThreshold,
  Providers, maxAttempts, Outcomes,
  NHolds,                   \* holds in the order the repository lists them
  batchSize, safetyThreshold,
  MaxTime, MaxOps           \* bounds; time has none with MaxTime = 0

VARIABLES
  ops, time,
  reminders, claims, proc, loop, concurrency, since, burst,
  sms,
  holds, refunder

vars == <<ops, time, reminders, claims, proc, loop, concurrency, since, burst, sms, holds, refunder>>
reminderVars == <<reminders, claims, proc, loop, concurrency, since, burst>>
refundVars == <<holds, refunder>>

Ids == 1 .. NReminders
\* The chunks of the worker loop, and 0 for the call of the interval.
Procs == 0 .. Chunks
\* A call remembers whether time passed between its claim and the delivery.
IdleProc == [pc |-> "idle", left |-> << >>, slept |-> FALSE]
Working(left) == [pc |-> IF left = << >> THEN "idle" ELSE "claim", left |-> left, slept |-> FALSE]
NoSms == [pc |-> "idle", at |-> 1, attempt |-> 1, tries |-> << >>, result |-> "none"]

Init ==
  /\ ops = 0 /\ time = 0
  /\ reminders = [i \in Ids |-> [status |-> "pending", attempts |-> 0, wait |-> Lead[i]]]
  /\ claims = [i \in Ids |-> 0] /\ proc = [p \in Procs |-> IdleProc]
  /\ loop = "fetch" /\ concurrency = 1
  /\ since = [i \in Ids |-> DEDUP_TTL] /\ burst = FALSE
  /\ sms = NoSms
  /\ holds \in [1 .. NHolds -> {"live", "expired", "stuck"}] /\ refunder = [pc |-> "new", batch |-> << >>]

Op(name) == name \in Ops /\ ops < MaxOps /\ ops' = ops + 1

-----------------------------------------------------------------------------
(* Reminders.                                                              *)

Due(i) == reminders[i].status = "pending" /\ reminders[i].wait = 0

\* ORDER BY trigger_at, created_at LIMIT.
getDueReminders ==
  LET due == {i \in Ids : Due(i)}
      before(a, b) == Lead[a] < Lead[b] \/ (Lead[a] = Lead[b] /\ a < b) IN
  [k \in 1 .. Min({limit, Cardinality(due)}) |-> CHOOSE i \in due : Cardinality({j \in due : before(j, i)}) = k - 1]

\* The interval of the scheduler calls processReminders for all that is due.
intervalTick ==
  /\ proc[0].pc = "idle" /\ getDueReminders # << >> /\ Op("reminders")
  /\ proc' = [proc EXCEPT ![0] = Working(getDueReminders)]
  /\ UNCHANGED <<time, reminders, claims, loop, concurrency, since, burst, sms, refundVars>>

\* ReminderAutoscaler.update; the cooldowns only make it slower.
update(backlog) ==
  IF backlog > scaleUpThreshold * concurrency /\ concurrency < Chunks THEN {concurrency, concurrency + 1}
  ELSE IF backlog < scaleDownThreshold * concurrency /\ concurrency > 1 THEN {concurrency, concurrency - 1}
  ELSE {concurrency}

\* One turn of the worker loop: the backlog is cut into a chunk per worker.
runReminderWorker ==
  LET due == getDueReminders
      n == Len(due) IN
  /\ "reminders" \in Ops /\ loop = "fetch" /\ due # << >>
  /\ \E c \in update(n) :
       LET size == Max({1, (n + c - 1) \div c}) IN
       /\ concurrency' = c
       /\ proc' = [p \in Procs |-> IF p = 0 THEN proc[0]
                   ELSE Working(SubSeq(due, (p - 1) * size + 1, Min({p * size, n})))]
  /\ loop' = "wait"
  /\ UNCHANGED <<ops, time, reminders, claims, since, burst, sms, refundVars>>

\* A throwing query ends the loop.
getDueRemindersFails ==
  /\ "reminders" \in Ops /\ loop = "fetch" /\ loop' = "ended"
  /\ UNCHANGED <<ops, time, reminders, claims, proc, concurrency, since, burst, sms, refundVars>>

\* Promise.all of the chunks is settled.
loopEnds ==
  /\ loop = "wait" /\ \A p \in Procs \ {0} : proc[p].pc = "idle"
  /\ loop' = "fetch"
  /\ UNCHANGED <<ops, time, reminders, claims, proc, concurrency, since, burst, sms, refundVars>>

advanced(p) == [proc EXCEPT ![p] = Working(Tail(proc[p].left))]

\* A call of processReminders throws.  Promise.all rejects with the first chunk
\* that does and ends the loop, while the others go on; the rejection of the
\* interval's call has no handler and ends the process.
rejected(p) ==
  IF p = 0 THEN proc' = [q \in Procs |-> IdleProc] /\ loop' = "fetch" /\ concurrency' = 1
  ELSE proc' = [proc EXCEPT ![p] = IdleProc] /\ loop' = "ended" /\ UNCHANGED concurrency

\* SET NX with the TTL.
\* Mutant: the key is set in any case.
unclaimedAlways(i) == TRUE

unclaimed(i) == claims[i] = 0

claimDelivery(p) ==
  LET i == proc[p].left[1] IN
  /\ proc[p].pc = "claim"
  /\ IF unclaimed(i)
     THEN /\ claims' = [claims EXCEPT ![i] = DEDUP_TTL]
          /\ proc' = [proc EXCEPT ![p].pc = "deliver"]
     ELSE proc' = advanced(p) /\ UNCHANGED claims
  /\ UNCHANGED <<ops, time, reminders, loop, concurrency, since, burst, sms, refundVars>>

\* The key may have been set when the call throws.
claimDeliveryFails(p) ==
  LET i == proc[p].left[1] IN
  /\ proc[p].pc = "claim" /\ rejected(p)
  /\ claims' \in {claims, [claims EXCEPT ![i] = IF unclaimed(i) THEN DEDUP_TTL ELSE @]}
  /\ UNCHANGED <<ops, time, reminders, since, burst, sms, refundVars>>

\* burst and since look at deliveries that follow their claim at once.
deliverReminder(p, ok) ==
  LET i == proc[p].left[1]
      counted == ok /\ ~proc[p].slept IN
  /\ proc[p].pc = "deliver"
  /\ burst' = (burst \/ (counted /\ since[i] < DEDUP_TTL))
  /\ since' = IF counted THEN [since EXCEPT ![i] = 0] ELSE since
  /\ proc' = [proc EXCEPT ![p].pc = IF ok THEN "sent" ELSE "attempt"]
  /\ UNCHANGED <<ops, time, reminders, claims, loop, concurrency, sms, refundVars>>

\* When the update fails, the delivery counts as failed.
markSent(p) ==
  /\ proc[p].pc = "sent"
  /\ \/ /\ reminders' = [reminders EXCEPT ![proc[p].left[1]].status = "sent"]
        /\ proc' = advanced(p)
     \/ proc' = [proc EXCEPT ![p].pc = "attempt"] /\ UNCHANGED reminders
  /\ UNCHANGED <<ops, time, claims, loop, concurrency, since, burst, sms, refundVars>>

attempted(n) == Min({MAX_RETRIES, n + 1})

recordAttempt(p) ==
  LET i == proc[p].left[1] IN
  /\ proc[p].pc = "attempt"
  /\ reminders' = [reminders EXCEPT ![i].attempts = attempted(@)]
  /\ proc' = IF attempted(reminders[i].attempts) >= MAX_RETRIES THEN [proc EXCEPT ![p].pc = "failed"] ELSE advanced(p)
  /\ UNCHANGED <<ops, time, claims, loop, concurrency, since, burst, sms, refundVars>>

markFailed(p) ==
  /\ proc[p].pc = "failed"
  /\ reminders' = [reminders EXCEPT ![proc[p].left[1]].status = "failed"]
  /\ proc' = advanced(p)
  /\ UNCHANGED <<ops, time, claims, loop, concurrency, since, burst, sms, refundVars>>

\* recordAttempt or markFailed throws inside the catch.
updateFails(p) ==
  /\ proc[p].pc \in {"attempt", "failed"} /\ rejected(p)
  /\ UNCHANGED <<ops, time, reminders, claims, since, burst, sms, refundVars>>

\* The process dies and starts again; rows and claims stay.
Crash ==
  /\ Op("reminders")
  /\ proc' = [p \in Procs |-> IdleProc] /\ loop' = "fetch" /\ concurrency' = 1
  /\ UNCHANGED <<time, reminders, claims, since, burst, sms, refundVars>>

-----------------------------------------------------------------------------
(* SMS.                                                                    *)

\* isTransientError for what a provider's attempt ends in: the refusal of a
\* message (4xx) is thrown as an error with status 502.
transient(outcome) == outcome \in {"timeout", "network", "refused"}

send ==
  /\ sms.pc = "idle" /\ Op("sms")
  /\ sms' = [NoSms EXCEPT !.pc = "try"]
  /\ UNCHANGED <<time, reminderVars, refundVars>>

nextProvider(x) == [x EXCEPT !.at = @ + 1, !.attempt = 1]

\* An attempt with a provider: withRetry(withTimeout(sendSms)), where the time
\* for all attempts may be spent.
withRetry(outcome, spent) ==
  LET x == [sms EXCEPT !.tries = Append(@, <<sms.at, outcome>>)] IN
  /\ sms.pc = "try" /\ sms.at <= Len(Providers)
  /\ sms' = IF outcome = "sent" THEN [x EXCEPT !.pc = "idle", !.result = "success"]
            ELSE IF transient(outcome) /\ sms.attempt < maxAttempts THEN (IF spent THEN nextProvider(x) ELSE [x EXCEPT !.attempt = @ + 1])
            ELSE nextProvider(x)
  /\ UNCHANGED <<ops, time, reminderVars, refundVars>>

sendFails ==
  /\ sms.pc = "try" /\ sms.at > Len(Providers)
  /\ sms' = [sms EXCEPT !.pc = "idle", !.result = "failure"]
  /\ UNCHANGED <<ops, time, reminderVars, refundVars>>

\* POST /sms: number and text are checked, then send.
postSms == send

-----------------------------------------------------------------------------
(* The refund of expired holds.                                            *)

\* running is FALSE before the first start and after the loop ended.
start ==
  /\ refunder.pc \in {"new", "ended"} /\ Op("refunds")
  /\ refunder' = [refunder EXCEPT !.pc = "find"]
  /\ UNCHANGED <<time, reminderVars, sms, holds>>

\* The signal stays aborted: no later start runs the loop.
stop ==
  /\ refunder.pc # "stopped" /\ Op("refunds")
  /\ refunder' = [pc |-> "stopped", batch |-> << >>]
  /\ UNCHANGED <<time, reminderVars, sms, holds>>

\* holdUntilMs is reached.
holdExpires(h) ==
  /\ "refunds" \in Ops /\ holds[h] = "live" /\ holds' = [holds EXCEPT ![h] = "expired"]
  /\ UNCHANGED <<ops, time, reminderVars, sms, refunder>>

\* Holds still placed whose time is up; the refund of a stuck one always throws.
findExpiredHolds == SelectSeq([h \in 1 .. NHolds |-> h], LAMBDA h : holds[h] \in {"expired", "stuck"})

batchOf(s) == SubSeq(s, 1, Min({batchSize, Len(s)}))

\* Above the threshold the turn is skipped; a throwing query ends the loop.
processHoldAutoRefundOnce ==
  /\ refunder.pc = "find"
  /\ \/ /\ refunder' = IF Len(findExpiredHolds) > safetyThreshold THEN [refunder EXCEPT !.pc = "sleep"]
                       ELSE [pc |-> "refund", batch |-> batchOf(findExpiredHolds)]
        /\ UNCHANGED ops
     \/ refunder' = [refunder EXCEPT !.pc = "ended"] /\ Op("refunds")
  /\ UNCHANGED <<time, reminderVars, sms, holds>>

\* A failure is counted and the next hold taken.
autoRefundHold ==
  /\ refunder.pc = "refund"
  /\ IF refunder.batch = << >> THEN refunder' = [refunder EXCEPT !.pc = "sleep"] /\ UNCHANGED <<ops, holds>>
     ELSE LET h == refunder.batch[1] IN
          /\ \/ holds[h] = "expired" /\ holds' = [holds EXCEPT ![h] = "refunded"] /\ UNCHANGED ops
             \/ holds[h] = "stuck" /\ UNCHANGED <<ops, holds>>
             \/ holds[h] = "expired" /\ Op("refunds") /\ UNCHANGED holds
          /\ refunder' = [refunder EXCEPT !.batch = Tail(@)]
  /\ UNCHANGED <<time, reminderVars, sms>>

wake ==
  /\ refunder.pc = "sleep" /\ refunder' = [refunder EXCEPT !.pc = "find"]
  /\ UNCHANGED <<ops, time, reminderVars, sms, holds>>

\* The brake is on: no turn refunds anything.
Braked == Len(findExpiredHolds) > safetyThreshold

\* As many holds as a batch takes are stuck before hold h.
Starved(h) == Cardinality({g \in 1 .. (h - 1) : holds[g] = "stuck"}) >= batchSize

-----------------------------------------------------------------------------

\* Time passes: claims run out, reminders come due.
Tick ==
  /\ MaxTime = 0 \/ time < MaxTime
  /\ time' = IF MaxTime = 0 THEN time ELSE time + 1
  /\ claims' = [i \in Ids |-> Max({0, claims[i] - 1})]
  /\ since' = [i \in Ids |-> Min({DEDUP_TTL, since[i] + 1})]
  /\ reminders' = [i \in Ids |-> [reminders[i] EXCEPT !.wait = Max({0, @ - 1})]]
  /\ proc' = [p \in Procs |-> [proc[p] EXCEPT !.slept = @ \/ proc[p].pc = "deliver"]]
  /\ UNCHANGED <<ops, loop, concurrency, burst, sms, refundVars>>

ProcStep(p) ==
  \/ claimDelivery(p) \/ claimDeliveryFails(p) \/ markSent(p) \/ recordAttempt(p) \/ markFailed(p) \/ updateFails(p)
  \/ \E ok \in BOOLEAN : deliverReminder(p, ok)

ReminderStep == runReminderWorker \/ getDueRemindersFails \/ loopEnds \/ \E p \in Procs : ProcStep(p)

RefundStep == processHoldAutoRefundOnce \/ autoRefundHold \/ wake

Next ==
  \/ ReminderStep \/ intervalTick \/ Crash
  \/ postSms \/ sendFails \/ \E o \in Outcomes, spent \in BOOLEAN : withRetry(o, spent)
  \/ RefundStep \/ start \/ stop \/ \E h \in 1 .. NHolds : holdExpires(h)
  \/ Tick

Spec == Init /\ [][Next]_vars

-----------------------------------------------------------------------------

\* Two deliveries of a reminder that each follow their claim at once are at least
\* the life of a claim apart, whatever calls overlap, throw or crash.  Of a worker
\* that sleeps after its claim nothing is said: once the claim has run out another
\* one delivers as well.
RemindedOnce == ~burst

\* A message reported as sent was sent, by the last provider tried; one
\* reported as failed was tried with every provider.
SmsIsTruthful ==
  /\ sms.result = "success" => Last(sms.tries)[2] = "sent"
  /\ sms.result = "failure" => \A k \in DOMAIN Providers : \E j \in DOMAIN sms.tries : sms.tries[j][1] = k
  /\ \A k \in DOMAIN Providers : Cardinality({j \in DOMAIN sms.tries : sms.tries[j][1] = k}) <= maxAttempts

\* Background work is sound.
HousekeepingSound == RemindedOnce /\ SmsIsTruthful

=============================================================================
