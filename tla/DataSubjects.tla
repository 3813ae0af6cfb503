---------------------------- MODULE DataSubjects ----------------------------
(***************************************************************************)
(* The rights of a data subject: the erasure of the subject's rows in one  *)
(* transaction and its receipt, the legal hold that forbids it, the export *)
(* of the subject's data, and the requests with their deadlines and the    *)
(* worker that warns of them.                                              *)
(*                                                                         *)
(* Every await is a step boundary.  The transaction is read committed: an  *)
(* update locks its row until the end, a select does not wait for locks.   *)
(***************************************************************************)
EXTENDS Integers, Sequences, FiniteSets, SequencesExt

CONSTANTS
  Tables, DependsOn,       \* the graph of tables
  Rows, TableOf,           \* rows of the subject that may exist
  Hashed,                  \* tables whose columns leave a hash
  Erasures,                \* erasure requests that may be under way together
  Requests,                \* data subject requests
  SlaDays, Thresholds,     \* DSR_SLA_DAYS, and ALERT_THRESHOLDS in their order
  ExportTtl,
  Loops,                   \* timers of the worker that may run together
  Ops,                     \* which of "erase", "export", "requests" take place
  MaxTime, MaxOps,         \* bounds
  MayOverlap, MayFail      \* what may happen

VARIABLES
  now, ops,
  rows,        \* value (0 for NULL), hash and existence
  held,        \* the subject is under a legal hold
  erasure,     \* the erasure requests
  receipts,    \* of gdpr_erasure_events
  edited,      \* rows written since they were last erased
  exports,     \* stored exports: what they hold, and their end
  exporting,   \* the export that is being made
  dsr,         \* the table dsr_sla
  running, worker,  \* the worker's flag and its loops
  alerts       \* alerts sent since a request was opened or reopened

vars == <<now, ops, rows, held, erasure, receipts, edited, exports, exporting, dsr, running, worker,
          alerts>>

Subject == <<rows, held, erasure, receipts, edited>>
Exports == <<exports, exporting>>
Deadlines == <<dsr, running, worker, alerts>>

NoErasure == [pc |-> "idle", dryRun |-> FALSE, at |-> 0, seen |-> << >>, written |-> {},
              present |-> {}, wasHeld |-> FALSE]
NoExport == [pc |-> 0, data |-> {}]
NoRequest == [status |-> "none", dueAt |-> 0, sent |-> {}, resolvedAt |-> -1]
Asleep == [pc |-> "asleep", at |-> 0, list |-> << >>, next |-> 1]
Off == [Asleep EXCEPT !.pc = "off"]

Init ==
  /\ now = 0 /\ ops = 0
  /\ rows = [r \in Rows |-> [exists |-> TRUE, value |-> 1, hash |-> 0]]
  /\ held = FALSE
  /\ erasure = [e \in Erasures |-> NoErasure]
  /\ receipts = {} /\ edited = {} /\ exports = {} /\ exporting = NoExport
  /\ dsr = [d \in Requests |-> NoRequest]
  /\ running = FALSE /\ worker = [l \in Loops |-> Off]
  /\ alerts = [d \in Requests |-> [t \in ToSet(Thresholds) |-> 0]]

\* An operator's request; in turn it finds the worker between two cycles.
Count ==
  /\ ops < MaxOps /\ ops' = ops + 1
  /\ MayOverlap \/ \A l \in Loops : worker[l].pc \in {"off", "asleep"}

-----------------------------------------------------------------------------
\* visit: the dependencies of a white table first, then the table itself.
RECURSIVE visit(_, _, _)
visit(graph, name, s) ==
  LET dependencies == FoldSeq(LAMBDA d, t : visit(graph, d, t), [s EXCEPT !.grey = @ \cup {name}],
                              SetToSeq(graph[name]))
  IN CASE s.cycle \/ name \in s.black -> s
       [] ~s.cycle /\ name \in s.grey \ s.black -> [s EXCEPT !.cycle = TRUE]
       [] OTHER -> [dependencies EXCEPT !.black = @ \cup {name}, !.result = Append(@, name)]

\* topoSort: depth first, a grey table met again is a cycle.
topoSort(graph) ==
  FoldSeq(LAMBDA n, s : visit(graph, n, s),
          [grey |-> {}, black |-> {}, result |-> << >>, cycle |-> FALSE], SetToSeq(DOMAIN graph))

getSortedGraph == topoSort(DependsOn).result

-----------------------------------------------------------------------------
\* POST of an erasure: the hold is looked up before the transaction begins.
eraseRequested(e, dryRun) ==
  /\ erasure[e].pc = "idle" /\ Count
  /\ MayOverlap \/ \A f \in Erasures : erasure[f].pc = "idle"
  /\ erasure' = [erasure EXCEPT ![e] =
       [NoErasure EXCEPT !.pc = "check", !.dryRun = dryRun, !.wasHeld = held,
                         !.present = {r \in Rows : rows[r].exists}]]
  /\ UNCHANGED <<now, rows, held, receipts, edited, Exports, Deadlines>>

\* Mutant: the hold is only looked up for dry runs.
blockedDry(e) == held /\ erasure[e].dryRun

blocked(e) == held

isHeld(e) ==
  /\ erasure[e].pc = "check"
  /\ erasure' = [erasure EXCEPT ![e] =
       IF blocked(e) THEN NoErasure ELSE [@ EXCEPT !.pc = "select", !.at = 1]]
  /\ UNCHANGED <<now, ops, rows, held, receipts, edited, Exports, Deadlines>>

TableAt(e) == getSortedGraph[erasure[e].at]
RowsAt(e) == {r \in Rows : TableOf[r] = TableAt(e) /\ rows[r].exists}

\* tombstoneTable reads the rows of the table ...
selectRows(e) ==
  /\ erasure[e].pc = "select"
  /\ erasure' = [erasure EXCEPT ![e].seen = [r \in RowsAt(e) |-> rows[r].value],
                                ![e].pc = "update"]
  /\ UNCHANGED <<now, ops, rows, held, receipts, edited, Exports, Deadlines>>

tombstoned(r, value) ==
  [rows[r] EXCEPT !.value = 0, !.hash = IF TableOf[r] \in Hashed /\ value # 0 THEN value ELSE @]

Locked(r, e) == \E f \in Erasures \ {e} : \E v \in erasure[f].written : v[1] = r

\* ... and updates them, unless this is a dry run.
updateRows(e) ==
  LET x == erasure[e]
      last == x.at = Len(getSortedGraph) IN
  /\ x.pc = "update"
  /\ ~x.dryRun => \A r \in DOMAIN x.seen : ~Locked(r, e)
  /\ erasure' = [erasure EXCEPT
       ![e].written = IF x.dryRun THEN @ ELSE @ \cup {<<r, x.seen[r]>> : r \in DOMAIN x.seen},
       ![e].pc = IF last THEN "commit" ELSE "select", ![e].at = IF last THEN @ ELSE @ + 1,
       ![e].seen = << >>]
  /\ UNCHANGED <<now, ops, rows, held, receipts, edited, Exports, Deadlines>>

\* writeReceipt and COMMIT; the receipt of a dry run is written on its own.
commitErasure(e) ==
  LET x == erasure[e]
      erased == {v[1] : v \in x.written} IN
  /\ x.pc = "commit"
  /\ rows' = [r \in Rows |-> IF r \in erased
                             THEN tombstoned(r, (CHOOSE v \in x.written : v[1] = r)[2]) ELSE rows[r]]
  /\ receipts' = receipts \cup {[dryRun |-> x.dryRun, present |-> x.present, erased |-> erased,
                                 wasHeld |-> x.wasHeld]}
  /\ edited' = edited \ erased
  /\ erasure' = [erasure EXCEPT ![e] = NoErasure]
  /\ UNCHANGED <<now, ops, held, Exports, Deadlines>>

\* A query fails or the process ends: the transaction is rolled back.
rollback(e) ==
  /\ MayFail /\ erasure[e].pc \in {"check", "select", "update", "commit"}
  /\ erasure' = [erasure EXCEPT ![e] = NoErasure]
  /\ UNCHANGED <<now, ops, rows, held, receipts, edited, Exports, Deadlines>>

addHold ==
  /\ ~held /\ Count
  /\ held' = TRUE
  /\ UNCHANGED <<now, rows, erasure, receipts, edited, Exports, Deadlines>>

\* The subject writes a row, unless a transaction has it locked.
edit(r, v) ==
  /\ ~Locked(r, "") /\ rows[r].value # v /\ Count
  /\ rows' = [rows EXCEPT ![r].value = v, ![r].exists = TRUE]
  /\ edited' = edited \cup {r}
  /\ UNCHANGED <<now, held, erasure, receipts, Exports, Deadlines>>

-----------------------------------------------------------------------------
\* createExport reads profile, bookings and receipts one after another.
createExport ==
  /\ exporting.pc = 0 /\ Count
  /\ exporting' = [pc |-> 1, data |-> {}]
  /\ UNCHANGED <<now, exports, Subject, Deadlines>>

readForExport ==
  /\ exporting.pc \in DOMAIN getSortedGraph
  /\ LET t == getSortedGraph[exporting.pc]
         found == {<<r, rows[r].value>> : r \in {q \in Rows : TableOf[q] = t /\ rows[q].exists}} IN
     exporting' = [pc |-> exporting.pc + 1, data |-> exporting.data \cup found]
  /\ UNCHANGED <<now, ops, exports, Subject, Deadlines>>

\* The timer of the store and the time in the token end together.
storeExport ==
  /\ exporting.pc = Len(getSortedGraph) + 1
  /\ exports' = exports \cup {[data |-> exporting.data, expiresAt |-> now + ExportTtl]}
  /\ exporting' = NoExport
  /\ UNCHANGED <<now, ops, Subject, Deadlines>>

\* getExport succeeds for x until it expires.
Downloadable(x) == x \in exports /\ now <= x.expiresAt

-----------------------------------------------------------------------------
Open(d) == dsr[d].status \in {"open", "in_progress", "extended"}
Ended(d) == dsr[d].status \in {"resolved", "rejected"}

fresh(d) == [t \in DOMAIN alerts[d] |-> 0]

create(d) ==
  /\ dsr[d].status = "none" /\ Count
  /\ dsr' = [dsr EXCEPT ![d] = [NoRequest EXCEPT !.status = "open", !.dueAt = now + SlaDays]]
  /\ UNCHANGED <<now, running, worker, alerts, Subject, Exports>>

\* PATCH asks only for the new status, whatever the old one is.
updateStatus(d, status) ==
  /\ dsr[d].status # "none" /\ Count
  /\ dsr' = [dsr EXCEPT ![d].status = status]
  /\ UNCHANGED <<now, running, worker, alerts, Subject, Exports>>

resolve(d) ==
  /\ Open(d) /\ Count
  /\ dsr' = [dsr EXCEPT ![d].status = "resolved", ![d].resolvedAt = now]
  /\ UNCHANGED <<now, running, worker, alerts, Subject, Exports>>

\* The alerts already sent stay sent.
extend(d, days) ==
  /\ Open(d) /\ Count
  /\ dsr' = [dsr EXCEPT ![d].status = "extended", ![d].dueAt = @ + days]
  /\ UNCHANGED <<now, running, worker, alerts, Subject, Exports>>

reopened(d) == [NoRequest EXCEPT !.status = "open", !.dueAt = now + SlaDays]

reopen(d) ==
  /\ dsr[d].status # "none" /\ Count
  /\ dsr' = [dsr EXCEPT ![d] = reopened(d)]
  /\ alerts' = [alerts EXCEPT ![d] = fresh(d)]
  /\ UNCHANGED <<now, running, worker, Subject, Exports>>

-----------------------------------------------------------------------------
\* start twice is ignored while the worker runs.
startWorker(l) ==
  /\ ~running /\ worker[l].pc = "off"
  /\ running' = TRUE
  /\ worker' = [worker EXCEPT ![l] = Asleep]
  /\ UNCHANGED <<now, ops, dsr, alerts, Subject, Exports>>

\* stop ends the timer; a cycle under way goes on to its end, and schedules
\* itself again if the worker was started in between.
stopWorker ==
  /\ running /\ Count
  /\ running' = FALSE
  /\ worker' = [l \in Loops |-> IF worker[l].pc = "asleep" THEN Off ELSE worker[l]]
  /\ UNCHANGED <<now, dsr, alerts, Subject, Exports>>

\* tick: the time is read once, and every threshold is worked off in turn.
tick(l) ==
  /\ worker[l].pc = "asleep"
  /\ worker' = [worker EXCEPT ![l] = [pc |-> "find", at |-> now, list |-> << >>, next |-> 1]]
  /\ UNCHANGED <<now, ops, dsr, running, alerts, Subject, Exports>>

Threshold(l) == Thresholds[worker[l].next]

pendingAlert(d, t, at) == Open(d) /\ dsr[d].dueAt <= at + t /\ t \notin dsr[d].sent

findPendingAlerts(l) ==
  LET found == {d \in Requests : pendingAlert(d, Threshold(l), worker[l].at)}
      earlier(c, d) == dsr[c].dueAt <= dsr[d].dueAt IN
  /\ worker[l].pc = "find"
  /\ worker' = [worker EXCEPT ![l].pc = "alert", ![l].list = SetToSortSeq(found, earlier)]
  /\ UNCHANGED <<now, ops, dsr, running, alerts, Subject, Exports>>

\* The alert is sent, then marked; one that fails is left for the next cycle.
alertFn(l, ok) ==
  LET d == Head(worker[l].list) IN
  /\ worker[l].pc = "alert" /\ worker[l].list # << >>
  /\ ok \/ MayFail
  /\ alerts' = IF ok THEN [alerts EXCEPT ![d][Threshold(l)] = IF @ < 2 THEN @ + 1 ELSE @] ELSE alerts
  /\ worker' = IF ok THEN [worker EXCEPT ![l].pc = "mark"] ELSE [worker EXCEPT ![l].list = Tail(@)]
  /\ UNCHANGED <<now, ops, dsr, running, Subject, Exports>>

markAlertSent(l, ok) ==
  /\ worker[l].pc = "mark"
  /\ ok \/ MayFail
  /\ dsr' = IF ok THEN [dsr EXCEPT ![Head(worker[l].list)].sent = @ \cup {Threshold(l)}] ELSE dsr
  /\ worker' = [worker EXCEPT ![l].pc = "alert", ![l].list = Tail(@)]
  /\ UNCHANGED <<now, ops, running, alerts, Subject, Exports>>

\* The next threshold, or the end of the cycle.
nextThreshold(l) ==
  /\ worker[l].pc = "alert" /\ worker[l].list = << >>
  /\ worker' = [worker EXCEPT ![l] =
       IF worker[l].next < Len(Thresholds) THEN [@ EXCEPT !.pc = "find", !.next = @ + 1]
       ELSE IF running THEN Asleep ELSE Off]
  /\ UNCHANGED <<now, ops, dsr, running, alerts, Subject, Exports>>

-----------------------------------------------------------------------------
\* Time passes; an export that has expired is dropped by its timer.  In turn,
\* a worker gets round to its cycle every day.
Tick ==
  /\ now < MaxTime
  /\ MayOverlap \/ \A l \in Loops : worker[l].pc \in {"off", "asleep"}
  /\ now' = now + 1
  /\ exports' = {x \in exports : x.expiresAt > now}
  /\ UNCHANGED <<ops, exporting, Subject, Deadlines>>

\* The administrator's routes: the body is checked, then the service called.
postDsr(d) == create(d)
patchStatus(d, status) == status \in {"open", "in_progress", "rejected"} /\ updateStatus(d, status)
postResolve(d) == resolve(d)
postExtend(d, additionalDays) == additionalDays >= 1 /\ extend(d, additionalDays)
postReopen(d) == reopen(d)

erasing ==
  \/ \E e \in Erasures, dryRun \in BOOLEAN : eraseRequested(e, dryRun)
  \/ \E e \in Erasures :
       isHeld(e) \/ selectRows(e) \/ updateRows(e) \/ commitErasure(e) \/ rollback(e)
  \/ addHold
  \/ \E r \in Rows, v \in 1..2 : edit(r, v)

requesting ==
  \/ \E d \in Requests : postDsr(d) \/ postResolve(d) \/ postExtend(d, 1) \/ postReopen(d)
  \/ \E d \in Requests, s \in {"open", "in_progress", "extended", "rejected"} : patchStatus(d, s)
  \/ \E l \in Loops : \/ startWorker(l) \/ tick(l) \/ findPendingAlerts(l) \/ nextThreshold(l)
                      \/ \E ok \in BOOLEAN : alertFn(l, ok) \/ markAlertSent(l, ok)
  \/ stopWorker

Next ==
  \/ "erase" \in Ops /\ erasing
  \/ "export" \in Ops /\ (createExport \/ readForExport \/ storeExport)
  \/ "requests" \in Ops /\ requesting
  \/ Tick

Spec == Init /\ [][Next]_vars

-----------------------------------------------------------------------------
\* Every table comes after the tables it depends on, each once, and the order
\* is refused exactly if a table depends on itself through others. The order is
\* the same in every state and looked at in the first.
SortIsTopological ==
  now = 0 /\ ops = 0 => \A graph \in [1..3 -> SUBSET (1..3)] :
    LET s == topoSort(graph)
        two == [n \in 1..3 |-> graph[n] \cup UNION {graph[m] : m \in graph[n]}]
        all == [n \in 1..3 |-> two[n] \cup UNION {two[m] : m \in two[n]}]
        position(n) == CHOOSE i \in 1..3 : s.result[i] = n
    IN IF \E n \in 1..3 : n \in all[n] THEN s.cycle
       ELSE /\ ~s.cycle /\ Len(s.result) = 3 /\ IsInjective(s.result)
            /\ \A n \in 1..3 : \A m \in graph[n] : position(m) < position(n)

\* A receipt of a real erasure is true: every row the subject had when it was
\* asked for is empty, unless it was written again; nothing is erased without
\* a receipt, whatever fails half way; and no hold was there before.
ReceiptsAreTrue ==
  /\ \A x \in receipts :
       IF x.dryRun THEN x.erased = {}
       ELSE /\ ~x.wasHeld
            /\ \A r \in x.present : rows[r].value = 0 \/ r \in edited
  /\ \A r \in Rows : rows[r].value = 0 => \E x \in receipts : r \in x.erased

\* What is left of an erased value is its hash, however often it is erased.
HashIsKept ==
  \A r \in Rows : rows[r].value = 0 /\ TableOf[r] \in Hashed => rows[r].hash # 0

ExportsExpire == \A x \in exports : Downloadable(x)

\* With one loop and no failures no alert is sent twice for a request, unless
\* it was reopened in between; and what is marked as sent was sent.
AlertsAreSent ==
  \A d \in Requests, t \in ToSet(Thresholds) :
    /\ ~MayOverlap /\ ~MayFail => alerts[d][t] < 2
    /\ ~MayOverlap /\ t \in dsr[d].sent => alerts[d][t] > 0

\* In turn, a request that is still open was warned of at every threshold that
\* had been reached when the last cycle began.
AlertsAreTimely ==
  \A l \in Loops : ~MayOverlap /\ ~MayFail /\ worker[l].pc = "alert" /\ worker[l].list = << >> =>
    \A d \in Requests : Open(d) /\ dsr[d].dueAt <= worker[l].at + Threshold(l)
                          => alerts[d][Threshold(l)] > 0

SubjectsSound ==
  SortIsTopological /\ ReceiptsAreTrue /\ HashIsKept /\ ExportsExpire /\ AlertsAreSent /\ AlertsAreTimely
=============================================================================
