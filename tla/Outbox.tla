------------------------------- MODULE Outbox -------------------------------
(***************************************************************************)
(* The transactional outbox: events inserted with the domain write, relay  *)
(* workers that claim a batch under a lease, publish and acknowledge each  *)
(* event, and the compaction that deletes acknowledged rows.               *)
(*                                                                         *)
(* Leases and the age of an acknowledgement are kept as the time that is   *)
(* left and the time that has passed, so the clock itself is not state.    *)
(***************************************************************************)
EXTENDS Integers, FiniteSets

CONSTANTS
  Events,           \* outbox events
  Workers,          \* relay workers
  BatchSize,        \* OUTBOX_RELAY_BATCH_SIZE
  Lease,            \* OUTBOX_CLAIM_LEASE_MS
  Retention,        \* OUTBOX_RETENTION_MS
  CompactionBatch,  \* OUTBOX_COMPACTION_BATCH_SIZE
  SafetyThreshold,  \* OUTBOX_COMPACTION_SAFETY_THRESHOLD
  MaxFaults,        \* bound on the calls that throw and the crashes
  MayLoseFetch      \* the claiming query may throw

VARIABLES
  created_at, \* when each event was put into the outbox, 0 before
  table,      \* the events with a row in outbox_events
  leaseLeft,  \* how long claimed_until is away, 0 when null or past
  ackAge,     \* how long ago acked_at was, NotAcked when null
  at,         \* where each worker is
  batch,      \* the events each worker has still to publish or acknowledge
  event,      \* the one of them that its loop is at
  published,  \* how often each event reached the consumer (history)
  lapsed,     \* how often each row was claimed again after its lease (history)
  faults      \* what has gone wrong so far

vars == <<created_at, table, leaseLeft, ackAge, at, batch, event, published, lapsed, faults>>

NotAcked == -1
NoEvent == "no event"
Oldest == Retention + 2   \* ages beyond this are not told apart

inserted == {e \in Events : created_at[e] > 0}

Init ==
  /\ created_at = [e \in Events |-> 0]
  /\ table = {}
  /\ leaseLeft = [e \in Events |-> 0]
  /\ ackAge = [e \in Events |-> NotAcked]
  /\ at = [w \in Workers |-> "poll"]
  /\ batch = [w \in Workers |-> {}]
  /\ event = [w \in Workers |-> NoEvent]
  /\ published = [e \in Events |-> 0]
  /\ lapsed = [e \in Events |-> 0]
  /\ faults = 0

-----------------------------------------------------------------------------
\* The oldest n of a set of rows (ORDER BY created_at LIMIT n), and the oldest.
Older(e, f) == created_at[e] < created_at[f]
OldestOf(S, n) == {e \in S : Cardinality({f \in S : Older(f, e)}) < n}
First(S) == {e \in S : \A f \in S : ~Older(f, e)}

\* insertIntoOutbox, committed with the domain write; an event comes once.
insertIntoOutbox(e) ==
  /\ e \notin inserted
  /\ created_at' = [created_at EXCEPT ![e] = Cardinality(inserted) + 1]
  /\ table' = table \cup {e}
  /\ UNCHANGED <<leaseLeft, ackAge, at, batch, event, published, lapsed, faults>>

\* Mutant: the lease of a claimed row is not looked at.
ClaimableIgnoringLease(e) == ackAge[e] = NotAcked

Claimable(e) == ackAge[e] = NotAcked /\ leaseLeft[e] = 0

\* The loop of a worker goes on to the oldest event of what it still has, or
\* the worker polls again.
Proceed(w, rest) ==
  /\ batch' = [batch EXCEPT ![w] = rest]
  /\ \/ /\ rest = {}
        /\ at' = [at EXCEPT ![w] = "poll"] /\ event' = [event EXCEPT ![w] = NoEvent]
     \/ /\ at' = [at EXCEPT ![w] = "publish"]
        /\ \E e \in First(rest) : event' = [event EXCEPT ![w] = e]

\* fetchUnacked: claim the oldest rows that are neither acked nor leased.
fetchUnacked(w) ==
  LET took == OldestOf({e \in table : Claimable(e)}, BatchSize)
      again == {e \in took : \E v \in Workers : e \in batch[v]}
  IN
  /\ at[w] = "poll"
  /\ took # {}
  /\ Proceed(w, took)
  /\ leaseLeft' = [e \in Events |-> IF e \in took THEN Lease ELSE leaseLeft[e]]
  /\ lapsed' = [e \in Events |-> IF e \in again /\ leaseLeft[e] = 0
                                 THEN lapsed[e] + 1 ELSE lapsed[e]]
  /\ UNCHANGED <<created_at, table, ackAge, published, faults>>

\* The worker is through with the event its loop is at.
NextEvent(w) == Proceed(w, batch[w] \ {event[w]})

Delivered(e) == published' = [published EXCEPT ![e] = @ + 1]

publish(w) ==
  /\ at[w] = "publish"
  /\ Delivered(event[w])
  /\ at' = [at EXCEPT ![w] = "ack"]
  /\ UNCHANGED <<created_at, table, leaseLeft, ackAge, batch, event, lapsed, faults>>

\* WHERE id = $1 AND acked_at IS NULL; the row may also be gone.
AckOnce(e) == e \in table /\ ackAge[e] = NotAcked

markAcked(w) ==
  LET e == event[w] IN
  /\ at[w] = "ack"
  /\ IF AckOnce(e)
     THEN /\ ackAge' = [ackAge EXCEPT ![e] = 0]
          /\ leaseLeft' = [leaseLeft EXCEPT ![e] = 0]
     ELSE UNCHANGED <<ackAge, leaseLeft>>
  /\ NextEvent(w)
  /\ UNCHANGED <<created_at, table, published, lapsed, faults>>

-----------------------------------------------------------------------------
Fault == faults < MaxFaults /\ faults' = faults + 1

\* Mutant: the row of a publish that throws is acknowledged all the same.
publishFailsAcked(w) ==
  /\ Fault
  /\ at[w] = "publish"
  /\ NextEvent(w)
  /\ ackAge' = [ackAge EXCEPT ![event[w]] = 0]
  /\ UNCHANGED <<created_at, table, leaseLeft, published, lapsed>>

\* The publish callback or markAcked throws: on to the next event.  What was
\* published may have reached the consumer all the same.
publishFails(w) ==
  /\ Fault
  /\ at[w] \in {"publish", "ack"}
  /\ NextEvent(w)
  /\ \/ UNCHANGED published
     \/ at[w] = "publish" /\ Delivered(event[w])
  /\ UNCHANGED <<created_at, table, leaseLeft, ackAge, lapsed>>

\* fetchUnacked throws: relayOutboxOnce and with it the worker loop end.
fetchFails(w) ==
  /\ MayLoseFetch /\ Fault
  /\ at[w] = "poll"
  /\ at' = [at EXCEPT ![w] = "ended"]
  /\ UNCHANGED <<created_at, table, leaseLeft, ackAge, batch, event, published, lapsed>>

\* The process dies; its claims stay until their lease is over.
crash(w) ==
  /\ Fault
  /\ at[w] # "ended"
  /\ at' = [at EXCEPT ![w] = "down"]
  /\ UNCHANGED <<created_at, table, leaseLeft, ackAge, batch, event, published, lapsed>>

restart(w) ==
  /\ at[w] = "down"
  /\ Proceed(w, {})
  /\ UNCHANGED <<created_at, table, leaseLeft, ackAge, published, lapsed, faults>>

-----------------------------------------------------------------------------
\* Acknowledged, and longer ago than the retention window.
Candidate(e) == ackAge[e] # NotAcked /\ ackAge[e] > Retention

\* Mutant: the brake also holds at the threshold.
WithinThresholdStrictly(n) == n < SafetyThreshold

WithinThreshold(n) == n <= SafetyThreshold

compactOutboxOnce ==
  LET candidates == {e \in table : Candidate(e)} IN
  /\ candidates # {} /\ WithinThreshold(Cardinality(candidates))
  /\ table' = table \ OldestOf(candidates, CompactionBatch)
  /\ UNCHANGED <<created_at, leaseLeft, ackAge, at, batch, event, published, lapsed, faults>>

Tick ==
  /\ leaseLeft' = [e \in Events |-> IF leaseLeft[e] > 0 THEN leaseLeft[e] - 1 ELSE 0]
  /\ ackAge' = [e \in Events |-> IF ackAge[e] \in 0..(Oldest - 1)
                                 THEN ackAge[e] + 1 ELSE ackAge[e]]
  /\ UNCHANGED <<created_at, table, at, batch, event, published, lapsed, faults>>

Step(w) == fetchUnacked(w) \/ publish(w) \/ markAcked(w)

Next ==
  \/ \E e \in Events : insertIntoOutbox(e)
  \/ \E w \in Workers :
       Step(w) \/ publishFails(w) \/ fetchFails(w) \/ crash(w) \/ restart(w)
  \/ compactOutboxOnce
  \/ Tick

Spec == Init /\ [][Next]_vars

\* A worker that is up runs on, a process that died is started again, the
\* compaction loop sweeps, and time passes.
FairSpec ==
  /\ Spec
  /\ \A w \in Workers : WF_vars(Step(w)) /\ WF_vars(restart(w))
  /\ WF_vars(compactOutboxOnce)
  /\ WF_vars(Tick)

-----------------------------------------------------------------------------
\* TypeOK: rows, leases, ages and what the workers hold keep their types.
TypeOK ==
  /\ created_at \in [Events -> Nat] /\ table \subseteq inserted
  /\ leaseLeft \in [Events -> 0..Lease]
  /\ ackAge \in [Events -> {NotAcked} \cup 0..Oldest]
  /\ at \in [Workers -> {"poll", "publish", "ack", "ended", "down"}]
  /\ batch \in [Workers -> SUBSET Events] /\ event \in [Workers -> Events \cup {NoEvent}]
  /\ published \in [Events -> Nat] /\ lapsed \in [Events -> Nat]
  /\ faults \in 0..MaxFaults

\* AckedWasDelivered: a row that is acknowledged or gone has reached the
\* consumer, however workers crash, fail or overtake each other (publish, then
\* markAcked, then compaction).
AckedWasDelivered ==
  \A e \in inserted : (ackAge[e] # NotAcked \/ e \notin table) => published[e] > 0

\* DuplicatesNeedALapse: an event is published again only when its lease ran
\* out while a worker still had it, or when a worker failed or died with it
\* (the lease in fetchUnacked).
DuplicatesNeedALapse ==
  \A e \in Events : published[e] <= 1 + lapsed[e] + faults

-----------------------------------------------------------------------------
\* The workers that have still to publish an event, and that an event is in the
\* batch of a worker that is up.
WillPublish(e) ==
  {w \in Workers : e \in batch[w] /\ (at[w] = "publish" \/ (at[w] = "ack" /\ e # event[w]))}
Held(e) == \E w \in Workers : at[w] \in {"publish", "ack"} /\ e \in batch[w]

\* Publishes that an event may have had beyond its lapses and the faults: one
\* once it is acknowledged or while a worker has it.
Allowed(e) == IF ackAge[e] # NotAcked \/ Held(e) THEN 1 ELSE 0

\* A worker has claimed what was inserted; its loop is at an event of its batch,
\* and acknowledges what has reached the consumer.
LoopInv ==
  \A w \in Workers :
    /\ batch[w] \subseteq inserted
    /\ at[w] \in {"publish", "ack"} => event[w] \in batch[w]
    /\ at[w] = "ack" => published[event[w]] > 0

\* A row is acknowledged after it was published, and gone after that.
RowInv ==
  \A e \in Events :
    /\ e \in inserted \ table => ackAge[e] # NotAcked
    /\ ackAge[e] # NotAcked => published[e] > 0

\* The publishes of an event, those to come included, are paid for by its
\* lapses, the faults and what it is allowed.
Paid(e) == published[e] + Cardinality(WillPublish(e)) <= lapsed[e] + faults + Allowed(e)

\* RelayInv: the inductive invariant of the relay.
RelayInv == TypeOK /\ LoopInv /\ RowInv /\ \A e \in Events : Paid(e)
=============================================================================
