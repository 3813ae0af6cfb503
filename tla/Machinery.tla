----------------------------- MODULE Machinery -----------------------------
(***************************************************************************)
(* The machinery that every feature runs on: the shutdown of the process,  *)
(* the outbox with its relay, the idempotency middleware and the rotation  *)
(* of key encryption keys (KEKs).  What they promise, and proofs of it for *)
(* every value of the constants.                                           *)
(***************************************************************************)
EXTENDS Lifecycle, FiniteSetTheorems, TLAPS

CONSTANTS
  Events, RelayWorkers, BatchSize, Lease, Retention, CompactionBatch, SafetyThreshold, MaxFaults, MayLoseFetch,
  KeyedRequests, KeyRetention, MaxKeyFaults, MayBypass,
  Rows, FirstKek, batchSize, Loops, MaxOps, MaxFailures

VARIABLES
  created_at, table, leaseLeft, ackAge, at, batch, event, published, lapsed, faults,
  entry, ttl, requestAt, reply, window, lockedIn, requestFaults,
  kek, store, loop, op, opsLeft, failuresLeft, doneBy, calm

-----------------------------------------------------------------------------
(* The outbox, for any events, workers, batches and leases.                *)

Outbox == INSTANCE Outbox WITH Workers <- RelayWorkers

\* The relay has finitely many workers; leases and retention are numbers.
RelayAssumed ==
  /\ IsFiniteSet(RelayWorkers) /\ IsFiniteSet(Events) /\ Outbox!NoEvent \notin Events
  /\ Lease \in Nat /\ Retention \in Nat /\ MaxFaults \in Nat

\* Most steps need no arithmetic: Zenon is tried first, and SMT on what is left.
USE ZenonT(2), SMTT(15), ZenonT(15)

\* The outbox counts as the theorems on finite sets do.
LEMMA RelayCounts == \A S : Outbox!Cardinality(S) = Cardinality(S)
  BY DEF Outbox!Cardinality, Cardinality

\* A set of workers is finite, and the number of those that will publish an
\* event does not grow with fewer of them.
LEMMA WorkersCounted ==
  ASSUME RelayAssumed, NEW S \in SUBSET RelayWorkers
  PROVE  /\ IsFiniteSet(S) /\ Outbox!Cardinality(S) \in Nat
         /\ \A T \in SUBSET S : IsFiniteSet(T) /\ Outbox!Cardinality(T) \in Nat /\ Outbox!Cardinality(T) <= Outbox!Cardinality(S)
         /\ \A w \in S : Outbox!Cardinality(S \ {w}) = Outbox!Cardinality(S) - 1
         /\ \A w \in RelayWorkers \ S : Outbox!Cardinality(S \cup {w}) = Outbox!Cardinality(S) + 1
<1>1. IsFiniteSet(S)
  BY RelayCounts, FS_Subset DEF RelayAssumed
<1>2. \A T \in SUBSET S : IsFiniteSet(T) /\ Outbox!Cardinality(T) <= Outbox!Cardinality(S)
  BY RelayCounts, <1>1, FS_Subset
<1>3. \A T \in SUBSET S : Outbox!Cardinality(T) \in Nat
  BY RelayCounts, <1>2, FS_CardinalityType
<1>4. \A w \in S : Outbox!Cardinality(S \ {w}) = Outbox!Cardinality(S) - 1
  BY RelayCounts, <1>1, FS_RemoveElement
<1>5. \A w \in RelayWorkers \ S : Outbox!Cardinality(S \cup {w}) = Outbox!Cardinality(S) + 1
  BY RelayCounts, <1>1, FS_AddElement
<1> QED BY <1>1, <1>2, <1>3, <1>4, <1>5

\* Going on with a batch: what a worker has left, and where its loop is.
LEMMA ProceedEffect ==
  ASSUME Outbox!TypeOK, NEW w \in RelayWorkers, NEW rest \in SUBSET Events, Outbox!Proceed(w, rest)
  PROVE  /\ batch' = [batch EXCEPT ![w] = rest] /\ batch' \in [RelayWorkers -> SUBSET Events]
         /\ at' \in [RelayWorkers -> {"poll", "publish", "ack", "ended", "down"}]
         /\ event' \in [RelayWorkers -> Events \cup {Outbox!NoEvent}]
         /\ \A v \in RelayWorkers \ {w} : at'[v] = at[v] /\ event'[v] = event[v] /\ batch'[v] = batch[v]
         /\ batch'[w] = rest
         /\ \/ rest = {} /\ at'[w] = "poll"
            \/ at'[w] = "publish" /\ event'[w] \in rest
  BY DEF Outbox!TypeOK, Outbox!Proceed, Outbox!First

\* The invariant holds when the outbox is empty.
LEMMA RelayInit == ASSUME RelayAssumed, Outbox!Init PROVE Outbox!RelayInv
<1>1. Outbox!TypeOK
  BY DEF RelayAssumed, Outbox!Init, Outbox!TypeOK, Outbox!inserted, Outbox!NotAcked
<1>2. ASSUME NEW e \in Events PROVE Outbox!WillPublish(e) = {}
  BY DEF Outbox!Init, Outbox!WillPublish
<1>3. Outbox!Cardinality({}) = 0
  BY RelayCounts, FS_EmptySet
<1>4. \A e \in Events : Outbox!Allowed(e) = 0
  BY DEF Outbox!Init, Outbox!Allowed, Outbox!Held, Outbox!NotAcked
<1> QED BY <1>1, <1>2, <1>3, <1>4 DEF Outbox!Init, Outbox!RelayInv, Outbox!LoopInv, Outbox!RowInv, Outbox!Paid, Outbox!inserted, Outbox!NotAcked

\* A step after which no more workers will publish an event, that publishes it
\* not, and that leaves it in the hands of a worker, acknowledges it or is a
\* fault.
LEMMA PaidStep ==
  ASSUME RelayAssumed, Outbox!RelayInv, Outbox!TypeOK', NEW e \in Events,
         Outbox!WillPublish(e)' \subseteq Outbox!WillPublish(e), published'[e] = published[e],
         lapsed'[e] = lapsed[e], faults' >= faults,
         \/ faults' = faults + 1
         \/ Outbox!Held(e)' \/ ~Outbox!Held(e)
         \/ ackAge'[e] # Outbox!NotAcked,
         ackAge[e] # Outbox!NotAcked => ackAge'[e] # Outbox!NotAcked
  PROVE  Outbox!Paid(e)'
<1>1. Outbox!WillPublish(e) \in SUBSET RelayWorkers
  BY DEF Outbox!WillPublish
<1>2. Outbox!Cardinality(Outbox!WillPublish(e)') <= Outbox!Cardinality(Outbox!WillPublish(e))
      /\ Outbox!Cardinality(Outbox!WillPublish(e)') \in Nat /\ Outbox!Cardinality(Outbox!WillPublish(e)) \in Nat
  BY <1>1, WorkersCounted
<1>3. published[e] + Outbox!Cardinality(Outbox!WillPublish(e)) <= lapsed[e] + faults + Outbox!Allowed(e)
  BY DEF Outbox!RelayInv, Outbox!Paid
<1>4. faults \in Nat /\ faults' \in Nat /\ lapsed[e] \in Nat /\ published[e] \in Nat
  BY DEF Outbox!RelayInv, Outbox!TypeOK, RelayAssumed
<1>5. Outbox!Allowed(e) \in {0, 1} /\ Outbox!Allowed(e)' \in {0, 1}
  BY DEF Outbox!Allowed
<1>6. faults' = faults + 1 \/ Outbox!Allowed(e) = 0 \/ Outbox!Allowed(e)' = 1
  BY DEF Outbox!Allowed, Outbox!Held
<1> QED BY <1>2, <1>3, <1>4, <1>5, <1>6 DEF Outbox!Paid

\* Claiming: a row that no worker has is allowed one publish, and one that a
\* worker still has lapses.
LEMMA FetchKeeps ==
  ASSUME RelayAssumed, Outbox!RelayInv, NEW w \in RelayWorkers, Outbox!fetchUnacked(w)
  PROVE  Outbox!RelayInv'
<1> DEFINE took == Outbox!OldestOf({e \in table : Outbox!Claimable(e)}, BatchSize)
<1>0. /\ at[w] = "poll" /\ Outbox!Proceed(w, took) /\ UNCHANGED <<created_at, table, ackAge, published, faults>>
      /\ leaseLeft' = [e \in Events |-> IF e \in took THEN Lease ELSE leaseLeft[e]]
      /\ lapsed' = [e \in Events |-> IF e \in {f \in took : \E v \in RelayWorkers : f \in batch[v]} /\ leaseLeft[e] = 0
                                     THEN lapsed[e] + 1 ELSE lapsed[e]]
  BY DEF Outbox!fetchUnacked
<1>1. Outbox!TypeOK /\ Outbox!LoopInv /\ Outbox!RowInv
  BY DEF Outbox!RelayInv
<1>2. took \in SUBSET Events /\ \A e \in took : e \in table /\ Outbox!Claimable(e)
  BY <1>1 DEF Outbox!OldestOf, Outbox!TypeOK, Outbox!inserted
<1> HIDE DEF took
<1>3. /\ \A v \in RelayWorkers \ {w} : at'[v] = at[v] /\ event'[v] = event[v] /\ batch'[v] = batch[v]
      /\ batch'[w] = took
      /\ \/ took = {} /\ at'[w] = "poll"
         \/ at'[w] = "publish" /\ event'[w] \in took
  BY <1>0, <1>1, <1>2, ProceedEffect
<1>4. Outbox!TypeOK'
  <2>1. batch' \in [RelayWorkers -> SUBSET Events] /\ event' \in [RelayWorkers -> Events \cup {Outbox!NoEvent}]
        /\ at' \in [RelayWorkers -> {"poll", "publish", "ack", "ended", "down"}]
    BY <1>0, <1>1, <1>2, ProceedEffect
  <2>2. leaseLeft' \in [Events -> 0..Lease] /\ lapsed' \in [Events -> Nat]
    BY <1>0, <1>1 DEF Outbox!TypeOK, RelayAssumed
  <2> QED BY <1>0, <1>1, <2>1, <2>2 DEF Outbox!TypeOK, Outbox!inserted
<1>5. Outbox!LoopInv'
  <2>1. took \subseteq Outbox!inserted /\ Outbox!inserted' = Outbox!inserted
    BY <1>0, <1>1, <1>2 DEF Outbox!TypeOK, Outbox!inserted
  <2> QED BY <1>0, <1>1, <1>3, <2>1 DEF Outbox!LoopInv
<1>6. Outbox!RowInv'
  BY <1>0, <1>1 DEF Outbox!RowInv, Outbox!inserted
<1>7. ASSUME NEW e \in Events PROVE Outbox!Paid(e)'
  <2>1. CASE e \notin took
    <3>1. Outbox!WillPublish(e)' \subseteq Outbox!WillPublish(e)
      BY <1>0, <1>3, <2>1 DEF Outbox!WillPublish
    <3>2. lapsed'[e] = lapsed[e] /\ faults' = faults /\ published'[e] = published[e] /\ ackAge'[e] = ackAge[e]
      BY <1>0, <2>1
    <3>3. Outbox!Held(e)' \/ ~Outbox!Held(e)
      BY <1>0, <1>3, <2>1 DEF Outbox!Held
    <3>4. faults' >= faults
      BY <3>2, <1>1 DEF Outbox!TypeOK, RelayAssumed
    <3> QED BY <1>4, <3>1, <3>2, <3>3, <3>4, PaidStep
  <2>2. CASE e \in took
    <3>1. w \notin Outbox!WillPublish(e) /\ Outbox!WillPublish(e)' = Outbox!WillPublish(e) \cup {w} /\ Outbox!WillPublish(e) \in SUBSET RelayWorkers
      BY <1>0, <1>3, <2>2 DEF Outbox!WillPublish
    <3>2. Outbox!Cardinality(Outbox!WillPublish(e)') = Outbox!Cardinality(Outbox!WillPublish(e)) + 1 /\ Outbox!Cardinality(Outbox!WillPublish(e)) \in Nat
      BY <3>1, WorkersCounted
    <3>3. ackAge[e] = Outbox!NotAcked /\ leaseLeft[e] = 0
      BY <1>2, <2>2 DEF Outbox!Claimable
    <3>4. Outbox!Allowed(e)' = 1
      BY <1>3, <2>2 DEF Outbox!Allowed, Outbox!Held
    <3>5. \/ lapsed'[e] = lapsed[e] + 1
          \/ lapsed'[e] = lapsed[e] /\ Outbox!Allowed(e) = 0
      <4>1. CASE \E v \in RelayWorkers : e \in batch[v]
        BY <1>0, <2>2, <3>3, <4>1
      <4>2. CASE ~\E v \in RelayWorkers : e \in batch[v]
        BY <1>0, <2>2, <3>3, <4>2 DEF Outbox!Allowed, Outbox!Held
      <4> QED BY <4>1, <4>2
    <3>6. Outbox!Allowed(e) \in {0, 1}
      BY DEF Outbox!Allowed
    <3>7. lapsed[e] \in Nat /\ published[e] \in Nat /\ faults \in Nat /\ published'[e] = published[e] /\ faults' = faults
      BY <1>0, <1>1 DEF Outbox!TypeOK, RelayAssumed
    <3>8. Outbox!Paid(e)
      BY DEF Outbox!RelayInv
    <3> QED BY <3>2, <3>4, <3>5, <3>6, <3>7, <3>8 DEF Outbox!Paid
  <2> QED BY <2>1, <2>2
<1> QED BY <1>4, <1>5, <1>6, <1>7 DEF Outbox!RelayInv

\* Publishing: one publish to come has come.
LEMMA PublishKeeps ==
  ASSUME RelayAssumed, Outbox!RelayInv, NEW w \in RelayWorkers, Outbox!publish(w)
  PROVE  Outbox!RelayInv'
<1>1. Outbox!TypeOK /\ Outbox!LoopInv /\ Outbox!RowInv
  BY DEF Outbox!RelayInv
<1>0. PICK e \in Events : e = event[w] /\ e \in batch[w]
  BY <1>1 DEF Outbox!publish, Outbox!LoopInv, Outbox!TypeOK
<1>2. e \in batch[w] /\ e = event[w] /\ at[w] = "publish"
  BY <1>0 DEF Outbox!publish
<1>3. /\ published' = [published EXCEPT ![e] = @ + 1] /\ at' = [at EXCEPT ![w] = "ack"]
      /\ UNCHANGED <<created_at, table, leaseLeft, ackAge, batch, event, lapsed, faults>>
  BY <1>0 DEF Outbox!publish, Outbox!Delivered
<1>4. Outbox!TypeOK'
  BY <1>1, <1>2, <1>3 DEF Outbox!TypeOK, Outbox!inserted
<1>5. \A f \in Events : published'[f] >= published[f] /\ (f # e => published'[f] = published[f])
  BY <1>1, <1>3 DEF Outbox!TypeOK
<1>6. published'[e] = published[e] + 1 /\ published'[e] > 0
  BY <1>1, <1>2, <1>3 DEF Outbox!TypeOK
<1>7. Outbox!LoopInv'
  <2>1. \A v \in RelayWorkers : at'[v] = "ack" => event'[v] \in Events /\ published'[event[v]] > 0
    BY <1>1, <1>2, <1>3, <1>5, <1>6 DEF Outbox!LoopInv, Outbox!TypeOK
  <2> QED BY <1>1, <1>2, <1>3, <2>1 DEF Outbox!LoopInv, Outbox!TypeOK, Outbox!inserted
<1>8. Outbox!RowInv'
  BY <1>1, <1>3, <1>5, <1>6 DEF Outbox!RowInv, Outbox!inserted, Outbox!TypeOK
<1>9. ASSUME NEW f \in Events PROVE Outbox!Paid(f)'
  <2>1. CASE f # e
    <3>1. Outbox!WillPublish(f)' \subseteq Outbox!WillPublish(f)
      BY <1>1, <1>2, <1>3, <2>1 DEF Outbox!WillPublish, Outbox!TypeOK
    <3>2. Outbox!Held(f)' \/ ~Outbox!Held(f)
      BY <1>1, <1>2, <1>3 DEF Outbox!Held, Outbox!TypeOK
    <3>3. faults' >= faults
      BY <1>1, <1>3 DEF Outbox!TypeOK, RelayAssumed
    <3> QED BY <1>3, <1>4, <1>5, <2>1, <3>1, <3>2, <3>3, PaidStep
  <2>2. CASE f = e
    <3>1. w \in Outbox!WillPublish(e) /\ Outbox!WillPublish(e) \in SUBSET RelayWorkers
      BY <1>2 DEF Outbox!WillPublish
    <3>2. Outbox!WillPublish(e)' = Outbox!WillPublish(e) \ {w}
      BY <1>1, <1>2, <1>3 DEF Outbox!WillPublish, Outbox!TypeOK
    <3>3. Outbox!Cardinality(Outbox!WillPublish(e)') = Outbox!Cardinality(Outbox!WillPublish(e)) - 1 /\ Outbox!Cardinality(Outbox!WillPublish(e)) \in Nat
      BY <3>1, <3>2, WorkersCounted
    <3>4. Outbox!Allowed(e)' = 1 /\ Outbox!Allowed(e) = 1
      BY <1>1, <1>2, <1>3 DEF Outbox!Allowed, Outbox!Held, Outbox!TypeOK
    <3>5. Outbox!Paid(e) /\ published[e] \in Nat /\ lapsed[e] \in Nat /\ faults \in Nat
      BY <1>1, <1>2 DEF Outbox!RelayInv, Outbox!TypeOK, RelayAssumed
    <3>6. Outbox!Paid(e)'
      BY <1>3, <1>6, <3>3, <3>4, <3>5 DEF Outbox!Paid
    <3> QED BY <2>2, <3>6
  <2> QED BY <2>1, <2>2
<1> QED BY <1>4, <1>7, <1>8, <1>9 DEF Outbox!RelayInv

\* Going on to the next event: nobody else's work changes, and no worker has to
\* publish an event that it had not before.
LEMMA NextEventEffect ==
  ASSUME RelayAssumed, Outbox!RelayInv, NEW w \in RelayWorkers, at[w] \in {"publish", "ack"}, Outbox!NextEvent(w)
  PROVE  /\ event[w] \in batch[w] /\ event[w] \in Events
         /\ batch' \in [RelayWorkers -> SUBSET Events] /\ event' \in [RelayWorkers -> Events \cup {Outbox!NoEvent}]
         /\ at' \in [RelayWorkers -> {"poll", "publish", "ack", "ended", "down"}]
         /\ \A v \in RelayWorkers : /\ batch'[v] \subseteq batch[v]
                                    /\ at'[v] \in {"publish", "ack"} => event'[v] \in batch'[v]
                                    /\ at'[v] = "ack" => at[v] = "ack" /\ event'[v] = event[v]
         /\ \A f \in Events : Outbox!WillPublish(f)' \subseteq Outbox!WillPublish(f)
         /\ \A f \in Events \ {event[w]} : Outbox!Held(f)' \/ ~Outbox!Held(f)
         /\ \A f \in Events : f = event[w] => w \notin Outbox!WillPublish(f)'
<1>1. Outbox!TypeOK /\ Outbox!LoopInv
  BY DEF Outbox!RelayInv
<1>2. event[w] \in batch[w] /\ event[w] \in Events
  BY <1>1 DEF Outbox!LoopInv, Outbox!TypeOK
<1> DEFINE rest == batch[w] \ {event[w]}
<1>3. rest \in SUBSET Events /\ Outbox!Proceed(w, rest)
  BY <1>1 DEF Outbox!TypeOK, Outbox!NextEvent
<1>4. /\ \A v \in RelayWorkers \ {w} : at'[v] = at[v] /\ event'[v] = event[v] /\ batch'[v] = batch[v]
      /\ batch'[w] = rest
      /\ \/ rest = {} /\ at'[w] = "poll"
         \/ at'[w] = "publish" /\ event'[w] \in rest
  BY <1>1, <1>3, ProceedEffect
<1>5. /\ batch' \in [RelayWorkers -> SUBSET Events] /\ event' \in [RelayWorkers -> Events \cup {Outbox!NoEvent}]
      /\ at' \in [RelayWorkers -> {"poll", "publish", "ack", "ended", "down"}]
  BY <1>1, <1>3, ProceedEffect
<1>6. ASSUME NEW f \in Events PROVE Outbox!WillPublish(f)' \subseteq Outbox!WillPublish(f)
  BY <1>4 DEF Outbox!WillPublish
<1>7. ASSUME NEW f \in Events \ {event[w]} PROVE Outbox!Held(f)' \/ ~Outbox!Held(f)
  BY <1>4 DEF Outbox!Held
<1>8. \A f \in Events : f = event[w] => w \notin Outbox!WillPublish(f)'
  BY <1>4 DEF Outbox!WillPublish
<1>9. \A v \in RelayWorkers : /\ batch'[v] \subseteq batch[v]
                              /\ at'[v] \in {"publish", "ack"} => event'[v] \in batch'[v]
                              /\ at'[v] = "ack" => at[v] = "ack" /\ event'[v] = event[v]
  BY <1>1, <1>4 DEF Outbox!LoopInv
<1> QED BY <1>2, <1>5, <1>6, <1>7, <1>8, <1>9

\* Acknowledging: the event is acknowledged after it, by this worker or before.
LEMMA AckKeeps ==
  ASSUME RelayAssumed, Outbox!RelayInv, NEW w \in RelayWorkers, Outbox!markAcked(w)
  PROVE  Outbox!RelayInv'
<1>1. Outbox!TypeOK /\ Outbox!LoopInv /\ Outbox!RowInv /\ at[w] = "ack" /\ Outbox!NextEvent(w)
  BY DEF Outbox!RelayInv, Outbox!markAcked
<1>2. UNCHANGED <<created_at, table, published, lapsed, faults>>
  BY DEF Outbox!markAcked
<1>3. PICK e \in Events : e = event[w]
  BY <1>1, NextEventEffect
<1>4. /\ published[e] > 0 /\ ackAge'[e] # Outbox!NotAcked
      /\ ackAge' \in [Events -> {Outbox!NotAcked} \cup 0..Outbox!Oldest] /\ leaseLeft' \in [Events -> 0..Lease]
      /\ \A f \in Events \ {e} : ackAge'[f] = ackAge[f]
      /\ ackAge[e] # Outbox!NotAcked => ackAge'[e] # Outbox!NotAcked
  <2>1. CASE Outbox!AckOnce(e)
    <3>1. 0 \in 0..Lease /\ 0 \in 0..Outbox!Oldest /\ 0 # Outbox!NotAcked
      BY DEF RelayAssumed, Outbox!NotAcked, Outbox!Oldest
    <3> QED BY <1>1, <1>3, <2>1, <3>1 DEF Outbox!markAcked, Outbox!TypeOK, Outbox!LoopInv
  <2>2. CASE ~Outbox!AckOnce(e)
    <3>1. published[e] > 0
      BY <1>1, <1>3 DEF Outbox!LoopInv
    <3>2. UNCHANGED <<ackAge, leaseLeft>>
      BY <1>3, <2>2 DEF Outbox!markAcked
    <3>3. ackAge[e] # Outbox!NotAcked
      BY <1>1, <1>3, <2>2, NextEventEffect DEF Outbox!AckOnce, Outbox!RowInv, Outbox!LoopInv
    <3> QED BY <1>1, <3>1, <3>2, <3>3 DEF Outbox!TypeOK
  <2> QED BY <2>1, <2>2
<1>5. Outbox!TypeOK'
  BY <1>1, <1>2, <1>4, NextEventEffect DEF Outbox!TypeOK, Outbox!inserted
<1>6. Outbox!LoopInv'
  BY <1>1, <1>2, NextEventEffect DEF Outbox!LoopInv, Outbox!inserted
<1>7. Outbox!RowInv'
  BY <1>1, <1>2, <1>4 DEF Outbox!RowInv, Outbox!inserted
<1>8. ASSUME NEW f \in Events PROVE Outbox!Paid(f)'
  <2>1. Outbox!WillPublish(f)' \subseteq Outbox!WillPublish(f) /\ (f # e => (Outbox!Held(f)' \/ ~Outbox!Held(f)))
    BY <1>1, <1>3, NextEventEffect
  <2>2. faults' >= faults
    BY <1>1, <1>2 DEF Outbox!TypeOK, RelayAssumed
  <2>3. (Outbox!Held(f)' \/ ~Outbox!Held(f)) \/ ackAge'[f] # Outbox!NotAcked
    BY <1>4, <2>1
  <2>4. ackAge[f] # Outbox!NotAcked => ackAge'[f] # Outbox!NotAcked
    BY <1>4
  <2> QED BY <1>2, <1>5, <2>1, <2>2, <2>3, <2>4, PaidStep
<1> QED BY <1>5, <1>6, <1>7, <1>8 DEF Outbox!RelayInv

\* A publish or an acknowledgement that throws is a fault, which pays for the
\* publish that comes again.
LEMMA PublishFailsKeeps ==
  ASSUME RelayAssumed, Outbox!RelayInv, NEW w \in RelayWorkers, Outbox!publishFails(w)
  PROVE  Outbox!RelayInv'
<1>1. Outbox!TypeOK /\ Outbox!LoopInv /\ Outbox!RowInv /\ at[w] \in {"publish", "ack"} /\ Outbox!NextEvent(w)
  BY DEF Outbox!RelayInv, Outbox!publishFails
<1>2. UNCHANGED <<created_at, table, leaseLeft, ackAge, lapsed>> /\ faults' = faults + 1 /\ faults' \in 0..MaxFaults
  BY <1>1 DEF Outbox!publishFails, Outbox!Fault, Outbox!TypeOK, RelayAssumed
<1>3. PICK e \in Events : e = event[w]
  BY <1>1, NextEventEffect
<1>4. /\ published' \in [Events -> Nat] /\ \A f \in Events : published'[f] >= published[f]
      /\ \A f \in Events \ {e} : published'[f] = published[f]
      /\ published'[e] = published[e] \/ (published'[e] = published[e] + 1 /\ at[w] = "publish")
  BY <1>1, <1>3 DEF Outbox!publishFails, Outbox!Delivered, Outbox!TypeOK
<1>5. Outbox!TypeOK'
  BY <1>1, <1>2, <1>4, NextEventEffect DEF Outbox!TypeOK, Outbox!inserted
<1>6. Outbox!LoopInv'
  <2>1. ASSUME NEW v \in RelayWorkers, at'[v] = "ack" PROVE published'[event'[v]] > 0
    <3>1. at[v] = "ack" /\ event'[v] = event[v] /\ event[v] \in Events /\ published[event[v]] > 0
      BY <1>1, <2>1, NextEventEffect DEF Outbox!LoopInv, Outbox!TypeOK
    <3> QED BY <1>1, <1>4, <3>1 DEF Outbox!TypeOK
  <2> QED BY <1>1, <1>2, <2>1, NextEventEffect DEF Outbox!LoopInv, Outbox!inserted
<1>7. Outbox!RowInv'
  BY <1>1, <1>2, <1>4 DEF Outbox!RowInv, Outbox!TypeOK, Outbox!inserted
<1>8. ASSUME NEW f \in Events PROVE Outbox!Paid(f)'
  <2>1. Outbox!WillPublish(f)' \subseteq Outbox!WillPublish(f) /\ faults' >= faults
    BY <1>1, <1>2, NextEventEffect DEF Outbox!TypeOK, RelayAssumed
  <2>2. CASE published'[f] = published[f]
    BY <1>2, <1>5, <2>1, <2>2, PaidStep
  <2>3. CASE f = e /\ published'[e] = published[e] + 1 /\ at[w] = "publish"
    <3>1. w \in Outbox!WillPublish(f) /\ w \notin Outbox!WillPublish(f)' /\ Outbox!WillPublish(f) \in SUBSET RelayWorkers
      BY <1>1, <1>3, <2>3, NextEventEffect DEF Outbox!WillPublish
    <3>2. Outbox!WillPublish(f)' \in SUBSET (Outbox!WillPublish(f) \ {w})
      BY <2>1, <3>1
    <3>3. /\ Outbox!Cardinality(Outbox!WillPublish(f) \ {w}) = Outbox!Cardinality(Outbox!WillPublish(f)) - 1
          /\ Outbox!Cardinality(Outbox!WillPublish(f)) \in Nat
      BY <3>1, WorkersCounted
    <3>4. Outbox!Cardinality(Outbox!WillPublish(f)') \in Nat /\ Outbox!Cardinality(Outbox!WillPublish(f)') <= Outbox!Cardinality(Outbox!WillPublish(f) \ {w})
      BY <3>1, <3>2, WorkersCounted
    <3>5. Outbox!Allowed(f) \in {0, 1} /\ Outbox!Allowed(f)' \in {0, 1}
      BY DEF Outbox!Allowed
    <3>6. Outbox!Paid(f) /\ published[f] \in Nat /\ lapsed[f] \in Nat /\ faults \in Nat
      BY <1>1 DEF Outbox!RelayInv, Outbox!TypeOK, RelayAssumed
    <3> QED BY <1>2, <2>3, <3>3, <3>4, <3>5, <3>6 DEF Outbox!Paid
  <2> QED BY <1>4, <2>2, <2>3
<1> QED BY <1>5, <1>6, <1>7, <1>8 DEF Outbox!RelayInv

\* A failing poll, a crash and a restart leave the rows alone; what a worker that
\* dies had is paid for by the fault.
LEMMA WorkerKeeps ==
  ASSUME RelayAssumed, Outbox!RelayInv, NEW w \in RelayWorkers, Outbox!fetchFails(w) \/ Outbox!crash(w) \/ Outbox!restart(w)
  PROVE  Outbox!RelayInv'
<1>1. Outbox!TypeOK /\ Outbox!LoopInv /\ Outbox!RowInv
  BY DEF Outbox!RelayInv
<1>2. /\ UNCHANGED <<created_at, table, leaseLeft, ackAge, published, lapsed>>
      /\ faults' \in 0..MaxFaults /\ faults' >= faults
      /\ faults' = faults + 1 \/ at[w] = "down"
  BY <1>1 DEF Outbox!fetchFails, Outbox!crash, Outbox!restart, Outbox!Fault, Outbox!TypeOK, RelayAssumed
<1>3. /\ batch' \in [RelayWorkers -> SUBSET Events] /\ event' \in [RelayWorkers -> Events \cup {Outbox!NoEvent}]
      /\ at' \in [RelayWorkers -> {"poll", "publish", "ack", "ended", "down"}]
      /\ at'[w] \in {"poll", "ended", "down"} /\ batch'[w] \subseteq batch[w]
      /\ \A v \in RelayWorkers \ {w} : at'[v] = at[v] /\ event'[v] = event[v] /\ batch'[v] = batch[v]
  <2>1. CASE Outbox!fetchFails(w) \/ Outbox!crash(w)
    BY <1>1, <2>1 DEF Outbox!fetchFails, Outbox!crash, Outbox!TypeOK
  <2>2. CASE Outbox!restart(w)
    <3>1. Outbox!Proceed(w, {}) /\ {} \in SUBSET Events
      BY <2>2 DEF Outbox!restart
    <3> QED BY <1>1, <3>1, ProceedEffect
  <2> QED BY <2>1, <2>2
<1>4. Outbox!TypeOK'
  BY <1>1, <1>2, <1>3 DEF Outbox!TypeOK, Outbox!inserted
<1>5. Outbox!LoopInv'
  BY <1>1, <1>2, <1>3 DEF Outbox!LoopInv, Outbox!inserted
<1>6. Outbox!RowInv'
  BY <1>1, <1>2 DEF Outbox!RowInv, Outbox!inserted
<1>7. ASSUME NEW f \in Events PROVE Outbox!Paid(f)'
  <2>1. Outbox!WillPublish(f)' \subseteq Outbox!WillPublish(f)
    BY <1>3 DEF Outbox!WillPublish
  <2>2. faults' = faults + 1 \/ (Outbox!Held(f)' \/ ~Outbox!Held(f))
    BY <1>2, <1>3 DEF Outbox!Held
  <2> QED BY <1>2, <1>4, <2>1, <2>2, PaidStep
<1> QED BY <1>4, <1>5, <1>6, <1>7 DEF Outbox!RelayInv

\* Inserting, compacting and the passing of time leave the workers alone and keep
\* rows that are not acknowledged.
LEMMA RowsKeep ==
  ASSUME RelayAssumed, Outbox!RelayInv, Outbox!compactOutboxOnce \/ Outbox!Tick \/ \E e \in Events : Outbox!insertIntoOutbox(e)
  PROVE  Outbox!RelayInv'
<1>1. Outbox!TypeOK /\ Outbox!LoopInv /\ Outbox!RowInv
  BY DEF Outbox!RelayInv
<1>2. UNCHANGED <<at, batch, event, published, lapsed, faults>>
  BY DEF Outbox!compactOutboxOnce, Outbox!Tick, Outbox!insertIntoOutbox
<1>3. ASSUME NEW e \in Events, Outbox!insertIntoOutbox(e)
      PROVE  created_at' \in [Events -> Nat] /\ Outbox!inserted' = Outbox!inserted \cup {e}
  <2>1. Outbox!Cardinality(Outbox!inserted) \in Nat
    BY RelayCounts, FS_Subset, FS_CardinalityType DEF RelayAssumed, Outbox!inserted
  <2>2. PICK n \in Nat : n = Outbox!Cardinality(Outbox!inserted) + 1
    BY <2>1
  <2>4. n > 0 /\ created_at' = [created_at EXCEPT ![e] = n]
    BY <1>3, <2>1, <2>2 DEF Outbox!insertIntoOutbox
  <2>3. created_at' \in [Events -> Nat] /\ created_at'[e] > 0
        /\ \A f \in Events \ {e} : created_at'[f] = created_at[f]
    BY <1>1, <2>4 DEF Outbox!TypeOK
  <2> QED BY <2>3 DEF Outbox!inserted
<1>4. /\ created_at' \in [Events -> Nat] /\ Outbox!inserted \subseteq Outbox!inserted' /\ table' \subseteq Outbox!inserted'
  BY <1>1, <1>3 DEF Outbox!compactOutboxOnce, Outbox!Tick, Outbox!insertIntoOutbox, Outbox!TypeOK, Outbox!inserted
<1>5. ASSUME NEW e \in Events PROVE (ackAge'[e] # Outbox!NotAcked) <=> (ackAge[e] # Outbox!NotAcked)
  BY <1>1 DEF Outbox!compactOutboxOnce, Outbox!Tick, Outbox!insertIntoOutbox, Outbox!TypeOK, Outbox!NotAcked
<1>6. \A e \in Outbox!inserted' \ table' : ackAge'[e] # Outbox!NotAcked
  <2>1. CASE Outbox!compactOutboxOnce
    BY <1>1, <2>1 DEF Outbox!compactOutboxOnce, Outbox!OldestOf, Outbox!Candidate, Outbox!RowInv, Outbox!inserted
  <2>2. CASE Outbox!Tick
    BY <1>1, <1>5, <2>2 DEF Outbox!Tick, Outbox!RowInv, Outbox!inserted
  <2>3. ASSUME NEW e \in Events, Outbox!insertIntoOutbox(e) PROVE Outbox!inserted' \ table' \subseteq Outbox!inserted \ table
    BY <1>3, <2>3 DEF Outbox!insertIntoOutbox
  <2> QED BY <1>1, <1>5, <2>1, <2>2, <2>3 DEF Outbox!RowInv, Outbox!inserted
<1>7. leaseLeft' \in [Events -> 0..Lease] /\ ackAge' \in [Events -> {Outbox!NotAcked} \cup 0..Outbox!Oldest]
  BY <1>1 DEF Outbox!compactOutboxOnce, Outbox!Tick, Outbox!insertIntoOutbox, Outbox!TypeOK, RelayAssumed, Outbox!NotAcked, Outbox!Oldest
<1>8. Outbox!TypeOK'
  BY <1>1, <1>2, <1>4, <1>7 DEF Outbox!TypeOK
<1>9. Outbox!LoopInv'
  BY <1>1, <1>2, <1>4 DEF Outbox!LoopInv
<1>10. Outbox!RowInv'
  BY <1>1, <1>2, <1>5, <1>6 DEF Outbox!RowInv
<1>11. ASSUME NEW f \in Events PROVE Outbox!Paid(f)'
  <2>1. Outbox!WillPublish(f)' \subseteq Outbox!WillPublish(f) /\ (Outbox!Held(f)' \/ ~Outbox!Held(f))
    BY <1>2 DEF Outbox!WillPublish, Outbox!Held
  <2>2. faults' >= faults
    BY <1>1, <1>2 DEF Outbox!TypeOK, RelayAssumed
  <2> QED BY <1>2, <1>5, <1>8, <2>1, <2>2, PaidStep
<1> QED BY <1>8, <1>9, <1>10, <1>11 DEF Outbox!RelayInv

\* Every step of the relay, its workers' failures and the compaction keeps it.
LEMMA RelayStep == ASSUME RelayAssumed, Outbox!RelayInv, [Outbox!Next]_Outbox!vars PROVE Outbox!RelayInv'
<1>1. CASE UNCHANGED Outbox!vars
  <2>1. \A f \in Events : Outbox!WillPublish(f)' = Outbox!WillPublish(f) /\ Outbox!Allowed(f)' = Outbox!Allowed(f)
    BY <1>1 DEF Outbox!vars, Outbox!WillPublish, Outbox!Allowed, Outbox!Held
  <2> QED BY <1>1, <2>1 DEF Outbox!vars, Outbox!RelayInv, Outbox!TypeOK, Outbox!LoopInv, Outbox!RowInv, Outbox!Paid, Outbox!inserted
<1> QED BY <1>1, FetchKeeps, PublishKeeps, AckKeeps, PublishFailsKeeps, WorkerKeeps, RowsKeep DEF Outbox!Next, Outbox!Step

\* The invariant holds always.
THEOREM RelayHolds == ASSUME RelayAssumed PROVE Outbox!Spec => []Outbox!RelayInv
<1>1. Outbox!Init => Outbox!RelayInv
  BY RelayInit
<1>2. Outbox!RelayInv /\ [Outbox!Next]_Outbox!vars => Outbox!RelayInv'
  BY RelayStep
<1> QED BY <1>1, <1>2, PTL DEF Outbox!Spec

\* No event is lost: what is acknowledged or compacted has reached the consumer.
THEOREM AckedWasDeliveredHolds == ASSUME RelayAssumed PROVE Outbox!Spec => []Outbox!AckedWasDelivered
<1>1. Outbox!RelayInv => Outbox!AckedWasDelivered
  BY DEF Outbox!RelayInv, Outbox!RowInv, Outbox!AckedWasDelivered, Outbox!inserted
<1> QED BY <1>1, RelayHolds, PTL

\* The lease bounds the duplicates.
THEOREM DuplicatesHold == ASSUME RelayAssumed PROVE Outbox!Spec => []Outbox!DuplicatesNeedALapse
<1>1. ASSUME Outbox!RelayInv, NEW e \in Events PROVE published[e] <= 1 + lapsed[e] + faults
  <2>1. Outbox!WillPublish(e) \in SUBSET RelayWorkers /\ Outbox!Allowed(e) \in {0, 1}
    BY DEF Outbox!WillPublish, Outbox!Allowed
  <2>2. Outbox!Cardinality(Outbox!WillPublish(e)) \in Nat
    BY <2>1, WorkersCounted
  <2>3. Outbox!Paid(e) /\ published[e] \in Nat /\ lapsed[e] \in Nat /\ faults \in Nat
    BY <1>1 DEF Outbox!RelayInv, Outbox!TypeOK, RelayAssumed
  <2> QED BY <2>1, <2>2, <2>3 DEF Outbox!Paid
<1>2. Outbox!RelayInv => Outbox!DuplicatesNeedALapse
  BY <1>1 DEF Outbox!DuplicatesNeedALapse
<1> QED BY <1>2, RelayHolds, PTL

-----------------------------------------------------------------------------
(* The shutdown, for any sets of requests, workers and resources.          *)

Phases == {"none", "called", "stopping", "closing", "ended"}

\* The kinds of the variables, as far as the proof needs them.
Kinds ==
  /\ req \in [Requests -> {"new", "active", "done", "cut"}]
  /\ worker \in [Workers -> {"importing", "absent", "running", "stopping", "stopped", "failed"}]
  /\ busy \subseteq Workers
  /\ phase \in Phases
  /\ http \in {"open", "closing", "closed", "failed"}
  /\ res \in [Resources -> {"open", "closing", "closed", "failed"}]
  /\ closes \in [Resources -> {0, 1}]
  /\ deadline \in {"off", "armed", "fired"}
  /\ outcome \in {"pending", "resolved", "rejected"}
  /\ exit \in {"none", "0", "1"}
  /\ started \in BOOLEAN /\ closing \in BOOLEAN

\* What each phase of the shutdown has behind it.
PhaseInv ==
  /\ (closing <=> phase # "none") /\ (closing => started)
  /\ phase = "none" <=> deadline = "off"
  /\ http = "open" <=> phase \in {"none", "called"}
  /\ phase \notin {"none", "called"} => \A w \in Workers : worker[w] # "running"
  /\ phase \in {"closing", "ended"} =>
       /\ \A w \in Workers : worker[w] # "stopping"
       /\ http \in {"closed", "failed"}

\* Who still uses the resources.
UseInv ==
  /\ http = "closed" => \A r \in Requests : req[r] # "active"
  /\ \A w \in busy \cap Awaited : worker[w] \in {"running", "stopping"}
  /\ (deadline # "fired" /\ \E x \in Resources : res[x] # "open") => phase \in {"closing", "ended"}
  /\ deadline # "fired" => \A r \in Requests : req[r] # "cut"

\* What the outcome of the promise and the exit code stand for.
OutcomeInv ==
  /\ deadline = "fired" => outcome = "rejected"
  /\ outcome = "resolved" =>
       /\ phase = "ended"
       /\ \A w \in Workers : worker[w] # "failed"
       /\ \A x \in Resources : res[x] = "closed"
       /\ http = "closed"
  /\ exit = "0" => outcome = "resolved"

ShutdownInv == Kinds /\ PhaseInv /\ UseInv /\ OutcomeInv

-----------------------------------------------------------------------------
\* The invariant holds when the process starts.
LEMMA InitInv == Init => ShutdownInv
  BY DEF Init, ShutdownInv, Kinds, Phases, PhaseInv, UseInv, OutcomeInv

\* Every step of a request, a worker, the shutdown or a timer keeps it.
LEMMA StepInv == ShutdownInv /\ [Next]_vars => ShutdownInv'
<1> SUFFICES ASSUME ShutdownInv, [Next]_vars PROVE ShutdownInv'
  OBVIOUS
<1> USE AwaitedAssumption DEF ShutdownInv
<1>1. CASE \E r \in Requests : trackRequests(r)
  <2> PICK r \in Requests : trackRequests(r)
    BY <1>1
  <2>1. Kinds'
    BY DEF trackRequests, Alive, shutdownVars, Kinds, OutcomeInv, PhaseInv, Phases, UseInv
  <2>2. PhaseInv'
    BY DEF trackRequests, Alive, shutdownVars, Kinds, OutcomeInv, PhaseInv, Phases, UseInv
  <2>3. UseInv'
    BY DEF trackRequests, Alive, shutdownVars, Kinds, OutcomeInv, PhaseInv, Phases, UseInv
  <2>4. OutcomeInv'
    BY DEF trackRequests, Alive, shutdownVars, Kinds, OutcomeInv, PhaseInv, Phases, UseInv
  <2> QED
    BY <2>1, <2>2, <2>3, <2>4
<1>2. CASE \E r \in Requests : done(r)
  <2> PICK r \in Requests : done(r)
    BY <1>2
  <2>1. Kinds'
    BY DEF done, Alive, shutdownVars, Kinds, OutcomeInv, PhaseInv, Phases, UseInv
  <2>2. PhaseInv'
    BY DEF done, Alive, shutdownVars, Kinds, OutcomeInv, PhaseInv, Phases, UseInv
  <2>3. UseInv'
    BY DEF done, Alive, shutdownVars, Kinds, OutcomeInv, PhaseInv, Phases, UseInv
  <2>4. OutcomeInv'
    BY DEF done, Alive, shutdownVars, Kinds, OutcomeInv, PhaseInv, Phases, UseInv
  <2> QED
    BY <2>1, <2>2, <2>3, <2>4
<1>3. CASE \E w \in Workers : registerStop(w)
  <2> PICK w \in Workers : registerStop(w)
    BY <1>3
  <2>1. Kinds'
    BY DEF registerStop, Alive, shutdownVars, Kinds, OutcomeInv, PhaseInv, Phases, UseInv
  <2>2. PhaseInv'
    BY DEF registerStop, Alive, shutdownVars, Kinds, OutcomeInv, PhaseInv, Phases, UseInv
  <2>3. UseInv'
    BY DEF registerStop, Alive, shutdownVars, Kinds, OutcomeInv, PhaseInv, Phases, UseInv
  <2>4. OutcomeInv'
    BY DEF registerStop, Alive, shutdownVars, Kinds, OutcomeInv, PhaseInv, Phases, UseInv
  <2> QED
    BY <2>1, <2>2, <2>3, <2>4
<1>4. CASE \E w \in Workers : beginRound(w)
  <2> PICK w \in Workers : beginRound(w)
    BY <1>4
  <2>1. Kinds'
    BY DEF beginRound, Alive, shutdownVars, Kinds, OutcomeInv, PhaseInv, Phases, UseInv
  <2>2. PhaseInv'
    BY DEF beginRound, Alive, shutdownVars, Kinds, OutcomeInv, PhaseInv, Phases, UseInv
  <2>3. UseInv'
    BY DEF beginRound, Alive, shutdownVars, Kinds, OutcomeInv, PhaseInv, Phases, UseInv
  <2>4. OutcomeInv'
    BY DEF beginRound, Alive, shutdownVars, Kinds, OutcomeInv, PhaseInv, Phases, UseInv
  <2> QED
    BY <2>1, <2>2, <2>3, <2>4
<1>5. CASE \E w \in Workers : endRound(w)
  <2> PICK w \in Workers : endRound(w)
    BY <1>5
  <2>1. Kinds'
    BY DEF endRound, Alive, shutdownVars, Kinds, OutcomeInv, PhaseInv, Phases, UseInv
  <2>2. PhaseInv'
    BY DEF endRound, Alive, shutdownVars, Kinds, OutcomeInv, PhaseInv, Phases, UseInv
  <2>3. UseInv'
    BY DEF endRound, Alive, shutdownVars, Kinds, OutcomeInv, PhaseInv, Phases, UseInv
  <2>4. OutcomeInv'
    BY DEF endRound, Alive, shutdownVars, Kinds, OutcomeInv, PhaseInv, Phases, UseInv
  <2> QED
    BY <2>1, <2>2, <2>3, <2>4
<1>6. CASE \E w \in Workers : stopWorker(w)
  <2> PICK w \in Workers : stopWorker(w)
    BY <1>6
  <2>1. Kinds'
    BY DEF stopWorker, Alive, shutdownVars, Stoppable, Kinds, OutcomeInv, PhaseInv, Phases, UseInv
  <2>2. PhaseInv'
    BY DEF stopWorker, Alive, shutdownVars, Stoppable, Kinds, OutcomeInv, PhaseInv, Phases, UseInv
  <2>3. UseInv'
    BY DEF stopWorker, Alive, shutdownVars, Stoppable, Kinds, OutcomeInv, PhaseInv, Phases, UseInv
  <2>4. OutcomeInv'
    BY DEF stopWorker, Alive, shutdownVars, Stoppable, Kinds, OutcomeInv, PhaseInv, Phases, UseInv
  <2> QED
    BY <2>1, <2>2, <2>3, <2>4
<1>7. CASE \E x \in Resources : closeResource(x)
  <2> PICK x \in Resources : closeResource(x)
    BY <1>7
  <2>1. Kinds'
    BY DEF closeResource, Alive, shutdownVars, Kinds, OutcomeInv, PhaseInv, Phases, UseInv
  <2>2. PhaseInv'
    BY DEF closeResource, Alive, shutdownVars, Kinds, OutcomeInv, PhaseInv, Phases, UseInv
  <2>3. UseInv'
    BY DEF closeResource, Alive, shutdownVars, Kinds, OutcomeInv, PhaseInv, Phases, UseInv
  <2>4. OutcomeInv'
    BY DEF closeResource, Alive, shutdownVars, Kinds, OutcomeInv, PhaseInv, Phases, UseInv
  <2> QED
    BY <2>1, <2>2, <2>3, <2>4
<1>8. CASE shutdown
  <2>1. Kinds'
    BY <1>8 DEF shutdown, Alive, shutdownVars, Kinds, OutcomeInv, PhaseInv, Phases, UseInv
  <2>2. PhaseInv'
    BY <1>8 DEF shutdown, Alive, shutdownVars, Kinds, OutcomeInv, PhaseInv, Phases, UseInv
  <2>3. UseInv'
    BY <1>8 DEF shutdown, Alive, shutdownVars, Kinds, OutcomeInv, PhaseInv, Phases, UseInv
  <2>4. OutcomeInv'
    BY <1>8 DEF shutdown, Alive, shutdownVars, Kinds, OutcomeInv, PhaseInv, Phases, UseInv
  <2> QED
    BY <2>1, <2>2, <2>3, <2>4
<1>9. CASE performShutdown
  <2>1. Kinds'
    BY <1>9 DEF performShutdown, Alive, shutdownVars, Kinds, OutcomeInv, PhaseInv, Phases, UseInv
  <2>2. PhaseInv'
    BY <1>9 DEF performShutdown, Alive, shutdownVars, Kinds, OutcomeInv, PhaseInv, Phases, UseInv
  <2>3. UseInv'
    BY <1>9 DEF performShutdown, Alive, shutdownVars, Kinds, OutcomeInv, PhaseInv, Phases, UseInv
  <2>4. OutcomeInv'
    BY <1>9 DEF performShutdown, Alive, shutdownVars, Kinds, OutcomeInv, PhaseInv, Phases, UseInv
  <2> QED
    BY <2>1, <2>2, <2>3, <2>4
<1>10. CASE afterStops
  <2>1. Kinds'
    BY <1>10 DEF afterStops, Alive, shutdownVars, Settled, closeResources, Kinds, OutcomeInv, PhaseInv, Phases, UseInv
  <2>2. PhaseInv'
    BY <1>10 DEF afterStops, Alive, shutdownVars, Settled, closeResources, Kinds, OutcomeInv, PhaseInv, Phases, UseInv
  <2>3. UseInv'
    BY <1>10 DEF afterStops, Alive, shutdownVars, Settled, closeResources, Kinds, OutcomeInv, PhaseInv, Phases, UseInv
  <2>4. OutcomeInv'
    BY <1>10 DEF afterStops, Alive, shutdownVars, Settled, closeResources, Kinds, OutcomeInv, PhaseInv, Phases, UseInv
  <2> QED
    BY <2>1, <2>2, <2>3, <2>4
<1>11. CASE afterCloses
  <2>1. Kinds'
    BY <1>11 DEF afterCloses, Alive, shutdownVars, Failure, Kinds, OutcomeInv, PhaseInv, Phases, UseInv
  <2>2. PhaseInv'
    BY <1>11 DEF afterCloses, Alive, shutdownVars, Failure, Kinds, OutcomeInv, PhaseInv, Phases, UseInv
  <2>3. UseInv'
    BY <1>11 DEF afterCloses, Alive, shutdownVars, Failure, Kinds, OutcomeInv, PhaseInv, Phases, UseInv
  <2>4. OutcomeInv'
    BY <1>11 DEF afterCloses, Alive, shutdownVars, Failure, Kinds, OutcomeInv, PhaseInv, Phases, UseInv
  <2> QED
    BY <2>1, <2>2, <2>3, <2>4
<1>12. CASE exitOnOutcome
  <2>1. Kinds'
    BY <1>12 DEF exitOnOutcome, Alive, shutdownVars, finish, Kinds, OutcomeInv, PhaseInv, Phases, UseInv
  <2>2. PhaseInv'
    BY <1>12 DEF exitOnOutcome, Alive, shutdownVars, finish, Kinds, OutcomeInv, PhaseInv, Phases, UseInv
  <2>3. UseInv'
    BY <1>12 DEF exitOnOutcome, Alive, shutdownVars, finish, Kinds, OutcomeInv, PhaseInv, Phases, UseInv
  <2>4. OutcomeInv'
    BY <1>12 DEF exitOnOutcome, Alive, shutdownVars, finish, Kinds, OutcomeInv, PhaseInv, Phases, UseInv
  <2> QED
    BY <2>1, <2>2, <2>3, <2>4
<1>13. CASE signal
  <2>1. Kinds'
    BY <1>13 DEF signal, Alive, shutdownVars, Kinds, OutcomeInv, PhaseInv, Phases, UseInv
  <2>2. PhaseInv'
    BY <1>13 DEF signal, Alive, shutdownVars, Kinds, OutcomeInv, PhaseInv, Phases, UseInv
  <2>3. UseInv'
    BY <1>13 DEF signal, Alive, shutdownVars, Kinds, OutcomeInv, PhaseInv, Phases, UseInv
  <2>4. OutcomeInv'
    BY <1>13 DEF signal, Alive, shutdownVars, Kinds, OutcomeInv, PhaseInv, Phases, UseInv
  <2> QED
    BY <2>1, <2>2, <2>3, <2>4
<1>14. CASE serverClosed
  <2>1. Kinds'
    BY <1>14 DEF serverClosed, Alive, shutdownVars, Active, Kinds, OutcomeInv, PhaseInv, Phases, UseInv
  <2>2. PhaseInv'
    BY <1>14 DEF serverClosed, Alive, shutdownVars, Active, Kinds, OutcomeInv, PhaseInv, Phases, UseInv
  <2>3. UseInv'
    BY <1>14 DEF serverClosed, Alive, shutdownVars, Active, Kinds, OutcomeInv, PhaseInv, Phases, UseInv
  <2>4. OutcomeInv'
    BY <1>14 DEF serverClosed, Alive, shutdownVars, Active, Kinds, OutcomeInv, PhaseInv, Phases, UseInv
  <2> QED
    BY <2>1, <2>2, <2>3, <2>4
<1>15. CASE deadlineFires
  <2>1. Kinds'
    BY <1>15 DEF deadlineFires, Alive, shutdownVars, closeResources, Kinds, OutcomeInv, PhaseInv, Phases, UseInv
  <2>2. PhaseInv'
    BY <1>15 DEF deadlineFires, Alive, shutdownVars, closeResources, Kinds, OutcomeInv, PhaseInv, Phases, UseInv
  <2>3. UseInv'
    BY <1>15 DEF deadlineFires, Alive, shutdownVars, closeResources, Kinds, OutcomeInv, PhaseInv, Phases, UseInv
  <2>4. OutcomeInv'
    BY <1>15 DEF deadlineFires, Alive, shutdownVars, closeResources, Kinds, OutcomeInv, PhaseInv, Phases, UseInv
  <2> QED
    BY <2>1, <2>2, <2>3, <2>4
<1>16. CASE hardExit
  <2>1. Kinds'
    BY <1>16 DEF hardExit, Alive, shutdownVars, finish, Kinds, OutcomeInv, PhaseInv, Phases, UseInv
  <2>2. PhaseInv'
    BY <1>16 DEF hardExit, Alive, shutdownVars, finish, Kinds, OutcomeInv, PhaseInv, Phases, UseInv
  <2>3. UseInv'
    BY <1>16 DEF hardExit, Alive, shutdownVars, finish, Kinds, OutcomeInv, PhaseInv, Phases, UseInv
  <2>4. OutcomeInv'
    BY <1>16 DEF hardExit, Alive, shutdownVars, finish, Kinds, OutcomeInv, PhaseInv, Phases, UseInv
  <2> QED
    BY <2>1, <2>2, <2>3, <2>4
<1>17. CASE Rest
  <2>1. Kinds'
    BY <1>17 DEF Rest, Alive, shutdownVars, vars, Kinds, OutcomeInv, PhaseInv, Phases, UseInv
  <2>2. PhaseInv'
    BY <1>17 DEF Rest, Alive, shutdownVars, vars, Kinds, OutcomeInv, PhaseInv, Phases, UseInv
  <2>3. UseInv'
    BY <1>17 DEF Rest, Alive, shutdownVars, vars, Kinds, OutcomeInv, PhaseInv, Phases, UseInv
  <2>4. OutcomeInv'
    BY <1>17 DEF Rest, Alive, shutdownVars, vars, Kinds, OutcomeInv, PhaseInv, Phases, UseInv
  <2> QED
    BY <2>1, <2>2, <2>3, <2>4
<1>18. CASE UNCHANGED vars
  BY <1>18 DEF vars, Kinds, Phases, PhaseInv, UseInv, OutcomeInv
<1> QED
  BY <1>1, <1>2, <1>3, <1>4, <1>5, <1>6, <1>7, <1>8, <1>9, <1>10, <1>11, <1>12, <1>13, <1>14, <1>15, <1>16, <1>17, <1>18 DEF Next, System

\* The invariant holds always.
THEOREM ShutdownInvariant == Spec => []ShutdownInv
  BY InitInv, StepInv, PTL DEF Spec

\* Before the deadline no request and no awaited round of a worker loses the
\* database or Redis: closeResources follows the settled stops and server.close.
THEOREM ResourcesKept == Spec => [](RequestsKeepResources /\ RoundsKeepResources)
<1>1. ShutdownInv => RequestsKeepResources /\ RoundsKeepResources
  BY AwaitedAssumption DEF ShutdownInv, Kinds, Phases, PhaseInv, UseInv, RequestsKeepResources, RoundsKeepResources, Closing, Active
<1> QED
  BY <1>1, ShutdownInvariant, PTL

\* finish(0) is called only after a shutdown that is complete in every part.
THEOREM CleanExitHolds == Spec => []CleanExit
<1>1. ShutdownInv => CleanExit
  BY DEF ShutdownInv, Kinds, Phases, PhaseInv, UseInv, OutcomeInv, CleanExit
<1> QED
  BY <1>1, ShutdownInvariant, PTL

\* Together: performShutdown takes nothing from a request in flight, and its
\* success is never reported for a shutdown that left something behind.
THEOREM ShutdownSoundHolds == Spec => []ShutdownSound
<1>1. RequestsKeepResources /\ RoundsKeepResources /\ CleanExit => ShutdownSound
  BY DEF ShutdownSound
<1> QED
  BY <1>1, ResourcesKept, CleanExitHolds, PTL

\* An initialiser that ends its import after the shutdown began starts nothing,
\* and the deadline never closes again what performShutdown closed.
THEOREM NoLateWorkerHolds == Spec => [](NoLateWorker /\ ClosedOnce)
<1>1. ShutdownInv => NoLateWorker /\ ClosedOnce
  BY DEF ShutdownInv, Kinds, PhaseInv, NoLateWorker, ClosedOnce
<1> QED
  BY <1>1, ShutdownInvariant, PTL

-----------------------------------------------------------------------------
(* The idempotency middleware, for any requests and any retention.         *)

Idempotency == INSTANCE Idempotency WITH
  Requests <- KeyedRequests, Retention <- KeyRetention, MaxFaults <- MaxKeyFaults,
  at <- requestAt, faults <- requestFaults

\* A step that leaves the locks alone and no entry out.
LEMMA LocksKept ==
  ASSUME Idempotency!Assumed, Idempotency!LockInv, UNCHANGED <<window, lockedIn>>, requestAt' \in [KeyedRequests -> Idempotency!Positions],
         \/ UNCHANGED <<entry, ttl>>
         \/ \E k \in Idempotency!Keys : \E e : /\ e # Idempotency!NoEntry /\ entry' = [entry EXCEPT ![k] = e]
                                               /\ ttl' = [ttl EXCEPT ![k] = KeyRetention]
  PROVE  Idempotency!LockInv'
<1>1. CASE UNCHANGED <<entry, ttl>>
  BY <1>1 DEF Idempotency!LockInv, Idempotency!OneRunPerWindow, Idempotency!SameKey
<1>2. ASSUME NEW k \in Idempotency!Keys, NEW e, e # Idempotency!NoEntry, entry' = [entry EXCEPT ![k] = e],
             ttl' = [ttl EXCEPT ![k] = KeyRetention]
      PROVE  Idempotency!LockInv'
  <2>1. /\ DOMAIN entry' = Idempotency!Keys /\ ttl' \in [Idempotency!Keys -> 0..KeyRetention]
        /\ entry'[k] # Idempotency!NoEntry /\ ttl'[k] > 0
        /\ \A j \in Idempotency!Keys \ {k} : entry'[j] = entry[j] /\ ttl'[j] = ttl[j]
    BY <1>2 DEF Idempotency!LockInv, Idempotency!Assumed
  <2>2. \A r \in KeyedRequests : Idempotency!KeyOf(r) \in Idempotency!Keys
    BY DEF Idempotency!KeyOf, Idempotency!Keys
  <2>3. \A j \in Idempotency!Keys : (ttl'[j] > 0) <=> (entry'[j] # Idempotency!NoEntry)
    BY <2>1 DEF Idempotency!LockInv
  <2>4. \A r \in KeyedRequests : lockedIn[r] = window[Idempotency!KeyOf(r)] => entry'[Idempotency!KeyOf(r)] # Idempotency!NoEntry
    BY <2>1, <2>2 DEF Idempotency!LockInv
  <2> QED BY <2>1, <2>3, <2>4 DEF Idempotency!LockInv, Idempotency!OneRunPerWindow
<1> QED BY <1>1, <1>2

\* Every step keeps one lock per window.
LEMMA LockStep ==
  ASSUME Idempotency!Assumed, Idempotency!LockInv, [Idempotency!Next]_Idempotency!vars
  PROVE  Idempotency!LockInv'
<1>0. \A r \in KeyedRequests : Idempotency!KeyOf(r) \in Idempotency!Keys
  BY DEF Idempotency!KeyOf, Idempotency!Keys
<1>1. \A r \in KeyedRequests : \A code : Idempotency!Processing(r) # Idempotency!NoEntry /\ Idempotency!Completed(r, code) # Idempotency!NoEntry
  BY DEF Idempotency!Processing, Idempotency!Completed, Idempotency!NoEntry
<1>2. ASSUME NEW r \in KeyedRequests,
             Idempotency!arrive(r) \/ Idempotency!refuse(r) \/ Idempotency!get(r) \/ Idempotency!bypass(r) \/ Idempotency!persistFails(r) \/ Idempotency!crash(r)
             \/ \E code \in Idempotency!Codes : Idempotency!handler(r, code)
      PROVE  Idempotency!LockInv'
  <2>1. UNCHANGED <<window, lockedIn, entry, ttl>> /\ requestAt' \in [KeyedRequests -> Idempotency!Positions]
    BY <1>2 DEF Idempotency!arrive, Idempotency!refuse, Idempotency!get, Idempotency!bypass, Idempotency!persistFails, Idempotency!crash, Idempotency!handler, Idempotency!Answer, Idempotency!LockInv, Idempotency!Positions
  <2> QED BY <2>1, LocksKept
<1>3. ASSUME NEW r \in KeyedRequests, Idempotency!persist(r) PROVE Idempotency!LockInv'
  <2>1. requestAt' \in [KeyedRequests -> Idempotency!Positions] /\ UNCHANGED <<window, lockedIn>>
    BY <1>3 DEF Idempotency!persist, Idempotency!LockInv, Idempotency!Positions
  <2>2. /\ entry' = [entry EXCEPT ![Idempotency!KeyOf(r)] = Idempotency!Completed(r, reply[r].code)]
        /\ ttl' = [ttl EXCEPT ![Idempotency!KeyOf(r)] = KeyRetention]
    BY <1>3 DEF Idempotency!persist, Idempotency!KeyOf
  <2> QED BY <1>0, <1>1, <2>1, <2>2, LocksKept
<1>4. ASSUME NEW r \in KeyedRequests, Idempotency!redisThrows(r) PROVE Idempotency!LockInv'
  <2>1. requestAt' \in [KeyedRequests -> Idempotency!Positions] /\ UNCHANGED <<window, lockedIn>>
    BY <1>4 DEF Idempotency!redisThrows, Idempotency!Answer, Idempotency!LockInv, Idempotency!Positions
  <2>2. \/ UNCHANGED <<entry, ttl>>
        \/ /\ entry' = [entry EXCEPT ![Idempotency!KeyOf(r)] = Idempotency!Processing(r)]
           /\ ttl' = [ttl EXCEPT ![Idempotency!KeyOf(r)] = KeyRetention]
    BY <1>4 DEF Idempotency!redisThrows, Idempotency!Take, Idempotency!KeyOf
  <2> QED BY <1>0, <1>1, <2>1, <2>2, LocksKept
<1>5. ASSUME NEW r \in KeyedRequests, Idempotency!setProcessing(r) PROVE Idempotency!LockInv'
  <2>1. CASE entry[Idempotency!KeyOf(r)] # Idempotency!NoEntry
    <3>1. requestAt' \in [KeyedRequests -> Idempotency!Positions] /\ UNCHANGED <<window, lockedIn, entry, ttl>>
      BY <1>5, <2>1 DEF Idempotency!setProcessing, Idempotency!Answer, Idempotency!LockInv, Idempotency!Positions, Idempotency!KeyOf
    <3> QED BY <3>1, LocksKept
  <2>2. CASE entry[Idempotency!KeyOf(r)] = Idempotency!NoEntry
    <3>1. /\ entry' = [entry EXCEPT ![Idempotency!KeyOf(r)] = Idempotency!Processing(r)]
          /\ ttl' = [ttl EXCEPT ![Idempotency!KeyOf(r)] = KeyRetention]
          /\ lockedIn' = [lockedIn EXCEPT ![r] = window[Idempotency!KeyOf(r)]]
          /\ requestAt' \in [KeyedRequests -> Idempotency!Positions] /\ UNCHANGED window
      BY <1>5, <2>2 DEF Idempotency!setProcessing, Idempotency!Take, Idempotency!LockInv, Idempotency!Positions, Idempotency!KeyOf
    <3>0. DOMAIN entry = Idempotency!Keys /\ ttl \in [Idempotency!Keys -> 0..KeyRetention] /\ KeyRetention \in Nat \ {0}
      BY DEF Idempotency!LockInv, Idempotency!Assumed
    <3>2. /\ DOMAIN entry' = Idempotency!Keys /\ ttl' \in [Idempotency!Keys -> 0..KeyRetention]
          /\ entry'[Idempotency!KeyOf(r)] # Idempotency!NoEntry /\ ttl'[Idempotency!KeyOf(r)] > 0
          /\ \A j \in Idempotency!Keys \ {Idempotency!KeyOf(r)} : entry'[j] = entry[j] /\ ttl'[j] = ttl[j]
      BY <1>0, <1>1, <3>0, <3>1
    <3>3. /\ lockedIn' \in [KeyedRequests -> Nat \cup {-1}] /\ lockedIn'[r] = window[Idempotency!KeyOf(r)]
          /\ \A q \in KeyedRequests \ {r} : lockedIn'[q] = lockedIn[q]
      BY <1>0, <3>1 DEF Idempotency!LockInv
    <3>4. \A q \in KeyedRequests : Idempotency!KeyOf(q) = Idempotency!KeyOf(r) => lockedIn[q] < window[Idempotency!KeyOf(r)]
      BY <1>0, <2>2 DEF Idempotency!LockInv
    <3>5. \A q \in KeyedRequests : Idempotency!SameKey(q, r) \/ Idempotency!SameKey(r, q) => Idempotency!KeyOf(q) = Idempotency!KeyOf(r)
      BY DEF Idempotency!SameKey, Idempotency!KeyOf, Idempotency!buildIdempotencyStorageKey
    <3>6. Idempotency!OneRunPerWindow'
      BY <3>3, <3>4, <3>5 DEF Idempotency!OneRunPerWindow, Idempotency!LockInv, Idempotency!SameKey
    <3> QED BY <1>0, <3>1, <3>2, <3>3, <3>6 DEF Idempotency!LockInv
  <2> QED BY <2>1, <2>2
<1>6. CASE Idempotency!Tick
  <2>1. ttl' \in [Idempotency!Keys -> 0..KeyRetention] /\ window' \in [Idempotency!Keys -> Nat] /\ DOMAIN entry' = Idempotency!Keys
    BY <1>6 DEF Idempotency!Tick, Idempotency!LockInv, Idempotency!Assumed
  <2>2. ASSUME NEW k \in Idempotency!Keys
        PROVE  /\ (ttl'[k] > 0) <=> (entry'[k] # Idempotency!NoEntry)
               /\ window'[k] >= window[k]
               /\ window'[k] = window[k] => entry'[k] = entry[k]
    BY <1>6 DEF Idempotency!Tick, Idempotency!LockInv, Idempotency!Assumed
  <2>3. UNCHANGED <<requestAt, lockedIn>>
    BY <1>6 DEF Idempotency!Tick
  <2>4. \A r \in KeyedRequests : /\ lockedIn[r] <= window'[Idempotency!KeyOf(r)]
                                 /\ lockedIn[r] = window'[Idempotency!KeyOf(r)] => entry'[Idempotency!KeyOf(r)] # Idempotency!NoEntry
    BY <1>0, <2>1, <2>2 DEF Idempotency!LockInv
  <2> QED BY <2>1, <2>2, <2>3, <2>4 DEF Idempotency!LockInv, Idempotency!OneRunPerWindow
<1>7. CASE UNCHANGED Idempotency!vars
  BY <1>7, LocksKept DEF Idempotency!vars, Idempotency!LockInv
<1> QED BY <1>2, <1>3, <1>4, <1>5, <1>6, <1>7 DEF Idempotency!Next, Idempotency!Step, Idempotency!Rest

\* The lock of a window is taken once, however requests interleave and fail.
THEOREM LocksHold ==
  ASSUME Idempotency!Assumed
  PROVE  Idempotency!Spec => []Idempotency!LockInv
<1>1. Idempotency!Init => Idempotency!LockInv
  <2> SUFFICES ASSUME Idempotency!Init PROVE Idempotency!LockInv
    OBVIOUS
  <2>1. \A r \in KeyedRequests : Idempotency!KeyOf(r) \in Idempotency!Keys
    BY DEF Idempotency!KeyOf, Idempotency!Keys
  <2> QED BY <2>1 DEF Idempotency!Init, Idempotency!LockInv, Idempotency!Positions, Idempotency!OneRunPerWindow, Idempotency!Assumed
<1>2. Idempotency!LockInv /\ [Idempotency!Next]_Idempotency!vars => Idempotency!LockInv'
  BY LockStep
<1> QED BY <1>1, <1>2, PTL DEF Idempotency!Spec

\* However requests with one key interleave, fail and crash, the handler runs
\* for one of them until the entry has run out.
THEOREM OneRunHolds ==
  ASSUME Idempotency!Assumed
  PROVE  Idempotency!Spec => []Idempotency!OneRunPerWindow
<1>1. Idempotency!LockInv => Idempotency!OneRunPerWindow
  BY DEF Idempotency!LockInv
<1> QED BY <1>1, LocksHold, PTL


\* A step of one request: it moves on or is answered, by itself or from an
\* entry, and may take or complete its own entry.
LEMMA OwnAnswer ==
  ASSUME Idempotency!ReplayInv, NEW r \in KeyedRequests, NEW answer, NEW to \in Idempotency!Positions,
         requestAt' = [requestAt EXCEPT ![r] = to],
         \/ answer = reply[r]
         \/ reply[r] = Idempotency!NoReply /\ (answer.kind = "body" => \E q \in KeyedRequests :
              /\ Idempotency!KeyOf(q) = Idempotency!KeyOf(r) /\ Idempotency!generateRequestHash(q) = Idempotency!generateRequestHash(r)
              /\ answer.from = q.id /\ (q = r \/ reply[q] = answer)),
         reply' = [reply EXCEPT ![r] = answer],
         to \in {"new", "get", "set", "handler"} => answer = Idempotency!NoReply,
         to = "persist" => answer = Idempotency!Body(answer.code, r.id),
         \/ UNCHANGED entry
         \/ entry' = [entry EXCEPT ![Idempotency!KeyOf(r)] = Idempotency!Processing(r)]
         \/ /\ entry' = [entry EXCEPT ![Idempotency!KeyOf(r)] = Idempotency!Completed(r, answer.code)]
            /\ answer = Idempotency!Body(answer.code, r.id)
  PROVE  Idempotency!ReplayInv'
<1>0. Idempotency!KeyOf(r) \in Idempotency!Keys /\ Idempotency!NoReply.kind = "none" /\ \A c, i : Idempotency!Body(c, i).kind = "body"
  BY DEF Idempotency!KeyOf, Idempotency!Keys, Idempotency!NoReply, Idempotency!Body
<1>1. /\ requestAt' \in [KeyedRequests -> Idempotency!Positions] /\ reply' = [q \in KeyedRequests |-> reply'[q]] /\ DOMAIN entry' = Idempotency!Keys
      /\ requestAt'[r] = to /\ reply'[r] = answer
      /\ \A q \in KeyedRequests \ {r} : requestAt'[q] = requestAt[q] /\ reply'[q] = reply[q]
  BY DEF Idempotency!ReplayInv
<1>2. \A q \in KeyedRequests : reply[q].kind = "body" => reply'[q] = reply[q]
  BY <1>0, <1>1
<1>3. ASSUME NEW k \in Idempotency!Keys
      PROVE  \/ entry'[k] = Idempotency!NoEntry
             \/ \E q \in KeyedRequests : entry'[k] = Idempotency!Processing(q)
             \/ \E q \in KeyedRequests : /\ entry'[k] = Idempotency!Completed(q, reply'[q].code) /\ Idempotency!KeyOf(q) = k
                                         /\ reply'[q] = Idempotency!Body(reply'[q].code, q.id)
  <2>1. CASE entry'[k] = entry[k]
    <3>1. ASSUME NEW q \in KeyedRequests, entry[k] = Idempotency!Completed(q, reply[q].code), Idempotency!KeyOf(q) = k,
                 reply[q] = Idempotency!Body(reply[q].code, q.id)
          PROVE  /\ entry'[k] = Idempotency!Completed(q, reply'[q].code)
                 /\ reply'[q] = Idempotency!Body(reply'[q].code, q.id)
      <4>1. reply'[q] = reply[q]
        BY <1>0, <1>2, <3>1
      <4> QED BY <2>1, <3>1, <4>1
    <3>2. \/ entry[k] = Idempotency!NoEntry
          \/ \E q \in KeyedRequests : entry[k] = Idempotency!Processing(q)
          \/ \E q \in KeyedRequests : /\ entry[k] = Idempotency!Completed(q, reply[q].code) /\ Idempotency!KeyOf(q) = k
                                      /\ reply[q] = Idempotency!Body(reply[q].code, q.id)
      BY DEF Idempotency!ReplayInv
    <3> QED BY <2>1, <3>1, <3>2
  <2>2. CASE k = Idempotency!KeyOf(r) /\ entry' = [entry EXCEPT ![Idempotency!KeyOf(r)] = Idempotency!Processing(r)]
    BY <1>0, <2>2 DEF Idempotency!ReplayInv
  <2>3. CASE k = Idempotency!KeyOf(r) /\ entry' = [entry EXCEPT ![Idempotency!KeyOf(r)] = Idempotency!Completed(r, answer.code)]
             /\ answer = Idempotency!Body(answer.code, r.id)
    <3>1. entry'[k] = Idempotency!Completed(r, answer.code)
      BY <1>0, <2>3 DEF Idempotency!ReplayInv
    <3> QED BY <1>1, <2>3, <3>1
  <2>4. k # Idempotency!KeyOf(r) => entry'[k] = entry[k]
    BY DEF Idempotency!ReplayInv
  <2> QED BY <2>1, <2>2, <2>3, <2>4
<1>4. ASSUME NEW s \in KeyedRequests, reply'[s].kind = "body"
      PROVE  \E q \in KeyedRequests : Idempotency!Source(q, s, reply[s])'
  <2>1. CASE reply'[s] = reply[s]
    <3>1. PICK q \in KeyedRequests : Idempotency!Source(q, s, reply[s])
      BY <1>4, <2>1 DEF Idempotency!ReplayInv
    <3>2. reply'[q] = reply[q]
      BY <1>2, <1>4, <2>1, <3>1 DEF Idempotency!Source
    <3> QED BY <2>1, <3>1, <3>2 DEF Idempotency!Source, Idempotency!KeyOf
  <2>2. CASE reply'[s] # reply[s]
    <3>1. s = r /\ answer.kind = "body"
      BY <1>1, <1>4, <2>2
    <3>2. PICK q \in KeyedRequests : /\ Idempotency!KeyOf(q) = Idempotency!KeyOf(r) /\ Idempotency!generateRequestHash(q) = Idempotency!generateRequestHash(r)
                                     /\ answer.from = q.id /\ (q = r \/ reply[q] = answer)
      BY <1>1, <2>2, <3>1
    <3>3. reply'[q] = answer
      BY <1>1, <1>2, <3>1, <3>2
    <3> QED BY <1>1, <3>1, <3>2, <3>3 DEF Idempotency!Source, Idempotency!KeyOf
  <2> QED BY <2>1, <2>2
<1>5. ASSUME NEW s \in KeyedRequests
      PROVE  /\ requestAt'[s] \in {"new", "get", "set", "handler"} => reply'[s] = Idempotency!NoReply
             /\ requestAt'[s] = "persist" => reply'[s] = Idempotency!Body(reply'[s].code, s.id)
  <2>1. CASE s = r
    BY <1>1, <2>1
  <2>2. CASE s # r
    BY <1>1, <2>2 DEF Idempotency!ReplayInv
  <2> QED BY <2>1, <2>2
<1>6. \A q \in KeyedRequests : reply'[q] = Idempotency!Body(reply'[q].code, q.id) => reply'[q].kind = "body"
  BY DEF Idempotency!Body
<1> QED BY <1>1, <1>3, <1>4, <1>5, <1>6 DEF Idempotency!ReplayInv

\* Every step keeps the answers and entries in agreement.
LEMMA ReplayStep ==
  ASSUME Idempotency!ReplayInv, [Idempotency!Next]_Idempotency!vars
  PROVE  Idempotency!ReplayInv'
<1>0. \A r \in KeyedRequests : /\ Idempotency!KeyOf(r) \in Idempotency!Keys
                               /\ requestAt[r] \in {"new", "get", "set", "handler"} => reply[r] = Idempotency!NoReply
  BY DEF Idempotency!KeyOf, Idempotency!Keys, Idempotency!ReplayInv
<1> DEFINE Same(r) == reply' = [reply EXCEPT ![r] = reply[r]]
<1>1. \A r \in KeyedRequests : UNCHANGED reply => Same(r)
  BY DEF Idempotency!ReplayInv
<1>2. ASSUME NEW r \in KeyedRequests, Idempotency!arrive(r) PROVE Idempotency!ReplayInv'
  <2>1. requestAt[r] = "new" /\ requestAt' = [requestAt EXCEPT ![r] = "get"] /\ UNCHANGED <<entry, reply>>
    BY <1>2 DEF Idempotency!arrive
  <2> QED BY <1>0, <1>1, <2>1, OwnAnswer DEF Idempotency!Positions
<1>3. ASSUME NEW r \in KeyedRequests, Idempotency!refuse(r) PROVE Idempotency!ReplayInv'
  <2>1. /\ requestAt[r] = "new" /\ requestAt' = [requestAt EXCEPT ![r] = "done"] /\ UNCHANGED entry
        /\ reply' = [reply EXCEPT ![r] = Idempotency!Error("503")] /\ Idempotency!Error("503").kind # "body"
    BY <1>3 DEF Idempotency!refuse, Idempotency!Answer, Idempotency!Error
  <2> QED BY <1>0, <2>1, OwnAnswer DEF Idempotency!Positions
<1>4. ASSUME NEW r \in KeyedRequests, Idempotency!get(r) PROVE Idempotency!ReplayInv'
  <2> DEFINE e == entry[Idempotency!KeyOf(r)]
  <2>0. requestAt[r] = "get" /\ UNCHANGED entry /\ reply[r] = Idempotency!NoReply
    BY <1>0, <1>4 DEF Idempotency!get
  <2>1. CASE e = Idempotency!NoEntry
    <3>1. requestAt' = [requestAt EXCEPT ![r] = "set"] /\ UNCHANGED reply
      BY <1>4, <2>1 DEF Idempotency!get, Idempotency!KeyOf
    <3> QED BY <1>1, <2>0, <3>1, OwnAnswer DEF Idempotency!Positions
  <2>2. CASE e # Idempotency!NoEntry
    <3>1. requestAt' = [requestAt EXCEPT ![r] = "done"] /\ reply' = [reply EXCEPT ![r] = Idempotency!Verdict(r, e)]
      BY <1>4, <2>2 DEF Idempotency!get, Idempotency!Answer, Idempotency!KeyOf
    <3>2. CASE \E q \in KeyedRequests : e = Idempotency!Processing(q)
      <4>1. Idempotency!Verdict(r, e).kind # "body"
        BY <3>2 DEF Idempotency!Verdict, Idempotency!Processing, Idempotency!Error
      <4> QED BY <2>0, <3>1, <4>1, OwnAnswer DEF Idempotency!Positions
    <3>3. ASSUME NEW q \in KeyedRequests, e = Idempotency!Completed(q, reply[q].code), Idempotency!KeyOf(q) = Idempotency!KeyOf(r),
                 reply[q] = Idempotency!Body(reply[q].code, q.id)
          PROVE  Idempotency!ReplayInv'
      <4>1. CASE Idempotency!generateRequestHash(q) # Idempotency!generateRequestHash(r)
        <5>1. Idempotency!Verdict(r, e).kind # "body"
          BY <3>3, <4>1 DEF Idempotency!Verdict, Idempotency!Completed, Idempotency!Error
        <5> QED BY <2>0, <3>1, <5>1, OwnAnswer DEF Idempotency!Positions
      <4>2. CASE Idempotency!generateRequestHash(q) = Idempotency!generateRequestHash(r)
        <5>1. Idempotency!Verdict(r, e) = reply[q]
          BY <3>3, <4>2 DEF Idempotency!Verdict, Idempotency!Completed
        <5>2. reply[q].from = q.id
          BY <3>3 DEF Idempotency!Body
        <5> QED BY <2>0, <3>1, <3>3, <4>2, <5>1, <5>2, OwnAnswer DEF Idempotency!Positions
      <4> QED BY <4>1, <4>2
    <3> QED BY <1>0, <2>2, <3>2, <3>3 DEF Idempotency!ReplayInv
  <2> QED BY <2>1, <2>2
<1>5. ASSUME NEW r \in KeyedRequests, Idempotency!setProcessing(r) PROVE Idempotency!ReplayInv'
  <2>1. requestAt[r] = "set"
    BY <1>5 DEF Idempotency!setProcessing
  <2>2. CASE entry[Idempotency!KeyOf(r)] = Idempotency!NoEntry
    <3>1. /\ requestAt' = [requestAt EXCEPT ![r] = "handler"] /\ UNCHANGED reply
          /\ entry' = [entry EXCEPT ![Idempotency!KeyOf(r)] = Idempotency!Processing(r)]
      BY <1>5, <2>2 DEF Idempotency!setProcessing, Idempotency!Take, Idempotency!KeyOf
    <3> QED BY <1>0, <1>1, <2>1, <3>1, OwnAnswer DEF Idempotency!Positions
  <2>3. CASE entry[Idempotency!KeyOf(r)] # Idempotency!NoEntry
    <3>1. /\ requestAt' = [requestAt EXCEPT ![r] = "done"] /\ UNCHANGED entry
          /\ reply' = [reply EXCEPT ![r] = Idempotency!Error("409")] /\ Idempotency!Error("409").kind # "body"
      BY <1>5, <2>3 DEF Idempotency!setProcessing, Idempotency!Answer, Idempotency!Error, Idempotency!KeyOf
    <3> QED BY <1>0, <2>1, <3>1, OwnAnswer DEF Idempotency!Positions
  <2> QED BY <2>2, <2>3
<1>6. ASSUME NEW r \in KeyedRequests, Idempotency!redisThrows(r) PROVE Idempotency!ReplayInv'
  <2>1. /\ requestAt[r] \in {"get", "set"} /\ requestAt' = [requestAt EXCEPT ![r] = "done"]
        /\ reply' = [reply EXCEPT ![r] = Idempotency!Error("500")] /\ Idempotency!Error("500").kind # "body"
        /\ UNCHANGED entry \/ entry' = [entry EXCEPT ![Idempotency!KeyOf(r)] = Idempotency!Processing(r)]
    BY <1>6 DEF Idempotency!redisThrows, Idempotency!Answer, Idempotency!Error, Idempotency!Take, Idempotency!KeyOf
  <2> QED BY <1>0, <2>1, OwnAnswer DEF Idempotency!Positions
<1>7. ASSUME NEW r \in KeyedRequests, NEW code \in Idempotency!Codes, Idempotency!handler(r, code) PROVE Idempotency!ReplayInv'
  <2>1. /\ requestAt[r] = "handler" /\ requestAt' = [requestAt EXCEPT ![r] = "persist"] /\ UNCHANGED entry
        /\ reply' = [reply EXCEPT ![r] = Idempotency!Body(code, r.id)]
        /\ Idempotency!Body(code, r.id).from = r.id /\ Idempotency!Body(code, r.id).code = code
    BY <1>7 DEF Idempotency!handler, Idempotency!Body
  <2> QED BY <1>0, <2>1, OwnAnswer DEF Idempotency!Positions
<1>8. ASSUME NEW r \in KeyedRequests, Idempotency!bypass(r) PROVE Idempotency!ReplayInv'
  <2>1. /\ requestAt[r] = "handler" /\ requestAt' = [requestAt EXCEPT ![r] = "done"] /\ UNCHANGED entry
        /\ reply' = [reply EXCEPT ![r] = Idempotency!Error("raw")] /\ Idempotency!Error("raw").kind # "body"
    BY <1>8 DEF Idempotency!bypass, Idempotency!Answer, Idempotency!Error
  <2> QED BY <1>0, <2>1, OwnAnswer DEF Idempotency!Positions
<1>9. ASSUME NEW r \in KeyedRequests, Idempotency!persist(r) PROVE Idempotency!ReplayInv'
  <2>1. /\ requestAt[r] = "persist" /\ requestAt' = [requestAt EXCEPT ![r] = "done"] /\ UNCHANGED reply
        /\ entry' = [entry EXCEPT ![Idempotency!KeyOf(r)] = Idempotency!Completed(r, reply[r].code)]
    BY <1>9 DEF Idempotency!persist, Idempotency!KeyOf
  <2>2. reply[r] = Idempotency!Body(reply[r].code, r.id)
    BY <2>1 DEF Idempotency!ReplayInv
  <2> QED BY <1>1, <2>1, <2>2, OwnAnswer DEF Idempotency!Positions
<1>10. ASSUME NEW r \in KeyedRequests, Idempotency!persistFails(r) \/ Idempotency!crash(r) PROVE Idempotency!ReplayInv'
  <2>1. /\ UNCHANGED <<entry, reply>>
        /\ requestAt' = [requestAt EXCEPT ![r] = "done"] \/ requestAt' = [requestAt EXCEPT ![r] = "dead"]
    BY <1>10 DEF Idempotency!persistFails, Idempotency!crash
  <2> QED BY <1>1, <2>1, OwnAnswer DEF Idempotency!Positions
<1>11. CASE Idempotency!Tick
  <2>1. UNCHANGED <<requestAt, reply>> /\ DOMAIN entry' = Idempotency!Keys
        /\ \A k \in Idempotency!Keys : entry'[k] \in {Idempotency!NoEntry, entry[k]}
    BY <1>11 DEF Idempotency!Tick
  <2> QED BY <2>1 DEF Idempotency!ReplayInv, Idempotency!Source
<1>12. CASE UNCHANGED Idempotency!vars
  BY <1>12 DEF Idempotency!vars, Idempotency!ReplayInv, Idempotency!Source
<1> QED BY <1>2, <1>3, <1>4, <1>5, <1>6, <1>7, <1>8, <1>9, <1>10, <1>11, <1>12 DEF Idempotency!Next, Idempotency!Step, Idempotency!Rest

\* A replayed body was produced for the same caller, route, key and payload, and
\* is what that request's own client was answered, in every environment.
THEOREM ReplayHolds ==
  ASSUME Idempotency!Assumed
  PROVE  Idempotency!Spec => []Idempotency!ReplayIsFaithful
<1>1. Idempotency!Init => Idempotency!ReplayInv
  BY DEF Idempotency!Init, Idempotency!ReplayInv, Idempotency!Positions, Idempotency!NoReply
<1>2. Idempotency!ReplayInv /\ [Idempotency!Next]_Idempotency!vars => Idempotency!ReplayInv'
  BY ReplayStep
<1>3. Idempotency!ReplayInv => Idempotency!ReplayIsFaithful
  <2> SUFFICES ASSUME Idempotency!ReplayInv, NEW q \in KeyedRequests, NEW r \in KeyedRequests,
                      reply[r].kind = "body", reply[r].from = q.id, q # r
               PROVE  Idempotency!SameKey(q, r) /\ q.url = r.url /\ q.body = r.body /\ reply[q] = reply[r]
    BY DEF Idempotency!ReplayIsFaithful
  <2>1. PICK p \in KeyedRequests : Idempotency!Source(p, r, reply[r])
    BY DEF Idempotency!ReplayInv
  <2>2. p = q
    BY <2>1 DEF Idempotency!Source, Idempotency!Assumed
  <2> QED BY <2>1, <2>2 DEF Idempotency!Source, Idempotency!SameKey, Idempotency!KeyOf, Idempotency!buildIdempotencyStorageKey, Idempotency!generateRequestHash
<1> QED BY <1>1, <1>2, <1>3, PTL DEF Idempotency!Spec

-----------------------------------------------------------------------------
(* Together.                                                               *)

Kek == INSTANCE KekRotation

\* An acknowledged event has reached the consumer although workers crash between
\* publish and markAcked; an event reaches the consumer twice only after a lease
\* has lapsed or a call has failed.  Of all requests with one key one runs until
\* the entry has run out, and a replayed body was produced for the same caller,
\* route, key and payload.
DeliveriesSound ==
  /\ Outbox!RelayInv /\ Outbox!AckedWasDelivered /\ Outbox!DuplicatesNeedALapse
  /\ Idempotency!LockInv /\ Idempotency!ReplayIsFaithful

\* A completed rotation leaves no row under the KEK it was to replace, and every
\* row up to the stored checkpoint has been re-wrapped, although the process
\* crashes and the key service fails, while operators do no more than pause a loop
\* at work.  It is lost, against the runner's line 12, once the key service fails
\* behind a row of the batch that was re-wrapped, the process dies between the
\* checkpoint and the commit, or a rollback is cut short.
RotationSound == Kek!KekInv /\ Kek!CompletedIsRotated /\ Kek!CheckpointIsCovered

\* What the outbox and the idempotency middleware promise to those who rely on
\* them: no event is lost, duplicates are paid for by a lapsed lease or a fault,
\* and a retry neither runs the handler again nor is answered with another
\* request's response.
THEOREM DeliveriesHold ==
  ASSUME RelayAssumed, Idempotency!Assumed
  PROVE  Outbox!Spec /\ Idempotency!Spec => []DeliveriesSound
<1>1. Idempotency!LockInv /\ Outbox!RelayInv /\ Outbox!AckedWasDelivered /\ Outbox!DuplicatesNeedALapse
        /\ Idempotency!ReplayIsFaithful => DeliveriesSound
  BY DEF DeliveriesSound
<1> QED BY <1>1, RelayHolds, AckedWasDeliveredHolds, DuplicatesHold, LocksHold, ReplayHolds, PTL

\* What an operator who pauses and resumes a rotation, and an auditor who reads
\* its checkpoint, may rely on: in any sequence of calls, crashes and failures up
\* to the first that sets calm to FALSE.
THEOREM RotationSoundHolds == ASSUME Kek!Assumed PROVE Kek!Spec => []RotationSound
<1>1. Kek!KekInv /\ Kek!CompletedIsRotated /\ Kek!CheckpointIsCovered => RotationSound
  BY DEF RotationSound
<1> QED BY <1>1, Kek!KekHolds, Kek!RotationHolds, PTL
=============================================================================
