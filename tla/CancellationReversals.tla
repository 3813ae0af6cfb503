----------------------- MODULE CancellationReversals -----------------------
(***************************************************************************)
(* The prorated-cancellation reversal ledger: appendEntry of several       *)
(* requests, one step for every await.  An entry is linked to the latest   *)
(* entry of its payment, and the amounts of a booking must add up to its   *)
(* refund, which the cancellation policy may adjust.                       *)
(***************************************************************************)
EXTENDS Integers, Sequences, FiniteSets, SequencesExt

CONSTANTS
  Requests,         \* records: id, payment, booking, amount, currency, key, tenant, escrow
  SessionCurrency,  \* the currency of every payment's checkout session
  NetRefunds,       \* the refunds the policy may set
  MaxClock,
  Pg,               \* PostgreSQL, or else the repository in memory
  Traced            \* the payments whose trace is asked for

VARIABLES
  entries,    \* the table, in order of insertion
  netRefund,  \* of each booking
  pc,         \* of each request
  prev,       \* the chain tip a request has read
  hashedAt,   \* when it computed its hash
  sum,        \* the sum of the booking's entries that it has read
  released,   \* how often it called releaseEscrow
  trace,      \* the trace being read: [at, payment, rows, left, valid]
  paused,     \* paused tenants
  clock,
  serial      \* requests, traces and adjustments came one at a time so far (a history variable)

vars == <<entries, netRefund, pc, prev, hashedAt, sum, released, trace, paused, clock, serial>>

Bookings == {q.booking : q \in Requests}
Payments == {q.payment : q \in Requests}
Tenants == {q.tenant : q \in Requests}

NoTrace == [at |-> "idle", payment |-> "none", rows |-> << >>, left |-> {}, valid |-> TRUE]

Init ==
  /\ entries = << >>
  /\ netRefund \in [Bookings -> NetRefunds]
  /\ pc = [q \in Requests |-> "new"]
  /\ prev = [q \in Requests |-> 0]
  /\ hashedAt = [q \in Requests |-> 0]
  /\ sum = [q \in Requests |-> 0]
  /\ released = [q \in Requests |-> 0]
  /\ trace = NoTrace
  /\ paused = {}
  /\ clock = 0 /\ serial = TRUE

Ended == {"done", "refused", "failed"}
InFlight == {q \in Requests : pc[q] \notin Ended \cup {"new"}}
Alone == serial' = (serial /\ InFlight = {} /\ trace.at # "reading")
Go(q, where) == pc' = [pc EXCEPT ![q] = where]

OfPayment(p) == SelectSeq(entries, LAMBDA e : e.payment = p)
SumOf(b) == FoldSeq(LAMBDA e, n : IF e.booking = b THEN n + e.amount ELSE n, 0, entries)
KeyUsed(k) == \E i \in DOMAIN entries : entries[i].key = k

-----------------------------------------------------------------------------
\* Tenant, currency and amount.
Admits(q) ==
  /\ q.tenant \notin paused
  /\ q.currency = SessionCurrency[q.payment]
  /\ q.amount # 0

appendEntry(q) ==
  /\ pc[q] = "new" /\ Alone
  /\ Go(q, IF Admits(q) THEN "key" ELSE "refused")
  /\ UNCHANGED <<entries, netRefund, prev, hashedAt, sum, released, trace, paused, clock>>

findByIdempotencyKey(q) ==
  /\ pc[q] = "key"
  /\ Go(q, IF KeyUsed(q.key) THEN "done" ELSE "tip")
  /\ UNCHANGED <<entries, netRefund, prev, hashedAt, sum, released, trace, paused, clock, serial>>

\* Position of the latest entry of the payment, 0 before the first.
Tip(q) == SelectLastInSeq(entries, LAMBDA e : e.payment = q.payment)

findByPaymentId(q) ==
  /\ pc[q] = "tip"
  /\ prev' = [prev EXCEPT ![q] = Tip(q)]
  /\ Go(q, IF q.escrow = 1 THEN "release" ELSE "hash")
  /\ UNCHANGED <<entries, netRefund, hashedAt, sum, released, trace, paused, clock, serial>>

releaseEscrow(q) ==
  /\ pc[q] = "release"
  /\ released' = [released EXCEPT ![q] = @ + 1]
  /\ Go(q, "hash")
  /\ UNCHANGED <<entries, netRefund, prev, hashedAt, sum, trace, paused, clock, serial>>

\* The hash takes the time of the service; then the booking's entries are read.
findByBookingIntentId(q) ==
  /\ pc[q] = "hash"
  /\ hashedAt' = [hashedAt EXCEPT ![q] = clock]
  /\ sum' = [sum EXCEPT ![q] = SumOf(q.booking)]
  /\ Go(q, "net")
  /\ UNCHANGED <<entries, netRefund, prev, released, trace, paused, clock, serial>>

Balances(q) == sum[q] + q.amount = -netRefund[q.booking]

assertPreWriteInvariant(q) ==
  /\ pc[q] = "net"
  /\ Go(q, IF Balances(q) THEN "insert" ELSE "refused")
  /\ UNCHANGED <<entries, netRefund, prev, hashedAt, sum, released, trace, paused, clock, serial>>

\* Mutant: the key is not unique.
NoConflict(q) == FALSE

KeyConflict(q) == KeyUsed(q.key)

\* The index on rows without a predecessor admits one for the whole table.
GenesisConflict(q) == Pg /\ prev[q] = 0 /\ \E i \in DOMAIN entries : entries[i].prev = 0

insert(q) ==
  /\ pc[q] = "insert" /\ ~KeyConflict(q) /\ ~GenesisConflict(q)
  /\ entries' = Append(entries, [request |-> q.id, payment |-> q.payment, booking |-> q.booking, amount |-> q.amount,
                                 key |-> q.key, prev |-> prev[q], hashedAt |-> hashedAt[q],
                                 createdAt |-> IF Pg THEN clock ELSE hashedAt[q]])
  /\ Go(q, "done")
  /\ UNCHANGED <<netRefund, prev, hashedAt, sum, released, trace, paused, clock, serial>>

\* A request with the same key was first: its entry is the answer.
insertConflict(q) ==
  /\ pc[q] = "insert" /\ KeyConflict(q)
  /\ Go(q, "done")
  /\ UNCHANGED <<entries, netRefund, prev, hashedAt, sum, released, trace, paused, clock, serial>>

insertFails(q) ==
  /\ pc[q] = "insert" /\ ~KeyConflict(q) /\ GenesisConflict(q)
  /\ Go(q, "failed")
  /\ UNCHANGED <<entries, netRefund, prev, hashedAt, sum, released, trace, paused, clock, serial>>

-----------------------------------------------------------------------------
(* The payment trace, with an await before every booking it checks.        *)

\* Every row of a payment links to the one before it.
Linked(p) ==
  LET chain == OfPayment(p) IN
  \A i \in DOMAIN chain :
    IF i = 1 THEN chain[i].prev = 0 ELSE chain[i].prev > 0 /\ entries[chain[i].prev] = chain[i - 1]

\* Every hash is that of the row as it is stored.
Rehashes(p) == \A e \in ToSet(OfPayment(p)) : e.hashedAt = e.createdAt

verifyChain(p) == Rehashes(p) /\ Linked(p)

checkInvariantForBooking(b) == SumOf(b) = -netRefund[b]

\* getPaymentTrace: the reversals of the payment, and the bookings they touch.
getTrace(p) ==
  /\ trace.at = "idle" /\ Alone
  /\ trace' = [at |-> "reading", payment |-> p, rows |-> OfPayment(p),
               left |-> {e.booking : e \in ToSet(OfPayment(p))}, valid |-> TRUE]
  /\ UNCHANGED <<entries, netRefund, pc, prev, hashedAt, sum, released, paused, clock>>

buildPaymentReversalTrace ==
  /\ trace.at = "reading" /\ trace.left # {}
  /\ \E b \in trace.left :
       trace' = [trace EXCEPT !.left = @ \ {b}, !.valid = @ /\ checkInvariantForBooking(b)]
  /\ UNCHANGED <<entries, netRefund, pc, prev, hashedAt, sum, released, paused, clock, serial>>

verifyChainForPayment ==
  /\ trace.at = "reading" /\ trace.left = {}
  /\ trace' = [trace EXCEPT !.at = "shown", !.valid = @ /\ verifyChain(trace.payment)]
  /\ UNCHANGED <<entries, netRefund, pc, prev, hashedAt, sum, released, paused, clock, serial>>

leave ==
  /\ trace.at = "shown" /\ trace' = NoTrace
  /\ UNCHANGED <<entries, netRefund, pc, prev, hashedAt, sum, released, paused, clock, serial>>

-----------------------------------------------------------------------------
(* The environment. *)

adjustRefund(b) ==
  /\ Alone
  /\ \E n \in NetRefunds : netRefund' = [netRefund EXCEPT ![b] = n]
  /\ UNCHANGED <<entries, pc, prev, hashedAt, sum, released, trace, paused, clock>>

setTenantPaused(t) ==
  /\ paused' = IF t \in paused THEN paused \ {t} ELSE paused \cup {t}
  /\ UNCHANGED <<entries, netRefund, pc, prev, hashedAt, sum, released, trace, clock, serial>>

Tick ==
  /\ clock < MaxClock /\ clock' = clock + 1
  /\ UNCHANGED <<entries, netRefund, pc, prev, hashedAt, sum, released, trace, paused, serial>>

Next ==
  \/ \E q \in Requests :
       \/ appendEntry(q) \/ findByIdempotencyKey(q) \/ findByPaymentId(q) \/ releaseEscrow(q)
       \/ findByBookingIntentId(q) \/ assertPreWriteInvariant(q)
       \/ insert(q) \/ insertConflict(q) \/ insertFails(q)
  \/ (\E p \in Traced : getTrace(p)) \/ buildPaymentReversalTrace \/ verifyChainForPayment \/ leave
  \/ \E b \in Bookings : adjustRefund(b)
  \/ \E t \in Tenants : setTenantPaused(t)
  \/ Tick

Spec == Init /\ [][Next]_vars

-----------------------------------------------------------------------------
\* Every variable is of its kind; an entry links to an earlier one of its payment.
TypeOK ==
  /\ pc \in [Requests -> Ended \cup {"new", "key", "tip", "release", "hash", "net", "insert"}]
  /\ \A i \in DOMAIN entries :
       entries[i].prev # 0 => entries[i].prev < i /\ entries[entries[i].prev].payment = entries[i].payment
  /\ netRefund \in [Bookings -> NetRefunds]

\* While requests come one at a time, every entry of a payment links to the one
\* before it; overlapping requests may link two entries to one (the tip is read
\* and the entry inserted without a lock).  In memory the chain verifies as well.
\* In PostgreSQL it does not: the insert leaves out created_at, which is part of
\* the hash, so that a row verifies only where the database's time happens to be
\* the service's, against "Hash chain is intact" (service:318-320).
ChainIntact == serial => \A p \in Payments : Linked(p) /\ (Pg \/ verifyChain(p))

\* An insert leaves the booking's entries with the sum -netRefund, while requests
\* and adjustments of the refund come one at a time.
SumStep ==
  serial' => \A b \in Bookings : SumOf(b)' # SumOf(b) => SumOf(b)' = -netRefund[b]

\* A key has one entry, however its requests interleave, and a request that is
\* answered finds the entry of its key.
OneEntryPerKey ==
  /\ \A i, j \in DOMAIN entries : i # j => entries[i].key # entries[j].key
  /\ \A q \in Requests : pc[q] = "done" => KeyUsed(q.key)

\* When requests come one after the other, a repeated request never releases
\* the escrow once its key has an entry.
ReleaseStep == serial' => \A q \in Requests : released'[q] # released[q] => ~KeyUsed(q.key)

\* When requests come one after the other and a booking has one payment, a
\* trace that certifies itself shows a ledger that is right: at the moment it
\* is answered the rows it shows are those of the payment, they add up to minus
\* the refunds of their bookings, and no key occurs twice in them.
CertifiedStep ==
  (serial' /\ trace.at = "reading" /\ trace'.at = "shown" /\ trace'.valid) =>
    /\ trace'.rows = OfPayment(trace.payment)
    /\ FoldSeq(LAMBDA e, n : n + e.amount, 0, trace'.rows)
         = -FoldSet(LAMBDA b, n : n + netRefund[b], 0, {e.booking : e \in ToSet(trace'.rows)})
    /\ \A i, j \in DOMAIN trace'.rows : i # j => trace'.rows[i].key # trace'.rows[j].key
=============================================================================
