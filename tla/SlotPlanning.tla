---------------------------- MODULE SlotPlanning ----------------------------
(***************************************************************************)
(* Operations of the scheduling service on several slots at once: bundles, *)
(* the supplier's cancellation with its refund ledger, and the rescheduling*)
(* of a booking with several legs.                                         *)
(*                                                                         *)
(* Each operation is synchronous and so one step, with its loop, its       *)
(* failure half way and its rollback inside.  What a caller knows may be   *)
(* old: an option is confirmed any time after it was planned, and an       *)
(* operation may be asked for again (MayRepeat).                           *)
(***************************************************************************)
EXTENDS Integers, Sequences, FiniteSets, SequencesExt

CONSTANTS
  NSlots, StartOf, EndOf, Professional, \* the slots 1..NSlots in the repository's order
  ValidUntil,                       \* deadline for reservations, 0 for none
  Bundles,                          \* ids of bundles
  Legs, LegSlot,                    \* the legs 1..n of a booking and their first slots
  Overrides,                        \* per-leg overrides a request may carry
  Anchors,                          \* the candidate anchors, in the order tried
  maxOptions,
  Pricings,                         \* pricing snapshots of the cancelled intents
  MaxTime, MaxRefunds,              \* bounds
  MayPause, MayRepeat,              \* what may happen
  AsyncIntents                      \* findById of the intents returns a promise

VARIABLES
  bookable, now,
  paused,           \* of the escrow migration
  reservedBundles,  \* slots of each bundle that is reserved, {} for none
  slotIds,          \* slots of the intent that booked the bundle
  taken,            \* slots other buyers have reserved
  legs,             \* the buyer's record of the booking: slot and start of each leg
  offers,           \* options of the last plan
  refundLedger

vars == <<bookable, now, paused, reservedBundles, slotIds, taken, legs, offers, refundLedger>>

Slots == 1..NSlots
NoSlot == 0
Unset == -1

Init ==
  /\ bookable = Slots \ {LegSlot[l] : l \in Legs}
  /\ now = 0 /\ paused = FALSE
  /\ reservedBundles = [b \in Bundles |-> {}]
  /\ slotIds = [b \in Bundles |-> {}]
  /\ taken = {}
  /\ legs = [l \in Legs |-> [slot |-> LegSlot[l], start |-> StartOf[LegSlot[l]]]]
  /\ offers = << >> /\ refundLedger = << >>

-----------------------------------------------------------------------------
\* reserveSlot throws unless the slot is free in `free`, open and unpaused.
Open(s) == ~paused /\ (ValidUntil[s] = 0 \/ now < ValidUntil[s])

\* The slots a loop over `wanted` has reserved when it ends or throws.
ReservedOf(wanted, free) ==
  LET reservable(n) ==
        /\ wanted[n] \in free /\ Open(wanted[n])
        /\ \A m \in 1..(n - 1) : wanted[m] # wanted[n]
      done == {n \in DOMAIN wanted : \A m \in 1..n : reservable(m)}
  IN {wanted[n] : n \in done}

AllReserved(wanted, free) ==
  ReservedOf(wanted, free) = ToSet(wanted) /\ IsInjective(wanted)

\* reserveSlot and releaseSlot as other buyers call them.
reserveSlot(s) ==
  /\ s \in bookable /\ Open(s)
  /\ bookable' = bookable \ {s} /\ taken' = taken \cup {s}
  /\ UNCHANGED <<now, paused, reservedBundles, slotIds, legs, offers, refundLedger>>

releaseSlot(s) ==
  /\ s \in taken
  /\ bookable' = bookable \cup {s} /\ taken' = taken \ {s}
  /\ UNCHANGED <<now, paused, reservedBundles, slotIds, legs, offers, refundLedger>>

\* The catch block of reserveBundle: what was reserved is released.
afterBundleFailure(wanted) ==
  (bookable \ ReservedOf(wanted, bookable)) \cup ReservedOf(wanted, bookable)

reserveBundle(b, wanted) ==
  LET ok == AllReserved(wanted, bookable) IN
  /\ reservedBundles[b] = {}
  /\ bookable' = IF ok THEN bookable \ ToSet(wanted) ELSE afterBundleFailure(wanted)
  /\ reservedBundles' = IF ok THEN [reservedBundles EXCEPT ![b] = ToSet(wanted)] ELSE reservedBundles
  /\ slotIds' = IF ok THEN [slotIds EXCEPT ![b] = ToSet(wanted)] ELSE slotIds
  /\ UNCHANGED <<now, paused, taken, legs, offers, refundLedger>>

releaseBundle(b) ==
  /\ reservedBundles[b] # {}
  /\ bookable' = bookable \cup reservedBundles[b]
  /\ reservedBundles' = [reservedBundles EXCEPT ![b] = {}]
  /\ UNCHANGED <<now, paused, slotIds, taken, legs, offers, refundLedger>>

-----------------------------------------------------------------------------
\* Math.round of a percentage of cents.
PercentOf(amount, rate) == (amount * rate + 50) \div 100

GenesisHash == << >>

\* deriveRefundLedgerHash: equal inputs, equal hashes, and no others.
deriveRefundLedgerHash(id, prev, gross, fee, tax, net, at) == <<id, prev, gross, fee, tax, net, at>>

tailHash ==
  IF refundLedger = << >> THEN GenesisHash ELSE refundLedger[Len(refundLedger)].ledgerHash

RefundEntry(b, p, settling) ==
  LET fee == IF p.fee = Unset THEN PercentOf(p.gross, 5) ELSE p.fee
      tax == IF p.tax = Unset THEN PercentOf(p.gross, 8) ELSE p.tax
      id == Len(refundLedger) + 1
  IN [bookingIntentId |-> b, refundRequestId |-> id, gross |-> p.gross, feeReversed |-> fee,
      taxReversed |-> tax, net |-> p.gross + tax, createdAt |-> now,
      status |-> IF settling THEN "chain_settling" ELSE "ledger_written",
      prevLedgerHash |-> tailHash,
      ledgerHash |-> deriveRefundLedgerHash(id, tailHash, p.gross, fee, tax, p.gross + tax, now)]

\* The supplier cancels the intent of bundle b before its first slot starts.
\* Nothing in the handler asks whether the intent was cancelled before.
handleSupplierCancelBeforeSlotStart(b, p, settling) ==
  /\ ~AsyncIntents /\ slotIds[b] # {} /\ \A s \in slotIds[b] : now < StartOf[s]
  /\ MayRepeat \/ reservedBundles[b] # {}
  /\ Len(refundLedger) < MaxRefunds
  /\ bookable' = bookable \cup slotIds[b] \cup reservedBundles[b]
  /\ reservedBundles' = [reservedBundles EXCEPT ![b] = {}]
  /\ refundLedger' = Append(refundLedger, RefundEntry(b, p, settling))
  /\ UNCHANGED <<now, paused, slotIds, taken, legs, offers>>

\* The same where the repository is asynchronous (PostgreSQL): findById is not
\* awaited, so every field of the intent is undefined.  No start time refuses, no
\* slot is released and nothing is refunded, but the ledger gets its entry.
cancelUnawaited(b, settling) ==
  /\ AsyncIntents /\ Len(refundLedger) < MaxRefunds
  /\ refundLedger' = Append(refundLedger, RefundEntry(b, [gross |-> 0, fee |-> Unset, tax |-> Unset], settling))
  /\ UNCHANGED <<bookable, now, paused, reservedBundles, slotIds, taken, legs, offers>>

mark(n, status) ==
  /\ n \in DOMAIN refundLedger
  /\ refundLedger' = [refundLedger EXCEPT ![n].status = status]
  /\ UNCHANGED <<bookable, now, paused, reservedBundles, slotIds, taken, legs, offers>>

markRefundSettled(n) == mark(n, "completed")
markRefundFailed(n) == mark(n, "failed")

\* The chain check an auditor runs over the ledger.
verifyRefundLedgerChain ==
  \A i \in DOMAIN refundLedger :
    LET e == refundLedger[i] IN
    /\ e.prevLedgerHash = IF i = 1 THEN GenesisHash ELSE refundLedger[i - 1].ledgerHash
    /\ e.ledgerHash = deriveRefundLedgerHash(e.refundRequestId, e.prevLedgerHash, e.gross,
                                             e.feeReversed, e.taxReversed, e.net, e.createdAt)

-----------------------------------------------------------------------------
Duration(l) == EndOf[LegSlot[l]] - StartOf[LegSlot[l]]
FirstStart == CHOOSE t \in {legs[l].start : l \in Legs} : \A l \in Legs : t <= legs[l].start
Offset(l, o) == IF o[l].offset = Unset THEN legs[l].start - FirstStart ELSE o[l].offset

\* Array.find: the first slot of the repository that is wanted.
Find(found) == IF found = {} THEN NoSlot ELSE CHOOSE s \in found : \A t \in found : s <= t

\* Where leg l goes if the booking starts at a: its own slot when it is kept,
\* the slot the request names if it fits exactly, else the first slot with
\* exactly its times, else the first that spans them.
candidateSlot(l, a, o) ==
  LET from == a + Offset(l, o)
      to == from + Duration(l)
      usable == {s \in Slots : /\ Professional[s] = Professional[LegSlot[l]]
                               /\ s \in bookable \/ s = legs[l].slot}
      exact == {s \in usable : StartOf[s] = from /\ EndOf[s] = to}
      spanning == {s \in usable : StartOf[s] <= from /\ EndOf[s] >= to}
  IN CASE o[l].skip -> legs[l].slot
       [] ~o[l].skip /\ o[l].slot # NoSlot -> Find(exact \cap {o[l].slot})
       [] OTHER -> IF exact # {} THEN Find(exact) ELSE Find(spanning)

Distance(a, b) == IF a < b THEN b - a ELSE a - b

Option(a, o) ==
  [l \in Legs |->
    [from |-> legs[l].slot, to |-> candidateSlot(l, a, o), kept |-> o[l].skip,
     start |-> IF o[l].skip THEN legs[l].start ELSE a + Offset(l, o)]]

Disruption(option) ==
  FoldSeq(LAMBDA l, sum : sum + Distance(option[l].start, legs[l].start), 0, SetToSeq(Legs))

\* The valid options, fewest disruptions first, at most maxOptions of them.
planned(o) ==
  LET valid == {n \in DOMAIN Anchors : \A l \in Legs : candidateSlot(l, Anchors[n], o) # NoSlot}
      before(m, n) ==
        LET dm == Disruption(Option(Anchors[m], o))
            dn == Disruption(Option(Anchors[n], o))
        IN dm < dn \/ (dm = dn /\ m < n)
      sorted == SetToSortSeq(valid, before)
      best == SubSeq(sorted, 1, IF Len(sorted) < maxOptions THEN Len(sorted) ELSE maxOptions)
  IN [n \in DOMAIN best |-> Option(Anchors[best[n]], o)]

planMultiLegReschedule(o) ==
  /\ planned(o) # << >>
  /\ offers' = planned(o)
  /\ UNCHANGED <<bookable, now, paused, reservedBundles, slotIds, taken, legs, refundLedger>>

\* The legs that move, in order, and the slots they leave and take.
Moving(option) == SelectSeq([l \in 1..Len(option) |-> l],
                            LAMBDA l : ~option[l].kept /\ option[l].from # option[l].to)
Left(option) == {option[l].from : l \in ToSet(Moving(option))}
Wanted(option) == [n \in DOMAIN Moving(option) |-> option[Moving(option)[n]].to]

\* Mutant: the slots the legs left are not reserved again.
afterConfirmFailureReleased(option) == bookable \cup Left(option)

\* The catch block of confirmMultiLegReschedule: what was reserved is
\* released, what was released is reserved again unless that throws, too.
afterConfirmFailure(option) ==
  LET free == bookable \cup Left(option)
      got == ReservedOf(Wanted(option), free)
  IN ((free \ got) \cup got) \ {s \in Left(option) : Open(s)}

\* The buyer's record follows through the saga that the event starts.
confirmMultiLegReschedule(n) ==
  LET option == offers[n]
      ok == AllReserved(Wanted(option), bookable \cup Left(option)) IN
  /\ MayRepeat \/ \A l \in Legs : option[l].from = legs[l].slot
  /\ bookable' = IF ok THEN (bookable \cup Left(option)) \ ToSet(Wanted(option))
                 ELSE afterConfirmFailure(option)
  /\ legs' = IF ok THEN [l \in Legs |-> [slot |-> option[l].to, start |-> option[l].start]] ELSE legs
  /\ UNCHANGED <<now, paused, reservedBundles, slotIds, taken, offers, refundLedger>>

-----------------------------------------------------------------------------
pause ==
  /\ MayPause
  /\ paused' = ~paused
  /\ UNCHANGED <<bookable, now, reservedBundles, slotIds, taken, legs, offers, refundLedger>>

Tick ==
  /\ now < MaxTime
  /\ now' = now + 1
  /\ UNCHANGED <<bookable, paused, reservedBundles, slotIds, taken, legs, offers, refundLedger>>

Next ==
  \/ \E s \in Slots : reserveSlot(s) \/ releaseSlot(s)
  \/ \E b \in Bundles, s, t \in Slots : reserveBundle(b, IF s = t THEN <<s>> ELSE <<s, t>>)
  \/ \E b \in Bundles : releaseBundle(b)
  \/ \E b \in Bundles, p \in Pricings, settling \in BOOLEAN :
       handleSupplierCancelBeforeSlotStart(b, p, settling)
  \/ \E b \in Bundles, settling \in BOOLEAN : cancelUnawaited(b, settling)
  \/ \E n \in DOMAIN refundLedger : markRefundSettled(n) \/ markRefundFailed(n)
  \/ \E o \in Overrides : planMultiLegReschedule(o)
  \/ \E n \in DOMAIN offers : confirmMultiLegReschedule(n)
  \/ pause \/ Tick

Spec == Init /\ [][Next]_vars

-----------------------------------------------------------------------------
LegSlots == {legs[l].slot : l \in Legs}
Bundled == UNION {reservedBundles[b] : b \in Bundles}

\* Without pauses and repeated requests every reserved slot has one owner: a
\* bundle that fails half way leaves nothing behind, a rescheduled booking
\* leaves its old slots, and a failed one keeps them although its option was
\* planned before others reserved.  Only a leg whose slot is past its deadline
\* may lose it.
OneOwnerPerSlot ==
  ~MayPause /\ ~MayRepeat =>
    /\ Slots \ bookable \subseteq taken \cup LegSlots \cup Bundled
    /\ bookable \cap (taken \cup Bundled) = {}
    /\ \A s \in bookable \cap LegSlots : ~Open(s)
    /\ taken \cap LegSlots = {} /\ Bundled \cap (taken \cup LegSlots) = {}
    /\ \A l, k \in Legs : legs[l].slot = legs[k].slot => l = k
    /\ \A b, c \in Bundles : b # c => reservedBundles[b] \cap reservedBundles[c] = {}

\* Every refund stays provable from the hashes, whatever its settlement
\* reports later, and returns the price and its tax as the handler read them:
\* nothing, where the repository of intents is asynchronous.
RefundsProvable ==
  /\ verifyRefundLedgerChain
  /\ \A i \in DOMAIN refundLedger :
       refundLedger[i].net = refundLedger[i].gross + refundLedger[i].taxReversed

\* An option that moves its legs to different, open slots can be confirmed as
\* long as nothing has happened since it was planned.
ConfirmableStep ==
  offers' # offers /\ ~paused =>
    \A n \in DOMAIN offers' :
      LET w == Wanted(offers'[n]) IN
      IsInjective(w) /\ (\A i \in DOMAIN w : Open(w[i])) =>
        AllReserved(w, bookable \cup Left(offers'[n]))

=============================================================================
