---------------------------- MODULE HoldSweeper ----------------------------
(***************************************************************************)
(* Refundable holds and the sweeper that releases the slots of holds past  *)
(* their deadline, a fair batch of all tenants' holds at a time.           *)
(*                                                                         *)
(* A sweep has no await, so it is one step; between sweeps buyers confirm  *)
(* or give up holds, and tenants are paused and resumed.                   *)
(***************************************************************************)
EXTENDS Integers, Sequences, FiniteSets, SequencesExt

CONSTANTS
  Holds,           \* holds that may be created
  TenantOf,        \* the tenant of each hold
  SlotOf,          \* the slot of each hold
  TTL,             \* time from a hold's creation to its deadline, in ticks
  batchSize, safetyThreshold, maxPerTenantPerBatch  \* of the sweeper

VARIABLES
  created,       \* the holds in order of creation
  status,        \* of each hold
  left,          \* time to each hold's deadline
  bookable,      \* the slots that can be reserved
  pausedTenants  \* of the scheduling service

vars == <<created, status, left, bookable, pausedTenants>>

Tenants == {TenantOf[h] : h \in Holds}
Slots == {SlotOf[h] : h \in Holds}

Init ==
  /\ created = << >>
  /\ status = [h \in Holds |-> "none"]
  /\ left = [h \in Holds |-> 0]
  /\ bookable = Slots
  /\ pausedTenants = {}

\* The repository takes any hold, and any status for a hold that it has.
create(h) ==
  /\ created' = Append(created, h)
  /\ status' = [status EXCEPT ![h] = "active"]
  /\ left' = [left EXCEPT ![h] = TTL]

updateStatus(h, st) ==
  /\ h \in ToSet(created)
  /\ status' = [status EXCEPT ![h] = st]
  /\ UNCHANGED <<created, left>>

\* External: the buyers.  They reserve a slot of a tenant that is not paused
\* before they create a hold; they confirm a hold that is active, also after its
\* deadline while no sweep has come; and they give an active one up with its slot.
placeHold(h) ==
  /\ h \notin ToSet(created)
  /\ SlotOf[h] \in bookable /\ TenantOf[h] \notin pausedTenants
  /\ create(h)
  /\ bookable' = bookable \ {SlotOf[h]}
  /\ UNCHANGED pausedTenants

confirmHold(h) ==
  /\ status[h] = "active"
  /\ updateStatus(h, "confirmed")
  /\ UNCHANGED <<bookable, pausedTenants>>

giveUpHold(h) ==
  /\ status[h] = "active"
  /\ updateStatus(h, "released")
  /\ bookable' = bookable \cup {SlotOf[h]}
  /\ UNCHANGED pausedTenants

setTenantPaused(t) ==
  /\ pausedTenants' = IF t \in pausedTenants THEN pausedTenants \ {t} ELSE pausedTenants \cup {t}
  /\ UNCHANGED <<created, status, left, bookable>>

Tick ==
  /\ left' = [h \in Holds |-> IF left[h] = 0 THEN 0 ELSE left[h] - 1]
  /\ UNCHANGED <<created, status, bookable, pausedTenants>>

-----------------------------------------------------------------------------
Eligible(h) == status[h] = "active" /\ left[h] = 0 /\ TenantOf[h] \notin pausedTenants

LesserOf(a, b) == IF a < b THEN a ELSE b

\* Mutant: the oldest holds first, whosever they are.
firstCandidates(candidates) ==
  SubSeq(candidates, 1, LesserOf(batchSize, Len(candidates)))

\* fairScheduleCandidates: in every round each tenant, in the order in which
\* its first candidate comes, gives its oldest candidate that is left.
fairScheduleCandidates(candidates) ==
  LET bucket(t) == SelectSeq(candidates, LAMBDA h : TenantOf[h] = t)
      leads(h) == bucket(TenantOf[h])[1] = h
      leaders == SelectSeq(candidates, leads)
      round(k) ==
        LET in == SelectSeq(leaders, LAMBDA h : Len(bucket(TenantOf[h])) >= k)
        IN [i \in DOMAIN in |-> bucket(TenantOf[in[i]])[k]]
      turns == FlattenSeq([k \in 1..LesserOf(maxPerTenantPerBatch, Len(candidates)) |-> round(k)])
  IN SubSeq(turns, 1, LesserOf(batchSize, Len(turns)))

\* Mutant: the brake trips one candidate early.
WithinThresholdStrictly(n) == n < safetyThreshold

WithinThreshold(n) == n <= safetyThreshold

Batch == ToSet(fairScheduleCandidates(SelectSeq(created, Eligible)))

sweepRefundableHoldExpiryOnce ==
  LET n == Cardinality({h \in ToSet(created) : Eligible(h)}) IN
  /\ n > 0 /\ WithinThreshold(n)
  /\ status' = [h \in Holds |-> IF h \in Batch THEN "expired" ELSE status[h]]
  /\ bookable' = bookable \cup {SlotOf[h] : h \in Batch}
  /\ UNCHANGED <<created, left, pausedTenants>>

Next ==
  \/ \E h \in Holds : placeHold(h) \/ confirmHold(h) \/ giveUpHold(h)
  \/ \E t \in Tenants : setTenantPaused(t)
  \/ sweepRefundableHoldExpiryOnce
  \/ Tick

Spec == Init /\ [][Next]_vars

\* The worker loop and the clock go on.
FairSpec == Spec /\ WF_vars(sweepRefundableHoldExpiryOnce) /\ WF_vars(Tick)

-----------------------------------------------------------------------------
\* Every variable is of its kind, and the holds in the list are those created.
TypeOK ==
  /\ status \in [Holds -> {"none", "active", "confirmed", "released", "expired"}]
  /\ left \in [Holds -> 0..TTL]
  /\ ToSet(created) = {h \in Holds : status[h] # "none"}
  /\ bookable \subseteq Slots

\* The slot of a hold that is active or confirmed is never offered to others,
\* and no two such holds have the same slot, although slots are released by
\* their id and not for a hold, as long as the buyers reserve a slot before they
\* hold it and leave ended holds alone.
HeldSlotIsReserved ==
  \A h \in Holds : status[h] \in {"active", "confirmed"} =>
    /\ SlotOf[h] \notin bookable
    /\ \A g \in Holds \ {h} : SlotOf[g] = SlotOf[h] => status[g] \notin {"active", "confirmed"}

\* No slot is lost: one that cannot be reserved has a hold that keeps it.
ReservedSlotIsHeld ==
  \A s \in Slots \ bookable : \E h \in Holds : SlotOf[h] = s /\ status[h] \in {"active", "confirmed"}

Swept == {h \in Holds : status[h] = "active" /\ status'[h] = "expired"}
Waiting == {h \in Holds : Eligible(h)}
Of(t, S) == {h \in S : TenantOf[h] = t}

\* A sweep releases only holds of tenants that are not paused, as many as the
\* batch and the tenants' caps allow, and is fair: a tenant is given a second
\* hold more than another only when that one has no hold left or its cap.
FairStep ==
  Swept # {} =>
    /\ \A t \in pausedTenants : Of(t, Swept) = {}
    /\ Cardinality(Swept) <= batchSize
    /\ \A t \in Tenants : Cardinality(Of(t, Swept)) <= maxPerTenantPerBatch
    /\ Cardinality(Swept) < batchSize =>
         \A t \in Tenants : Of(t, Swept) = Of(t, Waiting)
                            \/ Cardinality(Of(t, Swept)) = maxPerTenantPerBatch
    /\ \A t, u \in Tenants :
         Cardinality(Of(u, Swept)) > Cardinality(Of(t, Swept)) + 1 =>
           \/ Of(t, Swept) = Of(t, Waiting)
           \/ Cardinality(Of(t, Swept)) = maxPerTenantPerBatch

\* The holds of one tenant are released in the order of their creation.
OldestFirstStep ==
  \A i, j \in DOMAIN created :
    (i < j /\ TenantOf[created[i]] = TenantOf[created[j]]
     /\ created[i] \in Waiting /\ created[j] \in Swept) => created[i] \in Swept

=============================================================================
