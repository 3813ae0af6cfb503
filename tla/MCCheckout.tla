----------------------------- MODULE MCCheckout -----------------------------
(***************************************************************************)
(* What a buyer holds: checkout sessions under calls that overlap and      *)
(* under calls that wait for each other, the refundable holds with their   *)
(* sweeper, and subscriptions with their slot generator.                   *)
(* The three share no state, so one of them runs at a time while the       *)
(* others stay in their initial state.                                     *)
(***************************************************************************)
EXTENDS CheckoutSessions, TLC

CONSTANTS Parts   \* the parts that run

VARIABLES
  part,
  created, holdStatus, left, bookable, pausedTenants,
  sub, active, generating, minted, slotTime

RequestSymmetry == Permutations(Requests)

TenantOf == <<"a", "a", "a", "b">>
SlotOf == <<"s1", "s2", "s3", "s1">>
maxPerTenantPerBatch == 2

\* Three holds of one tenant and one of another; two holds want one slot.
Sweeper == INSTANCE HoldSweeper WITH
  Holds <- 1..4, batchSize <- 3, safetyThreshold <- 3, TTL <- 1, status <- holdStatus

\* The same where three candidates trip the brake.
SweeperBraked == INSTANCE HoldSweeper WITH
  Holds <- 1..4, batchSize <- 3, safetyThreshold <- 2, TTL <- 1, status <- holdStatus

\* Two products of one professional, the second one on two days only, and a
\* slot that the professional has sold otherwise.
Subscriptions == INSTANCE Subscriptions WITH
  Subs <- 1..3, SubscriberOf <- <<"u", "v", "u">>, ProductOf <- <<"daily", "byday", "daily">>,
  Products <-
    [daily |-> [professional |-> "alice", duration |-> 1, interval |-> 1, count |-> 9, byDays |-> {}, maxSubscribers |-> 1],
     byday |-> [professional |-> "alice", duration |-> 2, interval |-> 1, count |-> 9, byDays |-> {1, 2}, maxSubscribers |-> 2]],
  Booked <- {[professional |-> "alice", start |-> 2, end |-> 5]},
  Offsets <- {0, 1}, DayLength <- 3, MaxTime <- 5, batchSize <- 1, now <- slotTime

-----------------------------------------------------------------------------

holds == <<created, holdStatus, left, bookable, pausedTenants>>
subscriptions == <<sub, active, generating, minted, slotTime>>
all == <<part, vars, holds, subscriptions>>

HoldParts == {"holds", "holds braked"}

MCInit ==
  /\ part \in Parts
  /\ Init /\ Sweeper!Init /\ Subscriptions!Init

\* Calls on one session that overlap, or calls on two sessions in turn.
CallersNext ==
  \/ part = "overlap" /\ Next /\ status'["s2"] = "absent"
  \/ part = "in turn" /\ Next /\ inTurn' /\ now' <= 2

HoldsNext ==
  \/ part = "holds" /\ Sweeper!Next
  \/ part = "holds braked" /\ SweeperBraked!Next

MCNext ==
  \/ CallersNext /\ UNCHANGED <<part, holds, subscriptions>>
  \/ HoldsNext /\ UNCHANGED <<part, vars, subscriptions>>
  \/ part = "subscriptions" /\ Subscriptions!Next /\ UNCHANGED <<part, vars, holds>>

MCSpec == MCInit /\ [][MCNext]_all

-----------------------------------------------------------------------------
\* The slot of an active or confirmed hold is never offered to others, and a
\* slot that is not offered belongs to such a hold; a sweep takes the holds of a
\* tenant oldest first, and passes over a tenant's expired hold only for those
\* before it.  The slots minted for a subscription never overlap each other nor
\* a slot that the professional has already, and a subscriber never has two live
\* subscriptions to a product, however ticks, pauses and conflicts follow.
SlotsSound ==
  /\ [](part \in HoldParts =>
          Sweeper!TypeOK /\ Sweeper!HeldSlotIsReserved /\ Sweeper!ReservedSlotIsHeld)
  /\ [][(part \in HoldParts) => Sweeper!FairStep /\ Sweeper!OldestFirstStep]_all
  /\ [](part = "subscriptions" =>
          /\ Subscriptions!TypeOK /\ Subscriptions!NeverMintedTwice
          /\ Subscriptions!MintedAvoidsBooked /\ Subscriptions!OneLivePerSubscriber)
=============================================================================
