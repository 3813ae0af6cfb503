--------------------------- MODULE Subscriptions ---------------------------
(***************************************************************************)
(* Subscriptions to recurring slots of a professional, and the generator   *)
(* that mints the slots of subscriptions that are due.  The repositories   *)
(* are synchronous, so every call and every tick of the generator is one   *)
(* step.  Time is counted in units that slots start at.                    *)
(***************************************************************************)
EXTENDS Integers, Sequences, FiniteSets, SequencesExt, FiniteSetsExt

CONSTANTS
  Subs,            \* subscriptions that may be made, 1..n in order of creation
  SubscriberOf, ProductOf,
  Products,        \* product -> professional, duration, interval, count, byDays, maxSubscribers
  Booked,          \* slots of the repository: professional, start, end
  Offsets,         \* slotOffsetMs that subscribers ask for
  DayLength, MaxTime, batchSize

VARIABLES
  sub,       \* status, nextSlotStart and slotsMinted of each subscription
  active,    \* state of each product: "none", "active" or "inactive"
  generating,\* the generator's loop is on
  minted,    \* the slots minted: sub, start, end
  now

vars == <<sub, active, generating, minted, now>>

ProductFor(s) == Products[ProductOf[s]]

Init ==
  /\ sub = [s \in Subs |-> [status |-> "none", next |-> 0, minted |-> 0]]
  /\ active = [p \in DOMAIN Products |-> "none"]
  /\ generating = FALSE
  /\ minted = {}
  /\ now = 0

\* expandRecurrence: the times from a start up to a horizon, the rule's interval of
\* days apart (seven times as many for a weekly rule), that are on days of the
\* rule, at most count of them.
expandRecurrence(p, start, horizon) ==
  LET step == p.interval * DayLength
      all == [k \in 1..((horizon + step - 1) \div step) |-> start + (k - 1) * step]
      slots == SelectSeq(all, LAMBDA t : p.byDays = {} \/ (t \div DayLength) % 7 \in p.byDays)
  IN SubSeq(slots, 1, Min({p.count, Len(slots)}))

FirstOr(slots, default) == IF slots = << >> THEN default ELSE slots[1]

-----------------------------------------------------------------------------
(* Calls. *)

ActiveOf(p) == {s \in Subs : ProductOf[s] = p /\ sub[s].status = "active"}

Duplicate(s) ==
  \E r \in Subs : ProductOf[r] = ProductOf[s] /\ SubscriberOf[r] = SubscriberOf[s]
                  /\ sub[r].status \in {"active", "paused"}

subscribe(s, offset) ==
  LET p == ProductFor(s) IN
  /\ sub[s].status = "none" /\ \A r \in Subs : r < s => sub[r].status # "none"
  /\ active[ProductOf[s]] = "active"
  /\ Cardinality(ActiveOf(ProductOf[s])) < p.maxSubscribers
  /\ ~Duplicate(s)
  /\ sub' = [sub EXCEPT ![s] =
       [status |-> "active", minted |-> 0, next |-> FirstOr(expandRecurrence(p, now + offset, p.duration * 365), now)]]
  /\ UNCHANGED <<active, generating, minted, now>>

pauseSubscription(s) ==
  /\ sub[s].status = "active"
  /\ sub' = [sub EXCEPT ![s].status = "paused"]
  /\ UNCHANGED <<active, generating, minted, now>>

resumeSubscription(s) ==
  /\ sub[s].status = "paused"
  /\ sub' = [sub EXCEPT ![s].status = "active"]
  /\ UNCHANGED <<active, generating, minted, now>>

cancelSubscription(s) ==
  /\ sub[s].status \in {"active", "paused"}
  /\ sub' = [sub EXCEPT ![s].status = "cancelled"]
  /\ UNCHANGED <<active, generating, minted, now>>

createProduct(p) ==
  /\ active[p] = "none" /\ active' = [active EXCEPT ![p] = "active"]
  /\ UNCHANGED <<sub, generating, minted, now>>

deactivateProduct(p) ==
  /\ active[p] # "none" /\ active' = [active EXCEPT ![p] = "inactive"]
  /\ UNCHANGED <<sub, generating, minted, now>>

-----------------------------------------------------------------------------
(* The generator. *)

hasConflict(s, start, end) ==
  \E b \in Booked : b.professional = ProductFor(s).professional /\ b.start < end /\ b.end > start

Due(s) == sub[s].status = "active" /\ sub[s].next <= now

\* The order of a batch: by next slot, equal ones in order of creation.
Before(r, s) == sub[r].next < sub[s].next \/ (sub[r].next = sub[s].next /\ r < s)

listActiveDueBefore == {s \in Subs : Due(s) /\ Cardinality({r \in Subs : Due(r) /\ Before(r, s)}) < batchSize}

\* The next slot after one that is minted, looked for within two durations.
NextStart(s) ==
  LET p == ProductFor(s) end == sub[s].next + p.duration
  IN FirstOr(expandRecurrence(p, end, p.duration * 2), end)

afterConflict(s) == sub[s].next + ProductFor(s).duration

generateSlotsForDueSubscriptions ==
  LET conflict(s) == hasConflict(s, sub[s].next, sub[s].next + ProductFor(s).duration)
      batch == listActiveDueBefore
  IN /\ generating /\ batch # {}
     /\ sub' = [s \in Subs |->
          IF s \notin batch THEN sub[s]
          ELSE IF conflict(s) THEN [sub[s] EXCEPT !.next = afterConflict(s)]
          ELSE [sub[s] EXCEPT !.next = NextStart(s), !.minted = @ + 1]]
     /\ minted' = minted \cup {[sub |-> s, start |-> sub[s].next, end |-> sub[s].next + ProductFor(s).duration] :
                                 s \in {b \in batch : ~conflict(b)}}
     /\ UNCHANGED <<active, generating, now>>

start ==
  /\ ~generating /\ generating' = TRUE
  /\ UNCHANGED <<sub, active, minted, now>>

stop ==
  /\ generating /\ generating' = FALSE
  /\ UNCHANGED <<sub, active, minted, now>>

-----------------------------------------------------------------------------
(* The routes.  A caller is the administrator or a user of the token. *)

Callers == {"admin"} \cup {SubscriberOf[s] : s \in Subs} \cup {Products[p].professional : p \in DOMAIN Products}

canManageSubscription(caller, s) == caller \in {"admin", SubscriberOf[s], ProductFor(s).professional}

ownsProduct(caller, p) == caller \in {"admin", Products[p].professional}

postProducts == \E c \in Callers, p \in DOMAIN Products : ownsProduct(c, p) /\ createProduct(p)
deleteProduct == \E c \in Callers, p \in DOMAIN Products : ownsProduct(c, p) /\ deactivateProduct(p)
postSubscription == \E s \in Subs, o \in Offsets : subscribe(s, o)
postPause == \E c \in Callers, s \in Subs : canManageSubscription(c, s) /\ pauseSubscription(s)
postResume == \E c \in Callers, s \in Subs : canManageSubscription(c, s) /\ resumeSubscription(s)
postCancel == \E c \in Callers, s \in Subs : canManageSubscription(c, s) /\ cancelSubscription(s)

Tick ==
  /\ now < MaxTime /\ now' = now + 1
  /\ UNCHANGED <<sub, active, generating, minted>>

Rest == now = MaxTime /\ UNCHANGED vars

Next ==
  \/ postProducts \/ deleteProduct \/ postSubscription \/ postPause \/ postResume \/ postCancel
  \/ start \/ stop \/ generateSlotsForDueSubscriptions \/ Tick \/ Rest

Spec == Init /\ [][Next]_vars

-----------------------------------------------------------------------------
\* Every variable is of its kind, and slotsMinted counts the slots minted, on
\* which the ids of slots rely.
TypeOK ==
  /\ \A s \in Subs : sub[s].status \in {"none", "active", "paused", "cancelled"}
  /\ \A p \in DOMAIN Products : active[p] \in {"none", "active", "inactive"}
  /\ \A s \in Subs : Cardinality({m \in minted : m.sub = s}) = sub[s].minted

\* A subscription's slots never overlap, however ticks, pauses and conflicts
\* follow on each other ("never double-create slots").
NeverMintedTwice ==
  \A m, n \in minted : m.sub = n.sub /\ m # n => m.end <= n.start \/ n.end <= m.start

\* No minted slot overlaps a slot that the professional has already.
MintedAvoidsBooked ==
  \A m \in minted, b \in Booked :
    b.professional = ProductFor(m.sub).professional => b.end <= m.start \/ m.end <= b.start

\* A subscriber never has two live subscriptions to a product.
OneLivePerSubscriber ==
  \A r, s \in Subs :
    (r # s /\ ProductOf[r] = ProductOf[s] /\ SubscriberOf[r] = SubscriberOf[s]
     /\ sub[r].status \in {"active", "paused"}) => sub[s].status \notin {"active", "paused"}
=============================================================================
