--------------------------- MODULE BookingIntents ---------------------------
(***************************************************************************)
(* The booking-intent service, the slot flag of the scheduling service and *)
(* the recurring-booking engine, as the requests that run them.            *)
(*                                                                         *)
(* The code runs on one thread and gives it up at every await, so a        *)
(* request is a process whose steps are the stretches between two awaits.  *)
(* A handler reads an intent, checks what it read, and writes later        *)
(* without looking again; the plan it computed from the read is what the   *)
(* write applies.  A call that is refused on its first step leaves no      *)
(* trace and is no step of the model.                                      *)
(*                                                                         *)
(* An intent is named by the request that creates it: its row is           *)
(* status[i] and refunds[i], and its immutable columns are the inputs     *)
(* req[i] of that request.  Callers are authorised ones.                   *)
(***************************************************************************)
EXTENDS Integers

CONSTANTS
  Slots,        \* slots of the slot repository
  Requests,     \* calls made to the service, each made at most once
  Ops,          \* the operations these calls may be
  Types,        \* the booking types asked for
  MaxTime,      \* bound on the clock
  StartTime,    \* startTime of each slot
  NoShowGrace,  \* noShowGraceMs
  ValidUntil,   \* validUntil of each slot, or Undefined
  MayOverlap,   \* two requests on one slot may be in flight together
  MayPause,     \* the operator may pause and resume escrow
  MayFail       \* a write to the repository, or the strike service, may throw

Undefined == -1

AllOps == {"create", "materialize", "confirm", "cancel", "refund", "expire",
           "autoRefund", "noShow"}

BookingTypes == {"standard", "refundable_hold"}

ASSUME SlotsAssumption == Slots # {}
ASSUME OpsAssumption == Ops \subseteq AllOps
ASSUME TypesAssumption == Types \subseteq BookingTypes
ASSUME TimeAssumption ==
  /\ MaxTime \in Nat
  /\ NoShowGrace \in Nat
  /\ StartTime \in [Slots -> Nat]
  /\ ValidUntil \in [Slots -> Nat \cup {Undefined}]
ASSUME SwitchAssumption ==
  MayOverlap \in BOOLEAN /\ MayPause \in BOOLEAN /\ MayFail \in BOOLEAN

Active == {"pending", "hold_placed"}
Terminal == {"cancelled", "expired", "hold_refunded", "no_show"}
Live == Active \cup {"confirmed"}
Statuses == {"absent"} \cup Live \cup Terminal
VARIABLES
  bookable,  \* the slots whose bookable flag is set
  status,    \* the status column, "absent" when there is no such row
  pc,        \* where each request is
  req,       \* the inputs of each request and the write it has planned
  now,       \* nowMs()
  paused,    \* escrowMigrationState.isPaused()
  refunds,   \* how many refunds each intent was granted; refundedAt and
             \* refundMetadata are set once it is positive
  strikes    \* how many buyer strikes each intent has cost (history)

vars == <<bookable, status, pc, req, now, paused, refunds, strikes>>

Steps == {"new", "lookup", "persist", "reserve", "rlookup", "rreserve",
          "rpersist", "rrelease", "expire", "strike", "write", "release", "done"}

Plans == [slot : Slots, id : Requests, type : BookingTypes,
          holdUntil : Nat \cup {Undefined}, to : Statuses, refund : {0, 1}]

NoPlan(r) == [slot |-> CHOOSE s \in Slots : TRUE, id |-> r, type |-> "standard",
              holdUntil |-> Undefined, to |-> "absent", refund |-> 0]

Init ==
  /\ bookable = Slots
  /\ status = [i \in Requests |-> "absent"]
  /\ pc = [r \in Requests |-> "new"]
  /\ req = [r \in Requests |-> NoPlan(r)]
  /\ now = 0
  /\ paused = FALSE
  /\ refunds = [i \in Requests |-> 0]
  /\ strikes = [i \in Requests |-> 0]

-----------------------------------------------------------------------------
InFlight(r) == pc[r] \notin {"new", "done"}

IsRow(i) == status[i] # "absent"

On(s) == {i \in Requests : IsRow(i) /\ req[i].slot = s}

\* findBySlotId: some intent of the slot is pending or hold_placed.
findBySlotId(s) == \E i \in On(s) : status[i] \in Active

SlotExpired(s) == ValidUntil[s] # Undefined /\ now >= ValidUntil[s]

DeadlinePassed(i) == req[i].holdUntil # Undefined /\ req[i].holdUntil <= now

Goto(r, step) == pc' = [pc EXCEPT ![r] = step]

rowVars == <<status, refunds>>
envVars == <<now, paused>>

\* A request op on slot s starts with the given plan at the given step.
Start(r, op, s, plan, step) ==
  /\ op \in Ops
  /\ pc[r] = "new"
  /\ MayOverlap \/ \A q \in Requests : InFlight(q) => req[q].slot # s
  /\ Goto(r, step)
  /\ req' = [req EXCEPT ![r] = plan]
  /\ UNCHANGED <<bookable, rowVars, envVars, strikes>>

Change(i, to, refund) ==
  [slot |-> req[i].slot, id |-> i, type |-> req[i].type,
   holdUntil |-> req[i].holdUntil, to |-> to, refund |-> refund]

\* A request on an existing intent plans to write status to.
StartOn(r, op, i, to, refund, step) ==
  /\ IsRow(i)
  /\ Start(r, op, req[i].slot, Change(i, to, refund), step)

\* What a new intent will be: its type decides the status it is stored with.
NewIntent(r, s, type, deadline) ==
  [slot |-> s, id |-> r, type |-> type,
   holdUntil |-> IF type = "refundable_hold" THEN deadline ELSE Undefined,
   to |-> IF type = "refundable_hold" THEN "hold_placed" ELSE "pending",
   refund |-> 0]

-----------------------------------------------------------------------------
(* createIntent: check the slot, look for rivals, store the row, and only  *)
(* then take the slot; nothing undoes the row when taking the slot throws. *)

createIntent(r, s, type, deadline) ==
  /\ s \in bookable /\ ~SlotExpired(s)
  /\ type = "refundable_hold" => deadline # Undefined
  /\ Start(r, "create", s, NewIntent(r, s, type, deadline), "lookup")

createLookup(r) ==
  /\ pc[r] = "lookup"
  /\ Goto(r, IF ~findBySlotId(req[r].slot)
                /\ (req[r].type = "refundable_hold" => req[r].holdUntil > now)
             THEN "persist" ELSE "done")
  /\ UNCHANGED <<bookable, rowVars, req, envVars, strikes>>

\* Mutant: the table has no unique index.
PersistUnindexed(r, stored, refusedTo) ==
  /\ status' = [status EXCEPT ![r] = req[r].to]
  /\ Goto(r, stored)
  /\ UNCHANGED <<bookable, refunds, req, envVars, strikes>>

\* repository.create: the partial unique index admits one active intent a slot.
Persist(r, stored, refusedTo) ==
  \/ /\ ~findBySlotId(req[r].slot)
     /\ status' = [status EXCEPT ![r] = req[r].to]
     /\ Goto(r, stored)
     /\ UNCHANGED <<bookable, refunds, req, envVars, strikes>>
  \/ /\ findBySlotId(req[r].slot) \/ MayFail
     /\ Goto(r, refusedTo)
     /\ UNCHANGED <<bookable, rowVars, req, envVars, strikes>>

createPersist(r) == pc[r] = "persist" /\ Persist(r, "reserve", "done")

\* reserveSlot succeeds or throws.
CanReserve(s) == ~paused /\ s \in bookable /\ ~SlotExpired(s)

reserveSlot(r, reserved, threw) ==
  LET s == req[r].slot
      ok == CanReserve(s)
  IN /\ bookable' = IF ok THEN bookable \ {s} ELSE bookable
     /\ Goto(r, IF ok THEN reserved ELSE threw)
     /\ UNCHANGED <<rowVars, req, envVars, strikes>>

\* Mutant: creation does not take the slot.
createReserveForgotten(r) ==
  /\ pc[r] = "reserve"
  /\ Goto(r, "done")
  /\ UNCHANGED <<bookable, rowVars, req, envVars, strikes>>

createReserve(r) == pc[r] = "reserve" /\ reserveSlot(r, "done", "done")

-----------------------------------------------------------------------------
(* materializeOccurrence of the recurring engine: take the slot first,     *)
(* store the row, and give the slot back when the row is refused.          *)

materializeOccurrence(r, s, type, deadline) ==
  /\ s \in bookable
  /\ Start(r, "materialize", s, NewIntent(r, s, type, deadline), "rlookup")

recurringLookup(r) ==
  /\ pc[r] = "rlookup"
  /\ Goto(r, IF findBySlotId(req[r].slot) THEN "done" ELSE "rreserve")
  /\ UNCHANGED <<bookable, rowVars, req, envVars, strikes>>

recurringReserve(r) == pc[r] = "rreserve" /\ reserveSlot(r, "rpersist", "done")

recurringPersist(r) == pc[r] = "rpersist" /\ Persist(r, "done", "rrelease")

releaseSlot(r) ==
  /\ bookable' = bookable \cup {req[r].slot}
  /\ Goto(r, "done")
  /\ UNCHANGED <<rowVars, req, envVars, strikes>>

\* Mutant: the compensating release is missing.
recurringReleaseForgotten(r) ==
  /\ pc[r] = "rrelease"
  /\ Goto(r, "done")
  /\ UNCHANGED <<bookable, rowVars, req, envVars, strikes>>

recurringRelease(r) == pc[r] = "rrelease" /\ releaseSlot(r)

-----------------------------------------------------------------------------
(* The transitions of an existing intent.  Each reads the row and checks   *)
(* it in its first step; what it then writes is fixed.                     *)

\* Of a hold whose deadline has passed, confirming turns into expiring it.
confirmIntent(r, i) ==
  LET late == req[i].type = "refundable_hold" /\ DeadlinePassed(i)
  IN /\ status[i] \in Active
     /\ StartOn(r, "confirm", i, IF late THEN "expired" ELSE "confirmed", 0,
                IF late THEN "expire" ELSE "write")

\* Mutant: a cancelled hold is not refunded.
cancelIntentUnpaid(r, i) ==
  /\ status[i] \in Active
  /\ StartOn(r, "cancel", i,
             IF status[i] = "hold_placed" THEN "hold_refunded" ELSE "cancelled",
             0, "write")

cancelIntent(r, i) ==
  LET isHold == req[i].type = "refundable_hold" /\ status[i] = "hold_placed"
  IN /\ status[i] \in Active
     /\ StartOn(r, "cancel", i, IF isHold THEN "hold_refunded" ELSE "cancelled",
                IF isHold THEN 1 ELSE 0, "write")

refundIntent(r, i) ==
  /\ refunds[i] = 0
  /\ status[i] \notin Terminal
  /\ StartOn(r, "refund", i, "cancelled", 1, "write")

expireIntent(r, i) ==
  /\ status[i] \in Active
  /\ StartOn(r, "expire", i, "expired", 0, "write")

autoRefundHold(r, i, force) ==
  /\ req[i].type = "refundable_hold"
  /\ status[i] = "hold_placed"
  /\ force \/ DeadlinePassed(i)
  /\ StartOn(r, "autoRefund", i, "hold_refunded", 1, "write")

markNoShow(r, i) ==
  /\ status[i] = "confirmed"
  /\ now >= StartTime[req[i].slot] + NoShowGrace
  /\ StartOn(r, "noShow", i, "no_show", 0, "strike")

\* confirmIntent calls expireIntent, which reads the row again.
confirmExpire(r) ==
  /\ pc[r] = "expire"
  /\ Goto(r, IF status[req[r].id] \in Active THEN "write" ELSE "done")
  /\ UNCHANGED <<bookable, rowVars, req, envVars, strikes>>

\* issueStrike comes before the status is written.
issueStrike(r) ==
  /\ pc[r] = "strike"
  /\ \/ /\ strikes' = [strikes EXCEPT ![req[r].id] = @ + 1]
        /\ Goto(r, "write")
     \/ /\ MayFail
        /\ Goto(r, "done")
        /\ UNCHANGED strikes
  /\ UNCHANGED <<bookable, rowVars, req, envVars>>

\* Mutant: the slot is released after every transition, confirmation included.
updateAlwaysReleases(r) ==
  LET i == req[r].id
  IN /\ pc[r] = "write"
     /\ status' = [status EXCEPT ![i] = req[r].to]
     /\ refunds' = [refunds EXCEPT ![i] = @ + req[r].refund]
     /\ Goto(r, "release")
     /\ UNCHANGED <<bookable, req, envVars, strikes>>

\* update and updateStatus write the planned columns whatever the row holds now.
update(r) ==
  LET i == req[r].id
  IN /\ pc[r] = "write"
     /\ status' = [status EXCEPT ![i] = req[r].to]
     /\ refunds' = [refunds EXCEPT ![i] = @ + req[r].refund]
     /\ Goto(r, IF req[r].to = "confirmed" THEN "done" ELSE "release")
     /\ UNCHANGED <<bookable, req, envVars, strikes>>

updateFails(r) ==
  /\ pc[r] = "write" /\ MayFail
  /\ Goto(r, "done")
  /\ UNCHANGED <<bookable, rowVars, req, envVars, strikes>>

releaseSlotBestEffort(r) == pc[r] = "release" /\ releaseSlot(r)

-----------------------------------------------------------------------------
Tick ==
  /\ now < MaxTime
  /\ now' = now + 1
  /\ UNCHANGED <<bookable, rowVars, pc, req, paused, strikes>>

setPaused ==
  /\ MayPause
  /\ paused' = ~paused
  /\ UNCHANGED <<bookable, rowVars, pc, req, now, strikes>>

\* Steps a request takes by itself once it has started.
Continue(r) ==
  \/ createLookup(r) \/ createPersist(r) \/ createReserve(r)
  \/ recurringLookup(r) \/ recurringReserve(r) \/ recurringPersist(r)
  \/ recurringRelease(r)
  \/ confirmExpire(r) \/ issueStrike(r)
  \/ update(r) \/ updateFails(r) \/ releaseSlotBestEffort(r)

(* The routes, and the expiry that the worker calls. *)
Deadlines == 0..MaxTime \cup {Undefined}

\* Every occurrence of the rule is a request of its own.
createRecurringIntents(r) ==
  \E s \in Slots, type \in Types, d \in Deadlines : materializeOccurrence(r, s, type, d)

postIntent(r) ==
  \/ createRecurringIntents(r)
  \/ \E s \in Slots, type \in Types, d \in Deadlines : createIntent(r, s, type, d)
postConfirm(r) == \E i \in Requests : confirmIntent(r, i)
postCancel(r) == \E i \in Requests : cancelIntent(r, i)
postRefund(r) == \E i \in Requests : refundIntent(r, i)
postNoShow(r) == \E i \in Requests : markNoShow(r, i)
postAutoRefundHold(r) == \E i \in Requests, force \in BOOLEAN : autoRefundHold(r, i, force)

Call(r) ==
  \/ postIntent(r) \/ postConfirm(r) \/ postCancel(r) \/ postRefund(r)
  \/ postNoShow(r) \/ postAutoRefundHold(r)
  \/ \E i \in Requests : expireIntent(r, i)

Next ==
  \/ \E r \in Requests : Call(r) \/ Continue(r)
  \/ Tick
  \/ setPaused

Spec == Init /\ [][Next]_vars

\* Every call in flight is resumed: the event loop runs what is ready.
FairSpec == Spec /\ \A r \in Requests : WF_vars(Continue(r))
-----------------------------------------------------------------------------
(* Properties *)

\* Every variable keeps the type its column, flag or clock has.
TypeOK ==
  /\ bookable \subseteq Slots
  /\ status \in [Requests -> Statuses]
  /\ pc \in [Requests -> Steps]
  /\ req \in [Requests -> Plans]
  /\ now \in Nat
  /\ paused \in BOOLEAN
  /\ refunds \in [Requests -> Nat]
  /\ strikes \in [Requests -> Nat]

Quiet(s) == \A r \in Requests : InFlight(r) => req[r].slot # s

\* No slot is promised twice: two different intents that are pending, held or
\* confirmed are for different slots.  The index only covers active intents, so
\* past confirmation this rests on the bookable flag.
NoDoubleBooking ==
  \A i, j \in Requests :
    i # j /\ status[i] \in Live /\ status[j] \in Live
      => req[i].slot # req[j].slot

\* At most one pending or held intent per slot, which the repository's create
\* enforces whatever the optimistic checks of concurrent callers saw.
OneActiveIntentPerSlot ==
  \A i, j \in Requests :
    i # j /\ status[i] \in Active /\ status[j] \in Active
      => req[i].slot # req[j].slot

\* Between requests a slot that is off the market belongs to a live intent:
\* no sequence of calls, failures included, leaks a reservation.
NoLeakedReservation ==
  \A s \in Slots :
    Quiet(s) /\ s \notin bookable => \E i \in On(s) : status[i] \in Live

\* Between requests the slot of a live intent is off the market, or so old that
\* its bundle can no longer be booked (reserveSlot may throw on that boundary).
LiveIntentHoldsSlot ==
  \A i \in Requests :
    status[i] \in Live /\ Quiet(req[i].slot)
      => req[i].slot \notin bookable \/ SlotExpired(req[i].slot)

\* No intent is refunded twice, whichever of cancel, refund and the automatic
\* hold refund are called, in whatever order.
RefundAtMostOnce == \A i \in Requests : refunds[i] <= 1

\* An intent recorded as a no-show has cost its buyer a strike: the strike is
\* issued before the status is written.
NoShowHasStrike ==
  \A i \in Requests : status[i] = "no_show" => strikes[i] >= 1

\* An intent that has ended stays as it ended: no late write revives it or
\* changes how it ended.
EndedStaysEnded ==
  [][\A i \in Requests : status[i] \in Terminal => status'[i] = status[i]]_vars

Lifecycle == INSTANCE BookingLifecycle WITH
  Intents <- Requests,
  state <- status,
  place <- [i \in Requests |-> IF IsRow(i) THEN {req[i].slot} ELSE {}],
  paid <- refunds

\* The service keeps the promise of the abstract lifecycle.
KeepsLifecycle == Lifecycle!Spec
=============================================================================
