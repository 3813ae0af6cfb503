------------------------ MODULE BookingIntentsProofs ------------------------
(***************************************************************************)
(* Theorems about BookingIntents, for every set of slots and requests.     *)
(* Some hold however requests interleave; the others hold when requests on *)
(* one slot do not overlap and escrow is not paused, which the theorems    *)
(* state as assumptions on MayOverlap and MayPause.                        *)
(***************************************************************************)
EXTENDS BookingIntents, TLAPS

\* What a plan may do to an intent whose status is st.
Fits(p, st) ==
  \/ p.to = "confirmed" /\ st \in Active /\ p.refund = 0
  \/ p.to = "expired" /\ st \in Active /\ p.refund = 0
  \/ p.to = "cancelled" /\ st \in Active /\ p.refund = 0
  \/ p.to = "hold_refunded" /\ st = "hold_placed" /\ p.refund = 1
  \/ p.to = "cancelled" /\ st \in Live /\ p.refund = 1
  \/ p.to = "no_show" /\ st = "confirmed" /\ p.refund = 0

\* A request begins with plan p at the given step, and changes nothing else.
Begins(r, p, step) ==
  /\ pc[r] = "new"
  /\ MayOverlap \/ \A q \in Requests : InFlight(q) => req[q].slot # p.slot
  /\ pc' = [pc EXCEPT ![r] = step]
  /\ req' = [req EXCEPT ![r] = p]
  /\ UNCHANGED <<bookable, status, refunds, now, paused, strikes>>

\* A row belongs to the request that stored it, and that request has no more
\* to do than take the slot.
RowsOwned ==
  \A r \in Requests :
    /\ status[r] # "absent" => pc[r] \in {"reserve", "done"} /\ req[r].id = r
    /\ pc[r] \in {"lookup", "persist", "rlookup", "rreserve", "rpersist", "reserve"}
         => req[r].id = r /\ req[r].to \in Active
    /\ pc[r] = "reserve" => status[r] # "absent"

\* A write in flight never creates an active intent, and its target exists.
WritesPlanned ==
  \A r \in Requests :
    pc[r] \in {"write", "strike", "expire"} =>
      req[r].to \in Terminal \cup {"confirmed"} /\ IsRow(req[r].id)

\* The inductive invariant of requests that do not overlap on a slot.
NoLive(s) == \A i \in Requests : status[i] \in Live => req[i].slot # s

\* One request at a time on each slot.
Exclusive ==
  \A r, q \in Requests :
    r # q /\ InFlight(r) /\ InFlight(q) => req[r].slot # req[q].slot

\* A planned write still fits the row it was planned for.
Fresh ==
  \A r \in Requests :
    pc[r] \in {"write", "strike", "expire"} =>
      req[req[r].id].slot = req[r].slot /\ Fits(req[r], status[req[r].id])

\* A live intent has its slot, or is about to take it.
Held ==
  \A i \in Requests :
    status[i] \in Live =>
      \/ req[i].slot \notin bookable
      \/ SlotExpired(req[i].slot)
      \/ pc[i] = "reserve"

\* Where creations and releases stand, the slot has no live intent.
Vacant ==
  \A r \in Requests :
    /\ pc[r] \in {"lookup", "persist", "rpersist", "rrelease", "release"}
         => NoLive(req[r].slot)
    /\ pc[r] \in {"rlookup", "rreserve"}
         => NoLive(req[r].slot) \/ SlotExpired(req[r].slot)
    /\ pc[r] = "reserve" => status[r] \in Active

\* A slot off the market has an owner, or a request that will give it one or
\* put it back.
Kept ==
  \A s \in Slots :
    s \notin bookable =>
      \/ \E i \in Requests : status[i] \in Live /\ req[i].slot = s
      \/ \E r \in Requests : /\ pc[r] \in {"rpersist", "rrelease", "release"}
                            /\ req[r].slot = s

\* A recurring creation has the slot until its row is stored or refused.
Reserved ==
  \A r \in Requests : pc[r] \in {"rpersist", "rrelease"} => req[r].slot \notin bookable

\* Only an intent that has ended was refunded.
OncePaid ==
  \A i \in Requests :
    refunds[i] <= 1 /\ (status[i] \notin Terminal => refunds[i] = 0)

SerialInv ==
  /\ TypeOK /\ RowsOwned /\ WritesPlanned
  /\ paused = FALSE
  /\ Exclusive /\ Fresh /\ Held /\ Vacant /\ Kept /\ Reserved
  /\ NoDoubleBooking /\ OncePaid

-----------------------------------------------------------------------------
\* Most steps need no arithmetic: Zenon is tried first, and SMT on what is left.
USE ZenonT(2), SMTT(15), ZenonT(15)

\* Whatever a call is, it begins as a creation, as a recurring creation, or as
\* a transition that fits the status of the intent it is about.
LEMMA CallShape ==
  ASSUME TypeOK, NEW r \in Requests, Call(r)
  PROVE  \E p \in Plans, step \in Steps :
           /\ Begins(r, p, step)
           /\ \/ /\ step = "lookup" /\ p.id = r /\ p.to \in Active
                 /\ p.slot \in bookable /\ ~SlotExpired(p.slot)
              \/ /\ step = "rlookup" /\ p.id = r /\ p.to \in Active
                 /\ p.slot \in bookable
              \/ /\ step \in {"write", "strike", "expire"}
                 /\ IsRow(p.id) /\ req[p.id].slot = p.slot
                 /\ Fits(p, status[p.id])
<1> DEFINE Goal(p, step) ==
           /\ Begins(r, p, step)
           /\ \/ /\ step = "lookup" /\ p.id = r /\ p.to \in Active
                 /\ p.slot \in bookable /\ ~SlotExpired(p.slot)
              \/ /\ step = "rlookup" /\ p.id = r /\ p.to \in Active
                 /\ p.slot \in bookable
              \/ /\ step \in {"write", "strike", "expire"}
                 /\ IsRow(p.id) /\ req[p.id].slot = p.slot
                 /\ Fits(p, status[p.id])
<1> SUFFICES \E p \in Plans, step \in Steps : Goal(p, step)
  OBVIOUS
<1>1. ASSUME NEW s \in Slots, NEW type \in Types,
             NEW d \in 0..MaxTime \cup {Undefined},
             createIntent(r, s, type, d) \/ materializeOccurrence(r, s, type, d)
      PROVE  \E p \in Plans, step \in Steps : Goal(p, step)
  <2> DEFINE p == NewIntent(r, s, type, d)
  <2>1. p \in Plans /\ p.id = r /\ p.to \in Active /\ p.slot = s
    BY <1>1, TypesAssumption, TimeAssumption
    DEF NewIntent, Plans, BookingTypes, Statuses, Live, Active, Undefined
  <2>2. CASE createIntent(r, s, type, d)
    <3>1. Goal(p, "lookup")
      BY <2>1, <2>2
      DEF createIntent, Start, Begins, Goto, rowVars, envVars
    <3>2. "lookup" \in Steps
      BY DEF Steps
    <3> QED BY <2>1, <3>1, <3>2
  <2>3. CASE materializeOccurrence(r, s, type, d)
    <3>1. Goal(p, "rlookup")
      BY <2>1, <2>3
      DEF materializeOccurrence, Start, Begins, Goto, rowVars, envVars
    <3>2. "rlookup" \in Steps
      BY DEF Steps
    <3> QED BY <2>1, <3>1, <3>2
  <2> QED BY <1>1, <2>2, <2>3
<1>2. ASSUME NEW i \in Requests, NEW op, NEW to \in Statuses, NEW refund \in {0, 1},
             NEW step \in {"write", "strike", "expire"},
             StartOn(r, op, i, to, refund, step),
             Fits([to |-> to, refund |-> refund], status[i])
      PROVE  \E p \in Plans, stp \in Steps : Goal(p, stp)
  <2> DEFINE p == Change(i, to, refund)
  <2>1. /\ p \in Plans /\ p.id = i /\ p.slot = req[i].slot
        /\ p.to = to /\ p.refund = refund
    BY DEF TypeOK, Plans, Change
  <2>2. IsRow(i)
    BY <1>2 DEF StartOn
  <2>3. Fits(p, status[i])
    BY <1>2, <2>1 DEF Fits
  <2>4. Begins(r, p, step)
    BY <1>2, <2>1 DEF StartOn, Start, Begins, Goto, rowVars, envVars
  <2>5. Goal(p, step)
    BY <2>1, <2>2, <2>3, <2>4
  <2> QED BY <2>1, <2>5 DEF Steps
<1>3. ASSUME NEW i \in Requests, confirmIntent(r, i)
      PROVE  \E p \in Plans, step \in Steps : Goal(p, step)
  <2> DEFINE late == req[i].type = "refundable_hold" /\ DeadlinePassed(i)
  <2>1. CASE late
    <3>1. StartOn(r, "confirm", i, "expired", 0, "expire")
      BY <1>3, <2>1 DEF confirmIntent
    <3>2. Fits([to |-> "expired", refund |-> 0], status[i])
      BY <1>3 DEF confirmIntent, Fits
    <3> QED BY Zenon, <1>2, <3>1, <3>2 DEF Statuses, Terminal
  <2>2. CASE ~late
    <3>1. StartOn(r, "confirm", i, "confirmed", 0, "write")
      BY <1>3, <2>2 DEF confirmIntent
    <3>2. Fits([to |-> "confirmed", refund |-> 0], status[i])
      BY <1>3 DEF confirmIntent, Fits
    <3> QED BY Zenon, <1>2, <3>1, <3>2 DEF Statuses, Live
  <2> QED BY <2>1, <2>2
<1>4. ASSUME NEW i \in Requests, cancelIntent(r, i)
      PROVE  \E p \in Plans, step \in Steps : Goal(p, step)
  <2> DEFINE isHold == req[i].type = "refundable_hold" /\ status[i] = "hold_placed"
  <2>1. CASE isHold
    <3>1. StartOn(r, "cancel", i, "hold_refunded", 1, "write")
      <4>1. isHold = TRUE
        BY <2>1
      <4> QED BY <1>4, <4>1 DEF cancelIntent
    <3>2. Fits([to |-> "hold_refunded", refund |-> 1], status[i])
      BY <2>1 DEF Fits
    <3> QED BY Zenon, <1>2, <3>1, <3>2 DEF Statuses, Terminal
  <2>2. CASE ~isHold
    <3>1. StartOn(r, "cancel", i, "cancelled", 0, "write")
      <4>1. isHold = FALSE
        BY <2>2
      <4> QED BY <1>4, <4>1 DEF cancelIntent
    <3>2. Fits([to |-> "cancelled", refund |-> 0], status[i])
      BY <1>4 DEF cancelIntent, Fits
    <3> QED BY Zenon, <1>2, <3>1, <3>2 DEF Statuses, Terminal
  <2> QED BY <2>1, <2>2
<1>5. ASSUME NEW i \in Requests, refundIntent(r, i)
      PROVE  \E p \in Plans, step \in Steps : Goal(p, step)
  <2>1. StartOn(r, "refund", i, "cancelled", 1, "write")
    BY <1>5 DEF refundIntent
  <2>2. status[i] \in Live
    BY <1>5, <2>1 DEF refundIntent, StartOn, IsRow, TypeOK, Statuses
  <2>3. Fits([to |-> "cancelled", refund |-> 1], status[i])
    BY <2>2 DEF Fits
  <2> QED BY Zenon, <1>2, <2>1, <2>3 DEF Statuses, Terminal
<1>6. ASSUME NEW i \in Requests, expireIntent(r, i)
      PROVE  \E p \in Plans, step \in Steps : Goal(p, step)
  <2>1. StartOn(r, "expire", i, "expired", 0, "write")
    BY <1>6 DEF expireIntent
  <2>2. Fits([to |-> "expired", refund |-> 0], status[i])
    BY <1>6 DEF expireIntent, Fits
  <2> QED BY Zenon, <1>2, <2>1, <2>2 DEF Statuses, Terminal
<1>7. ASSUME NEW i \in Requests, NEW force \in BOOLEAN, autoRefundHold(r, i, force)
      PROVE  \E p \in Plans, step \in Steps : Goal(p, step)
  <2>1. StartOn(r, "autoRefund", i, "hold_refunded", 1, "write")
    BY <1>7 DEF autoRefundHold
  <2>2. Fits([to |-> "hold_refunded", refund |-> 1], status[i])
    BY <1>7 DEF autoRefundHold, Fits
  <2> QED BY Zenon, <1>2, <2>1, <2>2 DEF Statuses, Terminal
<1>8. ASSUME NEW i \in Requests, markNoShow(r, i)
      PROVE  \E p \in Plans, step \in Steps : Goal(p, step)
  <2>1. StartOn(r, "noShow", i, "no_show", 0, "strike")
    BY <1>8 DEF markNoShow
  <2>2. Fits([to |-> "no_show", refund |-> 0], status[i])
    BY <1>8 DEF markNoShow, Fits
  <2> QED BY Zenon, <1>2, <2>1, <2>2 DEF Statuses, Terminal
<1> QED
  BY Zenon, <1>1, <1>3, <1>4, <1>5, <1>6, <1>7, <1>8
  DEF Call, createRecurringIntents, Deadlines, postIntent, postConfirm, postCancel, postRefund,
      postNoShow, postAutoRefundHold

\* The initial state is well typed.
LEMMA InitType == Init => TypeOK
<1> SUFFICES ASSUME Init PROVE TypeOK
  OBVIOUS
<1>1. \A r \in Requests : NoPlan(r) \in Plans
  <2> SUFFICES ASSUME NEW r \in Requests PROVE NoPlan(r) \in Plans
    OBVIOUS
  <2>1. (CHOOSE s \in Slots : TRUE) \in Slots
    BY SlotsAssumption
  <2> QED BY <2>1 DEF NoPlan, Plans, BookingTypes, Statuses, Undefined
<1>2. req \in [Requests -> Plans]
  BY <1>1 DEF Init
<1> QED BY Zenon, <1>2 DEF Init, TypeOK, Statuses, Steps

\* Every step of every handler keeps the types.
LEMMA StepType == TypeOK /\ [Next]_vars => TypeOK'
<1> SUFFICES ASSUME TypeOK, [Next]_vars PROVE TypeOK'
  OBVIOUS
<1>1. ASSUME NEW r \in Requests, Call(r) PROVE TypeOK'
  <2>1. PICK p \in Plans, step \in Steps : Begins(r, p, step)
    BY <1>1, CallShape
  <2> QED BY <2>1 DEF Begins, TypeOK
<1>2. ASSUME NEW r \in Requests, Continue(r) PROVE TypeOK'
  <2> USE DEF TypeOK, Goto, rowVars, envVars
  <2>0. req[r] \in Plans /\ req[r].slot \in Slots /\ req[r].id \in Requests
        /\ req[r].to \in Statuses /\ req[r].refund \in {0, 1}
    BY DEF Plans
  <2>1. CASE createLookup(r)
    BY <2>1 DEF createLookup, Steps
  <2>2. CASE createPersist(r)
    BY <2>0, <2>2 DEF createPersist, Persist, Steps
  <2>3. CASE createReserve(r)
    BY <2>0, <2>3 DEF createReserve, reserveSlot, Steps
  <2>4. CASE recurringLookup(r)
    BY <2>4 DEF recurringLookup, Steps
  <2>5. CASE recurringReserve(r)
    BY <2>0, <2>5 DEF recurringReserve, reserveSlot, Steps
  <2>6. CASE recurringPersist(r)
    BY <2>0, <2>6 DEF recurringPersist, Persist, Steps
  <2>7. CASE recurringRelease(r)
    BY <2>0, <2>7 DEF recurringRelease, releaseSlot, Steps
  <2>8. CASE confirmExpire(r)
    BY <2>8 DEF confirmExpire, Steps
  <2>9. CASE issueStrike(r)
    BY <2>0, <2>9 DEF issueStrike, Steps
  <2>10. CASE update(r)
    BY <2>0, <2>10 DEF update, Steps
  <2>11. CASE updateFails(r)
    BY <2>11 DEF updateFails, Steps
  <2>12. CASE releaseSlotBestEffort(r)
    BY <2>0, <2>12 DEF releaseSlotBestEffort, releaseSlot, Steps
  <2> QED
    BY <1>2, <2>1, <2>2, <2>3, <2>4, <2>5, <2>6, <2>7, <2>8, <2>9, <2>10, <2>11,
       <2>12 DEF Continue
<1>3. CASE Tick
  BY <1>3 DEF Tick, TypeOK, rowVars
<1>4. CASE setPaused
  BY <1>4 DEF setPaused, TypeOK, rowVars
<1>5. CASE UNCHANGED vars
  BY <1>5 DEF vars, TypeOK
<1> QED BY <1>1, <1>2, <1>3, <1>4, <1>5 DEF Next

\* Every reachable state is well typed, however the requests interleave.
THEOREM TypeCorrect == Spec => []TypeOK
BY InitType, StepType, PTL DEF Spec

-----------------------------------------------------------------------------
\* Rows stay with the request that stored them, and planned writes stay legal.
LEMMA StepOwned ==
  TypeOK /\ RowsOwned /\ WritesPlanned /\ [Next]_vars => (RowsOwned /\ WritesPlanned)'
<1> SUFFICES ASSUME TypeOK, RowsOwned, WritesPlanned, [Next]_vars
             PROVE  (RowsOwned /\ WritesPlanned)'
  OBVIOUS
<1>1. ASSUME NEW r \in Requests, Call(r) PROVE (RowsOwned /\ WritesPlanned)'
  <2>1. PICK p \in Plans, step \in Steps :
          /\ Begins(r, p, step)
          /\ \/ step \in {"lookup", "rlookup"} /\ p.id = r /\ p.to \in Active
             \/ /\ step \in {"write", "strike", "expire"}
                /\ IsRow(p.id) /\ Fits(p, status[p.id])
    BY <1>1, CallShape
  <2>2. step \in {"write", "strike", "expire"} => p.to \in Terminal \cup {"confirmed"}
    BY <2>1 DEF Fits, Terminal, Active
  <2>3. status[r] = "absent"
    BY <2>1 DEF Begins, RowsOwned
  <2>4. RowsOwned'
    BY <2>1, <2>3 DEF Begins, RowsOwned, TypeOK
  <2>5. WritesPlanned'
    BY SMTT(30), <2>1, <2>2 DEF Begins, WritesPlanned, TypeOK, IsRow
  <2> QED BY <2>4, <2>5
<1>2. ASSUME NEW r \in Requests, Continue(r) PROVE (RowsOwned /\ WritesPlanned)'
  <2> USE DEF TypeOK, RowsOwned, WritesPlanned, IsRow, Goto, rowVars, envVars
  <2>0. req[r].id \in Requests
    BY DEF Plans
  <2>1. CASE createLookup(r)
    BY <2>0, <2>1 DEF createLookup, Active, Terminal
  <2>2. CASE createPersist(r)
    <3>1. req[r].id = r /\ req[r].to \in Active /\ req[r].to # "absent"
      BY <2>2 DEF createPersist, Active
    <3>2. RowsOwned'
      BY <2>2, <3>1 DEF createPersist, Persist
    <3>3. WritesPlanned'
      <4>1. \A i \in Requests : status[i] # "absent" => status'[i] # "absent"
        BY <2>2, <3>1 DEF createPersist, Persist
      <4>2. \A q \in Requests : pc'[q] \in {"write", "strike", "expire"} => pc'[q] = pc[q]
        BY <2>2 DEF createPersist, Persist
      <4>3. req' = req /\ \A q \in Requests : req[q].id \in Requests
        BY <2>2 DEF createPersist, Persist, Plans
      <4> QED BY <4>1, <4>2, <4>3
    <3> QED BY <3>2, <3>3
  <2>3. CASE createReserve(r)
    BY <2>0, <2>3 DEF createReserve, reserveSlot, Active, Terminal
  <2>4. CASE recurringLookup(r)
    BY <2>0, <2>4 DEF recurringLookup, Active, Terminal
  <2>5. CASE recurringReserve(r)
    BY <2>0, <2>5 DEF recurringReserve, reserveSlot, Active, Terminal
  <2>6. CASE recurringPersist(r)
    <3>1. req[r].id = r /\ req[r].to \in Active /\ req[r].to # "absent"
      BY <2>6 DEF recurringPersist, Active
    <3>2. RowsOwned'
      BY <2>6, <3>1 DEF recurringPersist, Persist
    <3>3. WritesPlanned'
      <4>1. \A i \in Requests : status[i] # "absent" => status'[i] # "absent"
        BY <2>6, <3>1 DEF recurringPersist, Persist
      <4>2. \A q \in Requests : pc'[q] \in {"write", "strike", "expire"} => pc'[q] = pc[q]
        BY <2>6 DEF recurringPersist, Persist
      <4>3. req' = req /\ \A q \in Requests : req[q].id \in Requests
        BY <2>6 DEF recurringPersist, Persist, Plans
      <4> QED BY <4>1, <4>2, <4>3
    <3> QED BY <3>2, <3>3
  <2>7. CASE recurringRelease(r)
    BY <2>0, <2>7 DEF recurringRelease, releaseSlot, Active, Terminal
  <2>8. CASE confirmExpire(r)
    BY <2>0, <2>8 DEF confirmExpire, Active, Terminal
  <2>9. CASE issueStrike(r)
    BY <2>0, <2>9 DEF issueStrike, Active, Terminal
  <2>10. CASE update(r)
    BY <2>0, <2>10 DEF update, Active, Terminal
  <2>11. CASE updateFails(r)
    BY <2>0, <2>11 DEF updateFails, Active, Terminal
  <2>12. CASE releaseSlotBestEffort(r)
    BY <2>0, <2>12 DEF releaseSlotBestEffort, releaseSlot, Active, Terminal
  <2> QED
    BY <1>2, <2>1, <2>2, <2>3, <2>4, <2>5, <2>6, <2>7, <2>8, <2>9, <2>10, <2>11, <2>12 DEF Continue
<1>3. CASE Tick
  BY <1>3 DEF Tick, rowVars, RowsOwned, WritesPlanned, IsRow
<1>4. CASE setPaused
  BY <1>4 DEF setPaused, rowVars, RowsOwned, WritesPlanned, IsRow
<1>5. CASE UNCHANGED vars
  BY <1>5 DEF vars, RowsOwned, WritesPlanned, IsRow
<1> QED BY <1>1, <1>2, <1>3, <1>4, <1>5 DEF Next

\* The repository's create is the only step that makes an intent active, and it
\* does so only on a slot that has no active intent.
LEMMA StepOneActive ==
  TypeOK /\ RowsOwned /\ WritesPlanned /\ OneActiveIntentPerSlot /\ [Next]_vars
    => OneActiveIntentPerSlot'
<1> SUFFICES ASSUME TypeOK, RowsOwned, WritesPlanned, OneActiveIntentPerSlot,
                    [Next]_vars
             PROVE  OneActiveIntentPerSlot'
  OBVIOUS
<1> USE DEF OneActiveIntentPerSlot
<1>1. ASSUME NEW r \in Requests, Call(r) PROVE OneActiveIntentPerSlot'
  <2>1. PICK p \in Plans, step \in Steps : Begins(r, p, step)
    BY <1>1, CallShape
  <2>2. status[r] \notin Active
    BY SMTT(30), <2>1 DEF Begins, RowsOwned, Active
  <2> QED BY <2>1, <2>2 DEF Begins, TypeOK
<1>2. ASSUME NEW r \in Requests, Continue(r) PROVE OneActiveIntentPerSlot'
  <2>1. CASE createPersist(r) \/ recurringPersist(r)
    <3>1. req' = req /\ (\/ status' = status
                        \/ /\ ~findBySlotId(req[r].slot)
                           /\ status' = [status EXCEPT ![r] = req[r].to])
      BY <2>1 DEF createPersist, recurringPersist, Persist, rowVars
    <3>2. ~findBySlotId(req[r].slot) =>
            \A j \in Requests : status[j] \in Active => req[j].slot # req[r].slot
      BY DEF findBySlotId, On, IsRow, Active
    <3> QED BY <3>1, <3>2 DEF TypeOK
  <2>2. CASE update(r)
    <3>1. req[r].to \notin Active /\ req[r].id \in Requests
      BY <2>2 DEF update, WritesPlanned, Terminal, Active, TypeOK, Plans
    <3> QED BY <2>2, <3>1 DEF update, TypeOK
  <2>3. CASE UNCHANGED <<status, req>>
    BY <2>3
  <2> QED
    BY <1>2, <2>1, <2>2, <2>3
    DEF Continue, createLookup, createReserve, reserveSlot, recurringLookup,
        recurringReserve, recurringRelease, releaseSlot, confirmExpire, issueStrike,
        updateFails, releaseSlotBestEffort, rowVars
<1>3. CASE Tick \/ setPaused \/ UNCHANGED vars
  BY <1>3 DEF Tick, setPaused, vars, rowVars
<1> QED BY <1>1, <1>2, <1>3 DEF Next

\* However requests interleave, fail or meet a pause, a slot never has two
\* pending or held intents.
THEOREM OneActive == Spec => []OneActiveIntentPerSlot
<1> DEFINE Inv == TypeOK /\ RowsOwned /\ WritesPlanned /\ OneActiveIntentPerSlot
<1>1. Init => Inv
  <2>1. Init => RowsOwned /\ WritesPlanned /\ OneActiveIntentPerSlot
    BY DEF Init, RowsOwned, WritesPlanned, OneActiveIntentPerSlot, Active
  <2> QED BY <2>1, InitType
<1>2. Inv /\ [Next]_vars => Inv'
  BY StepType, StepOwned, StepOneActive
<1> QED BY <1>1, <1>2, PTL DEF Spec

-----------------------------------------------------------------------------
\* A no-show that is about to be written has already cost its buyer a strike.
StruckFirst ==
  \A r \in Requests :
    pc[r] \in {"write", "expire"} /\ req[r].to = "no_show" => strikes[req[r].id] >= 1

\* Only markNoShow plans a no-show, and it goes to the strike service first.
LEMMA NoShowCall ==
  ASSUME TypeOK, NEW r \in Requests, Call(r)
  PROVE  /\ UNCHANGED <<status, strikes>>
         /\ \A q \in Requests \ {r} : req'[q] = req[q] /\ pc'[q] = pc[q]
         /\ req'[r].to = "no_show" => pc'[r] = "strike"
<1> DEFINE Goal == /\ UNCHANGED <<status, strikes>>
                   /\ \A q \in Requests \ {r} : req'[q] = req[q] /\ pc'[q] = pc[q]
                   /\ req'[r].to = "no_show" => pc'[r] = "strike"
<1>1. ASSUME NEW op, NEW s, NEW plan, NEW step, Start(r, op, s, plan, step),
             plan.to = "no_show" => step = "strike"
      PROVE  Goal
  BY <1>1 DEF Start, Goto, rowVars, TypeOK
<1>2. \A s, type, d : createIntent(r, s, type, d) \/ materializeOccurrence(r, s, type, d) => Goal
  BY <1>1 DEF createIntent, materializeOccurrence, NewIntent
<1>3. ASSUME NEW i, NEW op, NEW to, NEW refund, NEW step, StartOn(r, op, i, to, refund, step),
             to = "no_show" => step = "strike"
      PROVE  Goal
  BY <1>1, <1>3 DEF StartOn, Change
<1>4. \A i : confirmIntent(r, i) => Goal
  BY <1>3 DEF confirmIntent
<1>5. \A i : cancelIntent(r, i) => Goal
  BY <1>3 DEF cancelIntent
<1>6. \A i : refundIntent(r, i) \/ expireIntent(r, i) \/ markNoShow(r, i) => Goal
  BY <1>3 DEF refundIntent, expireIntent, markNoShow
<1>7. \A i, force : autoRefundHold(r, i, force) => Goal
  BY <1>3 DEF autoRefundHold
<1>8. Goal
  BY Zenon, <1>2, <1>4, <1>5, <1>6, <1>7
  DEF Call, createRecurringIntents, postIntent, postConfirm, postCancel, postRefund,
      postNoShow, postAutoRefundHold
<1> QED BY <1>8

\* The strike comes before the write, strikes are never taken back, and no other
\* handler plans a no-show.
LEMMA StepStruck ==
  TypeOK /\ RowsOwned /\ StruckFirst /\ NoShowHasStrike /\ [Next]_vars
    => (StruckFirst /\ NoShowHasStrike)'
<1> SUFFICES ASSUME TypeOK, RowsOwned, StruckFirst, NoShowHasStrike, [Next]_vars
             PROVE  (StruckFirst /\ NoShowHasStrike)'
  OBVIOUS
<1>0. \A q \in Requests : req[q].id \in Requests
  BY DEF TypeOK, Plans
<1>1. ASSUME NEW r \in Requests, Call(r) PROVE (StruckFirst /\ NoShowHasStrike)'
  BY <1>0, <1>1, NoShowCall DEF StruckFirst, NoShowHasStrike
<1>2. ASSUME NEW r \in Requests, Continue(r) PROVE (StruckFirst /\ NoShowHasStrike)'
  <2> USE DEF TypeOK, Goto, rowVars, envVars
  <2>1. CASE createPersist(r) \/ recurringPersist(r)
    <3>1. req[r].to # "no_show"
      BY <2>1 DEF createPersist, recurringPersist, RowsOwned, Active
    <3>2. /\ strikes' = strikes /\ req' = req
          /\ \A q \in Requests : pc'[q] \in {"write", "expire"} => pc'[q] = pc[q]
          /\ \A i \in Requests : status'[i] = "no_show" => status[i] = "no_show"
      BY <2>1, <3>1 DEF createPersist, recurringPersist, Persist
    <3> QED BY <1>0, <3>2 DEF StruckFirst, NoShowHasStrike
  <2>2. CASE issueStrike(r)
    <3>1. /\ \A i \in Requests : strikes'[i] \in Nat /\ strikes[i] \in Nat
          /\ \A i \in Requests : strikes'[i] >= strikes[i]
          /\ pc'[r] = "write" => strikes'[req[r].id] >= 1
          /\ \A q \in Requests \ {r} : pc'[q] = pc[q]
          /\ pc'[r] \in {"write", "done"} /\ req' = req /\ status' = status
      BY <1>0, <2>2 DEF issueStrike
    <3>2. StruckFirst'
      BY <1>0, <3>1 DEF StruckFirst
    <3>3. NoShowHasStrike'
      BY <3>1 DEF NoShowHasStrike
    <3> QED BY <3>2, <3>3
  <2>3. CASE update(r)
    <3>1. /\ strikes' = strikes /\ req' = req
          /\ \A q \in Requests : pc'[q] \in {"write", "expire"} => pc'[q] = pc[q]
          /\ \A i \in Requests :
               status'[i] = status[i] \/ (i = req[r].id /\ status'[i] = req[r].to)
      BY <1>0, <2>3 DEF update
    <3>2. req[r].to = "no_show" => strikes[req[r].id] >= 1
      BY <2>3 DEF update, StruckFirst
    <3> QED BY <1>0, <3>1, <3>2 DEF StruckFirst, NoShowHasStrike
  <2>4. CASE confirmExpire(r)
    <3>1. /\ strikes' = strikes /\ req' = req /\ status' = status
          /\ \A q \in Requests : pc'[q] \in {"write", "expire"} => pc[q] \in {"write", "expire"}
      BY <2>4 DEF confirmExpire
    <3> QED BY <1>0, <3>1 DEF StruckFirst, NoShowHasStrike
  <2>5. CASE /\ UNCHANGED <<status, req, strikes>>
             /\ \A q \in Requests : pc'[q] \in {"write", "expire"} => pc'[q] = pc[q]
    BY <1>0, <2>5 DEF StruckFirst, NoShowHasStrike
  <2> QED
    BY <1>2, <2>1, <2>2, <2>3, <2>4, <2>5
    DEF Continue, createLookup, createReserve, reserveSlot, recurringLookup,
        recurringReserve, recurringRelease, releaseSlot, updateFails, releaseSlotBestEffort
<1>3. CASE Tick \/ setPaused \/ UNCHANGED vars
  BY <1>3 DEF Tick, setPaused, vars, rowVars, StruckFirst, NoShowHasStrike
<1> QED BY <1>1, <1>2, <1>3 DEF Next

\* However requests interleave, fail or meet a pause, an intent recorded as a
\* no-show has cost its buyer a strike.
THEOREM NoShowHolds == Spec => []NoShowHasStrike
<1> DEFINE Inv == TypeOK /\ RowsOwned /\ WritesPlanned /\ StruckFirst /\ NoShowHasStrike
<1>1. Init => Inv
  <2>1. Init => RowsOwned /\ WritesPlanned /\ StruckFirst /\ NoShowHasStrike
    BY DEF Init, RowsOwned, WritesPlanned, StruckFirst, NoShowHasStrike
  <2> QED BY <2>1, InitType
<1>2. Inv /\ [Next]_vars => Inv'
  BY StepType, StepOwned, StepStruck
<1> QED BY <1>1, <1>2, PTL DEF Spec

-----------------------------------------------------------------------------
(* Recurring bookings and their confirmations, overlapping at every await: *)
(* the engine takes the slot before it stores the row, so the bookable     *)
(* flag alone keeps its requests apart.                                    *)

OnlyRecurring == Ops \subseteq {"materialize", "confirm"} /\ Types \subseteq {"standard"}

\* Where the requests and the rows of the recurring engine can be.
RecurringKinds ==
  \A r \in Requests :
    /\ pc[r] \in {"new", "rlookup", "rreserve", "rpersist", "rrelease", "write", "done"}
    /\ pc[r] = "write" => req[r].to = "confirmed" /\ status[req[r].id] \in Live
    /\ req[r].type = "standard"
    /\ status[r] \in {"absent"} \cup Live

\* A slot that was taken has one owner: a live intent, or the one request that
\* will store an intent for it or give it back.
Holding(r) == pc[r] \in {"rpersist", "rrelease"}
OwnedOnce ==
  /\ \A i \in Requests : status[i] \in Live => req[i].slot \notin bookable
  /\ \A r \in Requests : Holding(r) => req[r].slot \notin bookable /\ NoLive(req[r].slot)
  /\ \A r, q \in Requests : Holding(r) /\ Holding(q) /\ r # q => req[r].slot # req[q].slot
  /\ \A s \in Slots :
       s \notin bookable =>
         \/ \E i \in Requests : status[i] \in Live /\ req[i].slot = s
         \/ \E r \in Requests : Holding(r) /\ req[r].slot = s

RecurringInv ==
  TypeOK /\ RowsOwned /\ WritesPlanned /\ RecurringKinds /\ OwnedOnce /\ NoDoubleBooking

\* A call is a recurring creation or a confirmation of an active intent.
LEMMA RecurringCall ==
  ASSUME OnlyRecurring, RecurringInv, NEW r \in Requests, Call(r)
  PROVE  \E p \in Plans, step \in {"rlookup", "write"} :
           /\ Begins(r, p, step) /\ p.type = "standard"
           /\ step = "write" => p.to = "confirmed" /\ p.id \in Requests /\ status[p.id] \in Live
<1> DEFINE Goal(p, step) ==
           /\ Begins(r, p, step) /\ p.type = "standard"
           /\ step = "write" => p.to = "confirmed" /\ p.id \in Requests /\ status[p.id] \in Live
<1> SUFFICES \E p \in Plans, step \in {"rlookup", "write"} : Goal(p, step)
  OBVIOUS
<1>1. ASSUME NEW s \in Slots, NEW type \in Types,
             NEW d \in 0..MaxTime \cup {Undefined}, materializeOccurrence(r, s, type, d)
      PROVE  \E p \in Plans, step \in {"rlookup", "write"} : Goal(p, step)
  <2> DEFINE p == NewIntent(r, s, type, d)
  <2>1. type = "standard"
    BY DEF OnlyRecurring
  <2>2. p \in Plans /\ p.slot = s /\ p.type = "standard"
    BY <2>1, TimeAssumption DEF NewIntent, Plans, BookingTypes, Statuses, Live, Active, Undefined
  <2>3. Goal(p, "rlookup")
    BY <1>1, <2>2 DEF materializeOccurrence, Start, Begins, Goto, rowVars, envVars
  <2> QED BY <2>2, <2>3
<1>2. ASSUME NEW i \in Requests, confirmIntent(r, i)
      PROVE  \E p \in Plans, step \in {"rlookup", "write"} : Goal(p, step)
  <2> DEFINE p == Change(i, "confirmed", 0)
  <2>1. req[i].type = "standard"
    BY DEF RecurringInv, RecurringKinds
  <2>2. status[i] \in Active /\ StartOn(r, "confirm", i, "confirmed", 0, "write")
    BY <1>2, <2>1 DEF confirmIntent
  <2>3. /\ p \in Plans /\ p.id = i /\ p.slot = req[i].slot /\ p.type = "standard"
        /\ p.to = "confirmed"
    BY <2>1 DEF RecurringInv, TypeOK, Plans, Change, Statuses, Live
  <2>4. Begins(r, p, "write")
    BY <2>2, <2>3 DEF StartOn, Start, Begins, Goto, rowVars, envVars
  <2>5. Goal(p, "write")
    BY <2>2, <2>3, <2>4 DEF Live
  <2> QED BY <2>3, <2>5
<1>3. ASSUME NEW op, NEW s, NEW plan, NEW step, Start(r, op, s, plan, step)
      PROVE  op \in {"materialize", "confirm"}
  BY <1>3 DEF Start, OnlyRecurring
<1>4. \A s, type, d : ~createIntent(r, s, type, d)
  BY <1>3 DEF createIntent
<1>5. \A i : ~cancelIntent(r, i) /\ ~refundIntent(r, i) /\ ~expireIntent(r, i) /\ ~markNoShow(r, i)
  <2>1. \A op, i, to, refund, step :
          StartOn(r, op, i, to, refund, step) => op \in {"materialize", "confirm"}
    BY <1>3 DEF StartOn
  <2> QED BY <2>1 DEF cancelIntent, refundIntent, expireIntent, markNoShow
<1>6. \A i, force : ~autoRefundHold(r, i, force)
  BY <1>3 DEF autoRefundHold, StartOn
<1> QED
  BY Zenon, <1>1, <1>2, <1>4, <1>5, <1>6
  DEF Call, createRecurringIntents, Deadlines, postIntent, postConfirm, postCancel, postRefund,
      postNoShow, postAutoRefundHold

\* Taking the slot needs the flag, so it finds no other owner.
LEMMA RecurringTake ==
  ASSUME RecurringInv, NEW r \in Requests, recurringReserve(r)
  PROVE  OwnedOnce'
<1>1. req[r].slot \in Slots /\ pc[r] = "rreserve" /\ pc \in [Requests -> Steps]
      /\ \A q \in Requests : req[q].slot \in Slots
  BY DEF RecurringInv, TypeOK, Plans, recurringReserve
<1>2. CASE CanReserve(req[r].slot)
  <2>1. /\ bookable' = bookable \ {req[r].slot} /\ pc' = [pc EXCEPT ![r] = "rpersist"]
        /\ status' = status /\ req' = req /\ req[r].slot \in bookable
    BY <1>2 DEF recurringReserve, reserveSlot, Goto, CanReserve, rowVars
  <2>2. NoLive(req[r].slot) /\ \A q \in Requests : Holding(q) => req[q].slot # req[r].slot
    BY <2>1 DEF RecurringInv, OwnedOnce, NoLive
  <2>3. \A q \in Requests : Holding(q)' <=> Holding(q) \/ q = r
    BY <1>1, <2>1 DEF Holding
  <2>4. \A s \in Slots : NoLive(s)' <=> NoLive(s)
    BY <2>1 DEF NoLive
  <2> QED BY <1>1, <2>1, <2>2, <2>3, <2>4 DEF RecurringInv, OwnedOnce
<1>3. CASE ~CanReserve(req[r].slot)
  <2>1. /\ bookable' = bookable /\ pc' = [pc EXCEPT ![r] = "done"]
        /\ status' = status /\ req' = req
    BY <1>3 DEF recurringReserve, reserveSlot, Goto, rowVars
  <2>2. \A q \in Requests : Holding(q)' <=> Holding(q)
    BY <1>1, <2>1 DEF Holding
  <2> QED BY <1>1, <2>1, <2>2 DEF RecurringInv, OwnedOnce, NoLive
<1> QED BY <1>2, <1>3

\* Storing the row turns the request's hold on the slot into a live intent's; a
\* refusal leaves the hold with the request, which gives the slot back next.
LEMMA RecurringStore ==
  ASSUME RecurringInv, NEW r \in Requests, recurringPersist(r)
  PROVE  OwnedOnce' /\ NoDoubleBooking' /\ RecurringKinds'
<1>1. /\ req[r].slot \in Slots /\ pc[r] = "rpersist" /\ pc \in [Requests -> Steps]
      /\ status \in [Requests -> Statuses] /\ req' = req /\ bookable' = bookable
      /\ \A q \in Requests : req[q].slot \in Slots /\ req[q].id \in Requests
      /\ req[r].to \in Active /\ status[r] = "absent"
  BY DEF RecurringInv, TypeOK, Plans, recurringPersist, Persist, RowsOwned
<1>2. Holding(r) /\ NoLive(req[r].slot) /\ req[r].slot \notin bookable
  BY <1>1 DEF RecurringInv, OwnedOnce, Holding
<1>3. CASE status' = [status EXCEPT ![r] = req[r].to] /\ Goto(r, "done")
  <2>1. \A q \in Requests : Holding(q)' <=> Holding(q) /\ q # r
    BY <1>1, <1>3 DEF Holding, Goto
  <2>2. \A i \in Requests : status'[i] \in Live <=> status[i] \in Live \/ i = r
    BY <1>1, <1>3 DEF Live
  <2>3. OwnedOnce'
    BY <1>1, <1>2, <2>1, <2>2 DEF RecurringInv, OwnedOnce, NoLive
  <2>4. NoDoubleBooking'
    BY <1>1, <1>2, <2>2 DEF RecurringInv, NoDoubleBooking, NoLive
  <2>5. RecurringKinds'
    BY <1>1, <1>3, <2>2 DEF RecurringInv, RecurringKinds, Goto
  <2> QED BY <2>3, <2>4, <2>5
<1>4. CASE status' = status /\ Goto(r, "rrelease")
  <2>1. \A q \in Requests : Holding(q)' <=> Holding(q)
    BY <1>1, <1>4 DEF Holding, Goto
  <2>2. OwnedOnce' /\ NoDoubleBooking'
    BY <1>1, <1>4, <2>1 DEF RecurringInv, OwnedOnce, NoLive, NoDoubleBooking
  <2>3. RecurringKinds'
    BY <1>1, <1>4 DEF RecurringInv, RecurringKinds, Goto
  <2> QED BY <2>2, <2>3
<1> QED BY <1>3, <1>4 DEF recurringPersist, Persist, rowVars

\* Giving the slot back leaves it without an owner.
LEMMA RecurringGiveBack ==
  ASSUME RecurringInv, NEW r \in Requests, recurringRelease(r)
  PROVE  OwnedOnce'
<1>1. /\ req[r].slot \in Slots /\ pc[r] = "rrelease" /\ pc \in [Requests -> Steps]
      /\ status' = status /\ req' = req /\ bookable' = bookable \cup {req[r].slot}
      /\ pc' = [pc EXCEPT ![r] = "done"]
      /\ \A q \in Requests : req[q].slot \in Slots
  BY DEF RecurringInv, TypeOK, Plans, recurringRelease, releaseSlot, Goto, rowVars
<1>2. Holding(r) /\ NoLive(req[r].slot)
      /\ \A q \in Requests : Holding(q) /\ q # r => req[q].slot # req[r].slot
  BY <1>1 DEF RecurringInv, OwnedOnce, Holding
<1>3. \A q \in Requests : Holding(q)' <=> Holding(q) /\ q # r
  BY <1>1 DEF Holding
<1>4. \A s \in Slots : NoLive(s)' <=> NoLive(s)
  BY <1>1 DEF NoLive
<1>5. (\A i \in Requests : status[i] \in Live => req[i].slot \notin bookable)'
  BY <1>1, <1>2 DEF RecurringInv, OwnedOnce, NoLive
<1> QED BY <1>1, <1>2, <1>3, <1>4, <1>5 DEF RecurringInv, OwnedOnce

\* Every step of the recurring engine keeps the one owner of each taken slot.
LEMMA RecurringStep ==
  ASSUME OnlyRecurring, RecurringInv, [Next]_vars
  PROVE  RecurringInv'
<1>0. (TypeOK /\ RowsOwned /\ WritesPlanned)'
  BY StepType, StepOwned DEF RecurringInv
<1>1. /\ pc \in [Requests -> Steps] /\ status \in [Requests -> Statuses]
      /\ req \in [Requests -> Plans]
      /\ \A q \in Requests : req[q].slot \in Slots /\ req[q].id \in Requests
  BY DEF RecurringInv, TypeOK, Plans
<1> DEFINE Goal == RecurringKinds' /\ OwnedOnce' /\ NoDoubleBooking'
<1>2. ASSUME NEW r \in Requests, Call(r) PROVE Goal
  <2>1. PICK p \in Plans, step \in {"rlookup", "write"} :
           /\ Begins(r, p, step) /\ p.type = "standard"
           /\ step = "write" => p.to = "confirmed" /\ p.id \in Requests /\ status[p.id] \in Live
    BY <1>2, RecurringCall
  <2>2. /\ pc[r] = "new" /\ status[r] = "absent" /\ status' = status /\ bookable' = bookable
        /\ pc' = [pc EXCEPT ![r] = step] /\ req' = [req EXCEPT ![r] = p]
    BY <2>1 DEF Begins, RecurringInv, RowsOwned
  <2>3. \A q \in Requests : Holding(q)' <=> Holding(q)
    BY <1>1, <2>2 DEF Holding
  <2>4. \A q \in Requests : Holding(q) \/ status[q] \in Live => req'[q] = req[q]
    BY <1>1, <2>2 DEF Holding, Live, Active
  <2>5. OwnedOnce'
    BY <1>1, <2>2, <2>3, <2>4 DEF RecurringInv, OwnedOnce, NoLive
  <2>6. NoDoubleBooking'
    BY <2>2, <2>4 DEF RecurringInv, NoDoubleBooking
  <2>7. RecurringKinds'
    BY <1>1, <2>1, <2>2 DEF RecurringInv, RecurringKinds
  <2> QED BY <2>5, <2>6, <2>7
<1>3. ASSUME NEW r \in Requests, UNCHANGED <<bookable, status, req>>,
             NEW step \in {"rreserve", "done"}, Goto(r, step), ~Holding(r)
      PROVE  Goal
  <2>1. \A q \in Requests : Holding(q)' <=> Holding(q)
    BY <1>1, <1>3 DEF Holding, Goto
  <2>2. OwnedOnce' /\ NoDoubleBooking'
    BY <1>1, <1>3, <2>1 DEF RecurringInv, OwnedOnce, NoLive, NoDoubleBooking
  <2>3. RecurringKinds'
    BY <1>1, <1>3 DEF RecurringInv, RecurringKinds, Goto
  <2> QED BY <2>2, <2>3
<1>4. ASSUME NEW r \in Requests, Continue(r) PROVE Goal
  <2>1. CASE recurringLookup(r) \/ updateFails(r)
    BY <1>3, <2>1 DEF recurringLookup, updateFails, Holding, rowVars
  <2>2. CASE recurringReserve(r)
    <3>1. /\ UNCHANGED <<status, req>>
          /\ pc' = [pc EXCEPT ![r] = "rpersist"] \/ pc' = [pc EXCEPT ![r] = "done"]
      BY <2>2 DEF recurringReserve, reserveSlot, Goto, rowVars
    <3>2. RecurringKinds' /\ NoDoubleBooking'
      BY <1>1, <3>1 DEF RecurringInv, RecurringKinds, NoDoubleBooking
    <3> QED BY <2>2, <3>2, RecurringTake
  <2>3. CASE recurringPersist(r)
    BY <2>3, RecurringStore
  <2>4. CASE recurringRelease(r)
    <3>1. UNCHANGED <<status, req>> /\ pc' = [pc EXCEPT ![r] = "done"]
      BY <2>4 DEF recurringRelease, releaseSlot, Goto, rowVars
    <3>2. RecurringKinds' /\ NoDoubleBooking'
      BY <1>1, <3>1 DEF RecurringInv, RecurringKinds, NoDoubleBooking
    <3> QED BY <2>4, <3>2, RecurringGiveBack
  <2>5. CASE update(r)
    <3>1. req[r].to = "confirmed" /\ status[req[r].id] \in Live /\ pc[r] = "write"
      BY <2>5 DEF update, RecurringInv, RecurringKinds
    <3>2. /\ status' = [status EXCEPT ![req[r].id] = "confirmed"] /\ req' = req
          /\ bookable' = bookable /\ pc' = [pc EXCEPT ![r] = "done"]
      BY <2>5, <3>1 DEF update, Goto
    <3>3. \A i \in Requests : status'[i] \in Live <=> status[i] \in Live
      BY <1>1, <3>1, <3>2 DEF Live
    <3>4. \A q \in Requests : Holding(q)' <=> Holding(q)
      BY <1>1, <3>1, <3>2 DEF Holding
    <3>5. OwnedOnce' /\ NoDoubleBooking'
      BY <1>1, <3>2, <3>3, <3>4 DEF RecurringInv, OwnedOnce, NoLive, NoDoubleBooking
    <3>6. RecurringKinds'
      BY <1>1, <3>2, <3>3 DEF RecurringInv, RecurringKinds, Live
    <3> QED BY <3>5, <3>6
  <2>6. pc[r] \in {"rlookup", "rreserve", "rpersist", "rrelease", "write", "new", "done"}
    BY DEF RecurringInv, RecurringKinds
  <2> QED
    BY <1>4, <2>1, <2>2, <2>3, <2>4, <2>5, <2>6
    DEF Continue, createLookup, createPersist, createReserve, confirmExpire, issueStrike,
        releaseSlotBestEffort
<1>5. ASSUME Tick \/ setPaused \/ UNCHANGED vars PROVE Goal
  <2>1. UNCHANGED <<bookable, status, pc, req>>
    BY <1>5 DEF Tick, setPaused, vars, rowVars
  <2> QED
    BY <2>1 DEF RecurringInv, RecurringKinds, OwnedOnce, Holding, NoLive, NoDoubleBooking
<1> QED BY <1>0, <1>2, <1>4, <1>5 DEF Next, RecurringInv

\* Recurring bookings and their confirmations promise no slot twice and, when
\* they fail half-way, leak no reservation, although they overlap at every await
\* and escrow is paused between their steps.
THEOREM RecurringHolds ==
  ASSUME OnlyRecurring PROVE Spec => [](NoDoubleBooking /\ NoLeakedReservation)
<1>1. Init => RecurringInv
  <2>1. Init => RowsOwned /\ WritesPlanned /\ OwnedOnce /\ NoDoubleBooking
    BY DEF Init, RowsOwned, WritesPlanned, OwnedOnce, Holding, NoLive, NoDoubleBooking, Live, Active
  <2>2. Init => RecurringKinds
    BY DEF Init, RecurringKinds, NoPlan
  <2> QED BY <2>1, <2>2, InitType DEF RecurringInv
<1>2. RecurringInv /\ [Next]_vars => RecurringInv'
  BY RecurringStep
<1>3. RecurringInv => NoDoubleBooking /\ NoLeakedReservation
  <2> SUFFICES ASSUME RecurringInv PROVE NoLeakedReservation
    BY DEF RecurringInv
  <2> SUFFICES ASSUME NEW s \in Slots, Quiet(s), s \notin bookable
               PROVE  \E i \in On(s) : status[i] \in Live
    BY DEF NoLeakedReservation
  <2>1. ~ \E r \in Requests : Holding(r) /\ req[r].slot = s
    BY DEF Quiet, InFlight, Holding
  <2>2. PICK i \in Requests : status[i] \in Live /\ req[i].slot = s
    BY <2>1 DEF RecurringInv, OwnedOnce
  <2> QED BY <2>2 DEF On, IsRow, Live, Active
<1> QED BY <1>1, <1>2, <1>3, PTL DEF Spec

-----------------------------------------------------------------------------
\* What a request in flight leaves alone when it only moves on: a step that
\* changes no row, no flag and no plan keeps the invariant if it ends the
\* request, or if the new step asks no more of the state than the old one.
LEMMA SerialMove ==
  ASSUME SerialInv, NEW r \in Requests, NEW step \in Steps,
         InFlight(r),
         pc' = [pc EXCEPT ![r] = step],
         UNCHANGED <<bookable, status, refunds, req, now, paused>>,
         (RowsOwned /\ WritesPlanned)', TypeOK',
         pc[r] \notin {"rpersist", "rrelease", "release", "reserve"},
         \/ step = "done"
         \/ step = "persist" /\ pc[r] = "lookup"
         \/ step = "rreserve" /\ pc[r] = "rlookup"
         \/ step = "write" /\ pc[r] \in {"expire", "strike"}
  PROVE  SerialInv'
<1> USE DEF SerialInv
<1>0. pc \in [Requests -> Steps]
  BY DEF TypeOK
<1>1. Exclusive'
  BY <1>0 DEF Exclusive, InFlight
<1>2. Fresh'
  BY <1>0 DEF Fresh
<1>3. Held'
  BY <1>0 DEF Held, SlotExpired
<1>4. Vacant'
  BY <1>0 DEF Vacant, NoLive, SlotExpired
<1>5. Kept'
  BY <1>0 DEF Kept
<1>6. NoDoubleBooking' /\ OncePaid' /\ Reserved'
  BY <1>0 DEF NoDoubleBooking, OncePaid, Reserved
<1> QED BY <1>1, <1>2, <1>3, <1>4, <1>5, <1>6

\* A call begins only where no other request is in flight.
LEMMA SerialCall ==
  ASSUME ~MayOverlap, SerialInv, NEW r \in Requests, Call(r),
         (RowsOwned /\ WritesPlanned)', TypeOK'
  PROVE  SerialInv'
<1> USE DEF SerialInv
<1>1. PICK p \in Plans, step \in Steps :
        /\ Begins(r, p, step)
        /\ \/ /\ step = "lookup" /\ p.id = r /\ p.to \in Active
              /\ p.slot \in bookable /\ ~SlotExpired(p.slot)
           \/ /\ step = "rlookup" /\ p.id = r /\ p.to \in Active
              /\ p.slot \in bookable
           \/ /\ step \in {"write", "strike", "expire"}
              /\ IsRow(p.id) /\ req[p.id].slot = p.slot
              /\ Fits(p, status[p.id])
  BY CallShape
<1>2. /\ \A q \in Requests : InFlight(q) => req[q].slot # p.slot
      /\ pc[r] = "new" /\ status[r] = "absent"
      /\ UNCHANGED <<bookable, status, refunds, now, paused>>
  BY <1>1 DEF Begins, RowsOwned
<1>3. /\ pc'[r] = step /\ req'[r] = p
      /\ \A q \in Requests : q # r => pc'[q] = pc[q] /\ req'[q] = req[q]
  BY <1>1 DEF Begins, TypeOK
<1>4. \A i \in Requests : status[i] \in Live => i # r
  BY <1>2 DEF Live, Active
<1>5. Exclusive'
  <2> SUFFICES ASSUME NEW q \in Requests, NEW x \in Requests, q # x,
                      InFlight(q)', InFlight(x)'
               PROVE  req'[q].slot # req'[x].slot
    BY Zenon DEF Exclusive
  <2>1. \A y \in Requests : y # r /\ InFlight(y)' => InFlight(y) /\ req'[y] = req[y]
    BY Zenon, <1>3 DEF InFlight
  <2>2. CASE q # r /\ x # r
    BY Zenon, <2>1, <2>2 DEF Exclusive
  <2>3. CASE q = r \/ x = r
    BY Zenon, <1>2, <1>3, <2>1, <2>3
  <2> QED BY Zenon, <2>2, <2>3
<1>6. Fresh'
  <2> SUFFICES ASSUME NEW q \in Requests, pc'[q] \in {"write", "strike", "expire"}
               PROVE  /\ req'[req'[q].id].slot = req'[q].slot
                      /\ Fits(req'[q], status'[req'[q].id])
    BY Zenon DEF Fresh, Fits
  <2>1. CASE q = r
    <3>1. p.id \in Requests /\ p.id # r
      BY <1>1, <1>2, <1>3, <2>1 DEF Plans, IsRow, Active
    <3> QED BY <1>1, <1>2, <1>3, <2>1, <3>1 DEF Active
  <2>2. CASE q # r
    <3>1. req[q].id \in Requests /\ req[q].id # r
      BY <1>2, <1>3, <2>2 DEF TypeOK, Plans, WritesPlanned, IsRow
    <3>2. /\ req[req[q].id].slot = req[q].slot
          /\ Fits(req[q], status[req[q].id])
      BY Zenon, <1>3, <2>2 DEF Fresh
    <3> QED BY Zenon, <1>2, <1>3, <2>2, <3>1, <3>2
  <2> QED BY <2>1, <2>2
<1>7. Held'
  BY <1>2, <1>3, <1>4 DEF Held, SlotExpired
<1>8. \A s : NoLive(s)' <=> NoLive(s)
  BY <1>2, <1>3, <1>4 DEF NoLive
<1>9. p.slot \in bookable => NoLive(p.slot) \/ SlotExpired(p.slot)
  BY <1>2 DEF Held, NoLive, InFlight
<1>10. Vacant'
  <2> SUFFICES ASSUME NEW q \in Requests
               PROVE  /\ pc'[q] \in {"lookup", "persist", "rpersist", "rrelease", "release"}
                           => NoLive(req'[q].slot)
                      /\ pc'[q] \in {"rlookup", "rreserve"}
                           => NoLive(req'[q].slot) \/ SlotExpired(req'[q].slot)
                      /\ pc'[q] = "reserve" => status[q] \in Active
    BY <1>2, <1>8 DEF Vacant, SlotExpired
  <2>1. CASE q = r
    BY <1>1, <1>3, <1>9, <2>1
  <2>2. CASE q # r
    BY <1>3, <2>2 DEF Vacant
  <2> QED BY <2>1, <2>2
<1>11. Kept'
  <2> SUFFICES ASSUME NEW s \in Slots, s \notin bookable
               PROVE  \/ \E i \in Requests : status[i] \in Live /\ req'[i].slot = s
                      \/ \E q \in Requests : /\ pc'[q] \in {"rpersist", "rrelease", "release"}
                                            /\ req'[q].slot = s
    BY <1>2 DEF Kept
  <2>1. CASE \E i \in Requests : status[i] \in Live /\ req[i].slot = s
    BY Zenon, <1>3, <1>4, <2>1
  <2>2. CASE \E q \in Requests : /\ pc[q] \in {"rpersist", "rrelease", "release"}
                                /\ req[q].slot = s
    <3>1. PICK q \in Requests : /\ pc[q] \in {"rpersist", "rrelease", "release"}
                               /\ req[q].slot = s
      BY Zenon, <2>2
    <3>2. q # r
      BY <1>2, <3>1
    <3> QED BY Zenon, <1>3, <3>1, <3>2
  <2> QED BY Zenon, <2>1, <2>2 DEF Kept
<1>12. NoDoubleBooking'
  BY <1>2, <1>3, <1>4 DEF NoDoubleBooking
<1>13. OncePaid'
  BY <1>2 DEF OncePaid
<1>14. Reserved'
  BY <1>1, <1>2, <1>3 DEF Reserved
<1> QED BY <1>2, <1>5, <1>6, <1>7, <1>10, <1>11, <1>12, <1>13, <1>14

\* The row is stored on a slot that no live intent has.
LEMMA SerialPersist ==
  ASSUME SerialInv, NEW r \in Requests, createPersist(r) \/ recurringPersist(r),
         (RowsOwned /\ WritesPlanned)', TypeOK'
  PROVE  SerialInv'
<1> USE DEF SerialInv
<1> DEFINE Shape(step) ==
        /\ pc' = [pc EXCEPT ![r] = step]
        /\ UNCHANGED <<bookable, refunds, req, now, paused>>
        /\ \/ /\ status' = [status EXCEPT ![r] = req[r].to]
              /\ <<pc[r], step>> \in {<<"persist", "reserve">>, <<"rpersist", "done">>}
           \/ /\ status' = status
              /\ <<pc[r], step>> \in {<<"persist", "done">>, <<"rpersist", "rrelease">>}
<1>0. PICK step \in {"reserve", "done", "rrelease"} : Shape(step)
  <2>1. CASE createPersist(r)
    <3>1. Shape("reserve") \/ Shape("done")
      BY <2>1 DEF createPersist, Persist, Goto, rowVars, envVars
    <3> QED BY <3>1
  <2>2. CASE recurringPersist(r)
    <3>1. Shape("done") \/ Shape("rrelease")
      BY <2>2 DEF recurringPersist, Persist, Goto, rowVars, envVars
    <3> QED BY <3>1
  <2> QED BY <2>1, <2>2
<1>1. /\ pc'[r] = step
      /\ \A q \in Requests : q # r => pc'[q] = pc[q] /\ status'[q] = status[q]
  BY <1>0 DEF TypeOK
<1>2. /\ NoLive(req[r].slot) /\ InFlight(r) /\ status[r] = "absent"
      /\ req[r].to \in Active
  BY <1>0 DEF Vacant, InFlight, RowsOwned
<1>3. status'[r] \in {"absent", req[r].to}
  BY <1>0, <1>2 DEF TypeOK
<1>4. Exclusive'
  BY Zenon, <1>0, <1>1, <1>2 DEF Exclusive, InFlight
<1>5. Fresh'
  <2> SUFFICES ASSUME NEW q \in Requests, pc'[q] \in {"write", "strike", "expire"}
               PROVE  /\ req[req[q].id].slot = req[q].slot
                      /\ Fits(req[q], status'[req[q].id])
    BY <1>0 DEF Fresh, Fits
  <2>1. q # r
    BY <1>0, <1>1
  <2>2. req[q].id \in Requests /\ req[q].id # r
    BY <1>1, <1>2, <2>1 DEF TypeOK, Plans, WritesPlanned, IsRow
  <2> QED BY Zenon, <1>1, <2>1, <2>2 DEF Fresh
<1>6. Held'
  <2> SUFFICES ASSUME NEW i \in Requests, status'[i] \in Live
               PROVE  \/ req[i].slot \notin bookable
                      \/ SlotExpired(req[i].slot)
                      \/ pc'[i] = "reserve"
    BY <1>0 DEF Held, SlotExpired
  <2>1. CASE i # r
    BY <1>1, <2>1 DEF Held
  <2>2. CASE i = r /\ pc[r] = "persist"
    BY <1>0, <1>1, <1>2, <2>2 DEF Live, Active
  <2>3. CASE i = r /\ pc[r] = "rpersist"
    <3>1. req[r].slot \in Slots
      BY DEF TypeOK, Plans
    <3>2. req[r].slot \notin bookable
      BY <2>3 DEF Reserved
    <3> QED BY <2>3, <3>2
  <2> QED BY <1>0, <2>1, <2>2, <2>3
<1>7. Vacant'
  <2> SUFFICES ASSUME NEW q \in Requests
               PROVE  /\ pc'[q] \in {"lookup", "persist", "rpersist", "rrelease", "release"}
                           => NoLive(req[q].slot)'
                      /\ pc'[q] \in {"rlookup", "rreserve"}
                           => NoLive(req[q].slot)' \/ SlotExpired(req[q].slot)
                      /\ pc'[q] = "reserve" => status'[q] \in Active
    BY Zenon, <1>0 DEF Vacant, SlotExpired
  <2>1. CASE q = r
    BY Zenon, <1>0, <1>1, <1>2, <2>1 DEF NoLive, Live, Active, TypeOK
  <2>2. CASE q # r
    <3>1. InFlight(q) => req[q].slot # req[r].slot
      BY <1>2, <2>2 DEF Exclusive
    <3>2. InFlight(q) /\ NoLive(req[q].slot) => NoLive(req[q].slot)'
      BY SMTT(30), <1>0, <1>1, <3>1 DEF NoLive
    <3> QED BY <1>1, <2>2, <3>2 DEF Vacant, InFlight
  <2> QED BY <2>1, <2>2
<1>8. Kept'
  <2> SUFFICES ASSUME NEW s \in Slots, s \notin bookable
               PROVE  \/ \E i \in Requests : status'[i] \in Live /\ req[i].slot = s
                      \/ \E q \in Requests : /\ pc'[q] \in {"rpersist", "rrelease", "release"}
                                            /\ req[q].slot = s
    BY <1>0 DEF Kept
  <2>1. CASE \E i \in Requests : status[i] \in Live /\ req[i].slot = s
    BY <1>1, <1>2, <2>1 DEF Live, Active
  <2>2. CASE \E q \in Requests : /\ pc[q] \in {"rpersist", "rrelease", "release"}
                                /\ req[q].slot = s
    <3>1. PICK q \in Requests : /\ pc[q] \in {"rpersist", "rrelease", "release"}
                               /\ req[q].slot = s
      BY <2>2
    <3>2. CASE q # r
      BY Zenon, <1>1, <3>1, <3>2
    <3>3. CASE q = r
      BY Zenon, <1>0, <1>1, <1>2, <3>1, <3>3 DEF Live, TypeOK
    <3> QED BY <3>2, <3>3
  <2> QED BY <2>1, <2>2 DEF Kept
<1>9. NoDoubleBooking'
  BY <1>0, <1>1, <1>2 DEF NoDoubleBooking, NoLive
<1>10. OncePaid'
  BY <1>0, <1>1, <1>2, <1>3 DEF OncePaid, Active, Terminal
<1>11. Reserved'
  BY <1>0, <1>1 DEF Reserved
<1> QED BY <1>0, <1>4, <1>5, <1>6, <1>7, <1>8, <1>9, <1>10, <1>11

\* Taking the slot: for createIntent the row is there already, for the recurring
\* engine the slot has no live intent.
LEMMA SerialReserve ==
  ASSUME SerialInv, NEW r \in Requests, createReserve(r) \/ recurringReserve(r),
         (RowsOwned /\ WritesPlanned)', TypeOK'
  PROVE  SerialInv'
<1> USE DEF SerialInv
<1> DEFINE s == req[r].slot
<1>0. PICK step \in {"done", "rpersist"} :
        /\ pc' = [pc EXCEPT ![r] = step]
        /\ UNCHANGED <<status, refunds, req, now, paused>>
        /\ \/ /\ CanReserve(s) /\ bookable' = bookable \ {s}
              /\ <<pc[r], step>> \in {<<"reserve", "done">>, <<"rreserve", "rpersist">>}
           \/ /\ ~CanReserve(s) /\ bookable' = bookable
              /\ step = "done" /\ pc[r] \in {"reserve", "rreserve"}
  BY DEF createReserve, recurringReserve, reserveSlot, Goto, rowVars, envVars
<1>1. /\ pc'[r] = step /\ InFlight(r) /\ s \in Slots
      /\ \A q \in Requests : q # r => pc'[q] = pc[q]
  BY <1>0 DEF TypeOK, InFlight, Plans
<1>2. Exclusive'
  BY <1>0, <1>1 DEF Exclusive, InFlight
<1>3. Fresh'
  BY <1>0, <1>1 DEF Fresh
<1>4. Held'
  <2> SUFFICES ASSUME NEW i \in Requests, status[i] \in Live
               PROVE  \/ req[i].slot \notin bookable'
                      \/ SlotExpired(req[i].slot)
                      \/ pc'[i] = "reserve"
    BY <1>0 DEF Held, SlotExpired
  <2>1. CASE pc[i] = "reserve" /\ i = r
    BY <1>0, <1>1, <2>1 DEF CanReserve
  <2>2. CASE pc[i] # "reserve" \/ i # r
    BY <1>0, <1>1, <2>2 DEF Held
  <2> QED BY <2>1, <2>2
<1>5. Vacant'
  <2> SUFFICES ASSUME NEW q \in Requests
               PROVE  /\ pc'[q] \in {"lookup", "persist", "rpersist", "rrelease", "release"}
                           => NoLive(req[q].slot)
                      /\ pc'[q] \in {"rlookup", "rreserve"}
                           => NoLive(req[q].slot) \/ SlotExpired(req[q].slot)
                      /\ pc'[q] = "reserve" => status[q] \in Active
    BY Zenon, <1>0 DEF Vacant, SlotExpired, NoLive
  <2>1. CASE q = r
    BY Zenon, <1>0, <1>1, <2>1 DEF Vacant, CanReserve
  <2>2. CASE q # r
    BY Zenon, <1>1, <2>2 DEF Vacant
  <2> QED BY <2>1, <2>2
<1>6. Kept'
  <2> SUFFICES ASSUME NEW x \in Slots, x \notin bookable'
               PROVE  \/ \E i \in Requests : status[i] \in Live /\ req[i].slot = x
                      \/ \E q \in Requests : /\ pc'[q] \in {"rpersist", "rrelease", "release"}
                                            /\ req[q].slot = x
    BY <1>0 DEF Kept
  <2>1. CASE x \notin bookable
    BY <1>0, <1>1, <2>1 DEF Kept
  <2>2. CASE x \in bookable /\ pc[r] = "reserve"
    BY <1>0, <2>2 DEF Vacant, Live
  <2>3. CASE x \in bookable /\ pc[r] = "rreserve"
    BY <1>0, <1>1, <2>3
  <2> QED BY <1>0, <2>1, <2>2, <2>3
<1>7. NoDoubleBooking' /\ OncePaid'
  BY Zenon, <1>0 DEF NoDoubleBooking, OncePaid
<1>8. Reserved'
  BY <1>0, <1>1 DEF Reserved
<1> QED BY SMTT(30), <1>0, <1>2, <1>3, <1>4, <1>5, <1>6, <1>7, <1>8

\* Putting the slot back: it has no live intent.
LEMMA SerialRelease ==
  ASSUME SerialInv, NEW r \in Requests, recurringRelease(r) \/ releaseSlotBestEffort(r),
         (RowsOwned /\ WritesPlanned)', TypeOK'
  PROVE  SerialInv'
<1> USE DEF SerialInv
<1> DEFINE s == req[r].slot
<1>0. /\ pc' = [pc EXCEPT ![r] = "done"]
      /\ UNCHANGED <<status, refunds, req, now, paused>>
      /\ bookable' = bookable \cup {s}
      /\ pc[r] \in {"rrelease", "release"}
  BY DEF recurringRelease, releaseSlotBestEffort, releaseSlot, Goto, rowVars, envVars
<1>1. /\ pc'[r] = "done" /\ InFlight(r) /\ NoLive(s)
      /\ \A q \in Requests : q # r => pc'[q] = pc[q]
  BY <1>0 DEF TypeOK, InFlight, Vacant
<1>2. Exclusive'
  BY SMTT(30), <1>0, <1>1 DEF Exclusive, InFlight
<1>3. Fresh'
  BY Zenon, <1>0, <1>1 DEF Fresh
<1>4. Held'
  <2> SUFFICES ASSUME NEW i \in Requests, status[i] \in Live
               PROVE  \/ req[i].slot \notin bookable'
                      \/ SlotExpired(req[i].slot)
                      \/ pc'[i] = "reserve"
    BY <1>0 DEF Held, SlotExpired
  <2>1. req[i].slot # s
    BY Zenon, <1>1 DEF NoLive
  <2> QED BY <1>0, <1>1, <2>1 DEF Held
<1>5. Vacant'
  BY Zenon, <1>0, <1>1 DEF Vacant, SlotExpired, NoLive
<1>6. Kept'
  <2> SUFFICES ASSUME NEW x \in Slots, x \notin bookable'
               PROVE  \/ \E i \in Requests : status[i] \in Live /\ req[i].slot = x
                      \/ \E q \in Requests : /\ pc'[q] \in {"rpersist", "rrelease", "release"}
                                            /\ req[q].slot = x
    BY <1>0 DEF Kept
  <2>1. x # s /\ x \notin bookable
    BY <1>0
  <2> QED BY <1>1, <2>1 DEF Kept
<1>7. NoDoubleBooking' /\ OncePaid'
  BY <1>0 DEF NoDoubleBooking, OncePaid
<1>8. Reserved'
  <2> SUFFICES ASSUME NEW q \in Requests, pc'[q] \in {"rpersist", "rrelease"}
               PROVE  req[q].slot \notin bookable'
    BY <1>0 DEF Reserved
  <2>1. q # r /\ pc[q] = pc'[q]
    BY <1>0, <1>1
  <2>2. req[q].slot # s
    BY <1>1, <2>1 DEF Exclusive, InFlight
  <2> QED BY <1>0, <2>1, <2>2 DEF Reserved
<1> QED BY <1>0, <1>2, <1>3, <1>4, <1>5, <1>6, <1>7, <1>8

\* A write still fits its row; one that ends the intent leaves its slot without
\* a live intent, because there was only that one.
LEMMA SerialUpdate ==
  ASSUME SerialInv, NEW r \in Requests, update(r),
         (RowsOwned /\ WritesPlanned)', TypeOK'
  PROVE  SerialInv'
<1> USE DEF SerialInv
<1> DEFINE i == req[r].id
           s == req[r].slot
<1>0. /\ pc[r] = "write"
      /\ status' = [status EXCEPT ![i] = req[r].to]
      /\ refunds' = [refunds EXCEPT ![i] = @ + req[r].refund]
      /\ pc' = [pc EXCEPT ![r] = IF req[r].to = "confirmed" THEN "done" ELSE "release"]
      /\ UNCHANGED <<bookable, req, now, paused>>
  BY SMTT(30) DEF update, Goto, envVars
<1>1. /\ i \in Requests /\ s \in Slots /\ InFlight(r)
      /\ Fits(req[r], status[i]) /\ req[i].slot = s
  BY Zenon, <1>0 DEF TypeOK, Plans, Fresh, InFlight
<1>2. /\ status[i] \in Live
      /\ \/ req[r].to = "confirmed"
         \/ req[r].to \in Terminal /\ req[r].to \notin Live
  BY Zenon, <1>1 DEF Fits, Live, Active, Terminal
<1>3. /\ status'[i] = req[r].to
      /\ refunds'[i] = refunds[i] + req[r].refund
      /\ \A j \in Requests : j # i => status'[j] = status[j] /\ refunds'[j] = refunds[j]
      /\ \A q \in Requests : q # r => pc'[q] = pc[q]
      /\ pc'[r] = IF req[r].to = "confirmed" THEN "done" ELSE "release"
  BY <1>0, <1>1 DEF TypeOK
<1>4. i # r /\ pc[i] = "done"
  <2>1. pc[i] \in {"reserve", "done"}
    <3>1. status[i] # "absent"
      BY Zenon, <1>2 DEF Live, Active
    <3> QED BY Zenon, <1>1, <3>1 DEF RowsOwned
  <2>2. i # r
    BY <1>0, <2>1
  <2> QED BY Zenon, <1>1, <2>1, <2>2 DEF Exclusive, InFlight
<1>5. \A q \in Requests : q # r /\ InFlight(q) => req[q].slot # s
  BY Zenon, <1>1 DEF Exclusive
<1>6. Exclusive'
  BY Zenon, <1>0, <1>1, <1>3 DEF Exclusive, InFlight
<1>7. Fresh'
  <2> SUFFICES ASSUME NEW q \in Requests, pc'[q] \in {"write", "strike", "expire"}
               PROVE  (/\ req[req[q].id].slot = req[q].slot
                       /\ Fits(req[q], status[req[q].id]))'
    BY Zenon DEF Fresh
  <2>1. q # r /\ pc[q] \in {"write", "strike", "expire"}
    BY Zenon, <1>3
  <2>2. req[q].id \in Requests /\ req[req[q].id].slot = req[q].slot /\ req[q].slot # s
    BY SMTT(30), <1>5, <2>1 DEF TypeOK, Plans, Fresh, InFlight
  <2>3. req[q].id # i
    BY Zenon, <1>1, <2>2
  <2>4. status'[req[q].id] = status[req[q].id]
    BY Zenon, <1>3, <2>2, <2>3
  <2>5. Fits(req[q], status[req[q].id])
    BY Zenon, <2>1 DEF Fresh
  <2>6. Fits(req[q], status[req[q].id])'
    BY <1>0, <2>4, <2>5 DEF Fits
  <2> QED BY Zenon, <1>0, <2>2, <2>6
<1>8. Held'
  <2> SUFFICES ASSUME NEW j \in Requests, status'[j] \in Live
               PROVE  \/ req[j].slot \notin bookable
                      \/ SlotExpired(req[j].slot)
                      \/ pc'[j] = "reserve"
    BY Zenon, <1>0 DEF Held, SlotExpired
  <2>1. status[j] \in Live
    BY <1>2, <1>3
  <2>2. pc[j] = "reserve" => j # r
    BY <1>0
  <2> QED BY <1>3, <2>1, <2>2 DEF Held
<1>9. \A x : NoLive(x) => NoLive(x)'
  BY Zenon, <1>0, <1>2, <1>3 DEF NoLive
<1>10. Vacant'
  <2> SUFFICES ASSUME NEW q \in Requests
               PROVE  /\ pc'[q] \in {"lookup", "persist", "rpersist", "rrelease", "release"}
                           => NoLive(req[q].slot)'
                      /\ pc'[q] \in {"rlookup", "rreserve"}
                           => NoLive(req[q].slot)' \/ SlotExpired(req[q].slot)
                      /\ pc'[q] = "reserve" => status'[q] \in Active
    BY Zenon, <1>0 DEF Vacant, SlotExpired
  <2>1. CASE q = r
    <3>1. req[r].to \in Terminal /\ req[r].to \notin Live => NoLive(s)'
      <4> SUFFICES ASSUME req[r].to \notin Live, NEW j \in Requests, status'[j] \in Live
                   PROVE  req[j].slot # s
        BY Zenon, <1>0 DEF NoLive
      <4>1. j # i
        BY Zenon, <1>3
      <4>2. status[j] \in Live
        BY Zenon, <1>3, <4>1
      <4> QED BY Zenon, <1>1, <1>2, <4>1, <4>2 DEF NoDoubleBooking
    <3> QED BY Zenon, <1>2, <1>3, <2>1, <3>1
  <2>2. CASE q # r
    <3>1. pc[q] = "reserve" => q # i
      BY <1>4
    <3> QED BY <1>0, <1>3, <1>9, <2>2, <3>1 DEF Vacant
  <2> QED BY <2>1, <2>2
<1>11. Kept'
  <2> SUFFICES ASSUME NEW x \in Slots, x \notin bookable
               PROVE  \/ \E j \in Requests : status'[j] \in Live /\ req[j].slot = x
                      \/ \E q \in Requests : /\ pc'[q] \in {"rpersist", "rrelease", "release"}
                                            /\ req[q].slot = x
    BY Zenon, <1>0 DEF Kept
  <2>1. CASE x = s
    BY Zenon, <1>1, <1>2, <1>3, <2>1 DEF Live
  <2>2. CASE x # s
    <3>1. CASE \E j \in Requests : status[j] \in Live /\ req[j].slot = x
      BY Zenon, <1>1, <1>3, <2>2, <3>1
    <3>2. CASE \E q \in Requests : /\ pc[q] \in {"rpersist", "rrelease", "release"}
                                  /\ req[q].slot = x
      BY Zenon, <1>3, <2>2, <3>2
    <3> QED BY <3>1, <3>2 DEF Kept
  <2> QED BY <2>1, <2>2
<1>12. Reserved'
  <2>1. \A q \in Requests : pc'[q] \in {"rpersist", "rrelease"} => q # r
    BY <1>3
  <2> QED BY Zenon, <1>0, <1>3, <2>1 DEF Reserved
<1>13. NoDoubleBooking'
  <2>1. \A j \in Requests : status'[j] \in Live => status[j] \in Live
    BY <1>2, <1>3
  <2> QED BY Zenon, <1>0, <2>1 DEF NoDoubleBooking
<1>14. OncePaid'
  <2>1. status[i] \notin Terminal
    BY <1>2 DEF Live, Active, Terminal
  <2>2. /\ req[r].refund \in {0, 1}
        /\ req[r].to \in Terminal \/ req[r].refund = 0
    BY <1>1 DEF Fits, Terminal
  <2>3. refunds[i] = 0
    BY Zenon, <1>1, <2>1 DEF OncePaid
  <2>4. refunds'[i] = 0 + req[r].refund
    BY Zenon, <1>3, <2>3
  <2>5. /\ refunds'[i] <= 1
        /\ status'[i] \notin Terminal => refunds'[i] = 0
    <3>1. 0 + 0 = 0 /\ 0 + 1 = 1 /\ 0 <= 1 /\ 1 <= 1
      BY SMT
    <3>2. refunds'[i] \in {0, 1}
      BY Zenon, <2>2, <2>4, <3>1
    <3>3. status'[i] \in Terminal \/ refunds'[i] = 0
      BY Zenon, <1>3, <2>2, <2>4, <3>1
    <3> QED BY Zenon, <3>1, <3>2, <3>3
  <2>6. ASSUME NEW j \in Requests, j # i
        PROVE  /\ refunds'[j] <= 1
               /\ status'[j] \notin Terminal => refunds'[j] = 0
    <3>1. refunds'[j] = refunds[j] /\ status'[j] = status[j]
      BY Zenon, <1>3, <2>6
    <3> QED BY Zenon, <3>1 DEF OncePaid
  <2> QED BY Zenon, <2>5, <2>6 DEF OncePaid
<1> QED BY <1>0, <1>6, <1>7, <1>8, <1>10, <1>11, <1>12, <1>13, <1>14

\* The invariant holds before the first call.
LEMMA SerialInit == Init => SerialInv
<1> SUFFICES ASSUME Init PROVE SerialInv
  OBVIOUS
<1>1. TypeOK
  BY InitType
<1>2. /\ RowsOwned /\ WritesPlanned /\ paused = FALSE
      /\ Exclusive /\ Fresh /\ Vacant /\ Reserved
  BY DEF Init, RowsOwned, WritesPlanned, Exclusive, InFlight, Fresh, Vacant, Reserved
<1>3. Held /\ Kept /\ NoDoubleBooking /\ OncePaid
  BY DEF Init, Held, Kept, NoDoubleBooking, OncePaid, Live, Active
<1> QED BY <1>1, <1>2, <1>3 DEF SerialInv

\* With one request at a time on each slot and no pause, every step keeps the
\* invariant.
LEMMA SerialStep ==
  ASSUME ~MayOverlap, ~MayPause, SerialInv, [Next]_vars
  PROVE  SerialInv'
<1>0. TypeOK' /\ (RowsOwned /\ WritesPlanned)'
  BY StepType, StepOwned DEF SerialInv
<1>1. ASSUME NEW r \in Requests, Call(r) PROVE SerialInv'
  BY <1>0, <1>1, SerialCall
<1>2. ASSUME NEW r \in Requests, Continue(r) PROVE SerialInv'
  <2>1. CASE \/ createLookup(r) \/ recurringLookup(r) \/ confirmExpire(r)
             \/ issueStrike(r) \/ updateFails(r)
    <3>1. PICK step \in Steps :
            /\ pc' = [pc EXCEPT ![r] = step]
            /\ UNCHANGED <<bookable, status, refunds, req, now, paused>>
            /\ InFlight(r)
            /\ pc[r] \notin {"rpersist", "rrelease", "release", "reserve"}
            /\ \/ step = "done"
               \/ step = "persist" /\ pc[r] = "lookup"
               \/ step = "rreserve" /\ pc[r] = "rlookup"
               \/ step = "write" /\ pc[r] \in {"expire", "strike"}
      BY <2>1
      DEF createLookup, recurringLookup, confirmExpire, issueStrike, updateFails,
          Goto, rowVars, envVars, InFlight, Steps
    <3> QED BY Zenon, <1>0, <3>1, SerialMove
  <2>2. CASE createPersist(r) \/ recurringPersist(r)
    BY <1>0, <2>2, SerialPersist
  <2>3. CASE createReserve(r) \/ recurringReserve(r)
    BY <1>0, <2>3, SerialReserve
  <2>4. CASE recurringRelease(r) \/ releaseSlotBestEffort(r)
    BY <1>0, <2>4, SerialRelease
  <2>5. CASE update(r)
    BY <1>0, <2>5, SerialUpdate
  <2> QED BY <1>2, <2>1, <2>2, <2>3, <2>4, <2>5 DEF Continue
<1>3. CASE Tick
  <2>1. UNCHANGED <<bookable, status, refunds, pc, req, paused>> /\ now' = now + 1
    BY <1>3 DEF Tick, rowVars
  <2>2. \A s \in Slots : SlotExpired(s) => SlotExpired(s)'
    <3> SUFFICES ASSUME NEW s \in Slots, SlotExpired(s) PROVE SlotExpired(s)'
      OBVIOUS
    <3>1. ValidUntil[s] \in Int /\ now \in Int
      BY TimeAssumption DEF SerialInv, TypeOK, Undefined
    <3> QED BY <2>1, <3>1 DEF SlotExpired
  <2>3. \A r \in Requests : req[r].slot \in Slots
    BY SMTT(30) DEF SerialInv, TypeOK, Plans
  <2>4. Held' /\ Vacant'
    BY <2>1, <2>2, <2>3 DEF SerialInv, Held, Vacant, NoLive
  <2>5. Fresh'
    BY Zenon, <2>1 DEF SerialInv, Fresh, Fits
  <2>6. Exclusive' /\ Kept' /\ Reserved'
    BY <2>1 DEF SerialInv, Exclusive, InFlight, Kept, Reserved
  <2>7. NoDoubleBooking' /\ OncePaid' /\ paused' = FALSE
    BY <2>1 DEF SerialInv, NoDoubleBooking, OncePaid
  <2> QED BY <1>0, <2>4, <2>5, <2>6, <2>7 DEF SerialInv
<1>4. CASE setPaused
  BY SMTT(30), <1>4 DEF setPaused
<1>5. CASE UNCHANGED vars
  <2>1. Held' /\ Vacant'
    BY Zenon, <1>5 DEF vars, SerialInv, Held, Vacant, NoLive, SlotExpired
  <2>2. Fresh'
    BY Zenon, <1>5 DEF vars, SerialInv, Fresh, Fits
  <2>3. Exclusive' /\ Kept' /\ Reserved'
    BY <1>5 DEF vars, SerialInv, Exclusive, InFlight, Kept, Reserved
  <2>4. NoDoubleBooking' /\ OncePaid' /\ paused' = FALSE
    BY <1>5 DEF vars, SerialInv, NoDoubleBooking, OncePaid
  <2> QED BY <1>0, <2>1, <2>2, <2>3, <2>4 DEF SerialInv
<1> QED BY <1>1, <1>2, <1>3, <1>4, <1>5 DEF Next

\* The invariant of requests that do not overlap.
THEOREM SerialInvariant ==
  ASSUME ~MayOverlap, ~MayPause
  PROVE  Spec => []SerialInv
<1>1. Init => SerialInv
  BY SerialInit
<1>2. SerialInv /\ [Next]_vars => SerialInv'
  BY SerialStep
<1> QED BY <1>1, <1>2, PTL DEF Spec

\* For every number of slots and requests: when requests on one slot do not
\* overlap and escrow is not paused, no slot is promised to two intents.
THEOREM NoDoubleBookingHolds ==
  ASSUME ~MayOverlap, ~MayPause
  PROVE  Spec => []NoDoubleBooking
<1>1. SerialInv => NoDoubleBooking
  BY DEF SerialInv
<1> QED BY <1>1, SerialInvariant, PTL

\* Likewise no sequence of calls and failing writes leaks a reservation.
THEOREM NoLeakHolds ==
  ASSUME ~MayOverlap, ~MayPause
  PROVE  Spec => []NoLeakedReservation
<1>1. SerialInv => NoLeakedReservation
  BY DEF SerialInv, NoLeakedReservation, Kept, Quiet, On, IsRow, InFlight, Live, Active
<1> QED BY <1>1, SerialInvariant, PTL

\* Likewise the slot of a live intent is off the market between requests.
THEOREM LiveIntentHoldsSlotHolds ==
  ASSUME ~MayOverlap, ~MayPause
  PROVE  Spec => []LiveIntentHoldsSlot
<1>1. SerialInv => LiveIntentHoldsSlot
  BY DEF SerialInv, LiveIntentHoldsSlot, Held, Quiet, InFlight
<1> QED BY <1>1, SerialInvariant, PTL

\* Likewise no intent is refunded twice.
THEOREM RefundOnceHolds ==
  ASSUME ~MayOverlap, ~MayPause
  PROVE  Spec => []RefundAtMostOnce
<1>1. SerialInv => RefundAtMostOnce
  BY SMTT(30) DEF SerialInv, RefundAtMostOnce, OncePaid
<1> QED BY <1>1, SerialInvariant, PTL

-----------------------------------------------------------------------------
\* What a step can do to the rows: store one, change one as planned, or nothing.
LEMMA RowSteps ==
  ASSUME SerialInv, [Next]_vars
  PROVE  \/ /\ UNCHANGED <<status, refunds>>
            /\ \A i \in Requests : IsRow(i) => req'[i] = req[i]
         \/ \E r \in Requests :
              /\ status[r] = "absent" /\ req[r].to \in Active /\ NoLive(req[r].slot)
              /\ status' = [status EXCEPT ![r] = req[r].to]
              /\ UNCHANGED <<refunds, req>>
         \/ \E r \in Requests :
              /\ req[r].id \in Requests /\ Fits(req[r], status[req[r].id])
              /\ status' = [status EXCEPT ![req[r].id] = req[r].to]
              /\ refunds' = [refunds EXCEPT ![req[r].id] = @ + req[r].refund]
              /\ UNCHANGED req
<1> USE DEF SerialInv
<1>1. ASSUME NEW r \in Requests, Call(r)
      PROVE  /\ UNCHANGED <<status, refunds>>
             /\ \A i \in Requests : IsRow(i) => req'[i] = req[i]
  <2>1. PICK p \in Plans, step \in Steps : Begins(r, p, step)
    BY Zenon, <1>1, CallShape
  <2>2. ~IsRow(r)
    BY Zenon, <2>1 DEF Begins, RowsOwned, IsRow
  <2> QED BY SMTT(30), <2>1, <2>2 DEF Begins, TypeOK
<1>2. ASSUME NEW r \in Requests, createPersist(r) \/ recurringPersist(r)
      PROVE  \/ UNCHANGED <<status, refunds, req>>
             \/ /\ status[r] = "absent" /\ req[r].to \in Active /\ NoLive(req[r].slot)
                /\ status' = [status EXCEPT ![r] = req[r].to]
                /\ UNCHANGED <<refunds, req>>
  BY Zenon, <1>2 DEF createPersist, recurringPersist, Persist, rowVars, RowsOwned, Vacant
<1>3. ASSUME NEW r \in Requests, update(r)
      PROVE  /\ req[r].id \in Requests /\ Fits(req[r], status[req[r].id])
             /\ status' = [status EXCEPT ![req[r].id] = req[r].to]
             /\ refunds' = [refunds EXCEPT ![req[r].id] = @ + req[r].refund]
             /\ UNCHANGED req
  <2>1. req[r].id \in Requests
    BY DEF TypeOK, Plans
  <2>2. Fits(req[r], status[req[r].id])
    BY Zenon, <1>3 DEF update, Fresh
  <2> QED BY Zenon, <1>3, <2>1, <2>2 DEF update
<1>4. ASSUME NEW r \in Requests, Continue(r),
             ~(createPersist(r) \/ recurringPersist(r) \/ update(r))
      PROVE  UNCHANGED <<status, refunds, req>>
  BY Zenon, <1>4
  DEF Continue, createLookup, createReserve, reserveSlot, recurringLookup,
      recurringReserve, recurringRelease, releaseSlot, confirmExpire, issueStrike,
      updateFails, releaseSlotBestEffort, rowVars
<1>5. CASE Tick \/ setPaused \/ UNCHANGED vars
  BY <1>5 DEF Tick, setPaused, vars, rowVars
<1> QED BY Zenon, <1>1, <1>2, <1>3, <1>4, <1>5 DEF Next

\* An intent that has ended stays as it ended: no late write revives it.
THEOREM EndedStaysEndedHolds ==
  ASSUME ~MayOverlap, ~MayPause
  PROVE  Spec => EndedStaysEnded
<1> DEFINE Stay == \A i \in Requests : status[i] \in Terminal => status'[i] = status[i]
<1>1. SerialInv /\ [Next]_vars => [Stay]_vars
  <2> SUFFICES ASSUME SerialInv, [Next]_vars PROVE Stay
    OBVIOUS
  <2> SUFFICES ASSUME NEW i \in Requests, status[i] \in Terminal
               PROVE  status'[i] = status[i]
    OBVIOUS
  <2>1. status \in [Requests -> Statuses]
    BY SMTT(30) DEF SerialInv, TypeOK
  <2>2. ASSUME NEW r \in Requests, status[r] = "absent",
               status' = [status EXCEPT ![r] = req[r].to]
        PROVE  status'[i] = status[i]
    BY Zenon, <2>1, <2>2 DEF Terminal
  <2>3. ASSUME NEW r \in Requests, Fits(req[r], status[req[r].id]),
               status' = [status EXCEPT ![req[r].id] = req[r].to]
        PROVE  status'[i] = status[i]
    BY <2>1, <2>3 DEF Terminal, Fits, Live, Active
  <2> QED BY RowSteps, <2>2, <2>3
<1>2. Spec => []SerialInv
  BY SerialInvariant
<1> QED BY <1>1, <1>2, PTL DEF Spec, EndedStaysEnded

\* The service implements the abstract lifecycle: each stored row is a booking of
\* a free slot, each write a legal change, and everything else is invisible.
THEOREM KeepsLifecycleHolds ==
  ASSUME ~MayOverlap, ~MayPause
  PROVE  Spec => KeepsLifecycle
<1> DEFINE Place == [i \in Requests |-> IF IsRow(i) THEN {req[i].slot} ELSE {}]
<1>1. Init => Lifecycle!Init
  BY SMTT(30) DEF Init, Lifecycle!Init, IsRow
<1>2. ASSUME SerialInv, [Next]_vars PROVE [Lifecycle!Next]_(Lifecycle!vars)
  <2> USE DEF SerialInv
  <2>0. /\ status \in [Requests -> Statuses] /\ refunds \in [Requests -> Nat]
        /\ \A r \in Requests : req[r].slot \in Slots
    BY <1>2 DEF TypeOK, Plans
  <2>1. ASSUME UNCHANGED <<status, refunds>>,
               \A i \in Requests : IsRow(i) => req'[i] = req[i]
        PROVE  UNCHANGED Lifecycle!vars
    <3>1. Place' = Place
      BY <2>1 DEF IsRow
    <3> QED BY <2>1, <3>1 DEF Lifecycle!vars
  <2>2. ASSUME NEW r \in Requests,
               status[r] = "absent", req[r].to \in Active, NoLive(req[r].slot),
               status' = [status EXCEPT ![r] = req[r].to],
               UNCHANGED <<refunds, req>>
        PROVE  Lifecycle!Next
    <3>1. Place' = [Place EXCEPT ![r] = {req[r].slot}]
      BY Zenon, <2>0, <2>2 DEF IsRow, Active
    <3>2. \A j \in Requests : status[j] \in Lifecycle!Alive => Place[j] # {req[r].slot}
      BY <2>2 DEF NoLive, Lifecycle!Alive, Lifecycle!Waiting, Live, Active, IsRow
    <3>3. PICK s \in Slots : s = req[r].slot
      BY <2>0
    <3>4. Lifecycle!Book(r, s)
      BY Zenon, <2>2, <3>1, <3>2, <3>3 DEF Lifecycle!Book, Lifecycle!Waiting, Active
    <3> QED BY <3>4 DEF Lifecycle!Next
  <2>3. ASSUME NEW r \in Requests, req[r].id \in Requests,
               Fits(req[r], status[req[r].id]),
               status' = [status EXCEPT ![req[r].id] = req[r].to],
               refunds' = [refunds EXCEPT ![req[r].id] = @ + req[r].refund],
               UNCHANGED req
        PROVE  Lifecycle!Next
    <3> DEFINE i == req[r].id
    <3>1. req[r].to # "absent" /\ status[i] # "absent"
      BY <2>3 DEF Fits, Active, Live
    <3>2. Place' = Place
      BY <2>0, <2>3, <3>1 DEF IsRow
    <3>3. refunds[i] \in Nat
      BY Zenon, <2>0, <2>3
    <3>4. CASE req[r].to = "confirmed"
      <4>1. refunds' = refunds
        <5>1. req[r].refund = 0
          BY <2>3, <3>4 DEF Fits
        <5>2. refunds[i] + req[r].refund = refunds[i]
          BY <3>3, <5>1
        <5> QED BY Zenon, <2>0, <2>3, <5>2
      <4>2. Lifecycle!Confirm(i)
        BY Zenon, <2>3, <3>2, <3>4, <4>1 DEF Lifecycle!Confirm, Lifecycle!Waiting, Fits, Active
      <4> QED BY Zenon, <2>3, <4>2 DEF Lifecycle!Next
    <3>5. CASE req[r].to # "confirmed"
      <4>1. \/ Lifecycle!End(i, Lifecycle!Waiting, "cancelled", 0)
            \/ Lifecycle!End(i, Lifecycle!Waiting, "expired", 0)
            \/ Lifecycle!End(i, {"hold_placed"}, "hold_refunded", 1)
            \/ Lifecycle!End(i, Lifecycle!Alive, "cancelled", 1)
            \/ Lifecycle!End(i, {"confirmed"}, "no_show", 0)
        BY Zenon, <2>3, <3>2, <3>5
        DEF Lifecycle!End, Lifecycle!Waiting, Lifecycle!Alive, Fits, Active, Live
      <4> QED BY Zenon, <2>3, <4>1 DEF Lifecycle!Next
    <3> QED BY <3>4, <3>5
  <2> QED BY Zenon, <1>2, RowSteps, <2>1, <2>2, <2>3
<1>3. Spec => []SerialInv
  BY SerialInvariant
<1> QED BY <1>1, <1>2, <1>3, PTL DEF Spec, KeepsLifecycle, Lifecycle!Spec
=============================================================================
