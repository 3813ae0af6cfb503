--------------------------- MODULE EscrowListener ---------------------------
(***************************************************************************)
(* The escrow event listener: ticks that read a page of contract events,   *)
(* claim each event in the idempotency store, project it onto the booking  *)
(* intents and the slot flags, and move a durable cursor.                  *)
(*                                                                         *)
(* A tick gives up the thread at every call to Redis, to the contract and  *)
(* to the intent repository, so each of these calls is a step, and the     *)
(* process may die between any two of them.  What a tick remembers is lost *)
(* with it; the cursors, the claims and the booking rows are durable.      *)
(*                                                                         *)
(* The chain is a log of events in ledger order.  An event is named by its *)
(* place in the log, which stands for its key (txHash, eventIndex).        *)
(***************************************************************************)
EXTENDS Integers, Sequences, FiniteSets

CONSTANTS
  Listeners,      \* processes that run the listener
  InstanceId,     \* instanceId of each, which names its cursor
  NIntents,       \* rows of the intent repository, numbered in insertion order
  SlotOf,         \* slotId of each intent
  InitialStatus,  \* status of each intent at the start, "absent" if not stored
  Logs,           \* the event logs considered
  MaxLedger,      \* bound on the ledgers the chain closes
  FinalityDepth,  \* finalityDepth
  PageLimit,      \* pageLimit
  AllowList,      \* contractAddressAllowList
  MaxFaults,      \* bound on the calls that throw and the listeners that die
  MayForget,      \* the keys in Redis may outlive their TTL
  MayBook         \* the booking service cancels and books intents

Undefined == 0
Null == -1

Intents == 1..NIntents
Instances == {InstanceId[l] : l \in Listeners}
Slots == {SlotOf[i] : i \in Intents}
Kinds == {"Held", "Captured", "Released", "Refunded", "Slashed"}

\* An escrow event; intent is its bookingIntentId, Undefined when it has none.
Events == [ledger : Nat \ {0}, kind : Kinds, slot : Slots,
           intent : Intents \cup {Undefined}, contract : STRING]

Open == {"pending", "hold_placed", "confirmed", "firm"}
Terminal == {"cancelled", "expired"}
Statuses == {"absent"} \cup Open \cup Terminal

ASSUME ShapeAssumption ==
  /\ NIntents \in Nat
  /\ DOMAIN SlotOf = Intents
  /\ InitialStatus \in [Intents -> Statuses]
  /\ MaxLedger \in Nat /\ FinalityDepth \in Nat /\ MaxFaults \in Nat
  /\ PageLimit \in Nat \ {0}
ASSUME LogsAssumption ==
  \A log \in Logs :
    /\ log \in Seq(Events)
    /\ \A m, n \in 1..Len(log) : m <= n => log[m].ledger <= log[n].ledger
ASSUME SwitchAssumption ==
  DOMAIN InstanceId = Listeners /\ MayForget \in BOOLEAN /\ MayBook \in BOOLEAN

VARIABLES
  log,        \* the events of the escrow contract
  tip,        \* the latest closed ledger
  cursor,     \* escrow:listener:cursor:{instanceId}, Null when not set
  claimed,    \* the events whose idempotency key is set
  tick,       \* what the running tick of each listener remembers
  status,     \* the status column of the intents
  bookable,   \* the slots whose bookable flag is set
  projected,  \* the events whose projection has completed (history)
  applied,    \* how often each event changed an intent (history)
  overlapped, \* a booking call wrote an intent that a projection had read (history)
  faults      \* the calls that have thrown and the listeners that have died so far

vars == <<log, tip, cursor, claimed, tick, status, bookable, projected,
          applied, overlapped, faults>>

Steps == {"idle", "fetch", "claim", "project", "transition", "release",
          "advance", "set"}

NoTick == [at |-> "idle", before |-> Null, safeTip |-> 0, page |-> << >>,
           max |-> 0, intent |-> Undefined]

Positive(n) == IF n > 0 THEN n ELSE 0

Init ==
  /\ log \in Logs
  /\ tip = 0
  /\ cursor = [c \in Instances |-> Null]
  /\ claimed = {}
  /\ tick = [l \in Listeners |-> NoTick]
  /\ status = InitialStatus
  /\ bookable = {s \in Slots :
                  \A i \in Intents : SlotOf[i] = s => InitialStatus[i] \notin Open}
  /\ projected = {}
  /\ applied = [n \in DOMAIN log |-> 0]
  /\ overlapped = FALSE
  /\ faults = 0

-----------------------------------------------------------------------------
(* The projector.                                                          *)

TARGET_BY_KIND ==
  [kind \in Kinds |-> CASE kind = "Held" -> "confirmed"
                        [] kind = "Captured" -> "firm"
                        [] kind \in {"Released", "Refunded"} -> "cancelled"
                        [] kind = "Slashed" -> "expired"]

\* The kinds of event each status has an edge for.
STATUS_TRANSITIONS ==
  [st \in Statuses |->
     CASE st = "pending" -> Kinds \ {"Captured"}
       [] st = "hold_placed" -> Kinds
       [] st = "confirmed" -> Kinds \ {"Held"}
       [] st = "firm" -> {"Released", "Refunded", "Slashed"}
       [] OTHER -> {}]

Stored(s) == {i \in Intents : SlotOf[i] = s /\ status[i] # "absent"}

\* The rows of a slot all carry its startTime, so the reduce keeps the first.
First(s) == {i \in Stored(s) : \A j \in Stored(s) : i <= j}

lookupBySlot(s) == IF First(s) = {} THEN Undefined ELSE CHOOSE i \in First(s) : TRUE

findActiveIntent(e) ==
  IF e.intent = Undefined THEN lookupBySlot(e.slot)
  ELSE IF e.intent \in Stored(e.slot) THEN e.intent ELSE Undefined

\* The intent an event is to change, Undefined for each of the no-ops.
Effect(e) ==
  LET i == findActiveIntent(e) IN
  IF /\ e.contract \in AllowList
     /\ i # Undefined
     /\ status[i] # TARGET_BY_KIND[e.kind]
     /\ e.kind \in STATUS_TRANSITIONS[status[i]]
  THEN i ELSE Undefined

-----------------------------------------------------------------------------
(* The tick.                                                               *)

Goto(l, step) == tick' = [tick EXCEPT ![l].at = step]

\* The event a tick is working on, and the tick once it is through with it.
Current(l) == Head(tick[l].page)

Rest(l, max) ==
  LET page == Tail(tick[l].page) IN
  [tick[l] EXCEPT !.at = IF page = << >> THEN "advance" ELSE "claim",
                  !.page = page, !.max = max, !.intent = Undefined]

CursorOf(l) == cursor[InstanceId[l]]

Later(m, n) == IF m > n THEN m ELSE n

EndTick(l) == tick' = [tick EXCEPT ![l] = NoTick]

durable == <<log, tip, cursor, status, bookable, overlapped, faults>>

SafeTip == Positive(tip - FinalityDepth)

\* Read the cursor and the tip; there is something to fetch.
beginTick(l) ==
  /\ tick[l].at = "idle"
  /\ CursorOf(l) = Null \/ CursorOf(l) < SafeTip
  /\ tick' = [tick EXCEPT ![l].at = "fetch", ![l].before = CursorOf(l),
                          ![l].safeTip = SafeTip]
  /\ UNCHANGED <<durable, claimed, projected, applied>>

\* The empty-page path: the cursor is at the safe tip and the tick returns.
returnAtTip(l) ==
  /\ tick[l].at = "idle"
  /\ CursorOf(l) # Null /\ CursorOf(l) >= SafeTip
  /\ UNCHANGED vars

\* getEvents: the first events from the start ledger on, in ledger order.
getEvents(start) ==
  LET from == {n \in DOMAIN log : log[n].ledger >= start /\ log[n].ledger <= tip}
      first == Cardinality({n \in DOMAIN log : log[n].ledger < start})
      size == IF Cardinality(from) < PageLimit THEN Cardinality(from) ELSE PageLimit
  IN  [k \in 1..size |-> first + k]

fetchPage(l) ==
  LET before == Positive(tick[l].before)
      page == getEvents(before + 1)
  IN  /\ tick[l].at = "fetch"
      /\ tick' = [tick EXCEPT ![l].at = IF page = << >> THEN "advance" ELSE "claim",
                              ![l].page = page, ![l].max = before]
      /\ UNCHANGED <<durable, claimed, projected, applied>>

\* An event past the safe tip is left for a later tick.
skipUnsafe(l) ==
  /\ tick[l].at = "claim"
  /\ log[Current(l)].ledger > tick[l].safeTip
  /\ tick' = [tick EXCEPT ![l] = Rest(l, tick[l].max)]
  /\ UNCHANGED <<durable, claimed, projected, applied>>

Safe(l) ==
  /\ tick[l].at = "claim"
  /\ log[Current(l)].ledger <= tick[l].safeTip

\* A claim that is refused skips the event, and still moves the cursor.
skipDuplicate(l) ==
  /\ Safe(l)
  /\ Current(l) \in claimed
  /\ tick' = [tick EXCEPT ![l] = Rest(l, Later(log[Current(l)].ledger, tick[l].max))]
  /\ UNCHANGED <<durable, claimed, projected, applied>>

\* Mutant: the claim does not look whether the key is set.
claimAlways(l) ==
  /\ Safe(l)
  /\ claimed' = claimed \cup {Current(l)}
  /\ Goto(l, "project")
  /\ UNCHANGED <<durable, projected, applied>>

claim(l) ==
  /\ Safe(l)
  /\ Current(l) \notin claimed
  /\ claimed' = claimed \cup {Current(l)}
  /\ Goto(l, "project")
  /\ UNCHANGED <<durable, projected, applied>>

\* project: find the intent and check the edge; a no-op completes at once.
project(l) ==
  LET n == Current(l)
      i == Effect(log[n])
  IN  /\ tick[l].at = "project"
      /\ IF i = Undefined
         THEN /\ tick' = [tick EXCEPT ![l] = Rest(l, Later(log[n].ledger, tick[l].max))]
              /\ projected' = projected \cup {n}
         ELSE /\ tick' = [tick EXCEPT ![l].at = "transition", ![l].intent = i]
              /\ UNCHANGED projected
      /\ UNCHANGED <<durable, claimed, applied>>

\* A booking that ends gives its slot back.
Frees(kind) == TARGET_BY_KIND[kind] \notin {"confirmed", "firm"}

\* transition: write the status that follows from what was read, and release.
transition(l) ==
  LET n == Current(l)
      e == log[n]
  IN  /\ tick[l].at = "transition"
      /\ status' = [status EXCEPT ![tick[l].intent] = TARGET_BY_KIND[e.kind]]
      /\ bookable' = IF Frees(e.kind) THEN bookable \cup {e.slot} ELSE bookable
      /\ applied' = [applied EXCEPT ![n] = @ + 1]
      /\ projected' = projected \cup {n}
      /\ tick' = [tick EXCEPT ![l] = Rest(l, Later(e.ledger, tick[l].max))]
      /\ UNCHANGED <<log, tip, cursor, claimed, overlapped, faults>>

\* Mutant: the cursor jumps to the safe tip the tick started with.
setCursorToTip(l) ==
  /\ cursor' = [cursor EXCEPT ![InstanceId[l]] = tick[l].safeTip]
  /\ EndTick(l)

setCursor(l) ==
  /\ cursor' = [cursor EXCEPT ![InstanceId[l]] = tick[l].max]
  /\ EndTick(l)

\* Mutant: the cursor store takes a value below the current one.
RegressesUnchecked(l) == FALSE

Regresses(l) == tick[l].max < CursorOf(l)

\* The end of the batch: the cursor moves once, if an event was passed.  The
\* store reads the cursor again and refuses to regress; from here on before is
\* the cursor as the store read it.
advanceCursor(l) ==
  /\ tick[l].at = "advance"
  /\ IF tick[l].max <= Positive(tick[l].before) \/ Regresses(l)
     THEN EndTick(l)
     ELSE tick' = [tick EXCEPT ![l].at = "set", ![l].before = CursorOf(l)]
  /\ UNCHANGED <<durable, claimed, projected, applied>>

\* ... and sets it, whatever has become of it since.
storeCursor(l) ==
  /\ tick[l].at = "set"
  /\ setCursor(l)
  /\ UNCHANGED <<log, tip, claimed, status, bookable, projected, applied, overlapped, faults>>

-----------------------------------------------------------------------------
(* What goes wrong: calls that throw, a process that dies, keys that       *)
(* expire.  A tick that throws is logged and the loop starts another.      *)

Fault ==
  /\ faults < MaxFaults
  /\ faults' = faults + 1
  /\ UNCHANGED <<log, tip, cursor, status, bookable, projected, applied, overlapped>>

\* getEvents or the cursor write throws: the tick ends where it is.
tickFails(l) ==
  /\ tick[l].at \in {"fetch", "advance", "set"}
  /\ EndTick(l)
  /\ Fault /\ UNCHANGED claimed

\* The claim is outside the try: when it throws the tick ends, and the key may
\* have been set.
claimThrows(l) ==
  /\ Safe(l)
  /\ claimed' \in {claimed, claimed \cup {Current(l)}}
  /\ EndTick(l)
  /\ Fault

\* A repository call throws inside project; nothing has been written yet.
projectionThrows(l) ==
  /\ tick[l].at \in {"project", "transition"}
  /\ Goto(l, "release")
  /\ Fault /\ UNCHANGED claimed

\* The claim is given up and the tick throws; safeRelease swallows a failure of
\* its own, and the key stays.
safeRelease(l) ==
  /\ tick[l].at = "release"
  /\ EndTick(l)
  /\ \/ claimed' = claimed \ {Current(l)} /\ UNCHANGED <<durable, projected, applied>>
     \/ Fault /\ UNCHANGED claimed

crash(l) ==
  /\ tick[l].at # "idle"
  /\ EndTick(l)
  /\ Fault /\ UNCHANGED claimed

\* An outage longer than the claims' TTL, perhaps longer than the cursors'.
forget ==
  /\ MayForget
  /\ \A l \in Listeners : tick[l].at = "idle"
  /\ claimed' = {}
  /\ \/ UNCHANGED cursor
     \/ cursor' = [c \in Instances |-> Null]
  /\ UNCHANGED <<log, tip, tick, status, bookable, projected, applied, overlapped, faults>>

-----------------------------------------------------------------------------
(* The environment: the chain closes ledgers, and the booking service      *)
(* cancels intents and books free slots.                                   *)

closeLedger ==
  /\ tip < MaxLedger
  /\ tip' = tip + 1
  /\ UNCHANGED <<log, cursor, claimed, tick, status, bookable, projected,
                 applied, overlapped, faults>>

\* The booking service writes while a projection is between read and write.
Overlaps == overlapped' = (overlapped \/ \E l \in Listeners : tick[l].at = "transition")

cancelIntent(i) ==
  /\ MayBook
  /\ status[i] \in {"pending", "hold_placed", "confirmed"}
  /\ status' = [status EXCEPT ![i] = "cancelled"]
  /\ bookable' = bookable \cup {SlotOf[i]}
  /\ Overlaps
  /\ UNCHANGED <<log, tip, cursor, claimed, tick, projected, applied, faults>>

createIntent(i) ==
  /\ MayBook
  /\ status[i] = "absent"
  /\ SlotOf[i] \in bookable
  /\ \A j \in 1..(i - 1) : status[j] # "absent"
  /\ status' = [status EXCEPT ![i] = "pending"]
  /\ bookable' = bookable \ {SlotOf[i]}
  /\ Overlaps
  /\ UNCHANGED <<log, tip, cursor, claimed, tick, projected, applied, faults>>

-----------------------------------------------------------------------------
runEscrowListenerTick(l) ==
  \/ beginTick(l) \/ returnAtTip(l) \/ fetchPage(l) \/ skipUnsafe(l)
  \/ skipDuplicate(l) \/ claim(l) \/ project(l) \/ transition(l) \/ safeRelease(l)
  \/ advanceCursor(l) \/ storeCursor(l)

Next ==
  \/ \E l \in Listeners :
       runEscrowListenerTick(l) \/ tickFails(l) \/ claimThrows(l) \/ projectionThrows(l) \/ crash(l)
  \/ forget
  \/ closeLedger
  \/ \E i \in Intents : cancelIntent(i) \/ createIntent(i)

Spec == Init /\ [][Next]_vars

\* The loop starts a tick again and again and a tick runs on; ledgers close.
FairSpec ==
  /\ Spec
  /\ \A l \in Listeners : WF_vars(runEscrowListenerTick(l))
  /\ WF_vars(closeLedger)

-----------------------------------------------------------------------------
\* TypeOK: the durable rows and what a tick remembers keep their types.
TypeOK ==
  /\ log \in Logs
  /\ tip \in 0..MaxLedger
  /\ cursor \in [Instances -> {Null} \cup 0..MaxLedger]
  /\ claimed \subseteq DOMAIN log /\ projected \subseteq DOMAIN log
  /\ status \in [Intents -> Statuses]
  /\ bookable \subseteq Slots
  /\ applied \in [DOMAIN log -> Nat]
  /\ overlapped \in BOOLEAN /\ faults \in 0..MaxFaults
  /\ \A l \in Listeners :
       /\ tick[l].at \in Steps
       /\ tick[l].before \in {Null} \cup 0..MaxLedger
       /\ tick[l].safeTip \in 0..MaxLedger /\ tick[l].max \in 0..MaxLedger
       /\ tick[l].page \in Seq(DOMAIN log)
       /\ tick[l].intent \in Intents \cup {Undefined}

\* AppliedAtMostOnce: an event changes a booking at most once, whatever the
\* listeners, crashes, failed releases and expired keys (Guarantee 1 of
\* docs/escrow-event-listener.md; claim before project, scheduler lines 229-240).
AppliedAtMostOnce == \A n \in DOMAIN log : applied[n] <= 1

\* CursorCoversProjected: every event at or below a cursor has been projected,
\* which is what the cursor is documented to mean (Guarantee 2); it is moved by
\* runEscrowListenerTick only after the page was gone through.
CursorCoversProjected ==
  \A l \in Listeners, n \in DOMAIN log :
    log[n].ledger <= CursorOf(l) => n \in projected

\* A claim without a projection, and without a listener at work on it.
Abandoned ==
  {n \in claimed \ projected :
     \A l \in Listeners :
       ~(tick[l].at \in {"project", "transition", "release"} /\ Current(l) = n)}

\* A full page that starts with a ledger ends before n, inside the ledger of n.
Parted(n) ==
  \E m \in PageLimit..(n - 1) :
    /\ log[m].ledger = log[n].ledger
    /\ m > PageLimit => log[m - PageLimit].ledger < log[m - PageLimit + 1].ledger

\* PassedIsProjected: what the cursor means in the code.  An event at or below it
\* has been projected, is claimed, or was cut off by a page that ended inside
\* its ledger (the cursor moves to the ledger of the last event seen, scheduler
\* line 224, and the next page starts after it); and each claim that is left
\* behind without a projection cost a call that failed or a listener that died.
PassedIsProjected ==
  /\ \A l \in Listeners, n \in DOMAIN log :
       log[n].ledger <= CursorOf(l) => n \in projected \cup claimed \/ Parted(n)
  /\ Cardinality(Abandoned) <= faults

\* StatusFollowsChain: each booking is what its projected events, taken in
\* ledger order, make of it: retries and replays neither reorder nor repeat
\* events (claim, skipDuplicate and the edges of the projector).
StatusFollowsChain ==
  \A i \in Intents :
    LET replay[n \in 0..Len(log)] ==
          IF n = 0 THEN InitialStatus[i]
          ELSE LET e == log[n]
                   st == replay[n - 1]
               IN  IF /\ n \in projected /\ e.contract \in AllowList
                      /\ findActiveIntent(e) = i
                      /\ e.kind \in STATUS_TRANSITIONS[st]
                   THEN TARGET_BY_KIND[e.kind] ELSE st
    IN  status[i] = replay[Len(log)]

\* OnlyFinalEvents: no booking reflects an event of a ledger that is still
\* inside the finality window (Guarantee 3; the safe tip of the tick).
OnlyFinalEvents ==
  \A n \in DOMAIN log : applied[n] > 0 => log[n].ledger + FinalityDepth <= tip

\* OnlyFinalOnce: bookings reflect final events only, and none of them twice,
\* also where listeners crash, share their keys and fail to release them
\* (Guarantees 1 and 3; the safe tip of runEscrowListenerTick and its claims).
OnlyFinalOnce == OnlyFinalEvents /\ AppliedAtMostOnce

\* OpenIntentHoldsSlot: a slot is on sale only when none of its intents is
\* open, so a projection never frees a slot that somebody else has booked, as
\* long as no booking call came between the read and the write of a projection.
OpenIntentHoldsSlot ==
  overlapped \/ \A i \in Intents : status[i] \in Open => SlotOf[i] \notin bookable

=============================================================================
