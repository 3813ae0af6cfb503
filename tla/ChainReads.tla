----------------------------- MODULE ChainReads -----------------------------
(***************************************************************************)
(* What the backend learns about the chain by asking: the quorum of escrow *)
(* readers, the reconciler that compares their verdict with the local      *)
(* database and raises drift, the override of an administrator, and the    *)
(* poller of the treasury's balances with its alarm levels.                *)
(*                                                                         *)
(* External: the chain (events of a slot, appended), what a reader sees of *)
(* it (it may lag, fail or time out), the local rows that the listener     *)
(* keeps, and the balances.  The transaction hash of a slot's n-th event   *)
(* is n, 0 is null.                                                        *)
(***************************************************************************)
EXTENDS Integers, Sequences, FiniteSets, SequencesExt, FiniteSetsExt

CONSTANTS
  Ops,                        \* of "votes", "treasury"
  slotIds, Readers, Kinds,    \* slots in order, readers, kinds of events
  quorumThreshold, disagreementThreshold,   \* per cent
  Ticks,                      \* reconciliations that may be under way together
  Balances, floor,            \* balances as units, and the alarm's floor
  Polls, maxStaleness,
  MayLag, MayFail, MayOverlap,
  MaxEvents, MaxTime, MaxOps  \* bounds

VARIABLES
  ops, now,
  chain, local, view,    \* events of each slot, the local row, what each reader sees
  tick, drift, alerted,  \* reconciliations, the drift gauge, slots of the last alert
  moved,                 \* history: chain, views or rows moved since a tick began
  balance, poll, state, lastPollAt, low  \* treasury, and the worst level since it was clear (history)

vars == <<ops, now, chain, local, view, tick, drift, alerted, moved, balance, poll, state, lastPollAt, low>>
votes == <<chain, local, view, tick, drift, alerted, moved>>
treasury == <<balance, poll, state, lastPollAt, low>>

Slots == ToSet(slotIds)
Unread == [kind |-> "none", tx |-> 0]
IdleTick == [pc |-> "idle", snapshots |-> << >>, failed |-> {}, verdict |-> << >>, at |-> 1, drifted |-> {}]

Init ==
  /\ ops = 0 /\ now = 1
  /\ chain = [s \in Slots |-> << >>] /\ local = [s \in Slots |-> [status |-> "pending", tx |-> 0]]
  /\ view = [r \in Readers |-> [s \in Slots |-> 0]]
  /\ tick = [t \in Ticks |-> IdleTick] /\ drift = [s \in Slots |-> 0] /\ alerted = {} /\ moved = {}
  /\ balance = Max(Balances) /\ poll = [p \in Polls |-> [pc |-> "idle", balance |-> 0]]
  /\ state = "unknown" /\ lastPollAt = 0 /\ low = 0

Op(name) == name \in Ops /\ ops < MaxOps /\ ops' = ops + 1
Still == MayOverlap \/ \A t \in Ticks : tick[t].pc = "idle"
Moves == moved' = {t \in Ticks : tick[t].pc # "idle"} \cup moved

-----------------------------------------------------------------------------
(* The chain, the readers and the rows.                                    *)

Emit(s, kind) ==
  /\ Op("votes") /\ Still
  /\ Len(chain[s]) < MaxEvents
  /\ chain' = [chain EXCEPT ![s] = Append(@, kind)]
  /\ view' = IF MayLag THEN view ELSE [r \in Readers |-> [view[r] EXCEPT ![s] = Len(chain[s]) + 1]]
  /\ Moves /\ UNCHANGED <<now, local, tick, drift, alerted, treasury>>

CatchUp(r, s) ==
  /\ MayLag /\ Still
  /\ view[r][s] < Len(chain[s])
  /\ view' = [view EXCEPT ![r][s] = @ + 1]
  /\ Moves /\ UNCHANGED <<ops, now, chain, local, tick, drift, alerted, treasury>>

\* mapChainEventToIntentStatus.
mapChainEventToIntentStatus(kind) ==
  CASE kind = "Held" -> "confirmed"
    [] kind \in {"Released", "Refunded"} -> "cancelled"
    [] kind = "Slashed" -> "expired"
    [] OTHER -> "null"

\* The listener applies the next event of the slot.
Follow(s) ==
  /\ Still
  /\ local[s].tx < Len(chain[s])
  /\ local' = [local EXCEPT ![s] = [status |-> mapChainEventToIntentStatus(chain[s][@.tx + 1]), tx |-> @.tx + 1]]
  /\ Moves /\ UNCHANGED <<ops, now, chain, view, tick, drift, alerted, treasury>>

\* manualOverride: the row is overwritten and the gauge cleared.
manualOverride(s, status) ==
  /\ Op("votes") /\ Still
  /\ local' = [local EXCEPT ![s].status = status]
  /\ drift' = [drift EXCEPT ![s] = 0]
  /\ Moves /\ UNCHANGED <<now, chain, view, tick, alerted, treasury>>

postDriftOverride == \E s \in Slots, status \in {"pending", "confirmed", "cancelled", "expired"} : manualOverride(s, status)

-----------------------------------------------------------------------------
(* A reconciliation.                                                       *)

reconcile(t) ==
  /\ tick[t].pc = "idle" /\ Op("votes") /\ Still
  /\ tick' = [tick EXCEPT ![t] = [IdleTick EXCEPT !.pc = "read"]]
  /\ moved' = moved \ {t}
  /\ UNCHANGED <<now, chain, local, view, drift, alerted, treasury>>

\* snapshot: the latest event of each slot as the reader sees it.
stateOf(r, s) == IF view[r][s] = 0 THEN Unread ELSE [kind |-> chain[s][view[r][s]], tx |-> view[r][s]]

asked(t) == DOMAIN tick[t].snapshots \cup tick[t].failed

snapshot(t, r) ==
  /\ tick[t].pc = "read" /\ r \notin asked(t)
  /\ tick' = [tick EXCEPT ![t].snapshots = [q \in (DOMAIN @) \cup {r} |-> IF q = r THEN [s \in Slots |-> stateOf(r, s)] ELSE @[q]]]
  /\ UNCHANGED <<ops, now, chain, local, view, drift, alerted, moved, treasury>>

\* The reader fails, or its timeout comes first.
withTimeout(t, r) ==
  /\ MayFail /\ tick[t].pc = "read" /\ r \notin asked(t)
  /\ tick' = [tick EXCEPT ![t].failed = @ \cup {r}]
  /\ UNCHANGED <<ops, now, chain, local, view, drift, alerted, moved, treasury>>

count(snaps, s, x) == Cardinality({r \in DOMAIN snaps : snaps[r][s] = x})


majorityRequired(healthy) == (healthy * quorumThreshold + 99) \div 100

\* buildSlotComparisons for a slot: a state with the most votes (the first one
\* counted among equals), if it has enough of them.
Comparisons(snaps, s) ==
  LET healthy == Cardinality(DOMAIN snaps)
      states == {snaps[r][s] : r \in DOMAIN snaps}
      top == {x \in states : \A y \in states : count(snaps, s, x) >= count(snaps, s, y)} IN
  IF states = {} \/ \A x \in top : count(snaps, s, x) < majorityRequired(healthy)
  THEN {[majority |-> {}, agreeing |-> 0, exceeded |-> healthy > 0]}
  ELSE {[majority |-> {x}, agreeing |-> count(snaps, s, x),
         exceeded |-> (healthy - count(snaps, s, x)) * 100 > disagreementThreshold * healthy] : x \in top}

Product(snaps) == {f \in [Slots -> UNION {Comparisons(snaps, s) : s \in Slots}] : \A s \in Slots : f[s] \in Comparisons(snaps, s)}

vote(t) ==
  /\ tick[t].pc = "read" /\ asked(t) = Readers
  /\ \E f \in Product(tick[t].snapshots) : tick' = [tick EXCEPT ![t].pc = "compare", ![t].verdict = f]
  /\ UNCHANGED <<ops, now, chain, local, view, drift, alerted, moved, treasury>>

compareStates(x, row) ==
  \/ x.tx # row.tx
  \/ LET expected == mapChainEventToIntentStatus(x.kind) IN expected # "null" /\ expected # row.status

\* One slot is compared with its row, read now; without a majority it counts as
\* drifted.
reconcileSlot(t) ==
  LET x == tick[t]
      s == slotIds[x.at]
      m == x.verdict[s].majority IN
  /\ x.pc = "compare" /\ x.at <= Len(slotIds)
  /\ LET d == m = {} \/ \E c \in m : compareStates(c, local[s]) IN
     /\ drift' = [drift EXCEPT ![s] = IF d THEN 1 ELSE 0]
     /\ tick' = [tick EXCEPT ![t].at = @ + 1, ![t].drifted = IF d THEN @ \cup {s} ELSE @]
  /\ UNCHANGED <<ops, now, chain, local, view, alerted, moved, treasury>>

reconcileEnds(t) ==
  /\ tick[t].pc = "compare" /\ tick[t].at > Len(slotIds)
  /\ alerted' = IF tick[t].drifted = {} THEN alerted ELSE tick[t].drifted
  /\ tick' = [tick EXCEPT ![t].pc = "idle"]
  /\ UNCHANGED <<ops, now, chain, local, view, drift, moved, treasury>>

-----------------------------------------------------------------------------
(* The treasury's alarm.                                                   *)

evaluateSeverity(b) ==
  IF 10 * b >= 11 * floor THEN 0 ELSE IF b >= floor THEN 1 ELSE IF 2 * b >= floor THEN 2 ELSE 3

Spend(b) ==
  /\ Op("treasury") /\ balance' = b
  /\ UNCHANGED <<now, votes, poll, state, lastPollAt, low>>

pollStart(p) ==
  /\ poll[p].pc = "idle" /\ Op("treasury")
  /\ poll' = [poll EXCEPT ![p] = [pc |-> "asked", balance |-> balance]]
  /\ UNCHANGED <<now, votes, balance, state, lastPollAt, low>>

rank == IF state = "unknown" THEN 0 ELSE CHOOSE n \in 0 .. 3 : state = <<"ok", "warning", "page", "critical">>[n + 1]
nameOf(n) == <<"ok", "warning", "page", "critical">>[n + 1]

nextSeverity(old, new) == IF new > old \/ new = 0 THEN new ELSE old

pollAnswered(p) ==
  LET new == evaluateSeverity(poll[p].balance) IN
  /\ poll[p].pc = "asked"
  /\ lastPollAt' = now
  /\ state' = nameOf(IF state = "unknown" THEN new ELSE nextSeverity(rank, new))
  /\ low' = IF 10 * poll[p].balance >= 11 * floor THEN 0
            ELSE Max({low, IF poll[p].balance >= floor THEN 1 ELSE IF 2 * poll[p].balance >= floor THEN 2 ELSE 3})
  /\ poll' = [poll EXCEPT ![p].pc = "idle"]
  /\ UNCHANGED <<ops, now, votes, balance>>

isStale == lastPollAt = 0 \/ now - lastPollAt > maxStaleness

pollFailed(p) ==
  /\ MayFail /\ poll[p].pc = "asked"
  /\ state' = IF state # "unknown" /\ isStale /\ rank < 2 THEN "page" ELSE state
  /\ low' = IF state # "unknown" /\ now - lastPollAt > maxStaleness THEN Max({low, 2}) ELSE low
  /\ poll' = [poll EXCEPT ![p].pc = "idle"]
  /\ UNCHANGED <<ops, now, votes, balance, lastPollAt>>

Tick ==
  /\ "treasury" \in Ops /\ now < MaxTime /\ now' = now + 1
  /\ UNCHANGED <<ops, votes, treasury>>

-----------------------------------------------------------------------------

Next ==
  \/ \E s \in Slots : Follow(s) \/ (\E kind \in Kinds : Emit(s, kind)) \/ \E r \in Readers : CatchUp(r, s)
  \/ postDriftOverride
  \/ \E t \in Ticks :
       \/ reconcile(t) \/ vote(t) \/ reconcileSlot(t) \/ reconcileEnds(t)
       \/ \E r \in Readers : snapshot(t, r) \/ withTimeout(t, r)
  \/ \E b \in Balances : Spend(b)
  \/ \E p \in Polls : pollStart(p) \/ pollAnswered(p) \/ pollFailed(p)
  \/ Tick

Spec == Init /\ [][Next]_vars

-----------------------------------------------------------------------------

\* What a slot's events and row would be compared to with perfect knowledge.
truth(s) == IF chain[s] = << >> THEN Unread ELSE [kind |-> Last(chain[s]), tx |-> Len(chain[s])]

\* When more than half of the readers that answered had seen the whole chain
\* and nothing moved meanwhile, the gauge says drift for exactly the slots
\* whose row is behind the chain or contradicts it.
DriftIsReal ==
  \A t \in Ticks :
    LET x == tick[t] IN
    x.pc = "compare" /\ t \notin moved =>
      \A k \in 1 .. x.at - 1 :
        LET s == slotIds[k]
            right == count(x.snapshots, s, truth(s)) IN
        2 * right > Cardinality(DOMAIN x.snapshots) =>
          (drift[s] = 1) = (\/ local[s].tx < Len(chain[s])
                            \/ chain[s] # << >> /\ local[s].status # mapChainEventToIntentStatus(Last(chain[s])))

\* The readers' verdict has more than half of the readers that answered behind
\* it, or exactly half of them and then the disagreement is alarmed; no other
\* state has more.  (The header of escrowReaderPool.ts, lines 13-18, calls a tie a
\* hung jury; Math.ceil at line 207 lets it decide when a reader of an odd pool
\* has failed.)
VerdictIsBacked ==
  \A t \in Ticks : tick[t].pc = "compare" =>
    LET snaps == tick[t].snapshots
        healthy == Cardinality(DOMAIN snaps) IN
    \A s \in Slots : \A c \in tick[t].verdict[s].majority :
      /\ 2 * count(snaps, s, c) >= healthy
      /\ 2 * count(snaps, s, c) = healthy => tick[t].verdict[s].exceeded
      /\ \A r \in DOMAIN snaps : count(snaps, s, snaps[r][s]) <= count(snaps, s, c)

\* The alarm is at the worst level met since a poll last found the balance clear
\* of the floor, polls in any order.  (One such poll ends the alarm; the two that
\* the comment in treasuryBalancePoller.ts, lines 231-235, asks for are not
\* counted by the code.)
AlarmIsLatched == state # "unknown" => rank = low

=============================================================================
