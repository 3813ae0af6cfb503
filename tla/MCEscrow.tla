------------------------------ MODULE MCEscrow ------------------------------
(***************************************************************************)
(* What the backend does with the chain.  The escrow event listener runs   *)
(* under five environments; the configuration gives the first: one         *)
(* listener whose calls may throw.  The Horizon client, the escrowed funds *)
(* and the readers of the chain are checked beside it, one operation       *)
(* family at a time.  They share no state, so one part is chosen at the    *)
(* start and the others stay in their initial state.                       *)
(***************************************************************************)
EXTENDS EscrowListener

CONSTANTS Parts   \* the parts that run

VARIABLES
  part,
  horizonTime, horizonOps, host, bucket, backoffs, service, call, outcomes, quota, head, stream, store,
  handled, pages, sequence, payment, sentTxs, chainHolds, holding, holdTxs, quote, account, payout,
  fundsTime, fundsOps, escrow, paid, queue, release, holds, bookingIntentIndex, batch, proposals, swept,
  relations, online, roundRobinIndex, assign,
  readTime, readOps, chain, local, view, round, drift, alerted, moved, treasury, poll, state, lastPollAt, low

OwnInstance == [l \in Listeners |-> l]
OneSlot == <<"s1">>
OneHold == <<"hold_placed">>

Event(ledger, kind, intent) ==
  [ledger |-> ledger, kind |-> kind, slot |-> "s1", intent |-> intent,
   contract |-> "escrow"]

\* Three events of one booking, every order of kinds; a page of two events ends
\* with the first ledger or inside the second.
ThreeEvents ==
  {<<Event(1, a, 1), Event(l, b, 1), Event(2, c, 1)>> :
     a, b, c \in Kinds, l \in 1..2}

\* Two events, with and without an intent id, and one of another contract.
TwoEvents ==
  {<<Event(1, a, i), Event(l, b, 1)>> : a, b \in Kinds, i \in {1, Undefined}, l \in 1..2}
  \cup {<<[Event(1, a, 1) EXCEPT !.contract = "other"], Event(1, b, 1)>> : a, b \in Kinds}

\* Events that name the slot, or the second intent, while the slot is rebooked.
RebookedEvents ==
  {<<Event(1, a, i), Event(2, b, j)>> : a, b \in Kinds, i, j \in {2, 1, Undefined}}

Two == {"l1", "l2"}

\* Two listeners that share the claims, crash, and fail to release them.
Crash == INSTANCE EscrowListener WITH
  Listeners <- Two, InstanceId <- [l \in Two |-> l], InitialStatus <- <<"pending">>,
  Logs <- TwoEvents, MaxLedger <- 3, MaxFaults <- 1

\* A crashing listener after outages in which claims and cursor expire.
Forget == INSTANCE EscrowListener WITH MaxFaults <- 1, MayForget <- TRUE

\* The booking service cancels and rebooks the slot, between projections and
\* while they run.
Rebook == INSTANCE EscrowListener WITH
  NIntents <- 2, SlotOf <- <<"s1", "s1">>, InitialStatus <- <<"pending", "absent">>,
  Logs <- RebookedEvents, MaxLedger <- 3, MaxFaults <- 1, MayBook <- TRUE

\* Two processes under one instanceId.
Shared == INSTANCE EscrowListener WITH
  Listeners <- Two, InstanceId <- [l \in Two |-> "host"],
  InitialStatus <- <<"pending">>, Logs <- {l \in TwoEvents : l[1].kind = "Held"}, MaxLedger <- 3,
  MaxFaults <- 1

-----------------------------------------------------------------------------
(* The Horizon client.                                                     *)

Calls == {"c", "d"}
Hosts == {1, 2}
QUARANTINE_COOLDOWN == 1
ERROR_WINDOW == 0
MAX_ERRORS == 2
initialCapacity == 1
maxQueueDepth == 1
maxRetries == 1
failureThreshold == 2
circuitOpenDuration == 1
probeWindowSize == 2
minProbeSamples == 2
FirstCursor == 0
ResumeAfter == -1
MayLoseStore == FALSE
MayOverlap == FALSE
limit == 2
maxRecords == 3
Senders == {"s", "t"}
maxCollisions == 1
Bookings == {"b"}
Tokens == {1}
Quotes == {[amount |-> a, oracleRate |-> r, oracleAt |-> t] : a \in {9, 1000}, r \in {0, 1, 2}, t \in {0, 1}}
Paths == {<< >>, <<995, 990>>, <<994, 1005>>, <<1990, 1989>>}
tolerance == 50
dustThreshold == 10
oracleMaxAge == 1
Payouts == {5, 7, 9}
Balance == 30
Minimum == [subentries |-> 1, baseReserve |-> 5]

\* Two calls over two hosts with quarantine, rate limits and the circuit breaker.
HorizonCalls == INSTANCE HorizonClient WITH
  Ops <- {"calls"}, MaxOps <- 2, MaxTime <- 1, MaxEvents <- 5,
  now <- horizonTime, ops <- horizonOps, holds <- chainHolds, balance <- account, applied <- sentTxs

\* The event stream, paged reads, payments, holds, quotes and payouts.
HorizonUses(use) == INSTANCE HorizonClient WITH
  Ops <- {use}, MaxOps <- 5, MaxTime <- 1, MaxEvents <- 5,
  now <- horizonTime, ops <- horizonOps, holds <- chainHolds, balance <- account, applied <- sentTxs

-----------------------------------------------------------------------------
(* Escrowed funds.                                                         *)

Plans ==
  {[hold |-> 10, amounts |-> <<4, 6>>], [hold |-> 10, amounts |-> <<6, 5>>], [hold |-> 5, amounts |-> <<4>>]}
Windows == {0, 1}
MaxHolds == 3
Admins == {"a1", "a2"}
MaxProposals == 2
Pool == <<"x", "y", "z">>
Parties == {"p", "q"}
Disputes == {"d1", "d2"}
MayReregister == FALSE

\* Milestones, scheduled releases and slashes.
Funds(use) == INSTANCE EscrowFunds WITH
  Ops <- {use}, Intents <- {"i", "j"}, MayOverlap <- TRUE, MaxTime <- 1,
  MaxOps <- 6, now <- fundsTime, ops <- fundsOps, call <- release

\* Arbitrators are assigned while relations are declared and they go offline.
Arbiters == INSTANCE EscrowFunds WITH
  Ops <- {"arbiters"}, Intents <- {"i", "j"}, MayOverlap <- TRUE, MaxTime <- 1,
  MaxOps <- 4, now <- fundsTime, ops <- fundsOps, call <- release

-----------------------------------------------------------------------------
(* Readers of the chain.                                                   *)

slotIds == <<"s">>
Readers == {"x", "y", "z"}
quorumThreshold == 50
disagreementThreshold == 25
Ticks == {"t1"}
Balances == {4, 5, 9, 10, 11}
floor == 10
Polls == {"p", "q"}
maxStaleness == 1
MayLag == TRUE
MayFail == TRUE
MaxEvents == 2

\* Three readers that lag behind and fail vote on one slot.
Votes == INSTANCE ChainReads WITH
  Ops <- {"votes"}, Kinds <- {"Held", "Released"}, MayOverlap <- TRUE, MaxTime <- 3, MaxOps <- 3,
  now <- readTime, ops <- readOps, tick <- round, balance <- treasury

\* Two polls of the treasury's balance overlap.
Treasury == INSTANCE ChainReads WITH
  Ops <- {"treasury"}, Kinds <- {"Held", "Released"}, MayOverlap <- TRUE, MaxTime <- 3, MaxOps <- 5,
  now <- readTime, ops <- readOps, tick <- round, balance <- treasury

-----------------------------------------------------------------------------

listening == <<log, tip, cursor, claimed, tick, status, bookable, projected, applied, overlapped, faults>>
horizon ==
  <<horizonTime, horizonOps, host, bucket, backoffs, service, call, outcomes, quota, head, stream, store,
    handled, pages, sequence, payment, sentTxs, chainHolds, holding, holdTxs, quote, account, payout>>
funds ==
  <<fundsTime, fundsOps, escrow, paid, queue, release, holds, bookingIntentIndex, batch, proposals, swept,
    relations, online, roundRobinIndex, assign>>
reads ==
  <<readTime, readOps, chain, local, view, round, drift, alerted, moved, treasury, poll, state, lastPollAt, low>>
all == <<part, listening, horizon, funds, reads>>

Environments == {"single", "crash", "forget", "rebook", "shared"}
Uses == {"stream", "pages", "payments", "holds", "quotes", "payouts"}
FundUses == {"milestones", "holdings", "slash"}

MCInit ==
  /\ part \in Parts
  /\ CASE part = "crash" -> Crash!Init
       [] part = "forget" -> Forget!Init
       [] part = "rebook" -> Rebook!Init
       [] part = "shared" -> Shared!Init
       [] OTHER -> Init /\ (part = "single" \/ log = CHOOSE l \in Logs : TRUE)
  /\ HorizonCalls!Init /\ Arbiters!Init /\ Votes!Init

ListenerNext ==
  \/ part = "single" /\ Next
  \/ part = "crash" /\ Crash!Next
  \/ part = "forget" /\ Forget!Next
  \/ part = "rebook" /\ ~overlapped /\ Rebook!Next
  \/ part = "shared" /\ Shared!Next

HorizonNext ==
  \/ part = "calls" /\ HorizonCalls!Next
  \/ \E use \in Uses : part = use /\ HorizonUses(use)!Next

FundsNext ==
  \/ \E use \in FundUses : part = use /\ Funds(use)!Next
  \/ part = "arbiters" /\ Arbiters!Next

ReadsNext ==
  \/ part = "votes" /\ Votes!Next
  \/ part = "treasury" /\ Treasury!Next

MCNext ==
  \/ ListenerNext /\ UNCHANGED <<part, horizon, funds, reads>>
  \/ HorizonNext /\ UNCHANGED <<part, listening, funds, reads>>
  \/ FundsNext /\ UNCHANGED <<part, listening, horizon, reads>>
  \/ ReadsNext /\ UNCHANGED <<part, listening, horizon, funds>>

\* Without requests the other parts are at rest; the listener never is.  What
\* follows a booking call inside a projection is not looked at.
Idle == (part \notin Environments \/ overlapped) /\ UNCHANGED all

MCSpec == MCInit /\ [][MCNext \/ Idle]_all

-----------------------------------------------------------------------------
\* The types of a component are a conjunct of an invariant about it.

\* With one listener, an event at or below the cursor has been projected, so
\* that a tick that throws leaves nothing behind it, with two exceptions: its
\* claim was left behind, once for each call that failed or listener that died,
\* or a full page ended inside its ledger (escrowEventListener.ts:224).  The
\* booking has the status that the events projected so far give it in chain
\* order.
ProjectionFollowsChain == part = "single" => TypeOK /\ PassedIsProjected /\ StatusFollowsChain

\* With one listener, cancelled and expired bookings stay as they are (Guarantee
\* 4), although its keys expire and the booking service cancels and rebooks, and
\* an open booking keeps its slot from being offered, until a booking call comes
\* between the read and the write of a projection (the projector awaits both).
\* A cursor moves back only when it is set by a process that checked it before
\* another one moved it: never with one process to an instanceId (Guarantee 2
\* does not except the two; RedisCursorStore gets, then sets).
NothingIsUndone ==
  /\ [](part = "rebook" => Rebook!OpenIntentHoldsSlot)
  /\ [][/\ part \in {"single", "forget", "rebook"} /\ ~overlapped =>
             \A i \in DOMAIN status : status[i] \in Terminal => status'[i] = status[i]
        /\ \A c \in DOMAIN cursor :
             cursor'[c] < cursor[c] =>
               \/ part = "forget" /\ cursor'[c] = Null
               \/ /\ part = "shared"
                  /\ \E l \in Two : tick[l].at = "set" /\ tick'[l].at = "idle" /\ tick[l].before < cursor[c]]_all

\* The Horizon client refuses, quarantines and degrades only with a cause, spends
\* no more than a host's rate limit, delivers every event of the stream and of
\* the pages, sends a payment once whatever is lost, and pays within the quote
\* and the reserve.
HorizonSound ==
  /\ part = "calls" => HorizonCalls!HorizonSound
  /\ \A use \in Uses : part = use => HorizonUses(use)!HorizonSound

\* Parts of a hold never exceed it, an intent has one open hold that is not paid
\* out while disputed, a slash has two administrators, and an arbitrator has no
\* relation to the parties, however the calls overlap.
FundsSound ==
  /\ \A use \in FundUses : part = use => Funds(use)!FundsSound
  /\ part = "arbiters" => Arbiters!FundsSound

=============================================================================
