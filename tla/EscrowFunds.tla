---------------------------- MODULE EscrowFunds ----------------------------
(***************************************************************************)
(* Escrowed money between the hold and its end: milestones released in     *)
(* parts, holds of booking intents with their scheduled release, stakes    *)
(* slashed by two administrators, and the arbitrator a dispute is given.   *)
(* All of it is state of one process.  A call is split where it awaits:    *)
(* a release at the queue of releases, the scheduled release between two   *)
(* holds, an assignment at each lookup of conflicts, a slash at its audit. *)
(***************************************************************************)
EXTENDS Integers, Sequences, FiniteSets, SequencesExt, FiniteSetsExt

CONSTANTS
  Ops,           \* of "milestones", "holdings", "slash", "arbiters"
  Bookings, Plans,            \* bookings, and [hold, amounts] they may be registered with
  Calls,                      \* releases under way together
  Intents, Windows, MaxHolds, \* booking intents, scheduled release times, bound on holds
  Admins, MaxProposals,
  Pool, Parties,              \* the arbitrators in order, and parties of disputes
  Disputes,
  MayOverlap,    \* calls may overlap
  MayReregister, \* a booking may be registered again
  MaxTime, MaxOps

VARIABLES
  now, ops,
  escrow, paid, queue, call,                  \* milestones
  holds, bookingIntentIndex, batch,           \* holds
  proposals, swept,                           \* slashes
  relations, online, roundRobinIndex, assign  \* arbitrators

vars == <<now, ops, escrow, paid, queue, call, holds, bookingIntentIndex, batch, proposals, swept,
          relations, online, roundRobinIndex, assign>>
milestoneVars == <<escrow, paid, queue, call>>
holdVars == <<holds, bookingIntentIndex, batch>>
slashVars == <<proposals, swept>>
arbiterVars == <<relations, online, roundRobinIndex, assign>>

NoBooking == [hold |-> 0, milestones |-> << >>]
NoAssign == [pc |-> "idle", buyer |-> "none", supplier |-> "none", at |-> 0, eligible |-> << >>, assigned |-> "none",
             conflicts |-> {}]

Init ==
  /\ now = 0 /\ ops = 0
  /\ escrow = [b \in Bookings |-> NoBooking] /\ paid = [b \in Bookings |-> << >>]
  /\ queue = << >> /\ call = [c \in Calls |-> [booking |-> "none", milestone |-> 0]]
  /\ holds = << >> /\ bookingIntentIndex = {} /\ batch = [pc |-> "idle", due |-> << >>]
  /\ proposals = << >> /\ swept = << >>
  /\ relations = {} /\ online = ToSet(Pool) /\ roundRobinIndex = 0
  /\ assign = [d \in Disputes |-> NoAssign]

Op(name) == name \in Ops /\ ops < MaxOps /\ ops' = ops + 1

-----------------------------------------------------------------------------
(* Milestones.                                                             *)

total(s) == FoldLeft(LAMBDA x, y : x + y, 0, s)

fits(plan) == total(plan.amounts) <= plan.hold

\* A second registration replaces the first, its releases included.
registerBooking(b, plan) ==
  /\ Op("milestones") /\ (escrow[b] # NoBooking => MayReregister)
  /\ \A i \in DOMAIN plan.amounts : plan.amounts[i] > 0
  /\ fits(plan)
  /\ escrow' = [escrow EXCEPT ![b] = [hold |-> plan.hold, milestones |->
       [i \in DOMAIN plan.amounts |-> [amount |-> plan.amounts[i], released |-> FALSE, authorizedBy |-> "none"]]]]
  /\ UNCHANGED <<now, paid, queue, call, holdVars, slashVars, arbiterVars>>

authorizeMilestone(b, i, admin) ==
  /\ Op("milestones") /\ i \in DOMAIN escrow[b].milestones
  /\ escrow' = [escrow EXCEPT ![b].milestones[i].authorizedBy = admin]
  /\ UNCHANGED <<now, paid, queue, call, holdVars, slashVars, arbiterVars>>

\* A release takes its ticket and waits for those before it.
releasePartial(c, b, i) ==
  /\ call[c].booking = "none" /\ Op("milestones")
  /\ call' = [call EXCEPT ![c] = [booking |-> b, milestone |-> i]]
  /\ queue' = Append(queue, c)
  /\ UNCHANGED <<now, escrow, paid, holdVars, slashVars, arbiterVars>>

getRemainingBalance(b) ==
  LET released == SelectSeq(escrow[b].milestones, LAMBDA m : m.released) IN
  escrow[b].hold - total([k \in DOMAIN released |-> released[k].amount])

\* Mutant: a released milestone is released again.
releasableAgain(b, m) == m.authorizedBy # "none"

releasable(b, m) == ~m.released /\ m.authorizedBy # "none" /\ m.amount <= getRemainingBalance(b)

\* The turn of the first in the queue, released or refused.
doRelease ==
  /\ queue # << >>
  /\ LET x == call[queue[1]]
         ok == x.milestone \in DOMAIN escrow[x.booking].milestones
               /\ releasable(x.booking, escrow[x.booking].milestones[x.milestone]) IN
     /\ escrow' = IF ok THEN [escrow EXCEPT ![x.booking].milestones[x.milestone].released = TRUE] ELSE escrow
     /\ paid' = IF ok THEN [paid EXCEPT ![x.booking] = Append(@, escrow[x.booking].milestones[x.milestone].amount)]
                ELSE paid
     /\ call' = [call EXCEPT ![queue[1]].booking = "none"]
  /\ queue' = Tail(queue)
  /\ UNCHANGED <<now, ops, holdVars, slashVars, arbiterVars>>

-----------------------------------------------------------------------------
(* Holds.                                                                  *)

heldAlready(intent) == \E x \in bookingIntentIndex : x[1] = intent

createHold(intent, w) ==
  /\ Op("holdings") /\ Len(holds) < MaxHolds
  /\ ~heldAlready(intent)
  /\ holds' = Append(holds, [intent |-> intent, releaseAt |-> w, state |-> "held", trail |-> <<"held">>, at |-> 0])
  /\ bookingIntentIndex' = bookingIntentIndex \cup {<<intent, Len(holds) + 1>>}
  /\ UNCHANGED <<now, milestoneVars, batch, slashVars, arbiterVars>>

move(h, state) == [holds EXCEPT ![h].state = state, ![h].trail = Append(@, state), ![h].at = now]
withoutIntent(intent) == {x \in bookingIntentIndex : x[1] # intent}

mayRelease(h) == holds[h].state = "held"

releaseHold(h) ==
  /\ Op("holdings") /\ mayRelease(h)
  /\ holds' = move(h, "released")
  /\ bookingIntentIndex' = withoutIntent(holds[h].intent)
  /\ UNCHANGED <<now, milestoneVars, batch, slashVars, arbiterVars>>

refundHold(h) ==
  /\ Op("holdings") /\ holds[h].state \in {"held", "disputed"}
  /\ holds' = move(h, "refunded")
  /\ bookingIntentIndex' = withoutIntent(holds[h].intent)
  /\ UNCHANGED <<now, milestoneVars, batch, slashVars, arbiterVars>>

disputeHold(h) ==
  /\ Op("holdings") /\ holds[h].state = "held"
  /\ holds' = move(h, "disputed")
  /\ UNCHANGED <<now, milestoneVars, bookingIntentIndex, batch, slashVars, arbiterVars>>

\* processDueHolds lists the holds that are due, then releases one after the
\* other; one that is no longer held ends the whole batch.
due(h) == holds[h].state = "held" /\ holds[h].releaseAt <= now

processDueHolds ==
  /\ batch.pc = "idle" /\ Op("holdings")
  /\ batch' = [pc |-> "run", due |-> SelectSeq([i \in DOMAIN holds |-> i], due)]
  /\ UNCHANGED <<now, milestoneVars, holds, bookingIntentIndex, slashVars, arbiterVars>>

processDueHoldsStep ==
  /\ batch.pc = "run"
  /\ IF batch.due = << >> \/ ~mayRelease(batch.due[1])
     THEN /\ batch' = [pc |-> "idle", due |-> << >>]
          /\ UNCHANGED <<holds, bookingIntentIndex>>
     ELSE /\ holds' = move(batch.due[1], "released")
          /\ bookingIntentIndex' = withoutIntent(holds[batch.due[1]].intent)
          /\ batch' = [batch EXCEPT !.due = Tail(@)]
  /\ UNCHANGED <<now, ops, milestoneVars, slashVars, arbiterVars>>

-----------------------------------------------------------------------------
(* Slashes.  The change comes before the audit, which may fail without     *)
(* undoing it; the caller then tries again.                                *)

proposeSlash(admin, b) ==
  /\ Op("slash") /\ Len(proposals) < MaxProposals
  /\ proposals' = Append(proposals, [booking |-> b, proposedBy |-> admin, approvedBy |-> "none",
                                     status |-> "pending_approval"])
  /\ UNCHANGED <<now, milestoneVars, holdVars, swept, arbiterVars>>

mayApprove(p, admin) == proposals[p].status = "pending_approval" /\ proposals[p].proposedBy # admin

approveSlash(p, admin) ==
  /\ Op("slash") /\ mayApprove(p, admin)
  /\ proposals' = [proposals EXCEPT ![p].approvedBy = admin, ![p].status = "approved"]
  /\ UNCHANGED <<now, milestoneVars, holdVars, swept, arbiterVars>>

requiresTwoAdminApproval(p) ==
  proposals[p].status = "approved" /\ proposals[p].approvedBy # "none" /\ proposals[p].approvedBy # proposals[p].proposedBy

executeSlash(p) ==
  /\ Op("slash") /\ requiresTwoAdminApproval(p)
  /\ proposals' = [proposals EXCEPT ![p].status = "executed"]
  /\ swept' = Append(swept, p)
  /\ UNCHANGED <<now, milestoneVars, holdVars, arbiterVars>>

-----------------------------------------------------------------------------
(* Arbitrators.                                                            *)

addRelation(a, party) ==
  /\ Op("arbiters")
  /\ relations' = relations \cup {<<a, party>>}
  /\ UNCHANGED <<now, milestoneVars, holdVars, slashVars, online, roundRobinIndex, assign>>

removeRelationsFor(a) ==
  /\ Op("arbiters") /\ relations' = {r \in relations : r[1] # a}
  /\ UNCHANGED <<now, milestoneVars, holdVars, slashVars, online, roundRobinIndex, assign>>

goOffline(a) ==
  /\ Op("arbiters") /\ online' = SymDiff(online, {a})
  /\ UNCHANGED <<now, milestoneVars, holdVars, slashVars, relations, roundRobinIndex, assign>>

assignStart(d, buyer, supplier) ==
  /\ assign[d].pc = "idle" /\ Op("arbiters")
  /\ assign' = [assign EXCEPT ![d] = [NoAssign EXCEPT !.pc = "scan", !.buyer = buyer, !.supplier = supplier, !.at = 1]]
  /\ UNCHANGED <<now, milestoneVars, holdVars, slashVars, relations, online, roundRobinIndex>>

getConflicts(a, buyer, supplier) == {r \in relations : r[1] = a /\ r[2] \in {buyer, supplier}}

\* One arbitrator is looked at; after the last one, the next in turn of those
\* without a conflict is taken.
assignArbitrator(d) ==
  LET x == assign[d]
      a == Pool[x.at] IN
  /\ x.pc = "scan"
  /\ IF x.at <= Len(Pool)
     THEN /\ assign' = [assign EXCEPT ![d].at = @ + 1,
                ![d].eligible = IF a \in online /\ getConflicts(a, x.buyer, x.supplier) = {} THEN Append(@, a) ELSE @,
                ![d].conflicts = @ \cup {r[1] : r \in {r \in relations : r[1] = a /\ r[2] \in {x.buyer, x.supplier}}}]
          /\ UNCHANGED roundRobinIndex
     ELSE IF x.eligible = << >>
     THEN assign' = [assign EXCEPT ![d].pc = "done"] /\ UNCHANGED roundRobinIndex
     ELSE /\ assign' = [assign EXCEPT ![d].pc = "done", ![d].assigned = x.eligible[1 + (roundRobinIndex % Len(x.eligible))]]
          /\ roundRobinIndex' = roundRobinIndex + 1
  /\ UNCHANGED <<now, ops, milestoneVars, holdVars, slashVars, relations, online>>

-----------------------------------------------------------------------------

Tick ==
  /\ "holdings" \in Ops /\ now < MaxTime /\ now' = now + 1
  /\ UNCHANGED <<ops, milestoneVars, holdVars, slashVars, arbiterVars>>

Quiet == MayOverlap \/ (queue = << >> /\ batch.pc = "idle" /\ \A d \in Disputes : assign[d].pc # "scan")

Next ==
  \/ Quiet /\
     (\/ \E b \in Bookings, plan \in Plans : registerBooking(b, plan)
      \/ \E b \in Bookings, i \in 1 .. 2, admin \in Admins : authorizeMilestone(b, i, admin)
      \/ \E c \in Calls, b \in Bookings, i \in 1 .. 2 : releasePartial(c, b, i)
      \/ \E intent \in Intents, w \in Windows : createHold(intent, w)
      \/ \E h \in DOMAIN holds : releaseHold(h) \/ refundHold(h) \/ disputeHold(h)
      \/ processDueHolds
      \/ \E admin \in Admins, b \in Bookings : proposeSlash(admin, b)
      \/ \E p \in DOMAIN proposals : executeSlash(p) \/ \E admin \in Admins : approveSlash(p, admin)
      \/ \E a \in ToSet(Pool) : removeRelationsFor(a) \/ goOffline(a) \/ \E p \in Parties : addRelation(a, p)
      \/ \E d \in Disputes, buyer, supplier \in Parties : buyer # supplier /\ assignStart(d, buyer, supplier))
  \/ doRelease
  \/ processDueHoldsStep
  \/ \E d \in Disputes : assignArbitrator(d)
  \/ Tick

Spec == Init /\ [][Next]_vars

-----------------------------------------------------------------------------

\* What is paid out of a booking's hold in parts never exceeds the hold,
\* however releases queue up, unless the booking is registered again.
NeverOverReleased ==
  ~MayReregister => \A b \in Bookings : escrow[b] # NoBooking => total(paid[b]) <= escrow[b].hold

\* An intent has one open hold at most, the index names exactly the open ones,
\* and a hold that was disputed is never paid to the supplier.
HoldsSound ==
  /\ \A g, h \in DOMAIN holds :
       g # h /\ holds[g].intent = holds[h].intent => ~({holds[g].state, holds[h].state} \subseteq {"held", "disputed"})
  /\ bookingIntentIndex = {<<holds[h].intent, h>> : h \in {g \in DOMAIN holds : holds[g].state \in {"held", "disputed"}}}
  /\ \A h \in DOMAIN holds : "disputed" \in ToSet(holds[h].trail) => holds[h].state # "released"

\* A stake is swept once, after two administrators agreed.
SweptByTwo ==
  /\ IsInjective(swept)
  /\ \A k \in DOMAIN swept : Cardinality({proposals[swept[k]].proposedBy, proposals[swept[k]].approvedBy} \ {"none"}) = 2

\* An arbitrator is assigned who had no conflict with a party when looked at,
\* and none is assigned only if none was free.
ArbiterIsNeutral ==
  \A d \in Disputes : assign[d].pc = "done" =>
    /\ assign[d].assigned \notin assign[d].conflicts
    /\ assign[d].assigned = "none" <=> assign[d].eligible = << >>

\* Escrowed money is handled soundly.
FundsSound == NeverOverReleased /\ HoldsSound /\ SweptByTwo /\ ArbiterIsNeutral
=============================================================================
