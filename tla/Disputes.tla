------------------------------ MODULE Disputes ------------------------------
(***************************************************************************)
(* Disputes: evidence, adjudication, appeals to a senior panel, deadlines  *)
(* that resolve a dispute on their own, and reversals of those.            *)
(*                                                                         *)
(* Every route but one runs to its end without giving up the thread.  An   *)
(* appeal writes an audit record between its checks and its changes.  Time *)
(* is kept as ages that stop once every deadline is past.  Of the finality *)
(* chain the statuses of the last two links are kept, which is what the    *)
(* code reads of it.                                                       *)
(***************************************************************************)
EXTENDS Integers, FiniteSetsExt, TLAPS

CONSTANTS
  Disputes,
  Appeals,              \* calls of the appeal route, each made at most once
  Arbiters,             \* senior arbiters, numbered in the order of their ids
  Conflicted,           \* those of the buyer's or the supplier's tenant
  Rulings,              \* what an arbiter may rule; NoRuling when it is left out
  PanelMinSize,         \* SENIOR_PANEL_MIN_SIZE
  appealWindow, inactivityTimeout, seniorReviewTimeout, autoResolveWindow

NoRuling == "none"
Undefined == -1
Cap == 1 + Max({appealWindow, inactivityTimeout, seniorReviewTimeout, autoResolveWindow})

VARIABLES
  dispute,  \* [status, ruling, arbiter, panel, final] of every dispute
  age,      \* time since the last link, adjudication, appeal and auto-resolution
  chain,    \* the statuses of the last two links
  queue,    \* the disputes in the arbitration queue
  pool,     \* the senior pool
  appeal,   \* the appeal calls: [at, id, panel, age]
  moved,    \* what each dispute has moved to the buyer, in units of its amount
  from,     \* the status before the last auto-resolution (history)
  inTurn    \* no call came in while an appeal of its dispute was audited (history)

vars == <<dispute, age, chain, queue, pool, appeal, moved, from, inTurn>>

Terminal == {"FINAL", "CLOSED", "TIMEOUT"}
Statuses == Terminal \cup {"absent", "OPEN", "EVIDENCED", "ADJUDICATED", "APPEALED", "SENIOR_REVIEW"}

Absent == [status |-> "absent", ruling |-> NoRuling, arbiter |-> 0, panel |-> {}, final |-> "none"]
NoCall == [at |-> "new", id |-> CHOOSE d \in Disputes : TRUE, panel |-> {}, age |-> 0]

Init ==
  /\ dispute = [d \in Disputes |-> Absent]
  /\ age = [d \in Disputes |-> [link |-> Undefined, adjudicated |-> Undefined,
                                appeal |-> Undefined, auto |-> Undefined]]
  /\ chain = [d \in Disputes |-> <<"none", "none">>]
  /\ queue = {}
  /\ pool = Arbiters
  /\ appeal = [q \in Appeals |-> NoCall]
  /\ moved = [d \in Disputes |-> 0]
  /\ from = [d \in Disputes |-> "none"]
  /\ inTurn = TRUE

-----------------------------------------------------------------------------
DISPUTE_STATE_TRANSITIONS ==
  [st \in Statuses |->
     CASE st = "OPEN" -> {"EVIDENCED", "TIMEOUT"}
       [] st = "EVIDENCED" -> {"ADJUDICATED", "TIMEOUT"}
       [] st = "ADJUDICATED" -> {"APPEALED", "CLOSED"}
       [] st = "APPEALED" -> {"SENIOR_REVIEW", "CLOSED"}
       [] st = "SENIOR_REVIEW" -> {"FINAL", "CLOSED"}
       [] OTHER -> {}]

canTransition(d, to) == to \in DISPUTE_STATE_TRANSITIONS[dispute[d].status]

\* appendFinalityLink: the last link becomes the one before last.
Link(d, to) == chain' = [chain EXCEPT ![d] = <<chain[d][2], to>>]

Quiet(d) == \A q \in Appeals : appeal[q].at = "audit" => appeal[q].id # d

\* A call on the dispute comes in.
Arrives(d) == inTurn' = (inTurn /\ Quiet(d))

createDispute(d) ==
  /\ dispute[d].status = "absent"
  /\ dispute' = [dispute EXCEPT ![d].status = "OPEN"]
  /\ queue' = queue \cup {d}
  /\ UNCHANGED <<age, chain, pool, appeal, moved, from, inTurn>>

addEvidence(d) ==
  /\ Arrives(d) /\ canTransition(d, "EVIDENCED")
  /\ dispute' = [dispute EXCEPT ![d].status = "EVIDENCED"]
  /\ Link(d, "EVIDENCED")
  /\ age' = [age EXCEPT ![d].link = 0]
  /\ UNCHANGED <<queue, pool, appeal, moved, from>>

\* What a ruling moves to the buyer: one that is left out counts against them.
Movement(ruling) == IF ruling = "BUYER_FAVOR" THEN 1 ELSE -1

adjudicate(d, ruling, arbiter) ==
  /\ Arrives(d) /\ canTransition(d, "ADJUDICATED")
  /\ dispute' = [dispute EXCEPT ![d].status = "ADJUDICATED", ![d].ruling = ruling,
                                ![d].arbiter = arbiter]
  /\ Link(d, "ADJUDICATED")
  /\ age' = [age EXCEPT ![d].link = 0, ![d].adjudicated = 0]
  /\ queue' = queue \ {d}
  /\ moved' = [moved EXCEPT ![d] = @ + Movement(ruling)]
  /\ UNCHANGED <<pool, appeal, from>>

timeoutDispute(d) ==
  /\ Arrives(d) /\ canTransition(d, "TIMEOUT")
  /\ dispute' = [dispute EXCEPT ![d].status = "TIMEOUT"]
  /\ Link(d, "TIMEOUT")
  /\ age' = [age EXCEPT ![d].link = 0]
  /\ queue' = queue \ {d}
  /\ UNCHANGED <<pool, appeal, moved, from>>

-----------------------------------------------------------------------------
(* Appeals.                                                                *)

Eligible(d) ==
  {a \in pool : a # dispute[d].arbiter /\ a \notin Conflicted /\ a \notin dispute[d].panel}

\* The candidates are sorted by id and the first ones taken.
selectSeniorPanel(d) ==
  {a \in Eligible(d) : Cardinality({b \in Eligible(d) : b < a}) < PanelMinSize}

isWithinAppealWindow(d) == age[d].adjudicated <= appealWindow

Appealable(d) == dispute[d].status = "ADJUDICATED"

\* The checks of the route, up to the audit record of the attempt.
initiateAppeal(q, d) ==
  /\ Arrives(d)
  /\ appeal[q].at = "new"
  /\ Appealable(d) /\ isWithinAppealWindow(d)
  /\ Cardinality(selectSeniorPanel(d)) >= PanelMinSize
  /\ appeal' = [appeal EXCEPT ![q] = [at |-> "audit", id |-> d, panel |-> selectSeniorPanel(d), age |-> 0]]
  /\ UNCHANGED <<dispute, age, chain, queue, pool, moved, from>>

\* ADJUDICATED -> APPEALED -> SENIOR_REVIEW, from what was checked before.
openSeniorReview(q) ==
  LET d == appeal[q].id IN
  /\ appeal[q].at = "audit"
  /\ dispute' = [dispute EXCEPT ![d].status = "SENIOR_REVIEW", ![d].panel = appeal[q].panel]
  /\ chain' = [chain EXCEPT ![d] = <<"APPEALED", "SENIOR_REVIEW">>]
  /\ age' = [age EXCEPT ![d].link = appeal[q].age, ![d].appeal = appeal[q].age]
  /\ appeal' = [appeal EXCEPT ![q] = [NoCall EXCEPT !.at = "done"]]
  /\ UNCHANGED <<queue, pool, moved, from, inTurn>>

\* A tie upholds.
decideByMajority(votes) ==
  LET count(v) == Cardinality({a \in DOMAIN votes : votes[a] = v})
  IN  IF count("UPHOLD") >= count("OVERTURN") THEN "UPHELD" ELSE "OVERTURNED"

Reversed(d) == IF dispute[d].ruling = NoRuling THEN 0 ELSE -Movement(dispute[d].ruling)

\* validateSeniorDecision: one vote of every member of the panel.
seniorDecide(d, votes) ==
  LET final == decideByMajority(votes) IN
  /\ Arrives(d)
  /\ dispute[d].status = "SENIOR_REVIEW" /\ dispute[d].panel # {}
  /\ dispute' = [dispute EXCEPT ![d].status = "FINAL", ![d].final = final]
  /\ Link(d, "FINAL")
  /\ age' = [age EXCEPT ![d].link = 0]
  /\ moved' = [moved EXCEPT ![d] = IF final = "OVERTURNED" THEN @ + Reversed(d) ELSE @]
  /\ UNCHANGED <<queue, pool, appeal, from>>

addSeniorArbiter(a) ==
  /\ a \notin pool /\ pool' = pool \cup {a}
  /\ UNCHANGED <<dispute, age, chain, queue, appeal, moved, from, inTurn>>

removeSeniorArbiter(a) ==
  /\ a \in pool /\ pool' = pool \ {a}
  /\ UNCHANGED <<dispute, age, chain, queue, appeal, moved, from, inTurn>>

-----------------------------------------------------------------------------
(* Deadlines.                                                              *)

\* The status a dispute is to be resolved to, "none" when it is not overdue.
\* An open dispute has no link and is passed over.
Overdue(d) ==
  LET st == dispute[d].status IN
  CASE age[d].auto # Undefined -> "none"
    [] st = "EVIDENCED" /\ age[d].link >= inactivityTimeout -> "TIMEOUT"
    [] st = "ADJUDICATED" /\ age[d].adjudicated >= appealWindow -> "CLOSED"
    [] st = "SENIOR_REVIEW" /\ age[d].appeal >= seniorReviewTimeout -> "CLOSED"
    [] OTHER -> "none"

Late == {d \in Disputes : Overdue(d) # "none"}

scanAndAutoResolve ==
  /\ Late # {}
  /\ inTurn' = (inTurn /\ \A d \in Late : Quiet(d))
  /\ dispute' = [d \in Disputes |->
       IF d \in Late THEN [dispute[d] EXCEPT !.status = Overdue(d)] ELSE dispute[d]]
  /\ chain' = [d \in Disputes |-> IF d \in Late THEN <<chain[d][2], Overdue(d)>> ELSE chain[d]]
  /\ age' = [d \in Disputes |->
       IF d \in Late THEN [age[d] EXCEPT !.link = 0, !.auto = 0] ELSE age[d]]
  /\ from' = [d \in Disputes |-> IF d \in Late THEN dispute[d].status ELSE from[d]]
  /\ UNCHANGED <<queue, pool, appeal, moved>>

PriorStatus(d) == chain[d][1]

\* Mutant: the reversal window is not looked at.
ReversibleLate(d) == age[d].auto # Undefined /\ dispute[d].status \in {"TIMEOUT", "CLOSED"}

Reversible(d) ==
  /\ age[d].auto # Undefined /\ age[d].auto <= autoResolveWindow
  /\ dispute[d].status \in {"TIMEOUT", "CLOSED"}

reverseAutoResolve(d) ==
  /\ Arrives(d) /\ Reversible(d)
  /\ dispute' = [dispute EXCEPT ![d].status = PriorStatus(d)]
  /\ Link(d, PriorStatus(d))
  /\ age' = [age EXCEPT ![d].link = 0, ![d].auto = Undefined]
  /\ UNCHANGED <<queue, pool, appeal, moved, from>>

\* The routes for both; the scan is also made by the scheduler.
postDeadlineScan == scanAndAutoResolve

postReverseAutoResolve(d) == reverseAutoResolve(d)

Older(n) == IF n = Undefined \/ n = Cap THEN n ELSE n + 1

Tick ==
  /\ age' = [d \in Disputes |->
       [link |-> Older(age[d].link), adjudicated |-> Older(age[d].adjudicated),
        appeal |-> Older(age[d].appeal), auto |-> Older(age[d].auto)]]
  /\ appeal' = [q \in Appeals |->
       IF appeal[q].at = "audit" THEN [appeal[q] EXCEPT !.age = Older(@)] ELSE appeal[q]]
  /\ UNCHANGED <<dispute, chain, queue, pool, moved, from, inTurn>>

-----------------------------------------------------------------------------
Next ==
  \/ \E d \in Disputes :
       \/ createDispute(d) \/ addEvidence(d) \/ timeoutDispute(d) \/ postReverseAutoResolve(d)
       \/ \E ruling \in Rulings, a \in Arbiters : adjudicate(d, ruling, a)
       \/ \E q \in Appeals : initiateAppeal(q, d)
       \/ \E votes \in [dispute[d].panel -> {"UPHOLD", "OVERTURN"}] : seniorDecide(d, votes)
  \/ \E q \in Appeals : openSeniorReview(q)
  \/ \E a \in Arbiters : addSeniorArbiter(a) \/ removeSeniorArbiter(a)
  \/ postDeadlineScan
  \/ Tick

Spec == Init /\ [][Next]_vars

\* The scheduler scans every minute, time passes, and a route runs on after
\* its audit record.
FairSpec ==
  /\ Spec /\ WF_vars(scanAndAutoResolve) /\ WF_vars(Tick)
  /\ \A q \in Appeals : WF_vars(openSeniorReview(q))

-----------------------------------------------------------------------------
\* The variables have their types, and the last link is the dispute's status.
TypeOK ==
  /\ \A d \in Disputes :
       /\ dispute[d].status \in Statuses /\ dispute[d].panel \subseteq Arbiters
       /\ chain[d][2] # "none" => chain[d][2] = dispute[d].status
  /\ queue \subseteq Disputes /\ pool \subseteq Arbiters

\* While calls wait for an appeal to end, a terminal dispute stays as it is, but
\* for the reversal of a resolution by deadline that is still in its window
\* (docs/dispute-appeals.md: "cannot be re-opened").
TerminalStep ==
  \A d \in Disputes :
    (inTurn' /\ dispute[d].status \in Terminal /\ dispute'[d].status # dispute[d].status)
      => /\ age[d].auto \in 0..autoResolveWindow
         /\ age'[d].auto = Undefined
         /\ dispute'[d].status = from[d]

\* While calls wait for an appeal to end, what a dispute has moved in the ledgers
\* is what its ruling moves, and nothing once the panel has overturned the
\* ruling; deadlines, reversals and panels never move it twice.
LedgerFollowsRuling ==
  inTurn =>
    \A d \in Disputes :
      moved[d] = CASE dispute[d].arbiter = 0 -> 0
                   [] dispute[d].final = "OVERTURNED" /\ dispute[d].ruling # NoRuling -> 0
                   [] OTHER -> Movement(dispute[d].ruling)

\* A dispute that waits for an arbiter is in the arbitration queue, also when
\* it timed out and the time-out was reversed.
WaitingIsQueued ==
  \A d \in Disputes : dispute[d].status \in {"OPEN", "EVIDENCED"} => d \in queue

\* The status that a reversal takes from the chain is the one that the
\* dispute had when its deadline passed.
ReversalRestores == \A d \in Disputes : Reversible(d) => PriorStatus(d) = from[d]

-----------------------------------------------------------------------------
(* The inductive invariant.                                                *)

Assumed == Disputes # {} /\ Arbiters \subseteq Nat \ {0} /\ autoResolveWindow \in Nat

Ages == Nat \cup {Undefined}

Rows ==
  [status : Statuses, ruling : Rulings \cup {NoRuling}, arbiter : Arbiters \cup {0},
   panel : SUBSET Arbiters, final : {"none", "UPHELD", "OVERTURNED"}]
Times == [link : Ages, adjudicated : Ages, appeal : Ages, auto : Ages]
AppealCalls ==
  [at : {"new", "audit", "done"}, id : Disputes, panel : SUBSET Arbiters, age : Nat]

Kinds ==
  /\ dispute \in [Disputes -> Rows]
  /\ age \in [Disputes -> Times]
  /\ chain \in [Disputes -> (Statuses \cup {"none"}) \X (Statuses \cup {"none"})]
  /\ queue \subseteq Disputes /\ pool \subseteq Arbiters
  /\ appeal \in [Appeals -> AppealCalls]
  /\ moved \in [Disputes -> Int]
  /\ from \in [Disputes -> Statuses \cup {"none"}]

\* The chain ends with the status, and a resolution by deadline can be told from
\* the others by its time; it left the dispute in the queue if it was there.
Chained(d) ==
  LET st == dispute[d].status IN
  /\ IF st \in {"absent", "OPEN"} THEN chain[d][2] = "none" ELSE chain[d][2] = st
  /\ st \in {"absent", "OPEN", "EVIDENCED", "ADJUDICATED"} => age[d].auto = Undefined
  /\ st \in {"OPEN", "EVIDENCED"} => d \in queue
  /\ st = "CLOSED" => age[d].auto # Undefined /\ from[d] \in {"ADJUDICATED", "SENIOR_REVIEW"}
  /\ st = "TIMEOUT" /\ age[d].auto # Undefined => from[d] = "EVIDENCED" /\ d \in queue
  /\ st \in {"TIMEOUT", "CLOSED"} /\ age[d].auto # Undefined => chain[d][1] = from[d]

\* A dispute has an arbiter from its ruling on, and has moved nothing before.
Ruled(d) ==
  /\ dispute[d].status \in {"absent", "OPEN", "EVIDENCED", "TIMEOUT"} <=> dispute[d].arbiter = 0
  /\ dispute[d].arbiter = 0 => moved[d] = 0 /\ dispute[d].final = "none"

\* In turn, nothing but the panel's decision moves the ledgers again.
Booked(d) ==
  LET row == dispute[d] IN
  /\ row.status # "FINAL" => row.final = "none"
  /\ row.arbiter # 0 =>
       moved[d] = IF row.final = "OVERTURNED" /\ row.ruling # NoRuling THEN 0
                  ELSE Movement(row.ruling)

\* In turn, an audited appeal finds the dispute as it was checked.
Audited(q) ==
  appeal[q].at = "audit" =>
    /\ dispute[appeal[q].id].status = "ADJUDICATED"
    /\ \A p \in Appeals : p # q /\ appeal[p].at = "audit" => appeal[p].id # appeal[q].id

DisputeInv ==
  /\ Kinds
  /\ \A d \in Disputes : Chained(d) /\ Ruled(d)
  /\ \A q \in Appeals : appeal[q].at = "audit" => dispute[appeal[q].id].arbiter # 0
  /\ inTurn => (\A d \in Disputes : Booked(d)) /\ \A q \in Appeals : Audited(q)

-----------------------------------------------------------------------------
(* Theorems, for any calls of the routes, any panels and any deadlines.    *)

\* Most steps need no arithmetic: Zenon is tried first, and SMT on what is left.
USE ZenonT(2), SMTT(15), ZenonT(15)

\* A row stays a row when a route sets its fields.
LEMMA RowKinds ==
  ASSUME NEW fields \in Rows
  PROVE  /\ \A st \in Statuses : [fields EXCEPT !.status = st] \in Rows
         /\ \A st \in Statuses, ru \in Rulings, a \in Arbiters :
              [fields EXCEPT !.status = st, !.ruling = ru, !.arbiter = a] \in Rows
         /\ \A st \in Statuses, pa \in SUBSET Arbiters : [fields EXCEPT !.status = st, !.panel = pa] \in Rows
         /\ \A st \in Statuses, fi \in {"UPHELD", "OVERTURNED"} :
              [fields EXCEPT !.status = st, !.final = fi] \in Rows
<1>1. \A st \in Statuses : [fields EXCEPT !.status = st] \in Rows
  BY DEF Rows
<1>2. \A st \in Statuses, ru \in Rulings, a \in Arbiters :
        [fields EXCEPT !.status = st, !.ruling = ru, !.arbiter = a] \in Rows
  BY DEF Rows
<1>3. \A st \in Statuses, pa \in SUBSET Arbiters : [fields EXCEPT !.status = st, !.panel = pa] \in Rows
  BY DEF Rows
<1>4. \A st \in Statuses, fi \in {"UPHELD", "OVERTURNED"} :
        [fields EXCEPT !.status = st, !.final = fi] \in Rows
  BY DEF Rows
<1> QED BY <1>1, <1>2, <1>3, <1>4

\* So do the times that are kept of it.
LEMMA TimeKinds ==
  ASSUME NEW times \in Times, NEW n \in Ages, NEW k \in Ages
  PROVE  /\ [times EXCEPT !.link = n] \in Times
         /\ [times EXCEPT !.link = n, !.adjudicated = k] \in Times
         /\ [times EXCEPT !.link = n, !.appeal = k] \in Times
         /\ [times EXCEPT !.link = n, !.auto = k] \in Times
<1>1. [times EXCEPT !.link = n] \in Times
  BY DEF Times
<1>2. [times EXCEPT !.link = n, !.adjudicated = k] \in Times
  BY DEF Times
<1>3. [times EXCEPT !.link = n, !.appeal = k] \in Times
  BY DEF Times
<1>4. [times EXCEPT !.link = n, !.auto = k] \in Times
  BY DEF Times
<1> QED BY <1>1, <1>2, <1>3, <1>4

\* A call changes one dispute and leaves the others alone.
OnlyOne(d) ==
  \A e \in Disputes \ {d} :
    /\ dispute'[e] = dispute[e] /\ age'[e].auto = age[e].auto /\ chain'[e] = chain[e]
    /\ moved'[e] = moved[e] /\ from'[e] = from[e] /\ (e \in queue' <=> e \in queue)

\* What is left alone keeps its part of the invariant, so that a call on a
\* dispute has to answer for that dispute and for the appeals in flight.
LEMMA DisputeCall ==
  ASSUME DisputeInv, NEW d \in Disputes, OnlyOne(d), Kinds', Arrives(d),
         Chained(d)', Ruled(d)', appeal' = appeal,
         dispute[d].arbiter # 0 => dispute'[d].arbiter # 0,
         inTurn /\ Quiet(d) => Booked(d)'
  PROVE  DisputeInv'
<1>1. \A e \in Disputes : Chained(e)' /\ Ruled(e)'
  BY DEF DisputeInv, OnlyOne, Chained, Ruled
<1>2. \A q \in Appeals : appeal[q].id \in Disputes
  BY DEF DisputeInv, Kinds, AppealCalls
<1>3. \A q \in Appeals : appeal'[q].at = "audit" => dispute'[appeal'[q].id].arbiter # 0
  BY <1>2 DEF DisputeInv, OnlyOne
<1>4. inTurn' <=> inTurn /\ Quiet(d)
  BY DEF Arrives
<1>5. inTurn' => \A e \in Disputes : Booked(e)'
  BY <1>4 DEF DisputeInv, OnlyOne, Booked
<1>6. inTurn' => \A q \in Appeals : Audited(q)'
  BY <1>2, <1>4 DEF DisputeInv, OnlyOne, Audited, Quiet
<1> QED BY <1>1, <1>3, <1>5, <1>6 DEF DisputeInv

\* A new dispute has moved nothing and waits in the queue.
LEMMA DisputeCreated ==
  ASSUME Assumed, DisputeInv, NEW d \in Disputes, createDispute(d)
  PROVE  DisputeInv'
<1>1. /\ dispute[d].status = "absent" /\ dispute' = [dispute EXCEPT ![d].status = "OPEN"]
      /\ queue' = queue \cup {d}
      /\ UNCHANGED <<age, chain, pool, appeal, moved, from, inTurn>>
  BY DEF createDispute
<1>2. Kinds'
  <2>1. dispute[d] \in Rows /\ age[d] \in Times /\ 0 \in Ages /\ Undefined \in Ages
    BY DEF DisputeInv, Kinds, Ages
  <2>2. "OPEN" \in Statuses
    BY DEF Statuses, Terminal
  <2>3. [dispute[d] EXCEPT !.status = "OPEN"] \in Rows
    BY <2>1, <2>2, RowKinds
  <2>4. dispute' \in [Disputes -> Rows]
    BY <1>1, <2>3 DEF DisputeInv, Kinds
  <2> QED BY <1>1, <2>4 DEF DisputeInv, Kinds
<1>3. /\ dispute'[d].status = "OPEN" /\ dispute'[d].arbiter = dispute[d].arbiter
      /\ dispute'[d].final = dispute[d].final
      /\ \A e \in Disputes \ {d} : dispute'[e] = dispute[e]
  BY <1>1 DEF DisputeInv, Kinds
<1>4. \A e \in Disputes : Chained(e)' /\ Ruled(e)'
  BY <1>1, <1>3 DEF DisputeInv, Chained, Ruled
<1>5. \A q \in Appeals : appeal[q].id \in Disputes
  BY DEF DisputeInv, Kinds, AppealCalls
<1>6. \A q \in Appeals : appeal'[q].at = "audit" => dispute'[appeal'[q].id].arbiter # 0
  BY <1>1, <1>3, <1>5 DEF DisputeInv
<1>7. dispute[d].arbiter = 0
  BY <1>1 DEF DisputeInv, Ruled
<1>8. inTurn' => \A e \in Disputes : Booked(e)'
  BY <1>1, <1>3, <1>7 DEF DisputeInv, Booked
<1>9. inTurn' => \A q \in Appeals : Audited(q)'
  BY <1>1, <1>3, <1>5, <1>7 DEF DisputeInv, Audited
<1> QED BY <1>2, <1>4, <1>6, <1>8, <1>9 DEF DisputeInv

\* What a status allows to follow it.
LEMMA DisputeFlow ==
  ASSUME DisputeInv, NEW d \in Disputes, NEW to, canTransition(d, to)
  PROVE  /\ to = "EVIDENCED" => dispute[d].status = "OPEN"
         /\ to = "ADJUDICATED" => dispute[d].status = "EVIDENCED"
         /\ to = "TIMEOUT" => dispute[d].status \in {"OPEN", "EVIDENCED"}
<1>1. dispute[d].status \in Statuses
  BY DEF DisputeInv, Kinds, Rows
<1> QED BY <1>1 DEF canTransition, DISPUTE_STATE_TRANSITIONS, Statuses, Terminal

\* Evidence takes the dispute on and leaves it in the queue.
LEMMA DisputeEvidence ==
  ASSUME Assumed, DisputeInv, NEW d \in Disputes, addEvidence(d)
  PROVE  DisputeInv'
<1>1. /\ dispute[d].status = "OPEN" /\ dispute' = [dispute EXCEPT ![d].status = "EVIDENCED"]
      /\ chain' = [chain EXCEPT ![d] = <<chain[d][2], "EVIDENCED">>]
      /\ age' = [age EXCEPT ![d].link = 0] /\ Arrives(d)
      /\ UNCHANGED <<queue, pool, appeal, moved, from>>
  BY DisputeFlow DEF addEvidence, Link
<1>2. Kinds'
  <2>1. dispute[d] \in Rows /\ age[d] \in Times /\ 0 \in Ages /\ Undefined \in Ages
    BY DEF DisputeInv, Kinds, Ages
  <2>2. "EVIDENCED" \in Statuses
    BY DEF Statuses, Terminal
  <2>3. [dispute[d] EXCEPT !.status = "EVIDENCED"] \in Rows
    BY <2>1, <2>2, RowKinds
  <2>4. dispute' \in [Disputes -> Rows]
    BY <1>1, <2>3 DEF DisputeInv, Kinds
  <2>5. [age[d] EXCEPT !.link = 0] \in Times
    BY <2>1, TimeKinds
  <2>6. age' \in [Disputes -> Times]
    BY <1>1, <2>5 DEF DisputeInv, Kinds
  <2>7. chain' \in [Disputes -> (Statuses \cup {"none"}) \X (Statuses \cup {"none"})]
    BY <1>1, <2>2 DEF DisputeInv, Kinds
  <2> QED BY <1>1, <2>4, <2>6, <2>7 DEF DisputeInv, Kinds
<1>3. /\ dispute'[d].status = "EVIDENCED" /\ dispute'[d].arbiter = dispute[d].arbiter
      /\ dispute'[d].final = dispute[d].final /\ chain'[d][2] = "EVIDENCED"
      /\ age'[d].auto = age[d].auto /\ OnlyOne(d)
  BY <1>1 DEF DisputeInv, Kinds, Rows, Times, OnlyOne
<1>4. dispute[d].arbiter = 0
  BY <1>1 DEF DisputeInv, Ruled
<1>5. Chained(d)' /\ Ruled(d)'
  BY <1>1, <1>3, <1>4 DEF DisputeInv, Chained, Ruled
<1>6. Booked(d)'
  BY <1>1, <1>3, <1>4 DEF DisputeInv, Ruled, Booked
<1> QED BY <1>1, <1>2, <1>3, <1>4, <1>5, <1>6, DisputeCall

\* The ruling moves the ledgers, for the first time.
LEMMA DisputeRuling ==
  ASSUME Assumed, DisputeInv, NEW d \in Disputes, NEW ruling \in Rulings, NEW a \in Arbiters,
         adjudicate(d, ruling, a)
  PROVE  DisputeInv'
<1>1. /\ dispute[d].status = "EVIDENCED" /\ Arrives(d)
      /\ dispute' = [dispute EXCEPT ![d].status = "ADJUDICATED", ![d].ruling = ruling,
                                    ![d].arbiter = a]
      /\ chain' = [chain EXCEPT ![d] = <<chain[d][2], "ADJUDICATED">>]
      /\ age' = [age EXCEPT ![d].link = 0, ![d].adjudicated = 0]
      /\ queue' = queue \ {d}
      /\ moved' = [moved EXCEPT ![d] = @ + Movement(ruling)]
      /\ UNCHANGED <<pool, appeal, from>>
  BY DisputeFlow DEF adjudicate, Link
<1>2. Movement(ruling) \in Int
  BY DEF Movement
<1>3. Kinds'
  <2>1. dispute[d] \in Rows /\ age[d] \in Times /\ 0 \in Ages /\ Undefined \in Ages
    BY DEF DisputeInv, Kinds, Ages
  <2>2. "ADJUDICATED" \in Statuses
    BY DEF Statuses, Terminal
  <2>3. [dispute[d] EXCEPT !.status = "ADJUDICATED", !.ruling = ruling, !.arbiter = a] \in Rows
    BY <1>2, <2>1, <2>2, RowKinds
  <2>4. dispute' \in [Disputes -> Rows]
    BY <1>1, <2>3 DEF DisputeInv, Kinds
  <2>5. [age[d] EXCEPT !.link = 0, !.adjudicated = 0] \in Times
    BY <1>2, <2>1, TimeKinds
  <2>6. age' \in [Disputes -> Times]
    BY <1>1, <2>5 DEF DisputeInv, Kinds
  <2>7. chain' \in [Disputes -> (Statuses \cup {"none"}) \X (Statuses \cup {"none"})]
    BY <1>1, <2>2 DEF DisputeInv, Kinds
  <2>8. moved' \in [Disputes -> Int]
    BY <1>1, <1>2 DEF DisputeInv, Kinds
  <2> QED BY <1>1, <2>4, <2>6, <2>7, <2>8 DEF DisputeInv, Kinds
<1>4. /\ dispute'[d].status = "ADJUDICATED" /\ dispute'[d].arbiter = a /\ a # 0
      /\ dispute'[d].final = dispute[d].final /\ chain'[d][2] = "ADJUDICATED"
      /\ dispute'[d].ruling = ruling
      /\ age'[d].auto = age[d].auto /\ OnlyOne(d)
  BY <1>1 DEF Assumed, DisputeInv, Kinds, Rows, Times, OnlyOne
<1>5. dispute[d].arbiter = 0 /\ moved[d] = 0 /\ dispute[d].final = "none"
  BY <1>1 DEF DisputeInv, Ruled
<1>6. Chained(d)' /\ Ruled(d)'
  BY <1>1, <1>4, <1>5 DEF DisputeInv, Chained, Ruled
<1>7. moved'[d] = Movement(ruling)
  BY <1>1, <1>2, <1>5 DEF DisputeInv, Kinds
<1>8. Booked(d)'
  BY <1>4, <1>5, <1>7 DEF Booked, Movement
<1> QED BY <1>1, <1>3, <1>4, <1>6, <1>8, DisputeCall

\* The time-out ends a dispute that nobody has ruled on.
LEMMA DisputeTimeout ==
  ASSUME Assumed, DisputeInv, NEW d \in Disputes, timeoutDispute(d)
  PROVE  DisputeInv'
<1>1. /\ dispute[d].status \in {"OPEN", "EVIDENCED"} /\ Arrives(d)
      /\ dispute' = [dispute EXCEPT ![d].status = "TIMEOUT"]
      /\ chain' = [chain EXCEPT ![d] = <<chain[d][2], "TIMEOUT">>]
      /\ age' = [age EXCEPT ![d].link = 0] /\ queue' = queue \ {d}
      /\ UNCHANGED <<pool, appeal, moved, from>>
  BY DisputeFlow DEF timeoutDispute, Link
<1>2. Kinds'
  <2>1. dispute[d] \in Rows /\ age[d] \in Times /\ 0 \in Ages /\ Undefined \in Ages
    BY DEF DisputeInv, Kinds, Ages
  <2>2. "TIMEOUT" \in Statuses
    BY DEF Statuses, Terminal
  <2>3. [dispute[d] EXCEPT !.status = "TIMEOUT"] \in Rows
    BY <2>1, <2>2, RowKinds
  <2>4. dispute' \in [Disputes -> Rows]
    BY <1>1, <2>3 DEF DisputeInv, Kinds
  <2>5. [age[d] EXCEPT !.link = 0] \in Times
    BY <2>1, TimeKinds
  <2>6. age' \in [Disputes -> Times]
    BY <1>1, <2>5 DEF DisputeInv, Kinds
  <2>7. chain' \in [Disputes -> (Statuses \cup {"none"}) \X (Statuses \cup {"none"})]
    BY <1>1, <2>2 DEF DisputeInv, Kinds
  <2> QED BY <1>1, <2>4, <2>6, <2>7 DEF DisputeInv, Kinds
<1>3. /\ dispute'[d].status = "TIMEOUT" /\ dispute'[d].arbiter = dispute[d].arbiter
      /\ dispute'[d].final = dispute[d].final /\ chain'[d][2] = "TIMEOUT"
      /\ age'[d].auto = age[d].auto /\ OnlyOne(d)
  BY <1>1 DEF DisputeInv, Kinds, Rows, Times, OnlyOne
<1>4. dispute[d].arbiter = 0
  BY <1>1 DEF DisputeInv, Ruled
<1>5. Chained(d)' /\ Ruled(d)'
  BY <1>1, <1>3, <1>4 DEF DisputeInv, Chained, Ruled
<1>6. Booked(d)'
  BY <1>1, <1>3, <1>4 DEF DisputeInv, Ruled, Booked
<1> QED BY <1>1, <1>2, <1>3, <1>4, <1>5, <1>6, DisputeCall

\* A reversal gives the dispute the status that the deadline took from it.
LEMMA DisputeReversal ==
  ASSUME Assumed, DisputeInv, NEW d \in Disputes, reverseAutoResolve(d)
  PROVE  DisputeInv'
<1>1. /\ dispute' = [dispute EXCEPT ![d].status = chain[d][1]]
      /\ chain' = [chain EXCEPT ![d] = <<chain[d][2], chain[d][1]>>]
      /\ age' = [age EXCEPT ![d].link = 0, ![d].auto = Undefined] /\ Arrives(d)
      /\ UNCHANGED <<queue, pool, appeal, moved, from>>
      /\ dispute[d].status \in {"TIMEOUT", "CLOSED"} /\ age[d].auto # Undefined
  BY DEF reverseAutoResolve, PriorStatus, Link, Reversible
<1>2. /\ dispute[d].status = "CLOSED" => chain[d][1] \in {"ADJUDICATED", "SENIOR_REVIEW"}
      /\ dispute[d].status = "TIMEOUT" => chain[d][1] = "EVIDENCED" /\ d \in queue
  BY <1>1 DEF DisputeInv, Chained
<1>3. Kinds'
  <2>1. dispute[d] \in Rows /\ age[d] \in Times /\ 0 \in Ages /\ Undefined \in Ages
    BY DEF DisputeInv, Kinds, Ages
  <2>2. chain[d][1] \in Statuses
    BY <1>1, <1>2 DEF Statuses
  <2>3. [dispute[d] EXCEPT !.status = chain[d][1]] \in Rows
    BY <1>2, <2>1, <2>2, RowKinds
  <2>4. dispute' \in [Disputes -> Rows]
    BY <1>1, <2>3 DEF DisputeInv, Kinds
  <2>5. [age[d] EXCEPT !.link = 0, !.auto = Undefined] \in Times
    BY <1>2, <2>1, TimeKinds
  <2>6. age' \in [Disputes -> Times]
    BY <1>1, <2>5 DEF DisputeInv, Kinds
  <2>7. chain' \in [Disputes -> (Statuses \cup {"none"}) \X (Statuses \cup {"none"})]
    BY <1>1, <2>2 DEF DisputeInv, Kinds
  <2> QED BY <1>1, <2>4, <2>6, <2>7 DEF DisputeInv, Kinds
<1>4. /\ dispute'[d].status = chain[d][1] /\ dispute'[d].arbiter = dispute[d].arbiter
      /\ dispute'[d].final = dispute[d].final /\ dispute'[d].ruling = dispute[d].ruling
      /\ chain'[d][2] = chain[d][1] /\ age'[d].auto = Undefined /\ OnlyOne(d)
  BY <1>1 DEF DisputeInv, Kinds, Rows, Times, OnlyOne
<1>5. Chained(d)'
  BY <1>1, <1>2, <1>4 DEF Chained
<1>6. Ruled(d)'
  BY <1>1, <1>2, <1>4 DEF DisputeInv, Ruled
<1>7. inTurn => Booked(d)'
  BY <1>1, <1>2, <1>4 DEF DisputeInv, Booked
<1> QED BY <1>1, <1>3, <1>4, <1>5, <1>6, <1>7, DisputeCall

\* The panel decides once, and takes the movement of an overturned ruling back.
LEMMA DisputeDecision ==
  ASSUME Assumed, DisputeInv, NEW d \in Disputes, NEW votes, seniorDecide(d, votes)
  PROVE  DisputeInv'
<1> DEFINE final == decideByMajority(votes)
<1>1. /\ dispute' = [dispute EXCEPT ![d].status = "FINAL", ![d].final = final]
      /\ chain' = [chain EXCEPT ![d] = <<chain[d][2], "FINAL">>]
      /\ age' = [age EXCEPT ![d].link = 0] /\ Arrives(d)
      /\ moved' = [moved EXCEPT ![d] = IF final = "OVERTURNED" THEN @ + Reversed(d) ELSE @]
      /\ UNCHANGED <<queue, pool, appeal, from>>
      /\ dispute[d].status = "SENIOR_REVIEW"
  BY DEF seniorDecide, Link
<1>2. final \in {"UPHELD", "OVERTURNED"}
  BY DEF decideByMajority
<1> HIDE DEF final
<1>3. Reversed(d) \in Int /\ moved[d] \in Int
  BY DEF Reversed, Movement, DisputeInv, Kinds
<1>4. Kinds'
  <2>1. dispute[d] \in Rows /\ age[d] \in Times /\ 0 \in Ages /\ Undefined \in Ages
    BY DEF DisputeInv, Kinds, Ages
  <2>2. "FINAL" \in Statuses
    BY DEF Statuses, Terminal
  <2>3. [dispute[d] EXCEPT !.status = "FINAL", !.final = final] \in Rows
    BY <1>2, <2>1, <2>2, RowKinds
  <2>4. dispute' \in [Disputes -> Rows]
    BY <1>1, <2>3 DEF DisputeInv, Kinds
  <2>5. [age[d] EXCEPT !.link = 0] \in Times
    BY <1>2, <2>1, TimeKinds
  <2>6. age' \in [Disputes -> Times]
    BY <1>1, <2>5 DEF DisputeInv, Kinds
  <2>7. chain' \in [Disputes -> (Statuses \cup {"none"}) \X (Statuses \cup {"none"})]
    BY <1>1, <2>2 DEF DisputeInv, Kinds
  <2>8. moved' \in [Disputes -> Int]
    BY <1>1, <1>3 DEF DisputeInv, Kinds
  <2> QED BY <1>1, <2>4, <2>6, <2>7, <2>8 DEF DisputeInv, Kinds
<1>5. /\ dispute'[d].status = "FINAL" /\ dispute'[d].arbiter = dispute[d].arbiter
      /\ dispute'[d].final = final /\ dispute'[d].ruling = dispute[d].ruling
      /\ chain'[d][2] = "FINAL" /\ OnlyOne(d)
      /\ moved'[d] = IF final = "OVERTURNED" THEN moved[d] + Reversed(d) ELSE moved[d]
  BY <1>1 DEF DisputeInv, Kinds, Rows, Times, OnlyOne
<1>6. dispute[d].arbiter # 0
  BY <1>1 DEF DisputeInv, Ruled
<1>7. Chained(d)' /\ Ruled(d)'
  BY <1>1, <1>5, <1>6 DEF Chained, Ruled
<1>8. inTurn => Booked(d)'
  <2> SUFFICES ASSUME inTurn PROVE Booked(d)'
    OBVIOUS
  <2>1. moved[d] = Movement(dispute[d].ruling)
    BY <1>1, <1>6 DEF DisputeInv, Booked
  <2>2. Movement(dispute[d].ruling)' = Movement(dispute[d].ruling)
    BY <1>5 DEF Movement
  <2> QED BY <1>2, <1>5, <2>1, <2>2 DEF Booked, Reversed, Movement
<1> QED BY <1>1, <1>4, <1>5, <1>6, <1>7, <1>8, DisputeCall

\* The checks of an appeal change nothing but the appeal.
LEMMA DisputeAppeal ==
  ASSUME Assumed, DisputeInv, NEW d \in Disputes, NEW q \in Appeals, initiateAppeal(q, d)
  PROVE  DisputeInv'
<1>1. /\ dispute[d].status = "ADJUDICATED" /\ Arrives(d)
      /\ appeal' = [appeal EXCEPT ![q] =
           [at |-> "audit", id |-> d, panel |-> selectSeniorPanel(d), age |-> 0]]
      /\ UNCHANGED <<dispute, age, chain, queue, pool, moved, from>>
  BY DEF initiateAppeal, Appealable
<1>2. selectSeniorPanel(d) \subseteq Arbiters
  BY DEF selectSeniorPanel, Eligible, DisputeInv, Kinds
<1>3. Kinds'
  <2>1. appeal' \in [Appeals -> AppealCalls]
    BY <1>1, <1>2 DEF DisputeInv, Kinds, AppealCalls
  <2> QED BY <1>1, <2>1 DEF DisputeInv, Kinds
<1>4. /\ appeal'[q].at = "audit" /\ appeal'[q].id = d
      /\ \A p \in Appeals \ {q} : appeal'[p] = appeal[p]
  BY <1>1 DEF DisputeInv, Kinds
<1>5. dispute[d].arbiter # 0
  BY <1>1 DEF DisputeInv, Ruled
<1>6. \A e \in Disputes : Chained(e)' /\ Ruled(e)'
  BY <1>1 DEF DisputeInv, Chained, Ruled
<1>7. \A p \in Appeals : appeal'[p].at = "audit" => dispute'[appeal'[p].id].arbiter # 0
  BY <1>1, <1>4, <1>5 DEF DisputeInv
<1>8. inTurn' => (\A e \in Disputes : Booked(e)') /\ \A p \in Appeals : Audited(p)'
  <2> SUFFICES ASSUME inTurn' PROVE (\A e \in Disputes : Booked(e)') /\ \A p \in Appeals : Audited(p)'
    OBVIOUS
  <2>1. inTurn /\ Quiet(d)
    BY <1>1 DEF Arrives
  <2>2. \A e \in Disputes : Booked(e)'
    BY <1>1, <2>1 DEF DisputeInv, Booked
  <2>3. \A p \in Appeals : Audited(p)'
    BY <1>1, <1>4, <2>1 DEF DisputeInv, Audited, Quiet
  <2> QED BY <2>2, <2>3
<1> QED BY <1>3, <1>6, <1>7, <1>8 DEF DisputeInv

\* The appeal goes on from what it checked; in turn, that still holds.
LEMMA DisputeReview ==
  ASSUME Assumed, DisputeInv, NEW q \in Appeals, openSeniorReview(q)
  PROVE  DisputeInv'
<1>0. PICK d \in Disputes : d = appeal[q].id
  BY DEF DisputeInv, Kinds, AppealCalls
<1>1. /\ appeal[q].at = "audit"
      /\ dispute' = [dispute EXCEPT ![d].status = "SENIOR_REVIEW", ![d].panel = appeal[q].panel]
      /\ chain' = [chain EXCEPT ![d] = <<"APPEALED", "SENIOR_REVIEW">>]
      /\ age' = [age EXCEPT ![d].link = appeal[q].age, ![d].appeal = appeal[q].age]
      /\ appeal' = [appeal EXCEPT ![q] = [NoCall EXCEPT !.at = "done"]]
      /\ UNCHANGED <<queue, pool, moved, from, inTurn>>
  BY <1>0 DEF openSeniorReview
<1>2. appeal[q].panel \subseteq Arbiters /\ appeal[q].age \in Nat
  BY DEF DisputeInv, Kinds, AppealCalls
<1>3. dispute[d].arbiter # 0
  BY <1>0, <1>1 DEF DisputeInv
<1>4. \A p \in Appeals : appeal[p].id \in Disputes
  BY DEF DisputeInv, Kinds, AppealCalls
<1>5. Kinds'
  <2>0. "APPEALED" \in Statuses
    BY DEF Statuses
  <2>1. dispute[d] \in Rows /\ age[d] \in Times /\ 0 \in Ages /\ Undefined \in Ages
    BY <1>2 DEF DisputeInv, Kinds, Ages
  <2>2. "SENIOR_REVIEW" \in Statuses
    BY DEF Statuses, Terminal
  <2>3. [dispute[d] EXCEPT !.status = "SENIOR_REVIEW", !.panel = appeal[q].panel] \in Rows
    BY <1>2, <2>1, <2>2, RowKinds
  <2>4. dispute' \in [Disputes -> Rows]
    BY <1>1, <2>3 DEF DisputeInv, Kinds
  <2>5. [age[d] EXCEPT !.link = appeal[q].age, !.appeal = appeal[q].age] \in Times
    BY <1>2, <2>1, TimeKinds DEF Ages
  <2>6. age' \in [Disputes -> Times]
    BY <1>1, <2>5 DEF DisputeInv, Kinds
  <2>7. chain' \in [Disputes -> (Statuses \cup {"none"}) \X (Statuses \cup {"none"})]
    BY <1>1, <2>2, <2>0 DEF DisputeInv, Kinds
  <2>8. [NoCall EXCEPT !.at = "done"] \in AppealCalls
    BY DEF NoCall, Assumed, AppealCalls
  <2>10. appeal' \in [Appeals -> AppealCalls]
    BY <1>1, <2>8 DEF DisputeInv, Kinds
  <2> QED BY <1>1, <2>4, <2>6, <2>7, <2>10 DEF DisputeInv, Kinds
<1>6. /\ dispute'[d].status = "SENIOR_REVIEW" /\ dispute'[d].arbiter = dispute[d].arbiter
      /\ dispute'[d].final = dispute[d].final /\ dispute'[d].ruling = dispute[d].ruling
      /\ chain'[d][2] = "SENIOR_REVIEW" /\ OnlyOne(d)
  BY <1>1, <1>2 DEF DisputeInv, Kinds, Rows, Times, OnlyOne
<1>7. appeal'[q].at = "done" /\ \A p \in Appeals \ {q} : appeal'[p] = appeal[p]
  <2>1. [NoCall EXCEPT !.at = "done"].at = "done"
    BY DEF NoCall
  <2> QED BY <1>1, <2>1 DEF DisputeInv, Kinds
<1>8. \A e \in Disputes : Chained(e)' /\ Ruled(e)'
  <2>1. Chained(d)' /\ Ruled(d)'
    BY <1>3, <1>6 DEF Chained, Ruled
  <2> QED BY <1>6, <2>1 DEF DisputeInv, OnlyOne, Chained, Ruled
<1>9. \A p \in Appeals : appeal'[p].at = "audit" => dispute'[appeal'[p].id].arbiter # 0
  <2> SUFFICES ASSUME NEW p \in Appeals, appeal'[p].at = "audit"
               PROVE  dispute'[appeal'[p].id].arbiter # 0
    OBVIOUS
  <2>1. appeal'[p] = appeal[p]
    BY <1>7
  <2>2. dispute[appeal[p].id].arbiter # 0
    BY <2>1 DEF DisputeInv
  <2>3. dispute'[appeal[p].id].arbiter = dispute[appeal[p].id].arbiter
    BY <1>4, <1>6 DEF OnlyOne
  <2> QED BY <2>1, <2>2, <2>3
<1>10. ASSUME inTurn PROVE (\A e \in Disputes : Booked(e)') /\ \A p \in Appeals : Audited(p)'
  <2>1. /\ dispute[d].status = "ADJUDICATED" /\ Booked(d)
        /\ \A p \in Appeals \ {q} : appeal[p].at = "audit" => appeal[p].id # d
    BY <1>0, <1>1, <1>10 DEF DisputeInv, Audited
  <2>2. Booked(d)'
    BY <1>1, <1>6, <2>1 DEF Booked, Movement
  <2>3. \A e \in Disputes : Booked(e)'
    BY <1>6, <1>10, <2>2 DEF DisputeInv, OnlyOne, Booked
  <2>4. \A p \in Appeals : Audited(p)'
    BY <1>4, <1>6, <1>7, <1>10, <2>1 DEF DisputeInv, Audited, OnlyOne
  <2> QED BY <2>3, <2>4
<1> QED BY <1>1, <1>5, <1>8, <1>9, <1>10 DEF DisputeInv

\* The scan resolves every dispute whose deadline has passed, each from the status
\* it has; it leaves the arbitration queue alone.
LEMMA DisputeScan ==
  ASSUME Assumed, DisputeInv, scanAndAutoResolve
  PROVE  DisputeInv'
<1>1. /\ dispute' = [d \in Disputes |->
           IF d \in Late THEN [dispute[d] EXCEPT !.status = Overdue(d)] ELSE dispute[d]]
      /\ chain' = [d \in Disputes |->
           IF d \in Late THEN <<chain[d][2], Overdue(d)>> ELSE chain[d]]
      /\ age' = [d \in Disputes |->
           IF d \in Late THEN [age[d] EXCEPT !.link = 0, !.auto = 0] ELSE age[d]]
      /\ from' = [d \in Disputes |-> IF d \in Late THEN dispute[d].status ELSE from[d]]
      /\ UNCHANGED <<queue, pool, appeal, moved>>
      /\ inTurn' = (inTurn /\ \A d \in Late : Quiet(d))
  BY DEF scanAndAutoResolve
<1>0. UNCHANGED <<queue, pool, appeal, moved>>
  BY DEF scanAndAutoResolve
<1>2. \A d \in Late :
        /\ d \in Disputes
        /\ \/ dispute[d].status = "EVIDENCED" /\ Overdue(d) = "TIMEOUT"
           \/ dispute[d].status \in {"ADJUDICATED", "SENIOR_REVIEW"} /\ Overdue(d) = "CLOSED"
  BY DEF Late, Overdue
<1>3. \A d \in Disputes : dispute[d] \in Rows /\ age[d] \in Times
  BY DEF DisputeInv, Kinds
<1>4. Kinds'
  <2>1. \A d \in Late : Overdue(d) \in Statuses
    BY <1>2 DEF Statuses, Terminal
  <2>2. \A d \in Late : [dispute[d] EXCEPT !.status = Overdue(d)] \in Rows
    BY <1>2, <1>3, <2>1, RowKinds
  <2>3. dispute' \in [Disputes -> Rows]
    BY <1>1, <1>3, <2>2
  <2>4. 0 \in Ages
    BY DEF Ages
  <2>5. \A d \in Late : [age[d] EXCEPT !.link = 0, !.auto = 0] \in Times
    BY <1>2, <1>3, <2>4, TimeKinds
  <2>6. age' \in [Disputes -> Times]
    BY <1>1, <1>3, <2>5
  <2>7. chain' \in [Disputes -> (Statuses \cup {"none"}) \X (Statuses \cup {"none"})]
    BY <1>1, <2>1 DEF DisputeInv, Kinds
  <2>8. from' \in [Disputes -> Statuses \cup {"none"}]
    BY <1>1, <1>3 DEF DisputeInv, Kinds, Rows
  <2> QED BY <1>1, <2>3, <2>6, <2>7, <2>8 DEF DisputeInv, Kinds
<1>5. \A d \in Late :
        /\ dispute'[d].status = Overdue(d) /\ dispute'[d].arbiter = dispute[d].arbiter
        /\ dispute'[d].final = dispute[d].final /\ dispute'[d].ruling = dispute[d].ruling
        /\ chain'[d][1] = chain[d][2] /\ chain'[d][2] = Overdue(d)
        /\ age'[d].auto = 0 /\ from'[d] = dispute[d].status
  BY <1>1, <1>2, <1>3 DEF Rows, Times
<1>6. \A d \in Disputes \ Late :
        /\ dispute'[d] = dispute[d] /\ age'[d] = age[d] /\ chain'[d] = chain[d] /\ from'[d] = from[d]
  BY <1>1
<1>7. \A d \in Disputes : Chained(d)'
  <2>1. ASSUME NEW d \in Late PROVE Chained(d)'
    <3>1. /\ d \in Disputes /\ age'[d].auto # Undefined /\ from'[d] = dispute[d].status
          /\ dispute'[d].status = Overdue(d) /\ chain'[d][2] = Overdue(d) /\ queue' = queue
      BY <1>0, <1>2, <1>5 DEF Undefined
    <3>2. chain'[d][1] = dispute[d].status
      BY <1>2, <1>5, <3>1 DEF DisputeInv, Chained
    <3>3. dispute[d].status = "EVIDENCED" => d \in queue
      BY <3>1 DEF DisputeInv, Chained
    <3> QED BY <1>2, <3>1, <3>2, <3>3 DEF Chained
  <2>2. \A d \in Disputes \ Late : Chained(d)'
    BY <1>1, <1>6 DEF DisputeInv, Chained
  <2> QED BY <2>1, <2>2
<1>8. \A d \in Disputes : Ruled(d)'
  <2>1. ASSUME NEW d \in Late PROVE Ruled(d)'
    <3>1. /\ d \in Disputes /\ moved' = moved /\ dispute'[d].status = Overdue(d)
          /\ dispute'[d].arbiter = dispute[d].arbiter /\ dispute'[d].final = dispute[d].final
      BY <1>0, <1>2, <1>5
    <3>2. Ruled(d)
      BY <3>1 DEF DisputeInv
    <3> QED BY <1>2, <3>1, <3>2 DEF Ruled
  <2>2. \A d \in Disputes \ Late : Ruled(d)'
    BY <1>1, <1>6 DEF DisputeInv, Ruled
  <2> QED BY <2>1, <2>2
<1>9. \A q \in Appeals : appeal[q].id \in Disputes
  BY DEF DisputeInv, Kinds, AppealCalls
<1>10. \A q \in Appeals : appeal'[q].at = "audit" => dispute'[appeal'[q].id].arbiter # 0
  <2>1. \A d \in Disputes : dispute'[d].arbiter = dispute[d].arbiter
    BY <1>5, <1>6
  <2> QED BY <1>0, <1>9, <2>1 DEF DisputeInv
<1>11. ASSUME inTurn' PROVE (\A d \in Disputes : Booked(d)') /\ \A q \in Appeals : Audited(q)'
  <2>1. inTurn /\ \A d \in Late : Quiet(d)
    BY <1>1, <1>11
  <2>2. ASSUME NEW d \in Late PROVE Booked(d)'
    <3>1. /\ d \in Disputes /\ moved' = moved /\ dispute[d].status # "FINAL"
          /\ dispute'[d].arbiter = dispute[d].arbiter /\ dispute'[d].final = dispute[d].final
          /\ dispute'[d].ruling = dispute[d].ruling
      BY <1>0, <1>2, <1>5
    <3>2. Booked(d)
      BY <2>1, <3>1 DEF DisputeInv
    <3> QED BY <3>1, <3>2 DEF Booked, Movement
  <2>3. \A d \in Disputes \ Late : Booked(d)'
    BY <1>1, <1>6, <2>1 DEF DisputeInv, Booked
  <2>4. \A q \in Appeals : Audited(q)'
    BY <1>1, <1>6, <1>9, <2>1 DEF DisputeInv, Audited, Quiet
  <2> QED BY <2>2, <2>3, <2>4
<1> QED BY <1>4, <1>7, <1>8, <1>10, <1>11 DEF DisputeInv

\* Time only moves the ages.
LEMMA DisputeTick ==
  ASSUME Assumed, DisputeInv, Tick
  PROVE  DisputeInv'
<1>1. \A n \in Ages : Older(n) \in Ages /\ (Older(n) = Undefined <=> n = Undefined)
  BY DEF Ages, Older, Undefined
<1>2. \A n \in Nat : Older(n) \in Nat
  BY DEF Older, Undefined
<1>3. /\ age' = [d \in Disputes |->
           [link |-> Older(age[d].link), adjudicated |-> Older(age[d].adjudicated),
            appeal |-> Older(age[d].appeal), auto |-> Older(age[d].auto)]]
      /\ appeal' = [q \in Appeals |->
           IF appeal[q].at = "audit" THEN [appeal[q] EXCEPT !.age = Older(@)] ELSE appeal[q]]
      /\ UNCHANGED <<dispute, chain, queue, pool, moved, from, inTurn>>
  BY DEF Tick
<1>4. \A d \in Disputes : age[d] \in Times
  BY DEF DisputeInv, Kinds
<1>5. age' \in [Disputes -> Times]
  BY <1>1, <1>3, <1>4 DEF Times
<1>6. \A q \in Appeals : [appeal[q] EXCEPT !.age = Older(appeal[q].age)] \in AppealCalls
  <2> SUFFICES ASSUME NEW q \in Appeals
               PROVE  [appeal[q] EXCEPT !.age = Older(appeal[q].age)] \in AppealCalls
    OBVIOUS
  <2>1. appeal[q] \in AppealCalls
    BY DEF DisputeInv, Kinds
  <2>2. Older(appeal[q].age) \in Nat
    BY <1>2, <2>1 DEF AppealCalls
  <2> HIDE DEF Older
  <2> QED BY <2>1, <2>2 DEF AppealCalls
<1>7. Kinds'
  <2>1. appeal' \in [Appeals -> AppealCalls]
    BY <1>3, <1>6 DEF DisputeInv, Kinds
  <2> QED BY <1>3, <1>5, <2>1 DEF DisputeInv, Kinds
<1>8. \A q \in Appeals : appeal'[q].at = appeal[q].at /\ appeal'[q].id = appeal[q].id
  BY <1>3 DEF DisputeInv, Kinds, AppealCalls
<1>9. \A d \in Disputes : age'[d].auto = Undefined <=> age[d].auto = Undefined
  BY <1>1, <1>3, <1>4 DEF Times
<1>10. \A d \in Disputes : Chained(d)' /\ Ruled(d)'
  BY <1>3, <1>9 DEF DisputeInv, Chained, Ruled
<1>11. inTurn' => (\A d \in Disputes : Booked(d)') /\ \A q \in Appeals : Audited(q)'
  BY <1>3, <1>8 DEF DisputeInv, Booked, Audited, Movement
<1>12. \A q \in Appeals : appeal'[q].at = "audit" => dispute'[appeal'[q].id].arbiter # 0
  BY <1>3, <1>8 DEF DisputeInv
<1> QED BY <1>7, <1>10, <1>11, <1>12 DEF DisputeInv

\* Every step of the dispute service keeps the invariant.
LEMMA DisputeStep ==
  ASSUME Assumed, DisputeInv, [Next]_vars
  PROVE  DisputeInv'
<1>1. ASSUME NEW a \in Arbiters, addSeniorArbiter(a) \/ removeSeniorArbiter(a)
      PROVE  DisputeInv'
  <2>1. UNCHANGED <<dispute, age, chain, queue, appeal, moved, from, inTurn>> /\ pool' \subseteq Arbiters
    BY <1>1 DEF addSeniorArbiter, removeSeniorArbiter, DisputeInv, Kinds
  <2>2. Kinds'
    BY <2>1 DEF DisputeInv, Kinds
  <2> QED BY <2>1, <2>2 DEF DisputeInv, Chained, Ruled, Booked, Audited, Movement
<1>2. CASE UNCHANGED vars
  BY <1>2 DEF vars, DisputeInv, Kinds, Chained, Ruled, Booked, Audited, Movement
<1> QED
  BY <1>1, <1>2, DisputeCreated, DisputeEvidence, DisputeRuling, DisputeTimeout, DisputeReversal,
     DisputeDecision, DisputeAppeal, DisputeReview, DisputeScan, DisputeTick
  DEF Next, postReverseAutoResolve, postDeadlineScan

\* The inductive invariant holds for any disputes, appeals and panels.
THEOREM DisputesHold == ASSUME Assumed PROVE Spec => []DisputeInv
<1>1. Init => DisputeInv
  <2> SUFFICES ASSUME Init PROVE DisputeInv
    OBVIOUS
  <2>1. Absent \in Rows
    BY DEF Absent, Rows, Statuses
  <2>2. [link |-> Undefined, adjudicated |-> Undefined, appeal |-> Undefined, auto |-> Undefined] \in Times
    BY DEF Times, Ages
  <2>3. NoCall \in AppealCalls
    BY DEF NoCall, AppealCalls, Assumed
  <2>4. Kinds
    BY <2>1, <2>2, <2>3 DEF Init, Kinds
  <2>5. \A d \in Disputes : Chained(d) /\ Ruled(d) /\ Booked(d)
    BY DEF Init, Absent, Chained, Ruled, Booked
  <2>6. \A q \in Appeals : appeal[q].at = "new"
    BY DEF Init, NoCall
  <2> QED BY <2>4, <2>5, <2>6 DEF DisputeInv, Audited
<1>2. DisputeInv /\ [Next]_vars => DisputeInv'
  BY DisputeStep
<1> QED BY <1>1, <1>2, PTL DEF Spec

\* Whatever calls come in: the chain ends with the status, a dispute that waits
\* for an arbiter is queued, and a reversal restores the status that the deadline
\* took.  While calls wait for an appeal to end, the ledgers follow the ruling.
LEMMA DisputeStates == DisputeInv => TypeOK /\ LedgerFollowsRuling /\ WaitingIsQueued /\ ReversalRestores
<1> SUFFICES ASSUME DisputeInv PROVE TypeOK /\ LedgerFollowsRuling /\ WaitingIsQueued /\ ReversalRestores
  OBVIOUS
<1>1. TypeOK
  BY DEF DisputeInv, Kinds, Rows, Chained, TypeOK
<1>2. WaitingIsQueued /\ ReversalRestores
  BY DEF DisputeInv, Chained, WaitingIsQueued, ReversalRestores, Reversible, PriorStatus
<1>3. LedgerFollowsRuling
  <2> SUFFICES ASSUME inTurn, NEW d \in Disputes
               PROVE  moved[d] = CASE dispute[d].arbiter = 0 -> 0
                   [] dispute[d].final = "OVERTURNED" /\ dispute[d].ruling # NoRuling -> 0
                   [] OTHER -> Movement(dispute[d].ruling)
    BY DEF LedgerFollowsRuling
  <2>1. CASE dispute[d].arbiter = 0
    BY <2>1 DEF DisputeInv, Ruled
  <2>2. CASE dispute[d].arbiter # 0
    BY <2>2 DEF DisputeInv, Booked
  <2> QED BY <2>1, <2>2
<1> QED BY <1>1, <1>2, <1>3

\* In turn, nothing but the reversal of a deadline reopens what has ended.
LEMMA DisputeEnds ==
  ASSUME Assumed, DisputeInv, [Next]_vars
  PROVE  TerminalStep
<1> SUFFICES ASSUME NEW d \in Disputes, inTurn', dispute[d].status \in Terminal,
                    dispute'[d].status # dispute[d].status
             PROVE  /\ age[d].auto \in 0..autoResolveWindow
                    /\ age'[d].auto = Undefined
                    /\ dispute'[d].status = from[d]
  BY DEF TerminalStep
<1>0. dispute \in [Disputes -> Rows] /\ age \in [Disputes -> Times]
  BY DEF DisputeInv, Kinds
<1>1. ASSUME NEW e \in Disputes, reverseAutoResolve(e)
      PROVE  /\ age[d].auto \in 0..autoResolveWindow
             /\ age'[d].auto = Undefined
             /\ dispute'[d].status = from[d]
  <2>1. e = d
    BY <1>0, <1>1 DEF reverseAutoResolve
  <2>2. Reversible(d) /\ PriorStatus(d) = from[d]
    BY <1>1, <2>1, DisputeStates DEF reverseAutoResolve, ReversalRestores
  <2>3. age[d].auto \in Nat
    BY <1>0, <2>2 DEF Reversible, Times, Ages
  <2>4. age'[d].auto = Undefined /\ dispute'[d].status = PriorStatus(d)
    BY <1>0, <1>1, <2>1 DEF reverseAutoResolve, Rows, Times
  <2> QED BY <2>2, <2>3, <2>4 DEF Reversible, Assumed
<1>2. ASSUME NEW e \in Disputes, NEW to \in {"EVIDENCED", "ADJUDICATED", "TIMEOUT"},
             canTransition(e, to)
      PROVE  e # d
  BY <1>2, DisputeFlow DEF Terminal
<1>3. ASSUME NEW e \in Disputes,
             \/ createDispute(e) \/ addEvidence(e) \/ timeoutDispute(e)
             \/ \E ruling \in Rulings, a \in Arbiters : adjudicate(e, ruling, a)
             \/ \E votes : seniorDecide(e, votes)
      PROVE  FALSE
  <2>1. e # d
    BY <1>2, <1>3 DEF createDispute, addEvidence, timeoutDispute, adjudicate, seniorDecide, Terminal
  <2>2. dispute'[d] = dispute[d]
    BY <1>0, <1>3, <2>1 DEF createDispute, addEvidence, timeoutDispute, adjudicate, seniorDecide
  <2> QED BY <2>2
<1>4. ASSUME NEW q \in Appeals, openSeniorReview(q) PROVE FALSE
  <2>1. inTurn /\ appeal[q].at = "audit"
    BY <1>4 DEF openSeniorReview
  <2>2. dispute[appeal[q].id].status = "ADJUDICATED"
    BY <2>1 DEF DisputeInv, Audited
  <2>3. appeal[q].id # d
    BY <2>2 DEF Terminal
  <2>4. dispute'[d] = dispute[d]
    BY <1>0, <1>4, <2>3 DEF openSeniorReview
  <2> QED BY <2>4
<1>5. ASSUME scanAndAutoResolve PROVE FALSE
  <2>1. d \notin Late
    BY DEF Late, Overdue, Terminal
  <2>2. dispute'[d] = dispute[d]
    BY <1>5, <2>1 DEF scanAndAutoResolve
  <2> QED BY <2>2
<1>6. ~UNCHANGED dispute
  OBVIOUS
<1> QED
  BY <1>1, <1>3, <1>4, <1>5, <1>6
  DEF Next, vars, postReverseAutoResolve, postDeadlineScan, initiateAppeal, addSeniorArbiter,
      removeSeniorArbiter, Tick

\* What a reader of a dispute sees agrees with what has happened to it.
THEOREM DisputeStatesHold ==
  ASSUME Assumed
  PROVE  Spec => [](TypeOK /\ LedgerFollowsRuling /\ WaitingIsQueued /\ ReversalRestores)
<1>1. DisputeInv => TypeOK /\ LedgerFollowsRuling /\ WaitingIsQueued /\ ReversalRestores
  BY DisputeStates
<1> QED BY <1>1, DisputesHold, PTL

\* What has ended stays so, while calls wait for an appeal to end.
THEOREM DisputeEndsHold == ASSUME Assumed PROVE Spec => [][TerminalStep]_vars
<1>1. DisputeInv /\ [Next]_vars => TerminalStep
  BY DisputeEnds
<1> QED BY <1>1, DisputesHold, PTL DEF Spec
=============================================================================
