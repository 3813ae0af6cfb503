-------------------------- MODULE RefundSettlement --------------------------
(***************************************************************************)
(* Escrow refunds on their way to the chain: queued once per request,      *)
(* submitted by a caller that awaits Horizon, and followed by the refund   *)
(* reconciler until the transaction is final or rejected.                  *)
(*                                                                         *)
(* A caller looks at the record before it submits and writes it after the  *)
(* answer; a run of the reconciler takes its list of records at the start. *)
(***************************************************************************)
EXTENDS Integers, FiniteSets, FiniteSetTheorems, TLAPS

CONSTANTS
  Refunds,           \* refund request ids
  Callers,           \* callers of submitRefundToChain
  Loops,             \* runs of reconcileRefunds
  NoRefund,          \* no refund
  minConfirmations,  \* MIN_LEDGER_CONFIRMATIONS
  maxAttempts,       \* attempts after which a refund that cannot be sent fails
  MaxTx,             \* bound on the transactions sent
  MaxFaults          \* bound on the calls that throw

VARIABLES
  record,  \* _refundSettlements: [status, attempts, tx, settledTx], tx 0 for none
  tx,      \* the transactions sent: [of, state, conf]
  nTx,     \* how many there are
  caller,  \* the refund each caller is submitting
  loop,    \* per run: [at, todo, cur, tx]
  faults,  \* what has gone wrong so far
  orderly, \* one caller at a time submits a refund, one run is under way (history)
  landed   \* a submission that threw has reached the chain (history)

vars == <<record, tx, nTx, caller, loop, faults, orderly, landed>>

Txs == 1..MaxTx
NoTx == [of |-> NoRefund, state |-> "unsent", conf |-> 0]
Asleep == [at |-> "asleep", todo |-> {}, cur |-> NoRefund, tx |-> 0]
Polling(todo) == [at |-> "poll", todo |-> todo, cur |-> NoRefund, tx |-> 0]

Init ==
  /\ record = [r \in Refunds |-> [status |-> "none", attempts |-> 0, tx |-> 0, settledTx |-> 0]]
  /\ tx = [t \in Txs |-> NoTx]
  /\ nTx = 0
  /\ caller = [c \in Callers |-> NoRefund]
  /\ loop = [l \in Loops |-> Asleep]
  /\ faults = 0 /\ orderly = TRUE /\ landed = FALSE

Fault == faults < MaxFaults /\ faults' = faults + 1

-----------------------------------------------------------------------------
\* Queueing a refund that is there already returns it unchanged.
queueEscrowRefundSettlement(r) ==
  /\ record[r].status = "none"
  /\ record' = [record EXCEPT ![r].status = "pending_chain"]
  /\ UNCHANGED <<tx, nTx, caller, loop, faults, orderly, landed>>

\* The early return of submitRefundToChain: a failed refund may be sent again.
Sendable(r) == record[r].status \in {"pending_chain", "failed"}

submitRefundToChain(c, r) ==
  /\ caller[c] = NoRefund
  /\ Sendable(r)
  /\ nTx + Cardinality({d \in Callers : caller[d] # NoRefund}) < MaxTx
  /\ caller' = [caller EXCEPT ![c] = r]
  /\ orderly' = (orderly /\ \A d \in Callers : caller[d] # r)
  /\ UNCHANGED <<record, tx, nTx, loop, faults, landed>>

Send(r) ==
  /\ nTx' = nTx + 1
  /\ tx' = [tx EXCEPT ![nTx + 1] = [of |-> r, state |-> "sent", conf |-> 0]]

\* submitXdrFn answers with the hash.
submitted(c) ==
  LET r == caller[c] IN
  /\ r # NoRefund
  /\ Send(r)
  /\ record' = [record EXCEPT ![r].tx = nTx + 1, ![r].status = "submitted",
                              ![r].attempts = IF @ < maxAttempts THEN @ + 1 ELSE @]
  /\ caller' = [caller EXCEPT ![c] = NoRefund]
  /\ UNCHANGED <<loop, faults, orderly, landed>>

\* submitXdrFn throws, before or after the transaction reached the chain.
submitThrows(c) ==
  LET r == caller[c]
      attempts == IF record[r].attempts < maxAttempts THEN record[r].attempts + 1
                  ELSE maxAttempts
  IN
  /\ r # NoRefund /\ Fault
  /\ (Send(r) /\ landed' = TRUE) \/ UNCHANGED <<tx, nTx, landed>>
  /\ record' = [record EXCEPT ![r].attempts = attempts,
                              ![r].status = IF attempts >= maxAttempts THEN "failed" ELSE @]
  /\ caller' = [caller EXCEPT ![c] = NoRefund]
  /\ UNCHANGED <<loop, orderly>>

\* The chain: a transaction that was sent is applied, rejected or dropped, and
\* an applied one gains confirmations.
include(t, state) ==
  /\ tx[t].state = "sent"
  /\ tx' = [tx EXCEPT ![t].state = state]
  /\ UNCHANGED <<record, nTx, caller, loop, faults, orderly, landed>>

confirm(t) ==
  /\ tx[t].state = "applied" /\ tx[t].conf < minConfirmations
  /\ tx' = [tx EXCEPT ![t].conf = @ + 1]
  /\ UNCHANGED <<record, nTx, caller, loop, faults, orderly, landed>>

-----------------------------------------------------------------------------
\* A run takes the records that are on the chain and the latest ledger; when
\* that call throws the run ends.
startRun(l) ==
  LET active == {r \in Refunds : record[r].status \in {"submitted", "pending_finality"}} IN
  /\ loop[l].at = "asleep" /\ active # {}
  /\ loop' = [loop EXCEPT ![l] = Polling(active)]
  /\ orderly' = (orderly /\ \A m \in Loops : loop[m].at = "asleep")
  /\ UNCHANGED <<record, tx, nTx, caller, faults, landed>>

poll(l, r) ==
  /\ loop[l].at = "poll" /\ r \in loop[l].todo
  /\ loop' = [loop EXCEPT ![l].at = "answer", ![l].cur = r, ![l].tx = record[r].tx]
  /\ UNCHANGED <<record, tx, nTx, caller, faults, orderly, landed>>

Advance(l) ==
  loop' = [loop EXCEPT ![l] = IF @.todo = {@.cur} THEN Asleep
                              ELSE Polling(@.todo \ {@.cur})]

\* Mutant: a transaction that is not found is taken for a rejected one.
RejectedOrMissing(state) == state \in {"sent", "rejected"}

Rejected(state) == state = "rejected"

Final(conf) == conf >= minConfirmations

\* Horizon answers about the transaction the record had when it was asked; the
\* confirmations count from a latest ledger that may be older.
getTransactionFinality(l, conf) ==
  LET r == loop[l].cur
      t == loop[l].tx
  IN
  /\ loop[l].at = "answer"
  /\ conf <= tx[t].conf
  /\ CASE Rejected(tx[t].state) -> record' = [record EXCEPT ![r].status = "failed"]
       [] tx[t].state = "applied" ->
            record' = [record EXCEPT
              ![r].status = IF Final(conf) THEN "settled"
                            ELSE IF @ = "submitted" THEN "pending_finality" ELSE @,
              ![r].settledTx = IF Final(conf) THEN t ELSE @]
       [] OTHER -> UNCHANGED record
  /\ Advance(l)
  /\ UNCHANGED <<tx, nTx, caller, faults, orderly, landed>>

\* getLatestLedgerSequence or getTransactionFinality throws.
runThrows(l) ==
  /\ loop[l].at # "asleep" /\ Fault
  /\ IF loop[l].at = "answer" THEN Advance(l) ELSE loop' = [loop EXCEPT ![l] = Asleep]
  /\ UNCHANGED <<record, tx, nTx, caller, orderly, landed>>

Run(l) ==
  \/ startRun(l)
  \/ \E r \in Refunds : poll(l, r)
  \/ \E conf \in 0..minConfirmations : getTransactionFinality(l, conf)

\* Nothing is under way.
Rest ==
  /\ \A c \in Callers : caller[c] = NoRefund
  /\ UNCHANGED vars

Next ==
  \/ \E r \in Refunds : queueEscrowRefundSettlement(r)
  \/ \E c \in Callers, r \in Refunds : submitRefundToChain(c, r)
  \/ \E c \in Callers : submitted(c) \/ submitThrows(c)
  \/ \E t \in Txs : confirm(t) \/ \E state \in {"applied", "rejected", "dropped"} : include(t, state)
  \/ \E l \in Loops : Run(l) \/ runThrows(l)
  \/ Rest

Spec == Init /\ [][Next]_vars

-----------------------------------------------------------------------------
\* Every variable is of its kind, and a refund on the chain has its transaction.
TypeOK ==
  /\ \A r \in Refunds :
       record[r].status \in {"submitted", "pending_finality", "settled"} => record[r].tx # 0
  /\ record \in [Refunds -> [status : {"none", "pending_chain", "submitted",
                                       "pending_finality", "settled", "failed"},
                             attempts : 0..maxAttempts, tx : 0..MaxTx, settledTx : 0..MaxTx]]
  /\ \A t \in Txs : (tx[t].state = "unsent") <=> (t > nTx)
  /\ \A l \in Loops : loop[l].cur # NoRefund => loop[l].cur \in loop[l].todo

\* A refund is settled only when a transaction of its own was applied and has
\* the minimum of confirmations.
SettledWasPaid ==
  \A r \in Refunds :
    record[r].status = "settled" =>
      LET t == record[r].settledTx IN
      t # 0 /\ tx[t].of = r /\ tx[t].state = "applied" /\ tx[t].conf >= minConfirmations

\* The transaction a record has now.
TxOf(r) == IF record[r].tx = 0 THEN NoTx ELSE tx[record[r].tx]

\* The buyer is paid once: of the transactions sent for a refund at most one is
\* applied, while a submission that throws has not reached the chain, one
\* caller at a time submits and one run at a time reconciles.
PaidOnce ==
  orderly /\ ~landed => \A r \in Refunds :
    Cardinality({t \in Txs : tx[t].of = r /\ tx[t].state = "applied"}) <= 1

\* The steps from phase to phase.
PhaseStep ==
  \A r \in Refunds : record'[r].status # record[r].status =>
    <<record[r].status, record'[r].status>> \in
      {<<"none", "pending_chain">>, <<"pending_chain", "submitted">>,
       <<"pending_chain", "failed">>, <<"failed", "submitted">>,
       <<"submitted", "pending_finality">>, <<"submitted", "settled">>,
       <<"submitted", "failed">>, <<"pending_finality", "settled">>,
       <<"pending_finality", "failed">>}

\* While one caller and one run at a time have it, the phases of a refund follow
\* each other and a settled refund stays settled, also when it is queued or
\* submitted again.
PhaseFlow == [][orderly => PhaseStep]_vars

\* A refund on the chain fails by the transaction it has.
RejectedStep ==
  \A r \in Refunds :
    (record[r].status \in {"submitted", "pending_finality"} /\ record'[r].status = "failed")
      => TxOf(r).state = "rejected"

\* While one caller and one run at a time have it, a refund that is on the chain
\* fails only when Horizon rejects the very transaction it was submitted with.
FailedWasRejected == [][orderly => RejectedStep]_vars

-----------------------------------------------------------------------------
\* What the proofs take of the constants: the bounds are numbers, there are
\* finitely many callers, and no refund is the absent one.
Assumed ==
  /\ minConfirmations \in Nat /\ maxAttempts \in Nat /\ MaxTx \in Nat /\ MaxFaults \in Nat
  /\ IsFiniteSet(Callers)
  /\ NoRefund \notin Refunds

OnChain == {"submitted", "pending_finality"}
Statuses == OnChain \cup {"none", "pending_chain", "settled", "failed"}
Busy == {d \in Callers : caller[d] # NoRefund}

RecordKind == [status : Statuses, attempts : 0..maxAttempts, tx : 0..MaxTx, settledTx : 0..MaxTx]
TxKind == [of : Refunds \cup {NoRefund}, conf : 0..minConfirmations,
           state : {"unsent", "sent", "applied", "rejected", "dropped"}]
LoopKind == [at : {"asleep", "poll", "answer"}, todo : SUBSET Refunds,
             cur : Refunds \cup {NoRefund}, tx : 0..MaxTx]

\* The variables are of their kinds.
Kinds ==
  /\ record \in [Refunds -> RecordKind]
  /\ tx \in [Txs -> TxKind]
  /\ nTx \in Nat
  /\ caller \in [Callers -> Refunds \cup {NoRefund}]
  /\ loop \in [Loops -> LoopKind]

\* Every caller has room for its transaction.
Room == nTx + Cardinality(Busy) <= MaxTx

\* A record points at a transaction of its own, and so does a question to
\* Horizon; what a run has to do has been sent.
PaidInv ==
  /\ Kinds /\ Room
  /\ \A t \in Txs : (tx[t].state = "unsent") <=> (t > nTx)
  /\ \A r \in Refunds :
       /\ record[r].tx <= nTx
       /\ record[r].tx # 0 => tx[record[r].tx].of = r
       /\ record[r].status \in OnChain \cup {"settled"} => record[r].tx # 0
  /\ \A l \in Loops :
       /\ \A r \in loop[l].todo : record[r].tx # 0
       /\ loop[l].at # "answer" => loop[l].cur = NoRefund
       /\ loop[l].at = "answer" =>
            loop[l].cur \in loop[l].todo /\ loop[l].tx \in 1..nTx /\ tx[loop[l].tx].of = loop[l].cur
  /\ SettledWasPaid

\* One caller and one run at a time: the caller of a refund finds it off the
\* chain until the answer, the run finds it on the chain and asks about the
\* transaction it still has.
TurnInv ==
  /\ \A c, d \in Callers : caller[c] = caller[d] /\ caller[c] # NoRefund => c = d
  /\ \A c \in Callers : caller[c] # NoRefund => Sendable(caller[c])
  /\ \A l \in Loops :
       /\ \A r \in loop[l].todo : record[r].status \in OnChain
       /\ loop[l].at = "answer" => loop[l].tx = record[loop[l].cur].tx
       /\ loop[l].at = "asleep" => loop[l].todo = {}
       /\ \A m \in Loops \ {l} : loop[l].at = "asleep" \/ loop[m].at = "asleep"

\* Every transaction of a refund but the one its record points at was rejected,
\* and so was that one when the refund may be sent again.
OnceInv ==
  \A t \in Txs :
    tx[t].of # NoRefund =>
      \/ tx[t].state = "rejected"
      \/ record[tx[t].of].tx = t /\ record[tx[t].of].status \in OnChain \cup {"settled"}

\* Most steps need no arithmetic: Zenon is tried first, and SMT on what is left.
USE ZenonT(2), SMTT(15), ZenonT(15)

\* A caller that is answered leaves the busy ones, and the transaction it sent,
\* if any, is the next one.
LEMMA Answered ==
  ASSUME Assumed, Kinds, Room, NEW c \in Callers, caller[c] # NoRefund,
         caller' = [caller EXCEPT ![c] = NoRefund], nTx' \in {nTx, nTx + 1}
  PROVE  Room' /\ nTx + 1 \in Txs
<1>1. IsFiniteSet(Busy)
  BY FS_Subset DEF Busy, Assumed
<1>2. Busy' = Busy \ {c} /\ c \in Busy
  BY DEF Busy, Kinds
<1>3. Cardinality(Busy') = Cardinality(Busy) - 1
  BY <1>1, <1>2, FS_RemoveElement
<1>4. Cardinality(Busy) \in Nat /\ Cardinality(Busy') \in Nat
  BY <1>1, <1>2, FS_RemoveElement, FS_CardinalityType
<1>5. nTx \in Nat /\ MaxTx \in Nat
  BY DEF Kinds, Assumed
<1> QED BY <1>3, <1>4, <1>5 DEF Room, Txs

\* A caller that starts is one more of the busy ones.
LEMMA Started ==
  ASSUME Assumed, Kinds, NEW c \in Callers, NEW r \in Refunds, submitRefundToChain(c, r)
  PROVE  Room'
<1>1. IsFiniteSet(Busy)
  BY FS_Subset DEF Busy, Assumed
<1>2. Busy' = Busy \cup {c} /\ c \notin Busy
  BY DEF Busy, Kinds, submitRefundToChain, Assumed
<1>3. Cardinality(Busy') = Cardinality(Busy) + 1 /\ Cardinality(Busy) \in Nat
  BY <1>1, <1>2, FS_AddElement, FS_CardinalityType
<1>4. nTx + Cardinality(Busy) < MaxTx /\ nTx' = nTx
  BY DEF submitRefundToChain, Busy
<1>5. nTx \in Nat /\ MaxTx \in Nat
  BY DEF Kinds, Assumed
<1> QED BY <1>3, <1>4, <1>5 DEF Room

\* A run that goes on to the next record, or ends.
LEMMA Advanced ==
  ASSUME Assumed, Kinds, NEW l \in Loops, Advance(l)
  PROVE  /\ loop' \in [Loops -> LoopKind]
         /\ \A m \in Loops \ {l} : loop'[m] = loop[m]
         /\ loop'[l].at # "answer" /\ loop'[l].cur = NoRefund
         /\ loop'[l].todo \subseteq loop[l].todo \ {loop[l].cur}
<1> DEFINE left == loop[l].todo \ {loop[l].cur}
           went == Polling(left)
           new == IF loop[l].todo = {loop[l].cur} THEN Asleep ELSE went
<1>0. loop[l] \in LoopKind
  BY DEF Kinds
<1>1. left \subseteq Refunds
  BY <1>0 DEF LoopKind
<1>2. /\ Asleep \in LoopKind /\ Asleep.at = "asleep" /\ Asleep.cur = NoRefund /\ Asleep.todo = {}
  BY DEF Asleep, LoopKind, Assumed
<1>3. /\ went \in LoopKind /\ went.at = "poll" /\ went.cur = NoRefund /\ went.todo = left
  <2> HIDE DEF left
  <2> QED BY <1>1 DEF Polling, LoopKind, Assumed
<1>4. new \in LoopKind /\ new.at # "answer" /\ new.cur = NoRefund /\ new.todo \subseteq left
  BY <1>2, <1>3
<1>5. loop' = [loop EXCEPT ![l] = new]
  BY DEF Advance
<1> HIDE DEF new
<1> QED BY <1>4, <1>5 DEF Kinds

\* A submission that is answered: the next transaction is of the caller's refund,
\* and the record points at it, or the record keeps its transaction.
LEMMA SubmitEffect ==
  ASSUME Assumed, Kinds, Room, NEW c \in Callers, submitted(c) \/ submitThrows(c)
  PROVE  LET r == caller[c] IN
         /\ Kinds' /\ Room' /\ r \in Refunds /\ nTx + 1 \in Txs
         /\ loop' = loop /\ caller' = [caller EXCEPT ![c] = NoRefund]
         /\ \/ tx' = tx /\ nTx' = nTx
            \/ /\ nTx' = nTx + 1
               /\ tx' = [tx EXCEPT ![nTx + 1] = [of |-> r, state |-> "sent", conf |-> 0]]
               /\ submitted(c) \/ landed'
         /\ \A q \in Refunds \ {r} : record'[q] = record[q]
         /\ record'[r].settledTx = record[r].settledTx
         /\ \/ record'[r].status = "submitted" /\ record'[r].tx = nTx + 1 /\ nTx' = nTx + 1
            \/ record'[r].status \in {record[r].status, "failed"} /\ record'[r].tx = record[r].tx
<1> DEFINE r == caller[c]
           sent == [of |-> r, state |-> "sent", conf |-> 0]
<1>1. r \in Refunds /\ r # NoRefund /\ caller' = [caller EXCEPT ![c] = NoRefund] /\ loop' = loop
  BY DEF submitted, submitThrows, Kinds
<1>2. \/ tx' = tx /\ nTx' = nTx /\ ~submitted(c)
      \/ nTx' = nTx + 1 /\ tx' = [tx EXCEPT ![nTx + 1] = sent] /\ (submitted(c) \/ landed')
  <2>1. CASE submitted(c)
    BY <2>1 DEF submitted, Send
  <2>2. CASE ~submitted(c)
    BY <2>2 DEF submitThrows, Send
  <2> QED BY <2>1, <2>2
<1>3. nTx' \in {nTx, nTx + 1}
  BY <1>2
<1>4. Room' /\ nTx + 1 \in Txs
  BY <1>1, <1>3, Answered
<1>5. sent \in TxKind
  BY <1>1 DEF TxKind, Assumed
<1>6. tx' \in [Txs -> TxKind] /\ nTx' \in Nat
  <2> HIDE DEF sent
  <2> QED BY <1>2, <1>5 DEF Kinds
<1>7. /\ record' \in [Refunds -> RecordKind]
      /\ \A q \in Refunds \ {r} : record'[q] = record[q]
      /\ record'[r].settledTx = record[r].settledTx
      /\ \/ record'[r].status = "submitted" /\ record'[r].tx = nTx + 1 /\ nTx' = nTx + 1
         \/ record'[r].status \in {record[r].status, "failed"} /\ record'[r].tx = record[r].tx
  <2>0. record \in [Refunds -> RecordKind] /\ record[r] \in RecordKind
    BY <1>1 DEF Kinds
  <2>1. CASE submitted(c)
    <3> DEFINE k == nTx + 1
               n == IF record[r].attempts < maxAttempts THEN record[r].attempts + 1 ELSE record[r].attempts
               new == [record[r] EXCEPT !.tx = k, !.status = "submitted", !.attempts = n]
    <3>1. record' = [record EXCEPT ![r] = new]
      BY <1>1, <2>0, <2>1 DEF submitted, RecordKind
    <3>2. n \in 0..maxAttempts /\ k \in 0..MaxTx
      BY <1>4, <2>0 DEF RecordKind, Assumed, Txs
    <3>3. nTx' = k
      BY <2>1 DEF submitted, Send
    <3> SUFFICES /\ record' \in [Refunds -> RecordKind]
                 /\ \A q \in Refunds \ {r} : record'[q] = record[q]
                 /\ record'[r].settledTx = record[r].settledTx
                 /\ record'[r].status = "submitted" /\ record'[r].tx = k
      BY <3>3
    <3> HIDE DEF n, k
    <3>4. new \in RecordKind /\ new.settledTx = record[r].settledTx /\ new.status = "submitted" /\ new.tx = k
      BY <2>0, <3>2 DEF RecordKind, Statuses, OnChain
    <3> HIDE DEF new
    <3> QED BY <1>1, <2>0, <3>1, <3>4
  <2>2. CASE submitThrows(c)
    <3> DEFINE n == IF record[r].attempts < maxAttempts THEN record[r].attempts + 1 ELSE maxAttempts
               s == IF n >= maxAttempts THEN "failed" ELSE record[r].status
               new == [record[r] EXCEPT !.attempts = n, !.status = s]
    <3>1. record' = [record EXCEPT ![r] = new]
      BY <1>1, <2>0, <2>2 DEF submitThrows, RecordKind
    <3>2. n \in 0..maxAttempts
      BY <2>0 DEF RecordKind, Assumed
    <3>3. s \in Statuses /\ s \in {record[r].status, "failed"}
      BY <2>0 DEF RecordKind, Statuses
    <3> HIDE DEF n, s
    <3>4. new \in RecordKind /\ new.settledTx = record[r].settledTx /\ new.status = s /\ new.tx = record[r].tx
      BY <2>0, <3>2, <3>3 DEF RecordKind
    <3> HIDE DEF new
    <3> QED BY <1>1, <2>0, <3>1, <3>3, <3>4
  <2> QED BY <2>1, <2>2
<1>8. Kinds'
  BY <1>1, <1>6, <1>7 DEF Kinds
<1> QED BY <1>1, <1>2, <1>4, <1>7, <1>8

\* What a record and a run point at stays theirs: a transaction keeps its refund
\* and, once applied, its confirmations.
LEMMA PaidSubmit ==
  ASSUME Assumed, PaidInv, NEW c \in Callers, submitted(c) \/ submitThrows(c)
  PROVE  PaidInv'
<1> DEFINE r == caller[c]
<1>0. Kinds /\ Room
  BY DEF PaidInv
<1>1. /\ Kinds' /\ Room' /\ r \in Refunds /\ nTx + 1 \in Txs /\ loop' = loop
      /\ \/ tx' = tx /\ nTx' = nTx
         \/ /\ nTx' = nTx + 1
            /\ tx' = [tx EXCEPT ![nTx + 1] = [of |-> r, state |-> "sent", conf |-> 0]]
      /\ \A q \in Refunds \ {r} : record'[q] = record[q]
      /\ record'[r].settledTx = record[r].settledTx
      /\ \/ record'[r].status = "submitted" /\ record'[r].tx = nTx + 1 /\ nTx' = nTx + 1
         \/ record'[r].status \in {record[r].status, "failed"} /\ record'[r].tx = record[r].tx
  BY <1>0, SubmitEffect
<1>2. nTx \in Nat /\ nTx' \in Nat /\ MaxTx \in Nat /\ nTx < MaxTx /\ nTx' <= MaxTx /\ nTx <= nTx'
  BY <1>0, <1>1 DEF Kinds, Txs, Assumed
<1>3. /\ \A t \in 1..nTx : tx'[t] = tx[t]
      /\ nTx' = nTx + 1 => tx'[nTx + 1].of = r
      /\ \A t \in Txs : (tx'[t].state = "unsent") <=> (t > nTx')
  <2>1. tx \in [Txs -> TxKind] /\ \A t \in Txs : (tx[t].state = "unsent") <=> (t > nTx)
    BY DEF PaidInv, Kinds
  <2>2. \A t \in Txs : t \in Nat
    BY DEF Txs
  <2>3. CASE tx' = tx /\ nTx' = nTx
    BY <1>2, <2>1, <2>3
  <2>4. CASE nTx' = nTx + 1 /\ tx' = [tx EXCEPT ![nTx + 1] = [of |-> r, state |-> "sent", conf |-> 0]]
    <3>1. \A t \in Txs : t # nTx + 1 => tx'[t] = tx[t]
      BY <2>1, <2>4
    <3>2. tx'[nTx + 1].of = r /\ tx'[nTx + 1].state = "sent"
      BY <1>1, <2>1, <2>4
    <3>3. \A t \in 1..nTx : t \in Txs /\ t # nTx + 1
      BY <1>2 DEF Txs
    <3>4. \A t \in Txs : (tx'[t].state = "unsent") <=> (t > nTx')
      BY <1>2, <2>1, <2>2, <2>4, <3>1, <3>2
    <3> QED BY <3>1, <3>2, <3>3, <3>4
  <2> QED BY <1>1, <2>3, <2>4
<1>4. \A q \in Refunds : record[q].tx \in 0..nTx /\ record[q].settledTx \in 0..MaxTx
  BY <1>0, <1>2 DEF PaidInv, Kinds, RecordKind
<1>5. \A q \in Refunds :
        /\ record'[q].tx <= nTx'
        /\ record'[q].tx # 0 => tx'[record'[q].tx].of = q
        /\ record'[q].status \in OnChain \cup {"settled"} => record'[q].tx # 0
        /\ record[q].tx # 0 => record'[q].tx # 0
  <2> TAKE q \in Refunds
  <2>1. CASE q # r
    BY <1>1, <1>2, <1>3, <1>4, <2>1 DEF PaidInv
  <2>2. CASE q = r
    BY <1>1, <1>2, <1>3, <1>4, <2>2 DEF PaidInv, OnChain
  <2> QED BY <2>1, <2>2
<1>6. \A l \in Loops :
       /\ \A q \in loop'[l].todo : record'[q].tx # 0
       /\ loop'[l].at # "answer" => loop'[l].cur = NoRefund
       /\ loop'[l].at = "answer" =>
            loop'[l].cur \in loop'[l].todo /\ loop'[l].tx \in 1..nTx' /\ tx'[loop'[l].tx].of = loop'[l].cur
  <2>1. \A l \in Loops : loop[l].todo \subseteq Refunds
    BY <1>0 DEF Kinds, LoopKind
  <2> QED BY <1>1, <1>2, <1>3, <1>5, <2>1 DEF PaidInv
<1>7. SettledWasPaid'
  <2> SUFFICES ASSUME NEW q \in Refunds, record'[q].status = "settled"
               PROVE  LET t == record'[q].settledTx IN
                      /\ t # 0 /\ tx'[t].of = q /\ tx'[t].state = "applied"
                      /\ tx'[t].conf >= minConfirmations
    BY DEF SettledWasPaid
  <2>1. record[q].status = "settled" /\ record'[q].settledTx = record[q].settledTx
    BY <1>1
  <2>2. record[q].settledTx \in Txs /\ tx[record[q].settledTx].state = "applied"
    BY <1>2, <1>4, <2>1 DEF PaidInv, SettledWasPaid, Txs
  <2>3. record[q].settledTx \in 1..nTx
    BY <1>2, <2>2 DEF PaidInv, Txs
  <2> QED BY <1>3, <2>1, <2>3 DEF PaidInv, SettledWasPaid
<1> QED BY <1>1, <1>3, <1>5, <1>6, <1>7 DEF PaidInv

\* A transaction that is included or confirmed keeps its refund, and an applied one
\* its state.
LEMMA PaidChain ==
  ASSUME Assumed, PaidInv, NEW t \in Txs,
         confirm(t) \/ \E state \in {"applied", "rejected", "dropped"} : include(t, state)
  PROVE  PaidInv'
<1> USE DEF Assumed
<1> DEFINE Grown ==
             /\ tx' \in [Txs -> TxKind]
             /\ \A u \in Txs : tx'[u].of = tx[u].of /\ (tx'[u].state = "unsent" <=> tx[u].state = "unsent")
             /\ \A u \in Txs : tx[u].state = "applied" => tx'[u].state = "applied" /\ tx'[u].conf >= tx[u].conf
<1>1. Grown
  <2>0. tx \in [Txs -> TxKind] /\ \A u \in Txs : tx[u] \in TxKind
    BY DEF PaidInv, Kinds
  <2>1. CASE confirm(t)
    <3> DEFINE new == [tx[t] EXCEPT !.conf = @ + 1]
    <3>1. tx' = [tx EXCEPT ![t] = new] /\ record' = record /\ nTx' = nTx /\ caller' = caller /\ loop' = loop
      BY <2>0, <2>1 DEF confirm
    <3>2. new \in TxKind /\ new.of = tx[t].of /\ new.state = tx[t].state /\ new.conf >= tx[t].conf
      BY <2>0, <2>1 DEF confirm, TxKind
    <3>3. \A u \in Txs : tx[u].conf >= tx[u].conf
      BY <2>0 DEF TxKind
    <3> HIDE DEF new
    <3> QED BY <2>0, <3>1, <3>2, <3>3
  <2>2. ASSUME NEW state \in {"applied", "rejected", "dropped"}, include(t, state) PROVE Grown
    <3> DEFINE new == [tx[t] EXCEPT !.state = state]
    <3>1. /\ tx' = [tx EXCEPT ![t] = new] /\ record' = record /\ nTx' = nTx /\ caller' = caller
          /\ loop' = loop /\ tx[t].state = "sent"
      BY <2>0, <2>2 DEF include
    <3>2. new \in TxKind /\ new.of = tx[t].of /\ new.state = state
      BY <2>0, <2>2 DEF TxKind
    <3>3. \A u \in Txs : tx[u].conf >= tx[u].conf
      BY <2>0 DEF TxKind
    <3> HIDE DEF new
    <3> QED BY <2>0, <3>1, <3>2, <3>3
  <2> QED BY <2>1, <2>2
<1>2. record' = record /\ nTx' = nTx /\ caller' = caller /\ loop' = loop
  BY DEF confirm, include
<1>3. Kinds' /\ Room'
  BY <1>1, <1>2 DEF PaidInv, Kinds, Room, Busy
<1>4. nTx <= MaxTx /\ nTx \in Nat /\ \A q \in Refunds : record[q].tx \in 0..MaxTx /\ record[q].settledTx \in 0..MaxTx
  <2>1. Cardinality(Busy) \in Nat
    BY FS_Subset, FS_CardinalityType DEF Busy
  <2> QED BY <2>1 DEF PaidInv, Kinds, Room, RecordKind
<1>5. \A q \in Refunds :
        /\ record[q].tx # 0 => record[q].tx \in Txs
        /\ record[q].settledTx # 0 => record[q].settledTx \in Txs
  BY <1>4 DEF Txs
<1>6. \A u \in 1..nTx : u \in Txs
  BY <1>4 DEF Txs
<1>7. SettledWasPaid'
  <2> SUFFICES ASSUME NEW q \in Refunds, record[q].status = "settled"
               PROVE  LET u == record[q].settledTx IN
                      /\ u # 0 /\ tx'[u].of = q /\ tx'[u].state = "applied"
                      /\ tx'[u].conf >= minConfirmations
    BY <1>2 DEF SettledWasPaid
  <2> DEFINE u == record[q].settledTx
  <2>1. u \in Txs /\ tx[u].of = q /\ tx[u].state = "applied" /\ tx[u].conf >= minConfirmations /\ u # 0
    BY <1>5 DEF PaidInv, SettledWasPaid
  <2>2. tx[u].conf \in Nat /\ tx'[u].conf \in Nat
    BY <1>1, <2>1 DEF PaidInv, Kinds, TxKind
  <2> QED BY <1>1, <2>1, <2>2
<1>8. \A q \in Refunds :
       /\ record'[q].tx <= nTx'
       /\ record'[q].tx # 0 => tx'[record'[q].tx].of = q
       /\ record'[q].status \in OnChain \cup {"settled"} => record'[q].tx # 0
  BY <1>1, <1>2, <1>5 DEF PaidInv
<1>9. \A l \in Loops :
       /\ \A q \in loop'[l].todo : record'[q].tx # 0
       /\ loop'[l].at # "answer" => loop'[l].cur = NoRefund
       /\ loop'[l].at = "answer" =>
            loop'[l].cur \in loop'[l].todo /\ loop'[l].tx \in 1..nTx' /\ tx'[loop'[l].tx].of = loop'[l].cur
  BY <1>1, <1>2, <1>6 DEF PaidInv
<1>10. \A u \in Txs : (tx'[u].state = "unsent") <=> (u > nTx')
  BY <1>1, <1>2 DEF PaidInv
<1> QED BY <1>3, <1>7, <1>8, <1>9, <1>10 DEF PaidInv

\* What an answer of Horizon does to the record: its transaction stays, it fails
\* when the transaction asked about was rejected and is settled when it is final.
LEMMA AnswerEffect ==
  ASSUME Assumed, PaidInv, NEW l \in Loops, NEW conf \in 0..minConfirmations,
         getTransactionFinality(l, conf)
  PROVE  LET r == loop[l].cur
             t == loop[l].tx
         IN
         /\ r \in Refunds /\ t \in Txs /\ tx[t].of = r /\ r \in loop[l].todo
         /\ record' \in [Refunds -> RecordKind]
         /\ \A q \in Refunds \ {r} : record'[q] = record[q]
         /\ record'[r].tx = record[r].tx
         /\ \/ record'[r] = record[r]
            \/ tx[t].state = "rejected" /\ record'[r].status = "failed"
            \/ record[r].status = "submitted" /\ record'[r].status = "pending_finality"
            \/ /\ tx[t].state = "applied" /\ tx[t].conf >= minConfirmations
               /\ record'[r].status = "settled" /\ record'[r].settledTx = t
<1> DEFINE r == loop[l].cur
           t == loop[l].tx
<1>1. loop[l].at = "answer" /\ loop[l].todo \subseteq Refunds /\ nTx \in Nat
  BY DEF getTransactionFinality, PaidInv, Kinds, LoopKind
<1>2. r \in Refunds /\ r \in loop[l].todo /\ t \in 1..nTx /\ tx[t].of = r /\ t \in 0..MaxTx
  BY <1>1 DEF PaidInv, Kinds, LoopKind
<1>3. t \in Txs
  BY <1>1, <1>2 DEF Txs, Assumed
<1>4. tx[t].conf \in 0..minConfirmations /\ record[r] \in RecordKind /\ record \in [Refunds -> RecordKind]
  BY <1>2, <1>3 DEF PaidInv, Kinds, TxKind
<1> HIDE DEF r, t
<1>5. CASE tx[t].state = "rejected"
  <2> DEFINE new == [record[r] EXCEPT !.status = "failed"]
  <2>1. record' = [record EXCEPT ![r] = new]
    BY <1>2, <1>4, <1>5 DEF getTransactionFinality, Rejected, r, t
  <2>2. new \in RecordKind /\ new.tx = record[r].tx /\ new.status = "failed"
    BY <1>4 DEF RecordKind, Statuses
  <2> HIDE DEF new
  <2> QED BY <1>2, <1>3, <1>4, <1>5, <2>1, <2>2 DEF r, t
<1>6. CASE tx[t].state = "applied"
  <2> DEFINE s == IF Final(conf) THEN "settled"
                  ELSE IF record[r].status = "submitted" THEN "pending_finality" ELSE record[r].status
             x == IF Final(conf) THEN t ELSE record[r].settledTx
             new == [record[r] EXCEPT !.status = s, !.settledTx = x]
  <2>1. record' = [record EXCEPT ![r] = new]
    <3>1. ~Rejected(tx[t].state)
      BY <1>6 DEF Rejected
    <3> QED BY <1>2, <1>4, <1>6, <3>1 DEF getTransactionFinality, r, t
  <2>2. s \in Statuses /\ x \in 0..MaxTx
    BY <1>2, <1>4 DEF RecordKind, Statuses, OnChain
  <2>3. /\ Final(conf) => s = "settled" /\ x = t /\ tx[t].conf >= minConfirmations
        /\ ~Final(conf) => /\ x = record[r].settledTx
                           /\ \/ s = record[r].status
                              \/ record[r].status = "submitted" /\ s = "pending_finality"
    BY <1>4 DEF Final, getTransactionFinality, t, Assumed
  <2> HIDE DEF s, x
  <2>4. new \in RecordKind /\ new.tx = record[r].tx /\ new.status = s /\ new.settledTx = x
    BY <1>4, <2>2 DEF RecordKind
  <2>5. s = record[r].status /\ x = record[r].settledTx => new = record[r]
    BY <1>4 DEF RecordKind
  <2> HIDE DEF new
  <2>6. record'[r] = new
    BY <1>2, <1>4, <2>1
  <2> QED BY <1>2, <1>3, <1>4, <1>6, <2>1, <2>3, <2>4, <2>5, <2>6 DEF r, t
<1>7. CASE tx[t].state \notin {"rejected", "applied"}
  <2>1. record' = record
    BY <1>7 DEF getTransactionFinality, Rejected, t
  <2> QED BY <1>2, <1>3, <1>4, <2>1 DEF r, t
<1> QED BY <1>5, <1>6, <1>7

\* The steps that send nothing: the transactions stay, and so does the one each
\* record points at.
LEMMA PaidRest ==
  ASSUME Assumed, PaidInv, Kinds', Room', UNCHANGED <<tx, nTx>>, SettledWasPaid',
         \A r \in Refunds : record'[r].tx = record[r].tx
                            /\ (record'[r].status \in OnChain \cup {"settled"} => record[r].tx # 0),
         \A l \in Loops :
           \/ loop'[l] = loop[l]
           \/ /\ \A r \in loop'[l].todo : record[r].tx # 0
              /\ loop'[l].at # "answer" => loop'[l].cur = NoRefund
              /\ loop'[l].at = "answer" =>
                   /\ loop'[l].cur \in loop'[l].todo
                   /\ loop'[l].tx = record[loop'[l].cur].tx
  PROVE  PaidInv'
<1>1. \A r \in Refunds : record[r].tx \in Nat
  BY DEF PaidInv, Kinds, RecordKind
<1>2. \A r \in Refunds :
       /\ record'[r].tx <= nTx'
       /\ record'[r].tx # 0 => tx'[record'[r].tx].of = r
       /\ record'[r].status \in OnChain \cup {"settled"} => record'[r].tx # 0
  BY DEF PaidInv
<1>3. \A l \in Loops :
       /\ \A r \in loop'[l].todo : record'[r].tx # 0
       /\ loop'[l].at # "answer" => loop'[l].cur = NoRefund
       /\ loop'[l].at = "answer" =>
            loop'[l].cur \in loop'[l].todo /\ loop'[l].tx \in 1..nTx' /\ tx'[loop'[l].tx].of = loop'[l].cur
  <2> TAKE l \in Loops
  <2>1. loop[l].todo \subseteq Refunds /\ loop'[l].todo \subseteq Refunds /\ nTx \in Nat
    BY DEF PaidInv, Kinds, LoopKind
  <2>2. CASE loop'[l] = loop[l]
    BY <2>1, <2>2 DEF PaidInv
  <2>3. CASE /\ \A r \in loop'[l].todo : record[r].tx # 0
             /\ loop'[l].at # "answer" => loop'[l].cur = NoRefund
             /\ loop'[l].at = "answer" =>
                  /\ loop'[l].cur \in loop'[l].todo
                  /\ loop'[l].tx = record[loop'[l].cur].tx
    <3>1. \A r \in loop'[l].todo : record[r].tx \in 1..nTx /\ tx[record[r].tx].of = r
      BY <1>1, <2>1, <2>3 DEF PaidInv
    <3> QED BY <2>1, <2>3, <3>1
  <2> QED BY <2>2, <2>3
<1>4. \A t \in Txs : (tx'[t].state = "unsent") <=> (t > nTx')
  BY DEF PaidInv
<1> QED BY <1>2, <1>3, <1>4 DEF PaidInv

\* Every step keeps the records, the runs and the transactions matched.
LEMMA PaidStep ==
  ASSUME Assumed, PaidInv, [Next]_vars
  PROVE  PaidInv'
<1>0. /\ Kinds /\ Room /\ SettledWasPaid
      /\ record \in [Refunds -> RecordKind] /\ loop \in [Loops -> LoopKind]
      /\ \A r \in Refunds : record[r] \in RecordKind
      /\ \A r \in Refunds : record[r].status \in OnChain \cup {"settled"} => record[r].tx # 0
  BY DEF PaidInv, Kinds
<1>1. ASSUME NEW r \in Refunds, queueEscrowRefundSettlement(r) PROVE PaidInv'
  <2> DEFINE new == [record[r] EXCEPT !.status = "pending_chain"]
  <2>1. record' = [record EXCEPT ![r] = new] /\ UNCHANGED <<tx, nTx, caller, loop>>
    BY <1>0, <1>1 DEF queueEscrowRefundSettlement
  <2>2. new \in RecordKind /\ new.tx = record[r].tx /\ new.status = "pending_chain"
    BY <1>0 DEF RecordKind, Statuses
  <2> HIDE DEF new
  <2>3. Kinds' /\ Room'
    BY <1>0, <2>1, <2>2 DEF Kinds, Room, Busy
  <2>4. /\ \A q \in Refunds : record'[q].tx = record[q].tx
        /\ \A q \in Refunds : record'[q] = record[q] \/ record'[q].status = "pending_chain"
    BY <1>0, <2>1, <2>2
  <2>5. SettledWasPaid'
    BY <1>0, <2>1, <2>4 DEF SettledWasPaid
  <2> QED BY <1>0, <2>1, <2>3, <2>4, <2>5, PaidRest DEF OnChain
<1>2. ASSUME NEW c \in Callers, NEW r \in Refunds, submitRefundToChain(c, r) PROVE PaidInv'
  <2>1. UNCHANGED <<record, tx, nTx, loop>> /\ caller' = [caller EXCEPT ![c] = r]
    BY <1>2 DEF submitRefundToChain
  <2>2. Kinds' /\ Room'
    BY <1>0, <1>2, <2>1, Started DEF Kinds
  <2>3. SettledWasPaid'
    BY <1>0, <2>1 DEF SettledWasPaid
  <2> QED BY <1>0, <2>1, <2>2, <2>3, PaidRest
<1>3. ASSUME NEW c \in Callers, submitted(c) \/ submitThrows(c) PROVE PaidInv'
  BY <1>3, PaidSubmit
<1>4. ASSUME NEW t \in Txs,
             confirm(t) \/ \E state \in {"applied", "rejected", "dropped"} : include(t, state)
      PROVE  PaidInv'
  BY <1>4, PaidChain
<1>5. ASSUME NEW l \in Loops, startRun(l) PROVE PaidInv'
  <2> DEFINE active == {r \in Refunds : record[r].status \in {"submitted", "pending_finality"}}
             new == Polling(active)
  <2>1. UNCHANGED <<record, tx, nTx, caller>> /\ loop' = [loop EXCEPT ![l] = new]
    BY <1>5 DEF startRun
  <2>2. new \in LoopKind /\ new.at = "poll" /\ new.cur = NoRefund /\ new.todo = active
    BY DEF Polling, LoopKind, Assumed
  <2>3. \A r \in active : record[r].tx # 0
    BY <1>0 DEF OnChain
  <2> HIDE DEF new, active
  <2>4. Kinds' /\ Room' /\ SettledWasPaid'
    BY <1>0, <2>1, <2>2 DEF Kinds, Room, Busy, SettledWasPaid
  <2>5. \A m \in Loops : loop'[m] = loop[m] \/ loop'[m] = new
    BY <1>0, <2>1
  <2> QED BY <1>0, <2>1, <2>2, <2>3, <2>4, <2>5, PaidRest
<1>6. ASSUME NEW l \in Loops, NEW r \in Refunds, poll(l, r) PROVE PaidInv'
  <2> DEFINE new == [loop[l] EXCEPT !.at = "answer", !.cur = r, !.tx = record[r].tx]
  <2>1. UNCHANGED <<record, tx, nTx, caller>> /\ loop' = [loop EXCEPT ![l] = new] /\ r \in loop[l].todo
    BY <1>0, <1>6 DEF poll
  <2>2. record[r].tx \in 0..MaxTx
    BY <1>0 DEF RecordKind
  <2>3. /\ new \in LoopKind /\ new.at = "answer" /\ new.cur = r /\ new.todo = loop[l].todo
        /\ new.tx = record[r].tx
    BY <1>0, <2>2 DEF LoopKind
  <2>4. \A q \in loop[l].todo : record[q].tx # 0
    BY DEF PaidInv
  <2> HIDE DEF new
  <2>5. Kinds' /\ Room' /\ SettledWasPaid'
    BY <1>0, <2>1, <2>3 DEF Kinds, Room, Busy, SettledWasPaid
  <2>6. \A m \in Loops : (loop'[m] = loop[m]) \/ (m = l /\ loop'[m] = new)
    BY <1>0, <2>1
  <2> QED BY <1>0, <2>1, <2>3, <2>4, <2>5, <2>6, PaidRest
<1>7. ASSUME NEW l \in Loops, NEW conf \in 0..minConfirmations, getTransactionFinality(l, conf)
      PROVE  PaidInv'
  <2> DEFINE r == loop[l].cur
             t == loop[l].tx
  <2>1. UNCHANGED <<tx, nTx, caller>> /\ Advance(l)
    BY <1>7 DEF getTransactionFinality
  <2>2. /\ r \in Refunds /\ t \in Txs /\ tx[t].of = r /\ r \in loop[l].todo
        /\ record' \in [Refunds -> RecordKind]
        /\ \A q \in Refunds \ {r} : record'[q] = record[q]
        /\ record'[r].tx = record[r].tx
        /\ \/ record'[r] = record[r]
           \/ record'[r].status \in {"failed", "pending_finality"}
           \/ /\ tx[t].state = "applied" /\ tx[t].conf >= minConfirmations
              /\ record'[r].status = "settled" /\ record'[r].settledTx = t
    BY <1>7, AnswerEffect
  <2>3. /\ loop' \in [Loops -> LoopKind]
        /\ \A m \in Loops \ {l} : loop'[m] = loop[m]
        /\ loop'[l].at # "answer" /\ loop'[l].cur = NoRefund
        /\ loop'[l].todo \subseteq loop[l].todo
    BY <1>0, <2>1, Advanced
  <2>4. Kinds' /\ Room'
    BY <1>0, <2>1, <2>2, <2>3 DEF Kinds, Room, Busy
  <2>5. record[r].tx # 0 /\ \A q \in loop[l].todo : record[q].tx # 0
    BY <2>2 DEF PaidInv
  <2>6. t # 0
    BY <2>2 DEF Txs
  <2>7. SettledWasPaid'
    BY <1>0, <2>1, <2>2, <2>6 DEF SettledWasPaid
  <2>8. \A q \in Refunds :
          /\ record'[q].tx = record[q].tx
          /\ record'[q].status \in OnChain \cup {"settled"} => record[q].tx # 0
    BY <1>0, <2>2, <2>5
  <2> QED BY <2>1, <2>3, <2>4, <2>5, <2>7, <2>8, PaidRest
<1>8. ASSUME NEW l \in Loops, runThrows(l) PROVE PaidInv'
  <2>1. UNCHANGED <<record, tx, nTx, caller>>
    BY <1>8 DEF runThrows
  <2>2. /\ loop' \in [Loops -> LoopKind]
        /\ \A m \in Loops \ {l} : loop'[m] = loop[m]
        /\ loop'[l].at # "answer" /\ loop'[l].cur = NoRefund
        /\ loop'[l].todo \subseteq loop[l].todo
    <3>1. CASE loop[l].at = "answer"
      BY <1>0, <1>8, <3>1, Advanced DEF runThrows
    <3>2. CASE loop[l].at # "answer"
      <4>1. loop' = [loop EXCEPT ![l] = Asleep]
        BY <1>8, <3>2 DEF runThrows
      <4>2. Asleep \in LoopKind /\ Asleep.at # "answer" /\ Asleep.cur = NoRefund /\ Asleep.todo = {}
        BY DEF Asleep, LoopKind, Assumed
      <4> QED BY <1>0, <4>1, <4>2
    <3> QED BY <3>1, <3>2
  <2>3. Kinds' /\ Room' /\ SettledWasPaid'
    BY <1>0, <2>1, <2>2 DEF Kinds, Room, Busy, SettledWasPaid
  <2>4. \A q \in loop[l].todo : record[q].tx # 0
    BY DEF PaidInv
  <2> QED BY <1>0, <2>1, <2>2, <2>3, <2>4, PaidRest
<1>9. CASE UNCHANGED vars
  <2>1. Kinds' /\ Room' /\ SettledWasPaid'
    BY <1>0, <1>9 DEF vars, Kinds, Room, Busy, SettledWasPaid
  <2> QED BY <1>0, <1>9, <2>1, PaidRest DEF vars
<1> QED BY <1>1, <1>2, <1>3, <1>4, <1>5, <1>6, <1>7, <1>8, <1>9 DEF Next, Run, Rest

\* Nothing is sent at the start.
LEMMA InitPaid ==
  ASSUME Assumed, Init
  PROVE  PaidInv
<1>1. Kinds
  BY DEF Init, Kinds, NoTx, Asleep, TxKind, LoopKind, RecordKind, Statuses, OnChain, Assumed
<1>2. Busy = {}
  BY DEF Init, Busy
<1>3. Room
  BY <1>2, FS_EmptySet DEF Init, Room, Assumed
<1> QED BY <1>1, <1>3 DEF Init, PaidInv, NoTx, Asleep, OnChain, Txs, SettledWasPaid

\* Every step in turn keeps callers off the chain and the run on it.
LEMMA TurnStep ==
  ASSUME Assumed, PaidInv, TurnInv, [Next]_vars, orderly'
  PROVE  TurnInv'
<1>0. /\ Kinds /\ Room
      /\ record \in [Refunds -> RecordKind] /\ loop \in [Loops -> LoopKind]
      /\ caller \in [Callers -> Refunds \cup {NoRefund}]
      /\ \A r \in Refunds : record[r] \in RecordKind
      /\ \A l \in Loops : loop[l] \in LoopKind /\ loop[l].todo \subseteq Refunds
      /\ NoRefund \notin Refunds
  BY DEF PaidInv, Kinds, Assumed, LoopKind
<1>1. ASSUME NEW r \in Refunds, queueEscrowRefundSettlement(r) PROVE TurnInv'
  <2>1. /\ UNCHANGED <<caller, loop>>
        /\ \A q \in Refunds : record'[q].tx = record[q].tx
        /\ record[r].status = "none"
        /\ \A q \in Refunds \ {r} : record'[q].status = record[q].status
    BY <1>0, <1>1 DEF queueEscrowRefundSettlement, RecordKind
  <2>2. /\ \A c \in Callers : caller[c] # r
        /\ \A l \in Loops : r \notin loop[l].todo
    BY <1>0, <2>1 DEF TurnInv, Sendable, OnChain
  <2>3. \A l \in Loops : loop[l].at = "answer" => loop[l].cur \in Refunds
    BY <1>0 DEF PaidInv
  <2> QED BY <1>0, <2>1, <2>2, <2>3 DEF TurnInv, Sendable
<1>2. ASSUME NEW c \in Callers, NEW r \in Refunds, submitRefundToChain(c, r) PROVE TurnInv'
  <2>1. /\ UNCHANGED <<record, loop>> /\ caller' = [caller EXCEPT ![c] = r] /\ Sendable(r)
        /\ \A d \in Callers : caller[d] # r
    BY <1>2 DEF submitRefundToChain
  <2> QED BY <1>0, <2>1 DEF TurnInv, Sendable
<1>3. ASSUME NEW c \in Callers, submitted(c) \/ submitThrows(c) PROVE TurnInv'
  <2> DEFINE r == caller[c]
  <2>1. /\ r \in Refunds /\ loop' = loop /\ caller' = [caller EXCEPT ![c] = NoRefund]
        /\ \A q \in Refunds \ {r} : record'[q] = record[q]
    BY <1>0, <1>3, SubmitEffect
  <2>2. /\ \A d \in Callers \ {c} : caller[d] # r
        /\ \A l \in Loops : r \notin loop[l].todo
    BY <1>0, <2>1 DEF TurnInv, Sendable, OnChain
  <2>3. \A l \in Loops : loop[l].at = "answer" => loop[l].cur \in loop[l].todo
    BY DEF PaidInv
  <2>4. \A d \in Callers : caller'[d] = IF d = c THEN NoRefund ELSE caller[d]
    BY <1>0, <2>1
  <2> QED BY <1>0, <2>1, <2>2, <2>3, <2>4 DEF TurnInv, Sendable
<1>4. ASSUME NEW t \in Txs,
             confirm(t) \/ \E state \in {"applied", "rejected", "dropped"} : include(t, state)
      PROVE  TurnInv'
  <2>1. UNCHANGED <<record, caller, loop>>
    BY <1>4 DEF confirm, include
  <2> QED BY <2>1 DEF TurnInv, Sendable
<1>5. ASSUME NEW l \in Loops, startRun(l) PROVE TurnInv'
  <2> DEFINE active == {r \in Refunds : record[r].status \in {"submitted", "pending_finality"}}
  <2>1. UNCHANGED <<record, caller>> /\ loop' = [loop EXCEPT ![l] = Polling(active)]
    BY <1>5 DEF startRun
  <2>2. loop'[l].at = "poll" /\ loop'[l].todo = active /\ \A m \in Loops \ {l} : loop'[m] = loop[m]
    BY <1>0, <2>1 DEF Polling
  <2>3. \A m \in Loops : loop[m].at = "asleep"
    BY <1>5 DEF startRun
  <2>4. \A r \in active : record'[r].status \in OnChain
    BY <2>1 DEF OnChain
  <2>5. \A m \in Loops : loop'[m].at = "asleep" => m # l /\ loop'[m].todo = {}
    BY <2>2, <2>3 DEF TurnInv
  <2> HIDE DEF active
  <2>6. \A m \in Loops : \A r \in loop'[m].todo : record'[r].status \in OnChain
    BY <2>1, <2>2, <2>4 DEF TurnInv
  <2> QED BY <2>1, <2>2, <2>3, <2>5, <2>6 DEF TurnInv, Sendable
<1>6. ASSUME NEW l \in Loops, NEW r \in Refunds, poll(l, r) PROVE TurnInv'
  <2>1. /\ UNCHANGED <<record, caller>> /\ loop'[l].todo = loop[l].todo /\ loop'[l].cur = r
        /\ loop'[l].tx = record[r].tx /\ \A m \in Loops \ {l} : loop'[m] = loop[m]
    BY <1>0, <1>6 DEF poll, LoopKind
  <2>2. loop[l].at # "asleep" /\ loop'[l].at = "answer"
    BY <1>0, <1>6 DEF poll, LoopKind
  <2> QED BY <2>1, <2>2 DEF TurnInv, Sendable
<1>7. ASSUME NEW l \in Loops, NEW conf \in 0..minConfirmations, getTransactionFinality(l, conf)
      PROVE  TurnInv'
  <2> DEFINE r == loop[l].cur
  <2>1. caller' = caller /\ Advance(l)
    BY <1>7 DEF getTransactionFinality
  <2>2. /\ r \in Refunds /\ r \in loop[l].todo
        /\ \A q \in Refunds \ {r} : record'[q] = record[q]
    BY <1>7, AnswerEffect
  <2>3. loop'[l].at # "answer" /\ loop'[l].todo \subseteq loop[l].todo \ {r}
    BY <1>0, <2>1, Advanced
  <2>4. \A c \in Callers : caller[c] # r
    BY <1>0, <2>2 DEF TurnInv, Sendable, OnChain
  <2>5. \A m \in Loops \ {l} : loop[m].at = "asleep" /\ loop[m].todo = {} /\ loop'[m] = loop[m]
    BY <1>0, <1>7, <2>1, Advanced DEF TurnInv, getTransactionFinality
  <2>6. loop'[l].at = "asleep" => loop'[l].todo = {}
    BY <1>0, <2>1 DEF Advance, Asleep, Polling
  <2> QED BY <1>0, <2>1, <2>2, <2>3, <2>4, <2>5, <2>6 DEF TurnInv, Sendable
<1>8. ASSUME NEW l \in Loops, runThrows(l) PROVE TurnInv'
  <2>1. UNCHANGED <<record, caller>>
    BY <1>8 DEF runThrows
  <2>2. /\ \A m \in Loops \ {l} : loop'[m] = loop[m]
        /\ loop'[l].at # "answer" /\ loop'[l].todo \subseteq loop[l].todo
        /\ loop'[l].at = "asleep" => loop'[l].todo = {}
    <3>1. CASE loop[l].at = "answer"
      <4>1. Advance(l)
        BY <1>8, <3>1 DEF runThrows
      <4>2. loop'[l].at = "asleep" => loop'[l].todo = {}
        BY <1>0, <4>1 DEF Advance, Asleep, Polling
      <4> QED BY <1>0, <4>1, <4>2, Advanced
    <3>2. CASE loop[l].at # "answer"
      BY <1>0, <1>8, <3>2 DEF runThrows, Asleep
    <3> QED BY <3>1, <3>2
  <2>3. loop[l].at # "asleep"
    BY <1>8 DEF runThrows
  <2> QED BY <2>1, <2>2, <2>3 DEF TurnInv, Sendable
<1>9. CASE UNCHANGED vars
  BY <1>9 DEF vars, TurnInv, Sendable
<1> QED BY <1>1, <1>2, <1>3, <1>4, <1>5, <1>6, <1>7, <1>8, <1>9 DEF Next, Run, Rest

\* Every step leaves a refund at most one transaction that is not rejected.
LEMMA OnceStep ==
  ASSUME Assumed, PaidInv, TurnInv, OnceInv, [Next]_vars, ~landed'
  PROVE  OnceInv'
<1>0. /\ Kinds /\ Room
      /\ record \in [Refunds -> RecordKind] /\ tx \in [Txs -> TxKind]
      /\ \A t \in Txs : tx[t].of \in Refunds \cup {NoRefund}
      /\ \A r \in Refunds : record[r] \in RecordKind
      /\ NoRefund \notin Refunds
  BY DEF PaidInv, Kinds, TxKind, Assumed
<1>1. ASSUME NEW r \in Refunds, queueEscrowRefundSettlement(r) PROVE OnceInv'
  <2>1. tx' = tx /\ record[r].status = "none" /\ \A q \in Refunds \ {r} : record'[q] = record[q]
    BY <1>0, <1>1 DEF queueEscrowRefundSettlement
  <2> QED BY <1>0, <2>1 DEF OnceInv, OnChain
<1>2. ASSUME NEW c \in Callers, NEW r \in Refunds, submitRefundToChain(c, r) PROVE OnceInv'
  BY <1>2 DEF submitRefundToChain, OnceInv
<1>3. ASSUME NEW c \in Callers, submitted(c) \/ submitThrows(c) PROVE OnceInv'
  <2> DEFINE r == caller[c]
             sent == [of |-> r, state |-> "sent", conf |-> 0]
  <2>1. /\ r \in Refunds /\ nTx + 1 \in Txs
        /\ \A q \in Refunds \ {r} : record'[q] = record[q]
    BY <1>0, <1>3, SubmitEffect
  <2>2. \A t \in Txs : tx[t].of = r => tx[t].state = "rejected"
    BY <1>0, <2>1 DEF TurnInv, Sendable, OnceInv, OnChain
  <2>3. CASE submitted(c)
    <3>1. /\ tx' = [tx EXCEPT ![nTx + 1] = sent]
          /\ record'[r].tx = nTx + 1 /\ record'[r].status = "submitted"
      BY <1>0, <2>1, <2>3 DEF submitted, Send, RecordKind
    <3>2. sent.of = r
      OBVIOUS
    <3> HIDE DEF sent
    <3>3. \A t \in Txs : tx'[t] = IF t = nTx + 1 THEN sent ELSE tx[t]
      BY <1>0, <3>1
    <3> QED BY <1>0, <2>1, <2>2, <3>1, <3>2, <3>3 DEF OnceInv, OnChain
  <2>4. CASE submitThrows(c)
    <3>1. tx' = tx
      BY <2>4 DEF submitThrows
    <3> QED BY <1>0, <2>1, <2>2, <3>1 DEF OnceInv
  <2> QED BY <1>3, <2>3, <2>4
<1>4. ASSUME NEW t \in Txs, confirm(t) PROVE OnceInv'
  <2>1. record' = record /\ \A u \in Txs : tx'[u].of = tx[u].of /\ tx'[u].state = tx[u].state
    BY <1>0, <1>4 DEF confirm, TxKind
  <2> QED BY <2>1 DEF OnceInv
<1>5. ASSUME NEW t \in Txs, NEW state \in {"applied", "rejected", "dropped"}, include(t, state)
      PROVE  OnceInv'
  <2>1. /\ record' = record /\ tx[t].state = "sent"
        /\ \A u \in Txs : tx'[u].of = tx[u].of /\ (u # t => tx'[u].state = tx[u].state)
    BY <1>0, <1>5 DEF include, TxKind
  <2> QED BY <2>1 DEF OnceInv
<1>6. ASSUME NEW l \in Loops, NEW conf \in 0..minConfirmations, getTransactionFinality(l, conf)
      PROVE  OnceInv'
  <2> DEFINE r == loop[l].cur
             t == loop[l].tx
  <2>1. tx' = tx /\ loop[l].at = "answer"
    BY <1>6 DEF getTransactionFinality
  <2>2. /\ r \in Refunds /\ t \in Txs /\ r \in loop[l].todo
        /\ \A q \in Refunds \ {r} : record'[q] = record[q]
        /\ record'[r].tx = record[r].tx
        /\ \/ record'[r] = record[r]
           \/ tx[t].state = "rejected"
           \/ record'[r].status \in {"pending_finality", "settled"}
    BY <1>6, AnswerEffect
  <2>3. t = record[r].tx
    BY <2>1 DEF TurnInv
  <2> QED BY <1>0, <2>1, <2>2, <2>3 DEF OnceInv, OnChain
<1>7. ASSUME NEW l \in Loops, startRun(l) \/ runThrows(l) \/ \E r \in Refunds : poll(l, r)
      PROVE  OnceInv'
  BY <1>7 DEF startRun, runThrows, poll, OnceInv
<1>8. CASE UNCHANGED vars
  BY <1>8 DEF vars, OnceInv
<1> QED BY <1>1, <1>2, <1>3, <1>4, <1>5, <1>6, <1>7, <1>8 DEF Next, Run, Rest

\* The inductive invariant: the records, the runs and the transactions match;
\* callers and runs in turn find what they took up as it was; and without unseen
\* transactions no two of a refund are alive.
RefundInv == PaidInv /\ (orderly => TurnInv) /\ (orderly /\ ~landed => OnceInv)

\* What has been out of order stays so, and what has landed unseen has landed.
LEMMA HistoryStep ==
  ASSUME [Next]_vars
  PROVE  (orderly' => orderly) /\ (landed => landed')
<1> DEFINE Goal == (orderly' => orderly) /\ (landed => landed')
<1>1. ASSUME NEW r \in Refunds, queueEscrowRefundSettlement(r) PROVE Goal
  BY <1>1 DEF queueEscrowRefundSettlement
<1>2. ASSUME NEW c \in Callers, NEW r \in Refunds, submitRefundToChain(c, r) PROVE Goal
  BY <1>2 DEF submitRefundToChain
<1>3. ASSUME NEW c \in Callers, submitted(c) \/ submitThrows(c) PROVE Goal
  BY <1>3 DEF submitted, submitThrows
<1>4. ASSUME NEW t \in Txs,
             confirm(t) \/ \E state \in {"applied", "rejected", "dropped"} : include(t, state)
      PROVE  Goal
  BY <1>4 DEF confirm, include
<1>5. ASSUME NEW l \in Loops, startRun(l) PROVE Goal
  BY <1>5 DEF startRun
<1>6. ASSUME NEW l \in Loops, NEW r \in Refunds, poll(l, r) PROVE Goal
  BY <1>6 DEF poll
<1>7. ASSUME NEW l \in Loops,
             runThrows(l) \/ \E conf \in 0..minConfirmations : getTransactionFinality(l, conf)
      PROVE  Goal
  <2>1. ASSUME NEW conf \in 0..minConfirmations, getTransactionFinality(l, conf)
        PROVE  UNCHANGED <<orderly, landed>>
    BY <2>1, Zenon DEF getTransactionFinality
  <2>2. runThrows(l) => UNCHANGED <<orderly, landed>>
    BY DEF runThrows
  <2> QED BY <1>7, <2>1, <2>2
<1>8. CASE UNCHANGED vars
  BY <1>8 DEF vars
<1> QED BY <1>1, <1>2, <1>3, <1>4, <1>5, <1>6, <1>7, <1>8 DEF Next, Run, Rest

\* For any callers, runs, submissions that throw and orders of their steps: the
\* inductive invariant of the refunds.
THEOREM RefundsHold == ASSUME Assumed PROVE Spec => []RefundInv
<1>1. Init => RefundInv
  <2> SUFFICES ASSUME Init PROVE RefundInv
    OBVIOUS
  <2>1. PaidInv
    BY InitPaid
  <2> QED BY <2>1 DEF Init, RefundInv, TurnInv, OnceInv, Asleep, NoTx
<1>2. RefundInv /\ [Next]_vars => RefundInv'
  <2> SUFFICES ASSUME RefundInv, [Next]_vars PROVE RefundInv'
    OBVIOUS
  <2>1. PaidInv' /\ (orderly' => orderly) /\ (landed => landed')
    BY PaidStep, HistoryStep DEF RefundInv, PaidInv
  <2>2. orderly' => TurnInv'
    BY <2>1, TurnStep DEF RefundInv
  <2>3. orderly' /\ ~landed' => OnceInv'
    BY <2>1, OnceStep DEF RefundInv
  <2> QED BY <2>1, <2>2, <2>3 DEF RefundInv
<1> QED BY <1>1, <1>2, PTL DEF Spec

\* A refund is settled only when a transaction of its own was applied and has
\* the minimum of confirmations, whatever callers and runs overlap and whatever
\* submissions reach the chain although they throw; and the variables are of
\* their kinds.
THEOREM SettledHolds == ASSUME Assumed PROVE Spec => [](TypeOK /\ SettledWasPaid)
<1>1. RefundInv => TypeOK /\ SettledWasPaid
  BY DEF RefundInv, PaidInv, Kinds, RecordKind, Statuses, OnChain, TypeOK
<1> QED BY <1>1, RefundsHold, PTL

\* The buyer is paid once: of the transactions sent for a refund at most one is
\* applied, while a submission that throws has not reached the chain, one caller
\* at a time submits and one run at a time reconciles.
THEOREM PaidOnceHolds == ASSUME Assumed PROVE Spec => []PaidOnce
<1>1. RefundInv => PaidOnce
  <2> SUFFICES ASSUME OnceInv, NEW r \in Refunds
               PROVE  Cardinality({t \in Txs : tx[t].of = r /\ tx[t].state = "applied"}) <= 1
    BY DEF PaidOnce, RefundInv
  <2> DEFINE paid == {t \in Txs : tx[t].of = r /\ tx[t].state = "applied"}
  <2>1. paid \subseteq {record[r].tx}
    BY DEF OnceInv, Assumed
  <2> HIDE DEF paid
  <2>2. Cardinality(paid) <= Cardinality({record[r].tx}) /\ Cardinality({record[r].tx}) = 1
    BY <2>1, FS_Subset, FS_Singleton
  <2> QED BY <2>2 DEF paid
<1> QED BY <1>1, RefundsHold, PTL

\* The phases of a refund follow each other and a settled refund stays settled,
\* while one caller and one run at a time have it.
THEOREM PhaseHolds == ASSUME Assumed PROVE Spec => PhaseFlow
<1>1. RefundInv /\ [Next]_vars => [orderly => PhaseStep]_vars
  <2> SUFFICES ASSUME PaidInv, TurnInv, Next PROVE PhaseStep
    BY DEF PhaseStep, vars, RefundInv
  <2>0. Kinds /\ Room /\ record \in [Refunds -> RecordKind] /\ \A q \in Refunds : record[q] \in RecordKind
    BY DEF PaidInv, Kinds
  <2>1. ASSUME NEW r \in Refunds, queueEscrowRefundSettlement(r) PROVE PhaseStep
    <3>1. /\ record[r].status = "none" /\ record'[r].status = "pending_chain"
          /\ \A q \in Refunds \ {r} : record'[q] = record[q]
      BY <2>0, <2>1 DEF queueEscrowRefundSettlement, RecordKind
    <3> QED BY <3>1 DEF PhaseStep
  <2>2. ASSUME NEW c \in Callers, submitted(c) \/ submitThrows(c) PROVE PhaseStep
    <3> DEFINE r == caller[c]
    <3>1. /\ r \in Refunds /\ \A q \in Refunds \ {r} : record'[q] = record[q]
          /\ record'[r].status \in {"submitted", record[r].status, "failed"}
      BY <2>0, <2>2, SubmitEffect
    <3>2. record[r].status \in {"pending_chain", "failed"}
      BY <3>1 DEF TurnInv, Sendable, Assumed
    <3> QED BY <3>1, <3>2 DEF PhaseStep
  <2>3. ASSUME NEW l \in Loops, NEW conf \in 0..minConfirmations, getTransactionFinality(l, conf)
        PROVE  PhaseStep
    <3> DEFINE r == loop[l].cur
    <3>1. /\ r \in Refunds /\ r \in loop[l].todo /\ \A q \in Refunds \ {r} : record'[q] = record[q]
          /\ \/ record'[r] = record[r]
             \/ record'[r].status \in {"failed", "settled"}
             \/ record[r].status = "submitted" /\ record'[r].status = "pending_finality"
      BY <2>3, AnswerEffect
    <3>2. record[r].status \in OnChain
      BY <3>1 DEF TurnInv
    <3> QED BY <3>1, <3>2 DEF PhaseStep, OnChain
  <2>4. CASE UNCHANGED record
    BY <2>4 DEF PhaseStep
  <2> QED BY <2>1, <2>2, <2>3, <2>4 DEF Next, Run, Rest, vars, submitRefundToChain, confirm, include,
                                        startRun, poll, runThrows
<1> QED BY <1>1, RefundsHold, PTL DEF Spec, PhaseFlow

\* A refund on the chain fails only when Horizon rejects the very transaction it
\* was submitted with, while one caller and one run at a time have it.
THEOREM RejectedHolds == ASSUME Assumed PROVE Spec => FailedWasRejected
<1>1. RefundInv /\ [Next]_vars => [orderly => RejectedStep]_vars
  <2> SUFFICES ASSUME PaidInv, TurnInv, Next PROVE RejectedStep
    BY DEF RejectedStep, vars, RefundInv
  <2>0. Kinds /\ Room /\ record \in [Refunds -> RecordKind] /\ \A q \in Refunds : record[q] \in RecordKind
    BY DEF PaidInv, Kinds
  <2>1. ASSUME NEW r \in Refunds, queueEscrowRefundSettlement(r) PROVE RejectedStep
    <3>1. record'[r].status = "pending_chain" /\ \A q \in Refunds \ {r} : record'[q] = record[q]
      BY <2>0, <2>1 DEF queueEscrowRefundSettlement, RecordKind
    <3> QED BY <3>1 DEF RejectedStep
  <2>2. ASSUME NEW c \in Callers, submitted(c) \/ submitThrows(c) PROVE RejectedStep
    <3> DEFINE r == caller[c]
    <3>1. r \in Refunds /\ \A q \in Refunds \ {r} : record'[q] = record[q]
      BY <2>0, <2>2, SubmitEffect
    <3>2. record[r].status \in {"pending_chain", "failed"}
      BY <3>1 DEF TurnInv, Sendable, Assumed
    <3> QED BY <3>1, <3>2 DEF RejectedStep
  <2>3. ASSUME NEW l \in Loops, NEW conf \in 0..minConfirmations, getTransactionFinality(l, conf)
        PROVE  RejectedStep
    <3> DEFINE r == loop[l].cur
               t == loop[l].tx
    <3>1. /\ r \in Refunds /\ t \in Txs /\ \A q \in Refunds \ {r} : record'[q] = record[q]
          /\ \/ record'[r] = record[r]
             \/ tx[t].state = "rejected"
             \/ record'[r].status \in {"settled", "pending_finality"}
      BY <2>3, AnswerEffect
    <3>2. t = record[r].tx /\ t # 0
      BY <2>3, <3>1 DEF TurnInv, getTransactionFinality, Txs
    <3> QED BY <3>1, <3>2 DEF RejectedStep, TxOf
  <2>4. CASE UNCHANGED record
    BY <2>4 DEF RejectedStep
  <2> QED BY <2>1, <2>2, <2>3, <2>4 DEF Next, Run, Rest, vars, submitRefundToChain, confirm, include,
                                        startRun, poll, runThrows
<1> QED BY <1>1, RefundsHold, PTL DEF Spec, FailedWasRejected
===============================================================================
