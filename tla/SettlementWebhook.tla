-------------------------- MODULE SettlementWebhook --------------------------
(***************************************************************************)
(* The settlements webhook: deliveries of a provider's reports about a     *)
(* transaction, deduplicated by a key in the database and then registered  *)
(* in the process' memory for the reconciler.                              *)
(***************************************************************************)
EXTENDS Integers, FiniteSets

CONSTANTS
  Deliveries,  \* records [id, tx, event], an event may be delivered repeatedly
  MaxFaults    \* bound on failing queries and crashes

VARIABLES
  at,          \* where the handler of each delivery is
  reply,       \* whose payload each 200 response echoes, 0 for none yet
  row,         \* webhook_idempotency_keys: [by, expired], by 0 for no row
  settlements, \* _settlements: the event each transaction was registered with
  faults,      \* what has gone wrong so far
  lapsed,      \* some key has reached its 30 days (a history variable)
  lost         \* memory was lost, or the answer of an insert that was committed

vars == <<at, reply, row, settlements, faults, lapsed, lost>>

Transactions == {d.tx : d \in Deliveries}
Queued == {"settlement_completed", "settlement_failed"}
NoRow == [by |-> 0, expired |-> FALSE]

Init ==
  /\ at = [d \in Deliveries |-> "new"]
  /\ reply = [d \in Deliveries |-> 0]
  /\ row = [t \in Transactions |-> NoRow]
  /\ settlements = [t \in Transactions |-> "none"]
  /\ faults = 0
  /\ lapsed = FALSE /\ lost = FALSE

Fault == faults < MaxFaults /\ faults' = faults + 1

Respond(d, by) ==
  /\ reply' = [reply EXCEPT ![d] = by]
  /\ at' = [at EXCEPT ![d] = "done"]

Live(t) == row[t].by # 0 /\ ~row[t].expired

-----------------------------------------------------------------------------
\* The payload is valid and fresh; getExistingResponse is asked.
getExistingResponse(d) ==
  /\ at[d] = "new"
  /\ IF Live(d.tx) THEN Respond(d, row[d.tx].by)
     ELSE at' = [at EXCEPT ![d] = "save"] /\ UNCHANGED reply
  /\ UNCHANGED <<row, settlements, faults, lapsed, lost>>

\* The unique key lets one insert through, whatever the age of the row.
saveKey(d) ==
  /\ at[d] = "save"
  /\ IF row[d.tx].by = 0
     THEN /\ row' = [row EXCEPT ![d.tx] = [by |-> d.id, expired |-> FALSE]]
          /\ at' = [at EXCEPT ![d] = "register"]
     ELSE at' = [at EXCEPT ![d] = "reread"] /\ UNCHANGED row
  /\ UNCHANGED <<reply, settlements, faults, lapsed, lost>>

\* Mutant: the loser of the race answers with its own payload.
concurrentResponseOwn(d) ==
  /\ at[d] = "reread"
  /\ Respond(d, d.id)
  /\ UNCHANGED <<row, settlements, faults, lapsed, lost>>

\* concurrentResponse || responseBody.
concurrentResponse(d) ==
  /\ at[d] = "reread"
  /\ Respond(d, IF Live(d.tx) THEN row[d.tx].by ELSE d.id)
  /\ UNCHANGED <<row, settlements, faults, lapsed, lost>>

Registered == Queued

register(d) ==
  /\ at[d] = "register"
  /\ settlements' = [settlements EXCEPT ![d.tx] =
       IF @ = "none" /\ d.event \in Registered THEN d.event ELSE @]
  /\ Respond(d, d.id)
  /\ UNCHANGED <<row, faults, lapsed, lost>>

\* A query throws; the provider delivers again.  An insert whose answer was
\* lost may have been committed.
queryThrows(d) ==
  /\ at[d] \in {"new", "save", "reread"} /\ Fault
  /\ at' = [at EXCEPT ![d] = "new"]
  /\ \/ UNCHANGED <<row, lost>>
     \/ /\ at[d] = "save" /\ row[d.tx].by = 0
        /\ row' = [row EXCEPT ![d.tx] = [by |-> d.id, expired |-> FALSE]]
        /\ lost' = TRUE
  /\ UNCHANGED <<reply, settlements, lapsed>>

\* The process dies; deliveries it had not answered come again.
crash ==
  /\ Fault
  /\ at' = [d \in Deliveries |-> IF at[d] = "done" THEN "done" ELSE "new"]
  /\ settlements' = [t \in Transactions |-> "none"]
  /\ lost' = TRUE
  /\ UNCHANGED <<reply, row, lapsed>>

expire(t) ==
  /\ Live(t)
  /\ row' = [row EXCEPT ![t].expired = TRUE]
  /\ lapsed' = TRUE
  /\ UNCHANGED <<at, reply, settlements, faults, lost>>

sweep ==
  /\ \E t \in Transactions : row[t].expired
  /\ row' = [t \in Transactions |-> IF row[t].expired THEN NoRow ELSE row[t]]
  /\ UNCHANGED <<at, reply, settlements, faults, lapsed, lost>>

Rest == (\A d \in Deliveries : at[d] = "done") /\ UNCHANGED vars

Step(d) == getExistingResponse(d) \/ saveKey(d) \/ concurrentResponse(d) \/ register(d)

Next ==
  \/ \E d \in Deliveries : Step(d) \/ queryThrows(d)
  \/ crash \/ sweep \/ Rest
  \/ \E t \in Transactions : expire(t)

Spec == Init /\ [][Next]_vars

-----------------------------------------------------------------------------
\* Every variable is of its kind, and a delivery is answered when it is done.
TypeOK ==
  /\ at \in [Deliveries -> {"new", "save", "reread", "register", "done"}]
  /\ \A d \in Deliveries : at[d] = "done" <=> reply[d] # 0
  /\ settlements \in [Transactions -> Queued \cup {"none"}]

\* Reports of one transaction are answered with one and the same payload, in
\* whatever order their handlers run, until a key expires.
OneResponse ==
  ~lapsed =>
    \A d, e \in Deliveries : d.tx = e.tx /\ reply[d] # 0 /\ reply[e] # 0 => reply[d] = reply[e]

\* While no key has expired and nothing is lost, an acknowledged report repeats
\* the report e that won the key of its transaction; when e is of a final outcome
\* the transaction is registered, or e is about to register it.  When e is of
\* none (settlement_initiated), nothing is registered: the key is the transaction
\* alone, and a completed report that comes after the initiated one is answered
\* with the initiated payload and dropped (webhooks.ts:33, 69-75).
AcknowledgedIsRegistered ==
  ~lapsed /\ ~lost => \A d \in Deliveries : at[d] = "done" =>
    \E e \in Deliveries :
      /\ e.tx = d.tx /\ reply[d] = e.id
      /\ e.event \in Queued => settlements[d.tx] # "none" \/ at[e] = "register"

\* A settlement, once registered, is not registered anew by another report,
\* also when the key has expired and the report is taken for a first one.
RegisteredStep ==
  \A t \in Transactions :
    settlements[t] # "none" => settlements'[t] \in {settlements[t], "none"}

-----------------------------------------------------------------------------
(* The inductive invariant, for any deliveries in any order.               *)

\* An id is never the one that stands for no row.
Assumed == \A d \in Deliveries : d.id # 0

\* Every variable is of its kind, and an answer is a report's payload.
Kinds ==
  /\ at \in [Deliveries -> {"new", "save", "reread", "register", "done"}]
  /\ DOMAIN reply = Deliveries /\ DOMAIN row = Transactions
  /\ settlements \in [Transactions -> Queued \cup {"none"}]
  /\ \A d \in Deliveries : at[d] = "done" <=> reply[d] # 0

\* Where a handler stands, the row of its transaction says who answered first.
Handled(d) ==
  /\ reply[d] # 0 => reply[d] = row[d.tx].by
  /\ at[d] = "register" => row[d.tx].by = d.id
  /\ at[d] = "reread" => row[d.tx].by # 0

\* Before the first key expires.
ReportInv ==
  /\ \A t \in Transactions : row[t].expired = FALSE
  /\ \A d \in Deliveries : Handled(d)

\* A row belongs to a report that, if it is of an outcome, is being registered
\* or was.
Owned ==
  \A t \in Transactions : row[t].by # 0 =>
    \E e \in Deliveries :
      /\ e.tx = t /\ row[t].by = e.id
      /\ e.event \in Queued => settlements[t] # "none" \/ at[e] = "register"

\* The inductive invariant: answers and rows agree until a key expires, and the
\* winner of a key registers its report unless something is lost.
WebhookInv == Kinds /\ (~lapsed => ReportInv) /\ (~lapsed /\ ~lost => Owned)
===============================================================================
