---------------------------- MODULE KekRotation ----------------------------
(***************************************************************************)
(* KekRotationRunner: rows' data keys are re-wrapped from one key          *)
(* encryption key (KEK) to another in batches, each in a transaction, with *)
(* a checkpoint that is kept outside of it.  Operators start, pause,       *)
(* resume and roll back; every operation and every batch of a loop reads   *)
(* the checkpoint in one step and writes it whole in a later one.          *)
(***************************************************************************)
EXTENDS Integers, FiniteSets, FiniteSetTheorems, WellFoundedInduction, TLAPS

CONSTANTS
  Rows,         \* row ids, positive numbers
  FirstKek,     \* the KEK of every row: "old", "new" or "other"
  batchSize,
  Loops,        \* run loops that may be started, in order
  MaxOps,       \* operator calls, the first start included
  MaxFailures   \* failures of the key management service and of the process

VARIABLES
  kek,       \* the committed KEK of every row
  store,     \* the stored checkpoint: status, last
  loop,      \* every run loop: pc, dir, its own checkpoint, its transaction
  op,        \* the operator call under way: kind and the checkpoint it read
  opsLeft, failuresLeft,
  doneBy,    \* direction of the loop that completed the rotation
  calm       \* nothing happened yet that the runner does not survive (history): see below

vars == <<kek, store, loop, op, opsLeft, failuresLeft, doneBy, calm>>

(***************************************************************************)
(* The header of the runner (line 12) has it survive a crash mid-batch and *)
(* failures of the key service.  It survives these, and operators who come *)
(* while no loop is at work or who pause one, except for what sets calm to *)
(* FALSE: a call other than a pause while a loop is at work; a key service *)
(* that fails once rows of the batch were re-wrapped, since the checkpoint *)
(* has passed the rows that are rolled back (lines 545-549, 556-562);  a   *)
(* crash between the checkpoint and the commit; a rollback that is cut     *)
(* short, since a later start goes on behind the rows it has rolled back.  *)
(***************************************************************************)

Idle == [kind |-> "none", last |-> 0]

\* A loop that is outside of a transaction.
LoopAt(pc, dir, status, last) ==
  [pc |-> pc, dir |-> dir, status |-> status, last |-> last, batch |-> {}, wrote |-> {}]

Init ==
  /\ kek = FirstKek
  /\ store = [status |-> "none", last |-> 0]
  /\ loop = [i \in Loops |-> LoopAt("new", "forward", "none", 0)]
  /\ op = Idle
  /\ opsLeft = MaxOps /\ failuresLeft = MaxFailures
  /\ doneBy = "nobody" /\ calm = TRUE

AtWork == {i \in Loops : loop[i].pc \notin {"new", "ended"}}
Source(i) == IF loop[i].dir = "forward" THEN "old" ELSE "new"
Target(i) == IF loop[i].dir = "forward" THEN "new" ELSE "old"

-----------------------------------------------------------------------------
(* The operators' calls. *)

Accepts(kind, status) ==
  CASE kind = "start"    -> status \notin {"completed", "running"}
    [] kind = "pause"    -> status = "running"
    [] kind = "resume"   -> status \in {"paused", "failed"}
    [] kind = "rollback" -> status \notin {"none", "completed"}

\* The call reads the checkpoint and refuses or goes on.
call(kind) ==
  /\ op.kind = "none" /\ opsLeft > 0
  /\ Accepts(kind, store.status)
  /\ op' = [kind |-> kind, last |-> store.last]
  /\ opsLeft' = opsLeft - 1
  /\ calm' = (calm /\ (AtWork = {} \/ kind = "pause"))
  /\ UNCHANGED <<kek, store, loop, failuresLeft, doneBy>>

pause ==
  /\ op.kind = "pause"
  /\ store' = [status |-> "paused", last |-> op.last]
  /\ op' = Idle
  /\ UNCHANGED <<kek, loop, opsLeft, failuresLeft, doneBy, calm>>

\* Having seen the status, resume calls start, which reads the checkpoint again.
resume ==
  /\ op.kind = "resume"
  /\ op' = IF Accepts("start", store.status) THEN [kind |-> "start", last |-> store.last] ELSE Idle
  /\ UNCHANGED <<kek, store, loop, opsLeft, failuresLeft, doneBy, calm>>

Begin(dir, status, last) == \E i \in Loops :
  /\ loop[i].pc = "new" /\ \A j \in Loops : j < i => loop[j].pc # "new"
  /\ loop' = [loop EXCEPT ![i] = LoopAt("check", dir, status, last)]

start ==
  /\ op.kind = "start"
  /\ store' = [status |-> "running", last |-> op.last]
  /\ Begin("forward", "running", op.last)
  /\ op' = Idle
  /\ UNCHANGED <<kek, opsLeft, failuresLeft, doneBy, calm>>

rollback ==
  /\ op.kind = "rollback"
  /\ store' = [status |-> "rolling_back", last |-> 0]
  /\ Begin("reverse", "rolling_back", 0)
  /\ op' = Idle
  /\ UNCHANGED <<kek, opsLeft, failuresLeft, doneBy, calm>>

-----------------------------------------------------------------------------
(* A run loop. *)

\* The loop looks at the stored status and takes another batch or ends.
check(i) ==
  /\ loop[i].pc = "check"
  /\ loop' = [loop EXCEPT ![i] = [@ EXCEPT !.pc =
       IF \/ store.status \in {"paused", "failed"}
          \/ store.status = "rolling_back" /\ loop[i].dir = "forward"
       THEN "ended" ELSE "fetch"]]
  /\ UNCHANGED <<kek, store, op, opsLeft, failuresLeft, doneBy, calm>>

Locked(i) == UNION {loop[j].batch \cup loop[j].wrote : j \in Loops \ {i}}

\* WHERE id > last, of the rows that FOR UPDATE SKIP LOCKED leaves
Free(i) == {r \in Rows : r > loop[i].last} \ Locked(i)

\* ORDER BY id LIMIT batchSize
fetchBatch(i) == {r \in Free(i) : Cardinality({q \in Free(i) : q < r}) < batchSize}

beginBatch(i) ==
  /\ loop[i].pc = "fetch" /\ fetchBatch(i) # {}
  /\ loop' = [loop EXCEPT ![i] = [@ EXCEPT !.pc = "rows", !.batch = fetchBatch(i)]]
  /\ UNCHANGED <<kek, store, op, opsLeft, failuresLeft, doneBy, calm>>

complete(i) ==
  /\ loop[i].pc = "fetch" /\ fetchBatch(i) = {}
  /\ store' = [status |-> "completed", last |-> loop[i].last]
  /\ doneBy' = loop[i].dir
  /\ loop' = [loop EXCEPT ![i] = [@ EXCEPT !.pc = "ended", !.status = "completed"]]
  /\ UNCHANGED <<kek, op, opsLeft, failuresLeft, calm>>

Pending(i) == {r \in loop[i].batch : r > loop[i].last}
IsFirst(i, r) == r \in Pending(i) /\ \A q \in Pending(i) : r <= q

IsSource(i, r) == kek[r] = Source(i)

\* The next row of the batch: re-wrapped, or left if it is under the target or
\* under an unexpected KEK.
row(i) ==
  /\ loop[i].pc = "rows"
  /\ \E r \in Rows :
       /\ IsFirst(i, r)
       /\ loop' = [loop EXCEPT ![i] = [@ EXCEPT
            !.last = r, !.wrote = loop[i].wrote \cup {q \in {r} : IsSource(i, q)}]]
  /\ UNCHANGED <<kek, store, op, opsLeft, failuresLeft, doneBy, calm>>

\* unwrapDek or wrapDek fails, however often they failed before: the batch is
\* given up and its transaction rolled back.
kmsFails(i) ==
  /\ loop[i].pc = "rows" /\ failuresLeft > 0
  /\ \E r \in Rows : IsFirst(i, r) /\ IsSource(i, r)
  /\ loop' = [loop EXCEPT ![i] = [@ EXCEPT !.pc = "failing", !.batch = {}, !.wrote = {}]]
  /\ failuresLeft' = failuresLeft - 1
  /\ calm' = (calm /\ loop[i].wrote = {} /\ loop[i].dir = "forward")
  /\ UNCHANGED <<kek, store, op, opsLeft, doneBy>>

\* The outer catch stores the loop's checkpoint with status failed.
fail(i) ==
  /\ loop[i].pc = "failing"
  /\ store' = [status |-> "failed", last |-> loop[i].last]
  /\ loop' = [loop EXCEPT ![i] = [@ EXCEPT !.pc = "ended", !.status = "failed"]]
  /\ UNCHANGED <<kek, op, opsLeft, failuresLeft, doneBy, calm>>

\* After the batch the loop stores its own checkpoint, its status included ...
upsert(i) ==
  /\ loop[i].pc = "rows" /\ Pending(i) = {}
  /\ store' = [status |-> loop[i].status, last |-> loop[i].last]
  /\ loop' = [loop EXCEPT ![i] = [@ EXCEPT !.pc = "commit"]]
  /\ UNCHANGED <<kek, op, opsLeft, failuresLeft, doneBy, calm>>

\* Mutant: the transaction is never committed.
commitNothing(i) ==
  /\ loop[i].pc = "commit"
  /\ loop' = [loop EXCEPT ![i] = [@ EXCEPT !.pc = "check", !.batch = {}, !.wrote = {}]]
  /\ UNCHANGED <<kek, store, op, opsLeft, failuresLeft, doneBy, calm>>

\* ... and then commits the rows it wrote.
commit(i) ==
  /\ loop[i].pc = "commit"
  /\ kek' = [r \in Rows |-> IF r \in loop[i].wrote THEN Target(i) ELSE kek[r]]
  /\ loop' = [loop EXCEPT ![i] = [@ EXCEPT !.pc = "check", !.batch = {}, !.wrote = {}]]
  /\ UNCHANGED <<store, op, opsLeft, failuresLeft, doneBy, calm>>

\* The process dies; transactions are rolled back, the checkpoint is durable.
crash ==
  /\ AtWork # {} /\ failuresLeft > 0
  /\ loop' = [i \in Loops |-> IF i \in AtWork THEN LoopAt("ended", "forward", "none", 0) ELSE loop[i]]
  /\ op' = Idle
  /\ failuresLeft' = failuresLeft - 1
  /\ calm' = (calm /\ \A i \in AtWork : loop[i].pc # "commit" /\ loop[i].dir = "forward")
  /\ UNCHANGED <<kek, store, opsLeft, doneBy>>

Rest == AtWork = {} /\ UNCHANGED vars

Step(i) == check(i) \/ beginBatch(i) \/ complete(i) \/ row(i) \/ fail(i) \/ upsert(i) \/ commit(i)

Next ==
  \/ \E kind \in {"start", "pause", "resume", "rollback"} : call(kind)
  \/ start \/ pause \/ resume \/ rollback
  \/ \E i \in Loops : Step(i) \/ kmsFails(i)
  \/ crash \/ Rest

Spec == Init /\ [][Next]_vars

-----------------------------------------------------------------------------
Statuses == {"none", "running", "paused", "completed", "failed", "rolling_back"}
Positions == {"new", "check", "fetch", "rows", "failing", "commit", "ended"}

\* Every variable is of its kind.
TypeOK ==
  /\ kek \in [Rows -> {"old", "new", "other"}]
  /\ store \in [status : Statuses, last : Rows \cup {0}]
  /\ loop \in [Loops -> [pc : Positions, dir : {"forward", "reverse"}, status : Statuses, last : Rows \cup {0},
                         batch : SUBSET Rows, wrote : SUBSET Rows]]
  /\ op \in [kind : {"none", "start", "pause", "resume", "rollback"}, last : Rows \cup {0}]
  /\ doneBy \in {"nobody", "forward", "reverse"} /\ calm \in BOOLEAN

\* A completed rotation leaves no row under the KEK it was to replace: the
\* forward pass none under the old, the rollback none under the new one, also
\* after crashes and failures that the runner survives.
CompletedIsRotated ==
  calm /\ store.status = "completed" =>
    \A r \in Rows : kek[r] # IF doneBy = "forward" THEN "old" ELSE "new"

\* The stored checkpoint of a forward pass is never ahead of the rows committed,
\* except for the batch that is about to be committed, also where the pass failed
\* and is to be resumed.
CheckpointIsCovered ==
  \A r \in Rows :
    (calm /\ store.status \in {"running", "paused", "failed"} /\ r <= store.last /\ kek[r] = "old") =>
      \E i \in Loops : loop[i].pc = "commit" /\ r \in loop[i].wrote

\* Two loops never hold the same row, so that none re-wraps the key that the
\* other replaces.
RowHeldOnce ==
  \A i, j \in Loops : i # j => loop[i].batch \cap loop[j].batch = {}

-----------------------------------------------------------------------------
(* What the steps keep.                                                    *)

\* A loop holds rows between the fetch and the commit only, and writes what it
\* holds and has passed.
HoldInv ==
  /\ \A i \in Loops :
       /\ loop[i].pc \notin {"rows", "commit"} => loop[i].batch = {}
       /\ loop[i].wrote \subseteq loop[i].batch
       /\ \A r \in loop[i].wrote : r <= loop[i].last
  /\ RowHeldOnce

\* While calm: one loop is at work, and a call that starts another one finds none.
AloneInv ==
  /\ \A i, j \in AtWork : i = j
  /\ op.kind \in {"start", "resume", "rollback"} => AtWork = {}
  /\ \A i \in AtWork :
       /\ loop[i].pc = "failing" => loop[i].dir = "forward"
       /\ loop[i].status = IF loop[i].dir = "forward" THEN "running" ELSE "rolling_back"

\* The row is no longer under the KEK, or the loop at work has re-wrapped it.
Handled(r, k) == kek[r] = k => \E i \in AtWork : r \in loop[i].wrote

\* The rows that a loop has passed are re-wrapped, it passes over none, and every
\* checkpoint that is stored, or that a pause is about to store, is behind it.
PassInv ==
  \A i \in AtWork :
    /\ \A r \in Rows : r <= loop[i].last => Handled(r, Source(i))
    /\ \A b \in loop[i].batch, r \in Rows : r < b => r <= loop[i].last \/ r \in loop[i].batch
    /\ loop[i].pc = "commit" => Pending(i) = {}
    /\ \A last \in {store.last} \cup (IF op.kind = "pause" THEN {op.last} ELSE {}) :
         last <= loop[i].last /\ (loop[i].pc = "rows" => \A b \in loop[i].batch : b > last)

\* The status tells which loop is at work; up to a checkpoint of the forward pass
\* no row is left under the old KEK.
StoreInv ==
  /\ store.status = "failed" => AtWork = {}
  /\ store.status = "none" => store.last = 0 /\ AtWork = {}
  /\ store.status = "rolling_back" => op.kind = "none" /\ AtWork # {}
  /\ \A i \in AtWork :
       store.status \in IF loop[i].dir = "forward" THEN {"running", "paused"} ELSE {"rolling_back"}
  /\ op.kind = "pause" => store.status \in {"running", "completed", "failed"}
  /\ store.status = "completed" =>
       /\ AtWork = {} /\ op.kind \in {"none", "pause"}
       /\ doneBy = "forward" \/ op.kind = "none"
       /\ \A r \in Rows : kek[r] # IF doneBy = "forward" THEN "old" ELSE "new"
  /\ store.status \in {"running", "paused", "failed"} => \A r \in Rows : r <= store.last => Handled(r, "old")
  /\ op.kind \in {"start", "pause"} => \A r \in Rows : r <= op.last => Handled(r, "old")

KekInv == TypeOK /\ HoldInv /\ (calm => AloneInv /\ PassInv /\ StoreInv)

-----------------------------------------------------------------------------
(* Theorems, for any rows, batches, loops, operators and failures.         *)

\* Rows have positive ids and a KEK; batches are not empty.
Assumed ==
  /\ Rows \subseteq Nat \ {0} /\ IsFiniteSet(Rows) /\ Loops \subseteq Nat
  /\ FirstKek \in [Rows -> {"old", "new", "other"}] /\ batchSize \in Nat \ {0}

LoopType ==
  [pc : Positions, dir : {"forward", "reverse"}, status : Statuses, last : Rows \cup {0},
   batch : SUBSET Rows, wrote : SUBSET Rows]

\* Most steps need no arithmetic: Zenon is tried first, and SMT on what is left.
USE ZenonT(2), SMTT(15), ZenonT(15)

\* A set of row ids that is not empty has a lowest one.
LEMMA LowestRow ==
  ASSUME NEW T, T \subseteq Nat, T # {}
  PROVE  \E x \in T : \A y \in T : x <= y
<1>1. PICK x \in T : \A y \in T : ~(<<y, x>> \in OpToRel(<, Nat))
  BY NatLessThanWellFounded, WFMin
<1>2. \A y \in T : ~(y < x)
  BY <1>1 DEF OpToRel
<1> QED BY <1>2

\* Keys of rows are compared as numbers are.
LEMMA Order ==
  \A k, m, n \in Nat : /\ (m > n => ~(m <= n)) /\ (m < n => ~(n <= m))
                       /\ (k <= m /\ n > m => k <= n)
                       /\ (m <= n \/ m > n) /\ (m <= n => m = n \/ m < n)
  OBVIOUS

\* A pass that starts at zero starts before the first row.
LEMMA Positive == ASSUME Assumed PROVE \A r \in Rows : ~(r <= 0)
  BY DEF Assumed

\* Row ids and checkpoints are numbers.
LEMMA Numbers ==
  ASSUME Assumed, TypeOK
  PROVE  /\ \A r \in Rows : r \in Nat
         /\ store.last \in Nat /\ op.last \in Nat /\ \A i \in Loops : loop[i].last \in Nat
<1>1. \A r \in Rows \cup {0} : r \in Nat
  BY DEF Assumed
<1>2. store.last \in Rows \cup {0} /\ op.last \in Rows \cup {0} /\ \A i \in Loops : loop[i].last \in Rows \cup {0}
  BY DEF TypeOK
<1> QED BY <1>1, <1>2

\* The query takes the lowest rows that are free, and none only if there is none.
LEMMA FetchedRows ==
  ASSUME Assumed, NEW i \in Loops
  PROVE  /\ fetchBatch(i) \subseteq Free(i) /\ Free(i) \subseteq Rows
         /\ \A b \in fetchBatch(i), r \in Free(i) : r < b => r \in fetchBatch(i)
         /\ fetchBatch(i) = {} => Free(i) = {}
<1>0. Rows \subseteq Nat /\ batchSize \in Nat /\ batchSize > 0
  BY DEF Assumed
<1>1. fetchBatch(i) \subseteq Free(i) /\ Free(i) \subseteq Rows
  BY DEF fetchBatch, Free
<1>2. ASSUME NEW r \in Rows
      PROVE  IsFiniteSet({q \in Free(i) : q < r}) /\ Cardinality({q \in Free(i) : q < r}) \in Nat
  <2>1. {q \in Free(i) : q < r} \subseteq Rows
    BY <1>1
  <2> QED BY <2>1, FS_Subset, FS_CardinalityType DEF Assumed
<1>3. ASSUME NEW b \in fetchBatch(i), NEW r \in Free(i), r < b PROVE r \in fetchBatch(i)
  <2>0. b \in Nat /\ r \in Nat /\ \A q \in Free(i) : q \in Nat
    BY <1>0, <1>1
  <2>1. {q \in Free(i) : q < r} \subseteq {q \in Free(i) : q < b}
    <3>1. ASSUME NEW q \in Free(i), q < r PROVE q < b
      BY <2>0, <1>3, <3>1
    <3> QED BY <3>1
  <2>2. Cardinality({q \in Free(i) : q < r}) <= Cardinality({q \in Free(i) : q < b})
    BY <1>1, <1>2, <2>1, FS_Subset
  <2>3. Cardinality({q \in Free(i) : q < b}) < batchSize
    BY DEF fetchBatch
  <2>4. Cardinality({q \in Free(i) : q < r}) < batchSize
    <3> DEFINE lower == Cardinality({q \in Free(i) : q < r})
               upper == Cardinality({q \in Free(i) : q < b})
    <3>1. lower \in Nat /\ upper \in Nat /\ lower <= upper /\ upper < batchSize
      BY <1>1, <1>2, <2>2, <2>3
    <3> HIDE DEF lower, upper
    <3>2. lower < batchSize
      BY <1>0, <3>1
    <3> QED BY <3>2 DEF lower
  <2> QED BY <2>4 DEF fetchBatch
<1>4. ASSUME Free(i) # {} PROVE fetchBatch(i) # {}
  <2>1. PICK x \in Free(i) : \A y \in Free(i) : x <= y
    BY <1>1, <1>4, LowestRow DEF Assumed
  <2>0. \A q \in Free(i) : q \in Nat
    BY <1>0, <1>1
  <2>2. {q \in Free(i) : q < x} = {}
    BY <2>0, <2>1
  <2>3. Cardinality({q \in Free(i) : q < x}) = 0
    BY <2>2, FS_EmptySet
  <2> QED BY <1>0, <2>3 DEF fetchBatch
<1> QED BY <1>1, <1>3, <1>4

\* The invariant holds before the first start.
LEMMA KekInit == ASSUME Assumed, Init PROVE KekInv
  BY DEF Assumed, Init, LoopAt, Idle, KekInv, TypeOK, HoldInv, RowHeldOnce, AloneInv, PassInv, StoreInv, AtWork,
         Statuses, Positions, Handled

\* What the calls of operators and the loops' steps do to the loops.
LEMMA LoopKinds ==
  ASSUME Assumed, TypeOK, NEW i \in Loops, Step(i) \/ kmsFails(i)
  PROVE  /\ loop' \in [Loops -> LoopType] /\ i \in AtWork
         /\ \A j \in Loops \ {i} : loop'[j] = loop[j]
         /\ loop'[i].dir = loop[i].dir /\ op' = op
<1>1. fetchBatch(i) \in SUBSET Rows
  BY FetchedRows
<1>2. loop \in [Loops -> LoopType]
  BY DEF TypeOK, LoopType
<1>3. CASE check(i)
  BY <1>2, <1>3, ZenonT(30) DEF check, LoopType, AtWork, Positions
<1>4. CASE beginBatch(i)
  BY <1>1, <1>2, <1>4, ZenonT(30) DEF beginBatch, LoopType, AtWork, Positions
<1>5. CASE complete(i)
  <2>1. loop' = [loop EXCEPT ![i] = [loop[i] EXCEPT !.pc = "ended", !.status = "completed"]]
        /\ op' = op /\ loop[i].pc = "fetch"
    BY <1>5 DEF complete
  <2>2. "ended" \in Positions /\ "completed" \in Statuses
    BY DEF Positions, Statuses
  <2>3. i \in AtWork
    BY <2>1 DEF AtWork
  <2> QED BY <1>2, <2>1, <2>2, <2>3 DEF LoopType
<1>6. CASE row(i)
  <2>1. PICK r \in Rows :
          loop' = [loop EXCEPT ![i] =
                     [loop[i] EXCEPT !.last = r, !.wrote = loop[i].wrote \cup {q \in {r} : IsSource(i, q)}]]
    BY <1>6 DEF row
  <2>2. PICK w \in SUBSET Rows : w = loop[i].wrote \cup {q \in {r} : IsSource(i, q)}
    BY <1>2 DEF LoopType
  <2>3. i \in AtWork /\ op' = op
    BY <1>6 DEF AtWork, row
  <2> QED BY <1>2, <2>1, <2>2, <2>3 DEF LoopType
<1>7. CASE fail(i)
  BY <1>2, <1>7, ZenonT(30) DEF fail, LoopType, AtWork, Positions, Statuses
<1>8. CASE upsert(i)
  BY <1>2, <1>8, ZenonT(30) DEF upsert, LoopType, AtWork, Positions
<1>9. CASE commit(i)
  BY <1>2, <1>9, ZenonT(30) DEF commit, LoopType, AtWork, Positions
<1>10. CASE kmsFails(i)
  BY <1>2, <1>10, ZenonT(30) DEF kmsFails, LoopType, AtWork, Positions
<1> QED BY <1>3, <1>4, <1>5, <1>6, <1>7, <1>8, <1>9, <1>10 DEF Step

\* A step of one loop that takes free rows only, and gives them up or keeps them.
LEMMA HoldKept ==
  ASSUME Assumed, TypeOK, HoldInv, NEW i \in Loops, loop' \in [Loops -> LoopType],
         \A j \in Loops \ {i} : loop'[j] = loop[j],
         loop'[i].pc \notin {"rows", "commit"} => loop'[i].batch = {},
         loop'[i].wrote \subseteq loop'[i].batch, \A r \in loop'[i].wrote : r <= loop'[i].last,
         loop'[i].batch \subseteq loop[i].batch \/ loop'[i].batch \subseteq Free(i)
  PROVE  HoldInv'
<1>1. ASSUME NEW j \in Loops \ {i} PROVE loop'[i].batch \cap loop'[j].batch = {}
  BY DEF HoldInv, RowHeldOnce, Free, Locked
<1> QED BY <1>1 DEF HoldInv, RowHeldOnce

\* The loops at work before and after a step of the only one.
LEMMA OneAtWork ==
  ASSUME AloneInv, NEW i \in AtWork, \A j \in Loops \ {i} : loop'[j] = loop[j]
  PROVE  /\ AtWork = {i}
         /\ loop'[i].pc \in {"new", "ended"} => AtWork' = {}
         /\ loop'[i].pc \notin {"new", "ended"} => AtWork' = {i}
  BY DEF AloneInv, AtWork

\* Looking at the stored status.
LEMMA CheckKeeps == ASSUME Assumed, KekInv, NEW i \in Loops, check(i) PROVE KekInv'
<1>1. /\ loop' \in [Loops -> LoopType] /\ i \in AtWork
      /\ \A j \in Loops \ {i} : loop'[j] = loop[j]
      /\ loop \in [Loops -> LoopType]
  BY LoopKinds DEF KekInv, Step, TypeOK, LoopType
<1>2. /\ UNCHANGED <<kek, store, op, opsLeft, failuresLeft, doneBy, calm>> /\ loop[i].pc = "check"
      /\ loop'[i].pc = IF \/ store.status \in {"paused", "failed"}
                          \/ store.status = "rolling_back" /\ loop[i].dir = "forward"
                       THEN "ended" ELSE "fetch"
      /\ loop'[i].dir = loop[i].dir /\ loop'[i].status = loop[i].status /\ loop'[i].last = loop[i].last
      /\ loop'[i].batch = loop[i].batch /\ loop'[i].wrote = loop[i].wrote
  BY <1>1 DEF check, LoopType
<1>3. TypeOK'
  BY <1>1, <1>2 DEF KekInv, TypeOK, LoopType
<1>4. loop[i].batch = {} /\ loop[i].wrote = {}
  BY <1>2 DEF KekInv, HoldInv
<1>5. HoldInv'
  BY <1>1, <1>2, <1>4, HoldKept DEF KekInv
<1>6. ASSUME calm PROVE (AloneInv /\ PassInv /\ StoreInv)'
  <2>1. AloneInv /\ PassInv /\ StoreInv
    BY <1>6 DEF KekInv
  <2>2. /\ AtWork = {i}
        /\ loop'[i].pc \in {"new", "ended"} => AtWork' = {}
        /\ loop'[i].pc \notin {"new", "ended"} => AtWork' = {i}
    BY <1>1, <2>1, OneAtWork
  <2>3. \A r, k : Handled(r, k) <=> kek[r] # k
    BY <1>4, <2>2 DEF Handled
  <2>4. \A r, k : Handled(r, k)' <=> kek[r] # k
    BY <1>2, <1>4, <2>2 DEF Handled
  <2>5. CASE loop'[i].pc = "ended"
    <3>1. AtWork' = {} /\ store.status = "paused"
      BY <1>2, <2>1, <2>2, <2>5 DEF StoreInv
    <3>2. AloneInv' /\ PassInv'
      BY <3>1 DEF AloneInv, PassInv
    <3>3. StoreInv'
      BY <1>2, <2>1, <2>3, <2>4, <3>1 DEF StoreInv
    <3> QED BY <3>2, <3>3
  <2>6. CASE loop'[i].pc = "fetch"
    <3>1. AtWork' = {i}
      BY <2>2, <2>6
    <3>2. AloneInv'
      BY <1>2, <2>1, <2>2, <2>6, <3>1 DEF AloneInv
    <3>3. PassInv'
      BY <1>2, <1>4, <2>1, <2>2, <2>3, <2>4, <2>6, <3>1 DEF PassInv, Source
    <3>4. StoreInv'
      BY <1>2, <2>1, <2>2, <2>3, <2>4, <3>1 DEF StoreInv
    <3> QED BY <3>2, <3>3, <3>4
  <2> QED BY <1>2, <2>5, <2>6
<1> QED BY <1>2, <1>3, <1>5, <1>6 DEF KekInv

\* Taking a batch.
LEMMA BeginKeeps == ASSUME Assumed, KekInv, NEW i \in Loops, beginBatch(i) PROVE KekInv'
<1>1. /\ loop' \in [Loops -> LoopType] /\ i \in AtWork
      /\ \A j \in Loops \ {i} : loop'[j] = loop[j]
      /\ loop \in [Loops -> LoopType]
  BY LoopKinds DEF KekInv, Step, TypeOK, LoopType
<1>2. /\ UNCHANGED <<kek, store, op, opsLeft, failuresLeft, doneBy, calm>> /\ loop[i].pc = "fetch"
      /\ loop'[i].pc = "rows" /\ loop'[i].batch = fetchBatch(i)
      /\ loop'[i].dir = loop[i].dir /\ loop'[i].status = loop[i].status /\ loop'[i].last = loop[i].last
      /\ loop'[i].wrote = loop[i].wrote
  BY <1>1 DEF beginBatch, LoopType
<1>3. TypeOK'
  BY <1>1, <1>2 DEF KekInv, TypeOK, LoopType
<1>4. loop[i].batch = {} /\ loop[i].wrote = {}
  BY <1>2 DEF KekInv, HoldInv
<1>5. HoldInv'
  BY <1>1, <1>2, <1>4, HoldKept, FetchedRows DEF KekInv
<1>6. ASSUME calm PROVE (AloneInv /\ PassInv /\ StoreInv)'
  <2>1. AloneInv /\ PassInv /\ StoreInv
    BY <1>6 DEF KekInv
  <2>2. AtWork = {i} /\ AtWork' = {i}
    BY <1>1, <1>2, <2>1, OneAtWork
  <2>3. \A r, k : Handled(r, k)' <=> Handled(r, k)
    BY <1>2, <2>2 DEF Handled
  <2>4. AloneInv'
    BY <1>2, <2>1, <2>2 DEF AloneInv
  <2>5. Free(i) = {r \in Rows : r > loop[i].last}
    <3>1. \A j \in Loops \ {i} : loop[j].batch = {} /\ loop[j].wrote = {}
      BY <2>2 DEF KekInv, HoldInv, AtWork
    <3> QED BY <3>1 DEF Free, Locked
  <2>6. /\ loop[i].last \in Nat /\ store.last \in Nat /\ op.last \in Nat
        /\ \A r \in Rows : r \in Nat /\ (r <= loop[i].last \/ r > loop[i].last)
    BY Numbers DEF KekInv
  <2>7. \A b \in fetchBatch(i), r \in Rows : r < b => r <= loop[i].last \/ r \in fetchBatch(i)
    BY <2>5, <2>6, FetchedRows
  <2>8. \A b \in fetchBatch(i) : b \in Nat /\ b > loop[i].last
    BY <2>5, <2>6, FetchedRows
  <2>9. PassInv'
    <3>1. \A last \in {store.last} \cup (IF op.kind = "pause" THEN {op.last} ELSE {}) : last \in Nat /\ last <= loop[i].last
      BY <2>1, <2>2, <2>6 DEF PassInv
    <3>2. \A r \in Rows : r <= loop[i].last => Handled(r, Source(i))
      BY <2>1, <2>2 DEF PassInv
    <3>3. \A last \in {store.last} \cup (IF op.kind = "pause" THEN {op.last} ELSE {}) : \A b \in fetchBatch(i) : b > last
      BY <2>6, <2>8, <3>1
    <3> QED BY <1>2, <2>2, <2>3, <2>7, <3>1, <3>2, <3>3 DEF PassInv, Source
  <2>10. StoreInv'
    BY <1>2, <2>1, <2>2, <2>3 DEF StoreInv
  <2> QED BY <2>4, <2>9, <2>10
<1> QED BY <1>2, <1>3, <1>5, <1>6 DEF KekInv

\* Finding no row left.
LEMMA CompleteKeeps == ASSUME Assumed, KekInv, NEW i \in Loops, complete(i) PROVE KekInv'
<1>1. /\ loop' \in [Loops -> LoopType] /\ i \in AtWork
      /\ \A j \in Loops \ {i} : loop'[j] = loop[j]
      /\ loop \in [Loops -> LoopType]
  BY LoopKinds DEF KekInv, Step, TypeOK, LoopType
<1>2. /\ UNCHANGED <<kek, op, opsLeft, failuresLeft, calm>> /\ loop[i].pc = "fetch"
      /\ loop'[i].pc = "ended" /\ loop'[i].status = "completed"
      /\ loop'[i].dir = loop[i].dir /\ loop'[i].last = loop[i].last
      /\ loop'[i].wrote = loop[i].wrote /\ loop'[i].batch = loop[i].batch
      /\ fetchBatch(i) = {}
  BY <1>1 DEF complete, LoopType
<1>3. store' = [status |-> "completed", last |-> loop[i].last] /\ doneBy' = loop[i].dir
  BY DEF complete
<1>4. TypeOK'
  BY <1>1, <1>2, <1>3 DEF KekInv, TypeOK, LoopType, Statuses
<1>5. loop[i].batch = {} /\ loop[i].wrote = {}
  BY <1>2 DEF KekInv, HoldInv
<1>6. HoldInv'
  BY <1>1, <1>2, <1>5, HoldKept DEF KekInv
<1>7. ASSUME calm PROVE (AloneInv /\ PassInv /\ StoreInv)'
  <2>1. AloneInv /\ PassInv /\ StoreInv
    BY <1>7 DEF KekInv
  <2>2. AtWork = {i} /\ AtWork' = {}
    BY <1>1, <1>2, <2>1, OneAtWork
  <2>3. \A r, k : /\ Handled(r, k) <=> kek[r] # k
                  /\ Handled(r, k)' <=> kek[r] # k
    BY <1>2, <1>5, <2>2 DEF Handled
  <2>4. \A r \in Rows : r <= loop[i].last
    <3>1. \A j \in Loops \ {i} : loop[j].batch = {} /\ loop[j].wrote = {}
      BY <2>2 DEF KekInv, HoldInv, AtWork
    <3>2. Free(i) = {r \in Rows : r > loop[i].last}
      BY <3>1 DEF Free, Locked
    <3>3. Free(i) = {} /\ \A r \in Rows : r <= loop[i].last \/ r > loop[i].last
      BY <1>2, FetchedRows, Numbers DEF KekInv
    <3> QED BY <3>2, <3>3
  <2>5. \A r \in Rows : kek[r] # Source(i)
    BY <2>1, <2>2, <2>3, <2>4 DEF PassInv
  <2>6. AloneInv' /\ PassInv'
    <3>1. op.kind \notin {"start", "resume", "rollback"}
      BY <2>1, <2>2 DEF AloneInv
    <3> QED BY <1>2, <2>2, <3>1 DEF AloneInv, PassInv
  <2>7. StoreInv'
    <3>1. store'.status = "completed" /\ doneBy' \in {"forward", "reverse"}
      BY <1>1, <1>3 DEF LoopType
    <3>2. op.kind \in {"none", "pause"} /\ (op.kind = "pause" => loop[i].dir = "forward")
      BY <1>1, <2>1, <2>2 DEF AloneInv, StoreInv, KekInv, TypeOK, LoopType
    <3>3. \A r \in Rows : kek'[r] # IF doneBy' = "forward" THEN "old" ELSE "new"
      BY <1>2, <1>3, <2>5 DEF Source
    <3>4. op.kind = "pause" => \A r \in Rows : r <= op.last => Handled(r, "old")'
      BY <1>2, <2>5, <2>3, <3>2 DEF Source
    <3> QED BY <1>2, <1>3, <2>2, <3>1, <3>2, <3>3, <3>4 DEF StoreInv
  <2> QED BY <2>6, <2>7
<1> QED BY <1>2, <1>4, <1>6, <1>7 DEF KekInv

\* Going over the next row of the batch.
LEMMA RowKeeps == ASSUME Assumed, KekInv, NEW i \in Loops, row(i) PROVE KekInv'
<1>1. /\ loop' \in [Loops -> LoopType] /\ i \in AtWork
      /\ \A j \in Loops \ {i} : loop'[j] = loop[j]
      /\ loop \in [Loops -> LoopType]
  BY LoopKinds DEF KekInv, Step, TypeOK, LoopType
<1>2. PICK r \in Rows :
        /\ IsFirst(i, r)
        /\ loop' = [loop EXCEPT ![i] =
                     [loop[i] EXCEPT !.last = r, !.wrote = loop[i].wrote \cup {q \in {r} : IsSource(i, q)}]]
  BY DEF row
<1>3. /\ UNCHANGED <<kek, store, op, opsLeft, failuresLeft, doneBy, calm>> /\ loop[i].pc = "rows"
      /\ loop'[i].pc = "rows" /\ loop'[i].batch = loop[i].batch
      /\ loop'[i].dir = loop[i].dir /\ loop'[i].status = loop[i].status /\ loop'[i].last = r
      /\ loop'[i].wrote = loop[i].wrote \cup {q \in {r} : IsSource(i, q)}
  <2>1. PICK w : w = loop[i].wrote \cup {q \in {r} : IsSource(i, q)}
    OBVIOUS
  <2>2. loop' = [loop EXCEPT ![i] = [loop[i] EXCEPT !.last = r, !.wrote = w]]
    BY <1>2, <2>1
  <2>3. UNCHANGED <<kek, store, op, opsLeft, failuresLeft, doneBy, calm>> /\ loop[i].pc = "rows"
    BY DEF row
  <2> QED BY <1>1, <2>1, <2>2, <2>3 DEF LoopType
<1>4. TypeOK'
  BY <1>1, <1>3 DEF KekInv, TypeOK, LoopType
<1>5. /\ r \in loop[i].batch /\ r > loop[i].last /\ r \in Nat /\ loop[i].last \in Nat /\ \A s \in Rows : s \in Nat
      /\ \A s \in loop[i].batch : s <= loop[i].last \/ r <= s
  <2>1. r \in Nat /\ loop[i].last \in Nat /\ \A s \in Rows : s \in Nat /\ (s <= loop[i].last \/ s > loop[i].last)
    BY Numbers DEF KekInv
  <2>2. loop[i].batch \subseteq Rows
    BY <1>1 DEF LoopType
  <2> QED BY <1>2, <2>1, <2>2 DEF IsFirst, Pending
<1>6. HoldInv'
  <2>1. loop[i].wrote \subseteq loop[i].batch /\ loop[i].batch \subseteq Rows /\ \A s \in loop[i].wrote : s <= loop[i].last
    BY <1>1 DEF KekInv, HoldInv, LoopType
  <2>2. ASSUME NEW s \in loop'[i].wrote PROVE s <= r
    <3>1. s \in loop[i].wrote \/ s = r
      BY <1>3
    <3>2. s \in Nat
      BY <1>5, <2>1, <3>1
    <3> QED BY <1>5, <2>1, <3>1, <3>2
  <2> QED BY <1>1, <1>3, <1>5, <2>1, <2>2, HoldKept DEF KekInv
<1>7. ASSUME calm PROVE (AloneInv /\ PassInv /\ StoreInv)'
  <2>1. AloneInv /\ PassInv /\ StoreInv
    BY <1>7 DEF KekInv
  <2>2. AtWork = {i} /\ AtWork' = {i}
    BY <1>1, <1>3, <2>1, OneAtWork
  <2>3. \A s, k : Handled(s, k) => Handled(s, k)'
    BY <1>3, <2>2 DEF Handled
  <2>4. AloneInv'
    BY <1>3, <2>1, <2>2 DEF AloneInv
  <2>5. ASSUME NEW s \in Rows, s <= r PROVE Handled(s, Source(i))'
    <3>1. CASE s <= loop[i].last
      <4>1. \A k : k = Source(i) => Handled(s, k)
        BY <2>1, <2>2, <3>1 DEF PassInv
      <4>2. Source(i)' = Source(i)
        BY <1>3 DEF Source
      <4> QED BY <2>3, <4>1, <4>2
    <3>2. CASE s = r
      BY <1>3, <2>2, <3>2 DEF Handled, IsSource, Source
    <3>3. CASE s > loop[i].last /\ s < r
      <4>1. ~(s <= loop[i].last) /\ ~(r <= s)
        BY <1>5, <3>3, Order
      <4>2. s \in loop[i].batch
        BY <1>5, <2>1, <2>2, <3>3, <4>1 DEF PassInv
      <4> QED BY <1>5, <4>1, <4>2
    <3>4. s <= loop[i].last \/ s = r \/ (s > loop[i].last /\ s < r)
      BY <1>5, <2>5, Order
    <3> QED BY <3>1, <3>2, <3>3, <3>4
  <2>6. PassInv'
    <3>1. \A last \in {store.last} \cup (IF op.kind = "pause" THEN {op.last} ELSE {}) :
            last \in Nat /\ last <= loop[i].last /\ \A b \in loop[i].batch : b > last
      BY <1>3, <2>1, <2>2, Numbers DEF PassInv, KekInv
    <3>2. \A b \in loop[i].batch, s \in Rows : s < b => s <= loop[i].last \/ s \in loop[i].batch
      BY <2>1, <2>2 DEF PassInv
    <3>3. \A b \in loop[i].batch, s \in Rows : s < b => s <= r \/ s \in loop[i].batch
      BY <1>5, <3>2, Order
    <3>4. \A last \in {store.last} \cup (IF op.kind = "pause" THEN {op.last} ELSE {}) : last <= r
      BY <1>5, <3>1, Order
    <3> QED BY <1>3, <2>2, <2>5, <3>1, <3>3, <3>4 DEF PassInv
  <2>7. StoreInv'
    BY <1>3, <2>1, <2>2, <2>3 DEF StoreInv
  <2> QED BY <2>4, <2>6, <2>7
<1> QED BY <1>3, <1>4, <1>6, <1>7 DEF KekInv

\* Storing the checkpoint behind the batch.
LEMMA UpsertKeeps == ASSUME Assumed, KekInv, NEW i \in Loops, upsert(i) PROVE KekInv'
<1>1. /\ loop' \in [Loops -> LoopType] /\ i \in AtWork
      /\ \A j \in Loops \ {i} : loop'[j] = loop[j]
      /\ loop \in [Loops -> LoopType]
  BY LoopKinds DEF KekInv, Step, TypeOK, LoopType
<1>2. /\ UNCHANGED <<kek, op, opsLeft, failuresLeft, doneBy, calm>> /\ loop[i].pc = "rows" /\ Pending(i) = {}
      /\ loop'[i].pc = "commit" /\ loop'[i].batch = loop[i].batch /\ loop'[i].wrote = loop[i].wrote
      /\ loop'[i].dir = loop[i].dir /\ loop'[i].status = loop[i].status /\ loop'[i].last = loop[i].last
  BY <1>1 DEF upsert, LoopType
<1>3. store' = [status |-> loop[i].status, last |-> loop[i].last]
  BY DEF upsert
<1>4. TypeOK'
  BY <1>1, <1>2, <1>3 DEF KekInv, TypeOK, LoopType
<1>5. HoldInv'
  <2>1. loop[i].wrote \subseteq loop[i].batch /\ \A s \in loop[i].wrote : s <= loop[i].last
    BY DEF KekInv, HoldInv
  <2> QED BY <1>1, <1>2, <2>1, HoldKept DEF KekInv
<1>6. ASSUME calm PROVE (AloneInv /\ PassInv /\ StoreInv)'
  <2>1. AloneInv /\ PassInv /\ StoreInv
    BY <1>6 DEF KekInv
  <2>2. AtWork = {i} /\ AtWork' = {i}
    BY <1>1, <1>2, <2>1, OneAtWork
  <2>3. \A s, k : Handled(s, k)' <=> Handled(s, k)
    BY <1>2, <2>2 DEF Handled
  <2>4. AloneInv'
    BY <1>2, <2>1, <2>2 DEF AloneInv
  <2>5. PassInv'
    <3>1. Pending(i)' = {}
      BY <1>2 DEF Pending
    <3>2. loop[i].last \in Nat
      BY Numbers DEF KekInv
    <3> QED BY <1>2, <1>3, <2>1, <2>2, <2>3, <3>1, <3>2 DEF PassInv, Source
  <2>6. StoreInv'
    <3>1. store'.status = IF loop[i].dir = "forward" THEN "running" ELSE "rolling_back"
      BY <1>3, <2>1, <2>2 DEF AloneInv
    <3>2. store'.status = "running" => \A r \in Rows : r <= store'.last => Handled(r, "old")'
      BY <1>3, <2>1, <2>2, <2>3, <3>1 DEF PassInv, Source
    <3>3. op.kind \in {"none", "pause"} /\ (op.kind = "pause" => loop[i].dir = "forward")
      BY <1>1, <2>1, <2>2 DEF AloneInv, StoreInv, KekInv, TypeOK, LoopType
    <3> QED BY <1>2, <2>1, <2>2, <2>3, <3>1, <3>2, <3>3 DEF StoreInv
  <2> QED BY <2>4, <2>5, <2>6
<1> QED BY <1>2, <1>4, <1>5, <1>6 DEF KekInv

\* Committing the batch.
LEMMA CommitKeeps == ASSUME Assumed, KekInv, NEW i \in Loops, commit(i) PROVE KekInv'
<1>1. /\ loop' \in [Loops -> LoopType] /\ i \in AtWork
      /\ \A j \in Loops \ {i} : loop'[j] = loop[j]
      /\ loop \in [Loops -> LoopType]
  BY LoopKinds DEF KekInv, Step, TypeOK, LoopType
<1>2. /\ UNCHANGED <<store, op, opsLeft, failuresLeft, doneBy, calm>> /\ loop[i].pc = "commit"
      /\ loop'[i].pc = "check" /\ loop'[i].batch = {} /\ loop'[i].wrote = {}
      /\ loop'[i].dir = loop[i].dir /\ loop'[i].status = loop[i].status /\ loop'[i].last = loop[i].last
  BY <1>1 DEF commit, LoopType
<1>3. kek' = [r \in Rows |-> IF r \in loop[i].wrote THEN Target(i) ELSE kek[r]]
  BY DEF commit
<1>4. TypeOK'
  <2>1. kek' \in [Rows -> {"old", "new", "other"}]
    BY <1>3 DEF Target, KekInv, TypeOK
  <2> QED BY <1>1, <1>2, <2>1 DEF KekInv, TypeOK, LoopType
<1>5. HoldInv'
  BY <1>1, <1>2, HoldKept DEF KekInv
<1>6. ASSUME calm PROVE (AloneInv /\ PassInv /\ StoreInv)'
  <2>1. AloneInv /\ PassInv /\ StoreInv
    BY <1>6 DEF KekInv
  <2>2. AtWork = {i} /\ AtWork' = {i}
    BY <1>1, <1>2, <2>1, OneAtWork
  <2>3. ASSUME NEW r \in Rows, NEW k, k = Source(i), Handled(r, k) PROVE Handled(r, k)'
    <3>1. kek[r] = k => r \in loop[i].wrote
      BY <2>2, <2>3 DEF Handled
    <3>2. kek'[r] # k
      BY <1>3, <2>3, <3>1 DEF Source, Target
    <3> QED BY <3>2 DEF Handled
  <2>4. AloneInv'
    BY <1>2, <2>1, <2>2 DEF AloneInv
  <2>5. PassInv'
    <3>1. \A k : k = Source(i) => \A r \in Rows : r <= loop[i].last => Handled(r, k)'
      BY <2>1, <2>2, <2>3 DEF PassInv
    <3>2. \A last \in {store.last} \cup (IF op.kind = "pause" THEN {op.last} ELSE {}) : last <= loop[i].last
      BY <2>1, <2>2 DEF PassInv
    <3>3. Source(i)' = Source(i)
      BY <1>2 DEF Source
    <3> QED BY <1>2, <2>2, <3>1, <3>2, <3>3 DEF PassInv
  <2>6. StoreInv'
    <3>1. store.status \in {"running", "paused"} \/ op.kind \in {"start", "pause"} => Source(i) = "old"
      BY <1>1, <2>1, <2>2 DEF StoreInv, AloneInv, Source
    <3>2. store.status \in {"running", "paused", "failed"} => \A r \in Rows : r <= store.last => Handled(r, "old")'
      BY <2>1, <2>2, <2>3, <3>1 DEF StoreInv
    <3>3. op.kind \in {"start", "pause"} => \A r \in Rows : r <= op.last => Handled(r, "old")'
      BY <2>1, <2>3, <3>1 DEF StoreInv
    <3> QED BY <1>2, <2>1, <2>2, <3>2, <3>3 DEF StoreInv
  <2> QED BY <2>4, <2>5, <2>6
<1> QED BY <1>2, <1>4, <1>5, <1>6 DEF KekInv

\* A failure of the key service.
LEMMA KmsKeeps == ASSUME Assumed, KekInv, NEW i \in Loops, kmsFails(i) PROVE KekInv'
<1>1. /\ loop' \in [Loops -> LoopType] /\ i \in AtWork
      /\ \A j \in Loops \ {i} : loop'[j] = loop[j]
      /\ loop \in [Loops -> LoopType]
  BY LoopKinds DEF KekInv, TypeOK, LoopType
<1>2. /\ UNCHANGED <<kek, store, op, doneBy>> /\ loop'[i].pc = "failing"
      /\ loop'[i].batch = {} /\ loop'[i].wrote = {}
      /\ loop'[i].dir = loop[i].dir /\ loop'[i].status = loop[i].status /\ loop'[i].last = loop[i].last
  BY <1>1 DEF kmsFails, LoopType
<1>3. calm' = (calm /\ loop[i].wrote = {} /\ loop[i].dir = "forward")
  BY DEF kmsFails
<1>4. TypeOK'
  <2>1. calm' \in BOOLEAN
    BY <1>3
  <2> QED BY <1>1, <1>2, <2>1 DEF KekInv, TypeOK, LoopType
<1>5. HoldInv'
  BY <1>1, <1>2, HoldKept DEF KekInv
<1>6. ASSUME calm' PROVE (AloneInv /\ PassInv /\ StoreInv)'
  <2>1. AloneInv /\ PassInv /\ StoreInv /\ loop[i].wrote = {} /\ loop[i].dir = "forward"
    BY <1>3, <1>6 DEF KekInv
  <2>2. AtWork = {i} /\ AtWork' = {i}
    BY <1>1, <1>2, <2>1, OneAtWork
  <2>3. \A r, k : Handled(r, k)' <=> Handled(r, k)
    BY <1>2, <2>1, <2>2 DEF Handled
  <2>4. AloneInv'
    BY <1>2, <2>1, <2>2 DEF AloneInv
  <2>5. PassInv'
    BY <1>2, <2>1, <2>2, <2>3 DEF PassInv, Source
  <2>6. StoreInv'
    BY <1>2, <2>1, <2>2, <2>3 DEF StoreInv
  <2> QED BY <2>4, <2>5, <2>6
<1> QED BY <1>4, <1>5, <1>6 DEF KekInv

\* The catch that stores a failure, behind the rows that were committed.
LEMMA FailKeeps == ASSUME Assumed, KekInv, NEW i \in Loops, fail(i) PROVE KekInv'
<1>1. /\ loop' \in [Loops -> LoopType] /\ i \in AtWork
      /\ \A j \in Loops \ {i} : loop'[j] = loop[j]
      /\ loop \in [Loops -> LoopType]
  BY LoopKinds DEF KekInv, Step, TypeOK, LoopType
<1>2. /\ UNCHANGED <<kek, op, doneBy, calm>> /\ loop[i].pc = "failing" /\ loop'[i].pc = "ended"
      /\ loop'[i].batch = loop[i].batch /\ loop'[i].wrote = loop[i].wrote
  BY <1>1 DEF fail, LoopType
<1>3. store' = [status |-> "failed", last |-> loop[i].last]
  BY DEF fail
<1>4. TypeOK'
  BY <1>1, <1>2, <1>3 DEF KekInv, TypeOK, LoopType, Statuses
<1>5. loop[i].batch = {} /\ loop[i].wrote = {}
  BY <1>2 DEF KekInv, HoldInv
<1>6. HoldInv'
  BY <1>1, <1>2, <1>5, HoldKept DEF KekInv
<1>7. ASSUME calm PROVE (AloneInv /\ PassInv /\ StoreInv)'
  <2>1. AloneInv /\ PassInv /\ StoreInv
    BY <1>7 DEF KekInv
  <2>2. AtWork = {i} /\ AtWork' = {}
    BY <1>1, <1>2, <2>1, OneAtWork
  <2>3. \A r, k : /\ Handled(r, k) <=> kek[r] # k
                  /\ Handled(r, k)' <=> kek[r] # k
    BY <1>2, <1>5, <2>2 DEF Handled
  <2>4. loop[i].dir = "forward" /\ op.kind \in {"none", "pause"}
    BY <1>2, <2>1, <2>2 DEF AloneInv, KekInv, TypeOK
  <2>5. \A r \in Rows : r <= loop[i].last => kek[r] # "old"
    BY <2>1, <2>2, <2>3, <2>4 DEF PassInv, Source
  <2>6. AloneInv' /\ PassInv'
    BY <2>2 DEF AloneInv, PassInv
  <2>7. StoreInv'
    <3>1. store'.status = "failed" /\ store'.last = loop[i].last
      BY <1>3
    <3> QED BY <1>2, <2>1, <2>2, <2>3, <2>4, <2>5, <3>1 DEF StoreInv
  <2> QED BY <2>6, <2>7
<1> QED BY <1>2, <1>4, <1>6, <1>7 DEF KekInv

\* The death of the process.
LEMMA CrashKeeps == ASSUME Assumed, KekInv, crash PROVE KekInv'
<1>1. \A i \in Loops :
        IF i \in AtWork THEN loop'[i] = LoopAt("ended", "forward", "none", 0) ELSE loop'[i] = loop[i]
  BY DEF crash
<1>2. loop' \in [Loops -> LoopType]
  BY DEF crash, LoopAt, LoopType, KekInv, TypeOK, Positions, Statuses
<1>3. /\ UNCHANGED <<kek, store, doneBy>> /\ op' = Idle
      /\ calm' = (calm /\ \A i \in AtWork : loop[i].pc # "commit" /\ loop[i].dir = "forward")
  BY DEF crash
<1>4. TypeOK'
  <2>1. calm' \in BOOLEAN
    BY <1>3
  <2> QED BY <1>2, <1>3, <2>1 DEF KekInv, TypeOK, LoopType, Idle
<1>5. HoldInv'
  BY <1>1 DEF KekInv, HoldInv, RowHeldOnce, LoopAt
<1>6. ASSUME calm' PROVE (AloneInv /\ PassInv /\ StoreInv)'
  <2>1. /\ AloneInv /\ PassInv /\ StoreInv
        /\ \A i \in AtWork : loop[i].pc # "commit" /\ loop[i].dir = "forward"
    BY <1>3, <1>6 DEF KekInv
  <2>2. AtWork' = {} /\ op'.kind = "none"
    BY <1>1, <1>3 DEF AtWork, LoopAt, Idle
  <2>3. AloneInv' /\ PassInv'
    BY <2>2 DEF AloneInv, PassInv
  <2>4. ASSUME NEW r \in Rows, r <= store.last, store.status \in {"running", "paused", "failed"}
        PROVE  kek[r] # "old"
    <3>1. SUFFICES ASSUME kek[r] = "old" PROVE FALSE
      OBVIOUS
    <3>2. PICK i \in AtWork : r \in loop[i].wrote
      BY <2>1, <2>4, <3>1 DEF StoreInv, Handled
    <3>3. loop[i].pc = "rows" /\ r \in loop[i].batch
      BY <2>1, <3>2 DEF KekInv, HoldInv, AtWork
    <3>4. r > store.last
      BY <2>1, <3>2, <3>3 DEF PassInv
    <3>5. r \in Nat /\ store.last \in Nat
      BY Numbers DEF KekInv
    <3> QED BY <2>4, <3>4, <3>5, Order
  <2>5. store.status # "rolling_back"
    BY <2>1 DEF StoreInv
  <2>6. StoreInv'
    BY <1>3, <2>1, <2>2, <2>4, <2>5 DEF StoreInv, Handled
  <2> QED BY <2>3, <2>6
<1> QED BY <1>4, <1>5, <1>6 DEF KekInv

\* An operator's call reads the checkpoint.
LEMMA CallKeeps ==
  ASSUME Assumed, KekInv, NEW kind \in {"start", "pause", "resume", "rollback"}, call(kind) PROVE KekInv'
<1>1. /\ UNCHANGED <<kek, store, loop, doneBy>> /\ op.kind = "none" /\ Accepts(kind, store.status)
      /\ op' = [kind |-> kind, last |-> store.last] /\ calm' = (calm /\ (AtWork = {} \/ kind = "pause"))
  BY DEF call
<1>2. TypeOK'
  BY <1>1 DEF KekInv, TypeOK
<1>3. HoldInv'
  BY <1>1 DEF KekInv, HoldInv, RowHeldOnce
<1>4. ASSUME calm' PROVE (AloneInv /\ PassInv /\ StoreInv)'
  <2>1. AloneInv /\ PassInv /\ StoreInv /\ (AtWork = {} \/ kind = "pause")
    BY <1>1, <1>4 DEF KekInv
  <2>2. AtWork' = AtWork /\ op'.kind = kind /\ op'.last = store.last
    BY <1>1 DEF AtWork
  <2>3. \A r, k : Handled(r, k)' <=> Handled(r, k)
    BY <1>1, <2>2 DEF Handled
  <2>4. AloneInv'
    BY <1>1, <2>1, <2>2 DEF AloneInv
  <2>5. PassInv'
    BY <1>1, <2>1, <2>2, <2>3 DEF PassInv, Source, Pending
  <2>6. StoreInv'
    <3>1. kind \in {"start", "pause"} => \A r \in Rows : r <= store.last => Handled(r, "old")
      <4>1. kind = "start" => store.status \in {"none", "paused", "failed"}
        BY <1>1, <2>1 DEF Accepts, StoreInv, KekInv, TypeOK, Statuses
      <4>2. kind = "pause" => store.status = "running"
        BY <1>1 DEF Accepts
      <4>3. store.status = "none" => \A r \in Rows : ~(r <= store.last)
        BY <2>1, Positive DEF StoreInv
      <4> QED BY <2>1, <4>1, <4>2, <4>3 DEF StoreInv
    <3>2. store.status # "rolling_back"
      BY <1>1, <2>1 DEF StoreInv, Accepts
    <3>3. store.status # "completed"
      BY <1>1 DEF Accepts
    <3>4. kind = "pause" => store.status = "running"
      BY <1>1 DEF Accepts
    <3> QED BY <1>1, <2>1, <2>2, <2>3, <3>1, <3>2, <3>3, <3>4 DEF StoreInv
  <2> QED BY <2>4, <2>5, <2>6
<1> QED BY <1>2, <1>3, <1>4 DEF KekInv

\* A pause stores the checkpoint that it read.
LEMMA PauseKeeps == ASSUME Assumed, KekInv, pause PROVE KekInv'
<1>1. /\ UNCHANGED <<kek, loop, doneBy, calm>> /\ op.kind = "pause"
      /\ store' = [status |-> "paused", last |-> op.last] /\ op' = Idle
  BY DEF pause
<1>2. TypeOK'
  BY <1>1 DEF KekInv, TypeOK, Statuses, Idle
<1>3. HoldInv'
  BY <1>1 DEF KekInv, HoldInv, RowHeldOnce
<1>4. ASSUME calm PROVE (AloneInv /\ PassInv /\ StoreInv)'
  <2>1. AloneInv /\ PassInv /\ StoreInv
    BY <1>1, <1>4 DEF KekInv
  <2>2. AtWork' = AtWork /\ op'.kind = "none" /\ store'.status = "paused" /\ store'.last = op.last
    BY <1>1 DEF AtWork, Idle
  <2>3. \A r, k : Handled(r, k)' <=> Handled(r, k)
    BY <1>1, <2>2 DEF Handled
  <2>4. AloneInv'
    BY <1>1, <2>1, <2>2 DEF AloneInv
  <2>5. PassInv'
    BY <1>1, <2>1, <2>2, <2>3 DEF PassInv, Source, Pending
  <2>6. StoreInv'
    <3>1. \A i \in AtWork : loop[i].dir = "forward"
      BY <1>1, <2>1 DEF StoreInv
    <3> QED BY <1>1, <2>1, <2>2, <2>3, <3>1 DEF StoreInv
  <2> QED BY <2>4, <2>5, <2>6
<1> QED BY <1>1, <1>2, <1>3, <1>4 DEF KekInv

\* Resuming becomes a start or is refused.
LEMMA ResumeKeeps == ASSUME Assumed, KekInv, resume PROVE KekInv'
<1>1. /\ UNCHANGED <<kek, loop, store, doneBy, calm>> /\ op.kind = "resume"
      /\ op' = IF Accepts("start", store.status) THEN [kind |-> "start", last |-> store.last] ELSE Idle
  BY DEF resume
<1>2. TypeOK'
  BY <1>1 DEF KekInv, TypeOK, Idle
<1>3. HoldInv'
  BY <1>1 DEF KekInv, HoldInv, RowHeldOnce
<1>4. ASSUME calm PROVE (AloneInv /\ PassInv /\ StoreInv)'
  <2>1. AloneInv /\ PassInv /\ StoreInv /\ AtWork = {}
    BY <1>1, <1>4 DEF KekInv, AloneInv
  <2>2. AtWork' = {} /\ (op'.kind = "none" \/ (op' = [kind |-> "start", last |-> store.last] /\ Accepts("start", store.status)))
    BY <1>1, <2>1 DEF AtWork, Idle
  <2>3. \A r, k : Handled(r, k)' <=> Handled(r, k)
    BY <1>1, <2>1, <2>2 DEF Handled
  <2>4. AloneInv' /\ PassInv'
    BY <2>2 DEF AloneInv, PassInv
  <2>5. StoreInv'
    <3>1. Accepts("start", store.status) => store.status \in {"none", "paused", "failed"}
      BY <2>1 DEF Accepts, StoreInv, KekInv, TypeOK, Statuses
    <3>2. store.status = "none" => \A r \in Rows : ~(r <= store.last)
      BY <2>1, Positive DEF StoreInv
    <3>3. op'.kind = "start" => \A r \in Rows : r <= op'.last => Handled(r, "old")'
      BY <2>1, <2>2, <2>3, <3>1, <3>2 DEF StoreInv
    <3>4. store.status \notin {"rolling_back", "completed"}
      BY <1>1, <2>1 DEF StoreInv
    <3> QED BY <1>1, <2>1, <2>2, <2>3, <3>3, <3>4 DEF StoreInv
  <2> QED BY <2>4, <2>5
<1> QED BY <1>1, <1>2, <1>3, <1>4 DEF KekInv

\* A new loop takes up no row.
LEMMA NewLoop ==
  ASSUME Assumed, KekInv, NEW dir \in {"forward", "reverse"}, NEW status \in Statuses, NEW last \in Rows \cup {0},
         Begin(dir, status, last)
  PROVE  /\ loop' \in [Loops -> LoopType] /\ HoldInv'
         /\ \E i \in Loops :
              /\ loop'[i] = LoopAt("check", dir, status, last)
              /\ AtWork = {} => AtWork' = {i}
<1>1. PICK i \in Loops : loop' = [loop EXCEPT ![i] = LoopAt("check", dir, status, last)]
  BY DEF Begin
<1>2. loop' \in [Loops -> LoopType]
  BY <1>1 DEF LoopAt, LoopType, KekInv, TypeOK, Positions
<1>3. loop'[i] = LoopAt("check", dir, status, last) /\ \A j \in Loops \ {i} : loop'[j] = loop[j]
  BY <1>1 DEF KekInv, TypeOK
<1>4. HoldInv'
  BY <1>2, <1>3, HoldKept DEF KekInv, LoopAt
<1>5. AtWork = {} => AtWork' = {i}
  BY <1>3 DEF AtWork, LoopAt
<1> QED BY <1>2, <1>3, <1>4, <1>5

\* Starting goes on behind the checkpoint that was read.
LEMMA StartKeeps == ASSUME Assumed, KekInv, start PROVE KekInv'
<1>1. /\ UNCHANGED <<kek, doneBy, calm>> /\ op.kind = "start" /\ Begin("forward", "running", op.last)
      /\ store' = [status |-> "running", last |-> op.last] /\ op' = Idle /\ op.last \in Rows \cup {0}
  BY DEF start, KekInv, TypeOK
<1>2. PICK i \in Loops : /\ loop' \in [Loops -> LoopType] /\ HoldInv'
                         /\ loop'[i] = LoopAt("check", "forward", "running", op.last)
                         /\ AtWork = {} => AtWork' = {i}
  BY <1>1, NewLoop DEF Statuses
<1>3. TypeOK'
  BY <1>1, <1>2 DEF KekInv, TypeOK, Statuses, Idle, LoopType
<1>4. ASSUME calm PROVE (AloneInv /\ PassInv /\ StoreInv)'
  <2>1. AloneInv /\ PassInv /\ StoreInv /\ AtWork = {} /\ AtWork' = {i}
    BY <1>1, <1>2, <1>4 DEF KekInv, AloneInv
  <2>2. /\ op'.kind = "none" /\ store'.status = "running" /\ store'.last = op.last
        /\ loop'[i].pc = "check" /\ loop'[i].dir = "forward" /\ loop'[i].status = "running"
        /\ loop'[i].last = op.last /\ loop'[i].batch = {} /\ loop'[i].wrote = {}
    BY <1>1, <1>2 DEF Idle, LoopAt
  <2>3. \A r, k : Handled(r, k) => Handled(r, k)'
    BY <1>1, <2>1 DEF Handled
  <2>4. \A r \in Rows : r <= op.last => Handled(r, "old")'
    BY <1>1, <2>1, <2>3 DEF StoreInv
  <2>5. AloneInv'
    BY <2>1, <2>2 DEF AloneInv
  <2>6. PassInv'
    <3>1. op.last \in Nat
      BY Numbers DEF KekInv
    <3> QED BY <2>1, <2>2, <2>4, <3>1 DEF PassInv, Source
  <2>7. StoreInv'
    BY <2>1, <2>2, <2>4 DEF StoreInv
  <2> QED BY <2>5, <2>6, <2>7
<1> QED BY <1>1, <1>2, <1>3, <1>4 DEF KekInv

\* A rollback goes over all rows.
LEMMA RollbackKeeps == ASSUME Assumed, KekInv, rollback PROVE KekInv'
<1>1. /\ UNCHANGED <<kek, doneBy, calm>> /\ op.kind = "rollback" /\ Begin("reverse", "rolling_back", 0)
      /\ store' = [status |-> "rolling_back", last |-> 0] /\ op' = Idle
  BY DEF rollback
<1>2. PICK i \in Loops : /\ loop' \in [Loops -> LoopType] /\ HoldInv'
                         /\ loop'[i] = LoopAt("check", "reverse", "rolling_back", 0)
                         /\ AtWork = {} => AtWork' = {i}
  BY <1>1, NewLoop DEF Statuses
<1>3. TypeOK'
  BY <1>1, <1>2 DEF KekInv, TypeOK, Statuses, Idle, LoopType
<1>4. ASSUME calm PROVE (AloneInv /\ PassInv /\ StoreInv)'
  <2>1. AloneInv /\ AtWork = {} /\ AtWork' = {i}
    BY <1>1, <1>2, <1>4 DEF KekInv, AloneInv
  <2>2. /\ op'.kind = "none" /\ store'.status = "rolling_back" /\ store'.last = 0
        /\ loop'[i].pc = "check" /\ loop'[i].dir = "reverse" /\ loop'[i].status = "rolling_back"
        /\ loop'[i].last = 0 /\ loop'[i].batch = {} /\ loop'[i].wrote = {}
    BY <1>1, <1>2 DEF Idle, LoopAt
  <2>3. AloneInv'
    BY <2>1, <2>2 DEF AloneInv
  <2>4. PassInv'
    <3>1. \A r \in Rows : ~(r <= 0)
      BY DEF Assumed
    <3> QED BY <2>1, <2>2, <3>1 DEF PassInv
  <2>5. StoreInv'
    BY <2>1, <2>2 DEF StoreInv
  <2> QED BY <2>3, <2>4, <2>5
<1> QED BY <1>1, <1>2, <1>3, <1>4 DEF KekInv

\* Every step keeps the invariant.
LEMMA KekStep == ASSUME Assumed, KekInv, [Next]_vars PROVE KekInv'
<1>1. CASE UNCHANGED vars
  <2>1. AtWork' = AtWork
    BY <1>1 DEF vars, AtWork
  <2>2. \A r, k : Handled(r, k)' <=> Handled(r, k)
    BY <1>1, <2>1 DEF vars, Handled
  <2>3. TypeOK' /\ HoldInv'
    BY <1>1 DEF vars, KekInv, TypeOK, HoldInv, RowHeldOnce
  <2>4. AloneInv => AloneInv'
    BY <1>1, <2>1 DEF vars, AloneInv
  <2>5. PassInv => PassInv'
    BY <1>1, <2>1, <2>2 DEF vars, PassInv, Source, Pending
  <2>6. StoreInv => StoreInv'
    BY <1>1, <2>1, <2>2 DEF vars, StoreInv
  <2> QED BY <1>1, <2>3, <2>4, <2>5, <2>6 DEF vars, KekInv
<1> QED BY <1>1, CheckKeeps, BeginKeeps, CompleteKeeps, RowKeeps, UpsertKeeps, CommitKeeps, KmsKeeps, FailKeeps, CrashKeeps,
           CallKeeps, PauseKeeps, ResumeKeeps, StartKeeps, RollbackKeeps DEF Next, Step, Rest

\* The invariant holds always.
THEOREM KekHolds == ASSUME Assumed PROVE Spec => []KekInv
<1>1. Init => KekInv
  BY KekInit
<1>2. KekInv /\ [Next]_vars => KekInv'
  BY KekStep
<1> QED BY <1>1, <1>2, PTL DEF Spec

\* Whatever operators, the key service and the process do, until calm is lost: a
\* completed pass has left no row behind, and the checkpoint is covered.
THEOREM RotationHolds == ASSUME Assumed PROVE Spec => [](CompletedIsRotated /\ CheckpointIsCovered)
<1>1. KekInv => CompletedIsRotated
  BY DEF KekInv, StoreInv, CompletedIsRotated
<1>3. ASSUME KekInv, NEW r \in Rows, calm, store.status \in {"running", "paused", "failed"}, r <= store.last, kek[r] = "old"
      PROVE  \E i \in Loops : loop[i].pc = "commit" /\ r \in loop[i].wrote
  <2>1. PICK i \in AtWork : r \in loop[i].wrote
    BY <1>3 DEF KekInv, StoreInv, Handled
  <2>2. loop[i].pc \in {"rows", "commit"} /\ r \in loop[i].batch /\ i \in Loops
    BY <1>3, <2>1 DEF KekInv, HoldInv, AtWork
  <2>3. loop[i].pc = "rows" => r > store.last
    BY <1>3, <2>1, <2>2 DEF KekInv, PassInv
  <2>4. r \in Nat /\ store.last \in Nat
    BY <1>3, Numbers DEF KekInv
  <2> QED BY <1>3, <2>1, <2>2, <2>3, <2>4
<1>4. KekInv => CheckpointIsCovered
  BY <1>3 DEF CheckpointIsCovered
<1> QED BY <1>1, <1>4, KekHolds, PTL
=============================================================================
