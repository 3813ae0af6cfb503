-------------------------- MODULE HolidayCalendars --------------------------
(***************************************************************************)
(* The holiday calendars of one region: metadata, entries that must not    *)
(* overlap, and a numbered revision after every change.                    *)
(*                                                                         *)
(* A request stops at every await of the repository.  A call of the        *)
(* repository takes effect when it is made; what it returns is used in the *)
(* request's next step.  The repository hands out the array of entries     *)
(* itself: a request that has read it sees later pushes, until the array   *)
(* is replaced by another one.  An entry is its interval of days.          *)
(***************************************************************************)
EXTENDS Integers, Sequences, FiniteSets

CONSTANTS
  Days,          \* entries are intervals of these
  Imports,       \* lists of entries a file may hold
  Names, Descriptions,
  Ops,           \* operations that requests may ask for
  MayOverlap,    \* requests run concurrently
  Requests, MaxCalendars, MaxOps

Undefined == "undefined"
Idle == [pc |-> "idle"]
Live == "live"

VARIABLES
  calendars,   \* by id: alive, name, description and entries
  revisions,   \* by id: sequence of [version, name, description, entries]
  req,         \* requests in flight
  ops,         \* number of requests so far
  rolledBack   \* history variable: the snapshot the last completed request restored

vars == <<calendars, revisions, req, ops, rolledBack>>

Ids == 1..MaxCalendars
Intervals == {i \in Days \X Days : i[1] <= i[2]}

None == [alive |-> FALSE, used |-> FALSE, name |-> Undefined, description |-> Undefined, entries |-> << >>]

Init ==
  /\ calendars = [i \in Ids |-> None]
  /\ revisions = [i \in Ids |-> << >>]
  /\ req = [r \in Requests |-> Idle] /\ ops = 0
  /\ rolledBack = << >>

-----------------------------------------------------------------------------
datesOverlap(a, b) == a[1] <= b[2] /\ b[1] <= a[2]

\* detectEntryOverlaps reports nothing.
NoOverlap(es) ==
  /\ \A i \in DOMAIN es : es[i][1] <= es[i][2]
  /\ \A i, j \in DOMAIN es : i < j => ~datesOverlap(es[i], es[j])

findCalendarByRegion == {i \in Ids : calendars[i].alive}

\* What a request sees of the array it holds.
Held(q) == IF q.ref = Live THEN calendars[q.id].entries ELSE q.ref

\* Replacing the array of a calendar leaves the old one to those who hold it.
Replaced(r, q, id) ==
  [p \in Requests |->
     IF p = r THEN q
     ELSE IF req[p].pc # "idle" /\ req[p].id = id /\ req[p].ref = Live
          THEN [req[p] EXCEPT !.ref = calendars[id].entries] ELSE req[p]]

Goto(r, pc) == req' = [req EXCEPT ![r].pc = pc]
Return(r) == req' = [req EXCEPT ![r] = Idle]

\* A call of an operation: its first read.
Begin(r, op, id, arg) ==
  /\ op \in Ops /\ req[r].pc = "idle" /\ ops < MaxOps
  /\ MayOverlap \/ \A p \in Requests : req[p].pc = "idle"
  /\ ops' = ops + 1
  /\ req' = [req EXCEPT ![r] = [pc |-> op, id |-> id, ref |-> Live, arg |-> arg, version |-> 0, snap |-> << >>]]
  /\ UNCHANGED <<calendars, revisions, rolledBack>>

\* createCalendar, updateCalendar, addEntry, deleteEntry, importFromYaml,
\* rollbackToRevision, deleteCalendar: each reads the calendar first.
First == IF findCalendarByRegion = {} THEN 0 ELSE CHOOSE i \in findCalendarByRegion : \A j \in findCalendarByRegion : i <= j

postCalendar(r, n) == Begin(r, "create", First, n)
patchCalendar(r, i, n, d) == calendars[i].alive /\ Begin(r, "update", i, <<n, d>>)
postEntry(r, i, e) == calendars[i].alive /\ Begin(r, "add", i, e)
deleteCalendarEntry(r, i, e) == calendars[i].alive /\ Begin(r, "deleteEntry", i, e)
postImport(r, es) == NoOverlap(es) /\ Begin(r, "import", First, es)
postRollback(r, i, v) == calendars[i].alive /\ Begin(r, "rollback", i, v)
deleteHolidayCalendar(r, i) == calendars[i].alive /\ Begin(r, "delete", i, 0)

-----------------------------------------------------------------------------
\* The repository's createCalendar.
Fresh == {i \in Ids : ~calendars[i].used}
NewId == CHOOSE i \in Fresh : \A j \in Fresh : i <= j

Created(n) == [alive |-> TRUE, used |-> TRUE, name |-> n, description |-> Undefined, entries |-> << >>]

createCalendar(r) ==
  /\ req[r].pc = "create"
  /\ \/ /\ req[r].id # 0 /\ Return(r) /\ UNCHANGED calendars
     \/ /\ req[r].id = 0 /\ Fresh # {}
        /\ calendars' = [calendars EXCEPT ![NewId] = Created(req[r].arg)]
        /\ req' = [req EXCEPT ![r].id = NewId, ![r].pc = "save", ![r].version = 1,
                              ![r].snap = <<Created(req[r].arg)>>]
  /\ UNCHANGED <<revisions, ops, rolledBack>>

Patched(c, n, d) ==
  [c EXCEPT !.name = IF n = Undefined THEN @ ELSE n, !.description = IF d = Undefined THEN @ ELSE d]

updateCalendar(r) ==
  /\ req[r].pc = "update"
  /\ LET i == req[r].id IN
     \/ /\ ~calendars[i].alive /\ Return(r) /\ UNCHANGED calendars
     \/ /\ calendars[i].alive
        /\ calendars' = [calendars EXCEPT ![i] = Patched(@, req[r].arg[1], req[r].arg[2])]
        /\ req' = [req EXCEPT ![r].pc = "list", ![r].ref = Live, ![r].snap = <<calendars'[i]>>]
  /\ UNCHANGED <<revisions, ops, rolledBack>>

\* addEntry: the check and the push are in one step.
addEntry(r) ==
  /\ req[r].pc = "add"
  /\ LET q == req[r] IN
     IF NoOverlap(Append(Held(q), q.arg))
     THEN /\ calendars' = [calendars EXCEPT ![q.id].entries = Append(@, q.arg)]
          /\ Goto(r, "reread")
     ELSE Return(r) /\ UNCHANGED calendars
  /\ UNCHANGED <<revisions, ops, rolledBack>>

deleteEntry(r) ==
  /\ req[r].pc = "deleteEntry"
  /\ LET q == req[r] IN
     IF \E k \in DOMAIN Held(q) : Held(q)[k] = q.arg
     THEN /\ calendars' = [calendars EXCEPT ![q.id].entries = SelectSeq(@, LAMBDA e : e # q.arg)]
          /\ req' = Replaced(r, [q EXCEPT !.pc = "reread"], q.id)
     ELSE Return(r) /\ UNCHANGED calendars
  /\ UNCHANGED <<revisions, ops, rolledBack>>

\* importFromYaml: find or create the calendar, then replace its entries.
importFind(r) ==
  /\ req[r].pc = "import"
  /\ \/ /\ req[r].id = 0 /\ Fresh # {}
        /\ calendars' = [calendars EXCEPT ![NewId] = Created("region")]
        /\ req' = [req EXCEPT ![r].id = NewId, ![r].pc = "replace", ![r].version = 1]
     \/ /\ req[r].id # 0 /\ ~calendars[req[r].id].alive /\ Return(r) /\ UNCHANGED calendars
     \/ \E n \in Names \cup {Undefined} :
          /\ req[r].id # 0 /\ calendars[req[r].id].alive
          /\ calendars' = [calendars EXCEPT ![req[r].id] = Patched(@, n, Undefined)]
          /\ Goto(r, "replace")
  /\ UNCHANGED <<revisions, ops, rolledBack>>

replaceEntries(r) ==
  /\ req[r].pc = "replace"
  /\ LET q == req[r] IN
     /\ calendars' = [calendars EXCEPT ![q.id].entries = q.arg]
     /\ req' = Replaced(r, [q EXCEPT !.pc = "reread"], q.id)
  /\ UNCHANGED <<revisions, ops, rolledBack>>

\* rollbackToRevision: a description the snapshot lacks is not removed.
getRevision(i, v) ==
  LET hits == {k \in DOMAIN revisions[i] : revisions[i][k].version = v}
  IN IF hits = {} THEN 0 ELSE CHOOSE k \in hits : \A l \in hits : k <= l

rollbackToRevision(r) ==
  /\ req[r].pc = "rollback"
  /\ LET q == req[r]
         k == getRevision(q.id, q.arg) IN
     \/ /\ k = 0 \/ ~calendars[q.id].alive
        /\ Return(r) /\ UNCHANGED <<calendars, rolledBack>>
     \/ /\ k # 0 /\ calendars[q.id].alive
        /\ calendars' = [calendars EXCEPT ![q.id] =
                           Patched(@, revisions[q.id][k].name, revisions[q.id][k].description)]
        /\ req' = [req EXCEPT ![r].pc = "replace", ![r].arg = revisions[q.id][k].entries]
        /\ rolledBack' = <<q.id, k>>
  /\ UNCHANGED <<revisions, ops>>

deleteCalendar(r) ==
  /\ req[r].pc = "delete"
  /\ LET i == req[r].id IN
     /\ calendars' = [calendars EXCEPT ![i] = [None EXCEPT !.used = TRUE]]
     /\ revisions' = [revisions EXCEPT ![i] = << >>]
     /\ req' = Replaced(r, Idle, i)
  /\ UNCHANGED <<ops, rolledBack>>

\* The common end: read the calendar again, count the revisions, save one.
reread(r) ==
  /\ req[r].pc = "reread"
  /\ LET i == req[r].id IN
     req' = [req EXCEPT ![r].pc = "list", ![r].ref = Live,
                        ![r].snap = IF calendars[i].alive THEN <<calendars[i]>> ELSE << >>]
  /\ UNCHANGED <<calendars, revisions, ops, rolledBack>>

listRevisions(r) ==
  /\ req[r].pc = "list"
  /\ req' = [req EXCEPT ![r].pc = "save",
                        ![r].version = IF @ = 1 THEN 1 ELSE Len(revisions[req[r].id]) + 1]
  /\ UNCHANGED <<calendars, revisions, ops, rolledBack>>

RevisionOf(q) ==
  [version |-> q.version, name |-> q.snap[1].name, description |-> q.snap[1].description,
   entries |-> Held(q)]

saveRevision(r) ==
  /\ req[r].pc = "save"
  /\ LET q == req[r] IN
     revisions' = IF q.snap = << >> THEN revisions
                  ELSE [revisions EXCEPT ![q.id] = Append(@, RevisionOf(q))]
  /\ Return(r)
  /\ UNCHANGED <<calendars, ops, rolledBack>>

Rest == ops = MaxOps /\ (\A r \in Requests : req[r].pc = "idle") /\ UNCHANGED vars

Next ==
  \/ \E r \in Requests :
       \/ \E n \in Names : postCalendar(r, n)
       \/ \E es \in Imports : postImport(r, es)
       \/ \E i \in Ids :
            \/ \E n \in Names \cup {Undefined}, d \in Descriptions \cup {Undefined} : patchCalendar(r, i, n, d)
            \/ \E e \in Intervals : postEntry(r, i, e) \/ deleteCalendarEntry(r, i, e)
            \/ \E v \in 1..MaxOps : postRollback(r, i, v)
            \/ deleteHolidayCalendar(r, i)
       \/ createCalendar(r) \/ updateCalendar(r) \/ addEntry(r) \/ deleteEntry(r)
       \/ importFind(r) \/ replaceEntries(r) \/ rollbackToRevision(r) \/ deleteCalendar(r)
       \/ reread(r) \/ listRevisions(r) \/ saveRevision(r)
  \/ Rest

Spec == Init /\ [][Next]_vars

-----------------------------------------------------------------------------
Quiet == \A r \in Requests : req[r].pc = "idle"

\* Requests in turn: a region has one calendar; its revisions are numbered
\* from 1 without gap or repetition and the last one is the calendar itself.
RevisionsTellTheCalendar ==
  (Quiet /\ ~MayOverlap) =>
    /\ Cardinality(findCalendarByRegion) <= 1
    /\ \A i \in findCalendarByRegion :
         LET rs == revisions[i] IN
           /\ rs # << >> /\ \A k \in DOMAIN rs : rs[k].version = k
           /\ rs[Len(rs)].name = calendars[i].name
           /\ rs[Len(rs)].description = calendars[i].description
           /\ rs[Len(rs)].entries = calendars[i].entries

\* No day is in two entries of a calendar (addEntry checks and pushes in one
\* step, so this survives concurrent additions).
EntriesAreDisjoint ==
  \A i \in Ids : LET es == calendars[i].entries IN
    \A d \in Days : \A j, k \in DOMAIN es : d \in es[j][1]..es[j][2] /\ d \in es[k][1]..es[k][2] => j = k

\* A rollback gives the calendar the name and the entries of the revision
\* asked for, and its description if it had one.
RollbackRestores ==
  (Quiet /\ ~MayOverlap /\ rolledBack # << >> /\ calendars[rolledBack[1]].alive) =>
    LET i == rolledBack[1]
        rs == revisions[i] IN
    \E k \in (rolledBack[2] + 1)..Len(rs) :
      /\ rs[k].name = rs[rolledBack[2]].name /\ rs[k].entries = rs[rolledBack[2]].entries
      /\ rs[rolledBack[2]].description # Undefined => rs[k].description = rs[rolledBack[2]].description

=============================================================================
