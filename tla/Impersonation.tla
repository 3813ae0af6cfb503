---------------------------- MODULE Impersonation ----------------------------
(***************************************************************************)
(* The trail of an impersonation session: the store that appends a line to *)
(* its file for every change and replays the file when it is first used,   *)
(* and the recorder that adds a request to the session when its response   *)
(* has been sent.                                                          *)
(*                                                                         *)
(* A call waits for the replay only if it started it; then it works on the *)
(* map and waits for its line to be written.  The lines are written one    *)
(* after another, each as the session is when its turn comes.              *)
(***************************************************************************)
EXTENDS Integers, Sequences, FiniteSets, SequencesExt

CONSTANTS
  Sessions,                       \* ids of sessions, generated afresh
  Calls,                          \* calls of the store that may be under way together
  MaxRequests, MaxCrashes, MaxFailures,  \* bounds
  MayOverlap                      \* calls interleave at their awaits

VARIABLES
  sessions,       \* the map, Missing for an id it lacks
  initialized,    \* "no", "replaying" or "yes"
  unread,         \* the replay failed: the map lacks what the file holds
  file,           \* the last readable line of each session
  torn,           \* the file ends in the middle of a line
  pendingWrite,   \* calls whose lines are still to be written, in order
  chain,          \* the chain of writes is "ok" or "rejected"
  line,           \* the line being written and the attempts left
  call,           \* the calls
  sent,           \* requests whose response was sent
  acked,          \* the records and the ends whose callers saw them saved
  swallowed,      \* of these, the ones written behind the torn end of a line
  detached,       \* the replay replaced a session that a call had changed
  faults          \* crashes and failures so far

vars == <<sessions, initialized, unread, file, torn, pendingWrite, chain, line, call, sent, acked, swallowed,
          detached, faults>>

Missing == [status |-> "missing", requests |-> << >>, writeCount |-> 0]
New == [status |-> "active", requests |-> << >>, writeCount |-> 0]
NoLine == [id |-> "", session |-> Missing, tries |-> 0]
Idle == [pc |-> "idle", op |-> "", id |-> "", req |-> 0, seq |-> 0, write |-> FALSE,
         own |-> Missing]

Init ==
  /\ sessions = [i \in Sessions |-> Missing] /\ file = [i \in Sessions |-> Missing]
  /\ initialized = "no" /\ unread = FALSE /\ torn = FALSE
  /\ pendingWrite = << >> /\ chain = "ok" /\ line = NoLine
  /\ call = [c \in Calls |-> Idle]
  /\ sent = 0 /\ acked = {} /\ swallowed = {}
  /\ detached = FALSE /\ faults = [crashes |-> 0, failures |-> 0]

Disk == <<unread, file, torn, pendingWrite, chain, line, swallowed, detached, faults>>

-----------------------------------------------------------------------------
At(c, op, pc) == call[c].op = op /\ call[c].pc = pc
Current(c) == sessions[call[c].id]

\* ensureInitialized: the flag is set before the replay is done, so only the
\* call that starts it waits.
ensureInitialized(c, entry) ==
  /\ call[c].pc = "idle"
  /\ MayOverlap \/ \A d \in Calls : call[d].pc = "idle"
  /\ call' = [call EXCEPT ![c] = [entry EXCEPT !.pc = IF initialized = "no" THEN "waiting" ELSE "ready"]]
  /\ initialized' = IF initialized = "no" THEN "replaying" ELSE initialized
  /\ UNCHANGED <<sessions, acked, Disk>>

\* The last readable line of a session replaces what the map holds.
replayed == [i \in Sessions |-> IF file[i] = Missing THEN sessions[i] ELSE file[i]]

\* A call that changed a session before keeps, and writes, the object it changed.
replayFile ==
  /\ initialized = "replaying"
  /\ sessions' = replayed
  /\ initialized' = "yes"
  /\ call' = [c \in Calls |->
       CASE call[c].pc = "waiting" -> [call[c] EXCEPT !.pc = "ready"]
         [] call[c].pc = "saving" /\ file[call[c].id] # Missing -> [call[c] EXCEPT !.own = Current(c)]
         [] OTHER -> call[c]]
  /\ detached' = (detached \/ \E i \in Sessions :
                    file[i] # Missing /\ sessions[i] \notin {Missing, file[i]})
  /\ UNCHANGED <<unread, file, torn, pendingWrite, chain, line, sent, acked, swallowed, faults>>

\* The directory or the file cannot be read: the call that started the replay
\* throws, and the flag stays set, so that nobody replays again.
replayFails ==
  /\ initialized = "replaying" /\ faults.failures < MaxFailures
  /\ faults' = [faults EXCEPT !.failures = @ + 1]
  /\ initialized' = "yes" /\ unread' = TRUE
  /\ call' = [c \in Calls |-> IF call[c].pc = "waiting" THEN Idle ELSE call[c]]
  /\ UNCHANGED <<sessions, file, torn, pendingWrite, chain, line, sent, acked, swallowed, detached>>

\* A call changed its session and waits until the line is written.
enqueueWrite(c, session) ==
  /\ sessions' = [sessions EXCEPT ![call[c].id] = session]
  /\ pendingWrite' = Append(pendingWrite, c)
  /\ call' = [call EXCEPT ![c].pc = "saving"]
  /\ UNCHANGED <<initialized, unread, file, torn, chain, line, sent, acked, swallowed, detached, faults>>

\* A call that has nothing to write returns or throws.
return(c) ==
  /\ call' = [call EXCEPT ![c] = Idle]
  /\ UNCHANGED <<sessions, initialized, sent, acked, Disk>>

openSession(c) ==
  /\ At(c, "open", "ready")
  /\ IF Current(c) # Missing THEN return(c) ELSE enqueueWrite(c, New)

\* Ends a session that is active, by an operator or by its time to live.
end(c, status) ==
  IF Current(c).status # "active" THEN return(c)
  ELSE enqueueWrite(c, [Current(c) EXCEPT !.status = status])

closeSession(c) == At(c, "close", "ready") /\ end(c, "closed")
expireSession(c) == At(c, "expire", "ready") /\ end(c, "expired")

\* Mutant: a session that has ended still takes records.
appendableEnded(session) == session # Missing

appendable(session) == session.status = "active"

appendRequest(c) ==
  LET k == call[c]
      record == [req |-> k.req, seq |-> k.seq, write |-> k.write]
  IN
  /\ At(c, "record", "counted")
  /\ IF ~appendable(Current(c)) THEN return(c)
     ELSE enqueueWrite(c, [Current(c) EXCEPT !.requests = Append(@, record),
                                             !.writeCount = @ + (IF k.write THEN 1 ELSE 0)])

\* listSessions only waits for the replay.
listSessions(c) == At(c, "list", "ready") /\ return(c)

-----------------------------------------------------------------------------
Object(c) == IF call[c].own # Missing THEN call[c].own ELSE Current(c)

\* persistSession: the line is made of the session as it is now.  A write that
\* fails is tried again, unless the write before it had failed for good.
persistSession ==
  /\ line = NoLine /\ pendingWrite # << >>
  /\ LET c == Head(pendingWrite) IN
     line' = [id |-> call[c].id, session |-> Object(c), tries |-> IF chain = "ok" THEN 2 ELSE 1]
  /\ UNCHANGED <<sessions, initialized, unread, file, torn, pendingWrite, chain, call, sent, acked, swallowed,
                 detached, faults>>

\* What a call that returns has saved.
saved(c) ==
  IF call[c].op = "open" THEN {}
  ELSE {[op |-> IF call[c].op = "record" THEN "record" ELSE "end", id |-> call[c].id, req |-> call[c].req]}

\* The write is over: the call it belongs to goes on, or throws.
finishWrite(ok) ==
  LET c == Head(pendingWrite) IN
  /\ pendingWrite' = Tail(pendingWrite) /\ line' = NoLine
  /\ chain' = IF ok THEN "ok" ELSE "rejected"
  /\ call' = [call EXCEPT ![c] = Idle]
  /\ acked' = IF ok THEN acked \cup saved(c) ELSE acked
  /\ swallowed' = IF ok /\ torn THEN swallowed \cup saved(c) ELSE swallowed
  /\ UNCHANGED <<sessions, initialized, unread, sent, detached>>

\* appendFile.  What follows the torn end of a line cannot be read either.
appendFile ==
  /\ line # NoLine
  /\ file' = IF torn THEN file ELSE [file EXCEPT ![line.id] = line.session]
  /\ torn' = FALSE
  /\ finishWrite(TRUE)
  /\ UNCHANGED faults

appendFails ==
  /\ line # NoLine /\ faults.failures < MaxFailures
  /\ faults' = [faults EXCEPT !.failures = @ + 1]
  /\ UNCHANGED <<file, torn>>
  /\ IF line.tries = 2
       THEN /\ line' = [line EXCEPT !.tries = 1, !.session = Object(Head(pendingWrite))]
            /\ UNCHANGED <<sessions, initialized, unread, pendingWrite, chain, call, sent, acked, swallowed, detached>>
       ELSE finishWrite(FALSE)

\* The process ends, perhaps in the middle of a line; calls under way are gone.
Crash(tear) ==
  /\ faults.crashes < MaxCrashes
  /\ tear => line # NoLine
  /\ faults' = [faults EXCEPT !.crashes = @ + 1]
  /\ torn' = (torn \/ tear)
  /\ sessions' = [i \in Sessions |-> Missing] /\ initialized' = "no" /\ unread' = FALSE
  /\ pendingWrite' = << >> /\ chain' = "ok" /\ line' = NoLine
  /\ call' = [c \in Calls |-> Idle]
  /\ UNCHANGED <<file, sent, acked, swallowed, detached>>

-----------------------------------------------------------------------------
\* A snapshot is null or an object; its fields hold a leaf or an object with
\* one field.  Arrays are leaves: they are compared by their contents.
Leaves == {"absent", "null", "1", "[1]"}
Values == [object : {FALSE}, leaf : Leaves, x : {"absent"}]
            \cup [object : {TRUE}, leaf : {"absent"}, x : Leaves]
Snapshots == [null : {FALSE}, fields : [{"a", "b"} -> Values]]
NullSnapshot == [null |-> TRUE]

\* The paths at which two objects differ; two objects are walked in turn.
walk(b, a) ==
  {<<f>> : f \in {g \in DOMAIN b : ~(b[g].object /\ a[g].object) /\ b[g] # a[g]}}
    \cup {<<f, "x">> : f \in {g \in DOMAIN b : b[g].object /\ a[g].object /\ b[g].x # a[g].x}}

computeDiff(b, a) ==
  CASE b.null /\ a.null -> {}
    [] b.null # a.null -> {<<"value">>}
    [] OTHER -> walk(b.fields, a.fields)

\* The recorder on "finish": a request of session i has been answered.  A
\* request of an id that never existed is not made.
finish(c, i, write) ==
  /\ sessions[i] # Missing \/ file[i] # Missing
  /\ sent < MaxRequests
  /\ sent' = sent + 1
  /\ ensureInitialized(c, [Idle EXCEPT !.op = "record", !.id = i, !.req = sent + 1, !.write = write])

\* The sequence number is read a step before the record is appended.
getSession(c) ==
  /\ At(c, "record", "ready")
  /\ call' = [call EXCEPT ![c].pc = "counted", ![c].seq = Len(Current(c).requests)]
  /\ UNCHANGED <<sessions, initialized, sent, acked, Disk>>

\* The other calls: ids are opened once, in order of their generation.
start(c, op, i) ==
  /\ op = "open" =>
       sessions[i] = Missing /\ file[i] = Missing /\ \A d \in Calls : call[d].id # i
  /\ op # "open" => sessions[i] # Missing \/ file[i] # Missing
  /\ ensureInitialized(c, [Idle EXCEPT !.op = op, !.id = i])
  /\ UNCHANGED sent

Next ==
  \/ \E c \in Calls, i \in Sessions, write \in BOOLEAN : finish(c, i, write)
  \/ \E c \in Calls, op \in {"open", "close", "expire", "list"}, i \in Sessions : start(c, op, i)
  \/ \E c \in Calls :
       \/ openSession(c) \/ closeSession(c) \/ expireSession(c) \/ listSessions(c)
       \/ getSession(c) \/ appendRequest(c)
  \/ replayFile \/ replayFails \/ persistSession \/ appendFile \/ appendFails
  \/ \E tear \in BOOLEAN : Crash(tear)

Spec == Init /\ [][Next]_vars

-----------------------------------------------------------------------------
Recorded(session) == {session.requests[n].req : n \in DOMAIN session.requests}

\* As long as no call changed a session before the replay was over, a record or
\* the end of a session that its caller saw saved is in the file whatever crashes
\* and failures follow, and in the map once the replay has succeeded.  Excepted is
\* what was written as the first line behind the torn end of another, which the
\* replay passes over (impersonationSessionStore.ts:263-265); after a replay that
\* failed, nobody finds the sessions of the file until the process starts again
\* (246, 266-269).  Both are silent to later callers, where the header says that
\* the store never silently drops sessions (12-13).
SavedIsKept ==
  ~detached =>
    /\ \A a \in acked \ swallowed :
         IF a.op = "record" THEN a.req \in Recorded(file[a.id]) ELSE file[a.id].status # "active"
    /\ initialized = "yes" /\ ~unread => \A i \in Sessions : Recorded(file[i]) \subseteq Recorded(sessions[i])

\* A trail never has a record twice, its write count is the number of writes
\* in it, and without overlaps its numbers are 0, 1, 2 and so on.
TrailIsOrdered ==
  \A i \in Sessions : LET t == sessions[i].requests IN
    /\ \A m, n \in DOMAIN t : t[m].req = t[n].req => m = n
    /\ sessions[i].writeCount = Cardinality({n \in DOMAIN t : t[n].write})
    /\ ~MayOverlap => \A n \in DOMAIN t : t[n].seq = n - 1

\* What ended stays ended and its trail closed, over restarts as well; after a
\* replay that failed the session is not found.
EndedIsFinal ==
  \A i \in Sessions :
    /\ ~detached /\ initialized = "yes"
    /\ file[i].status \in {"closed", "expired"}
    => sessions[i] = file[i] \/ (unread /\ sessions[i] = Missing)

\* A request counts as a write exactly if the snapshots it took differ. The
\* difference is the same in every state and looked at in the first.
DiffTells ==
  LET docs == Snapshots IN
  initialized = "no" /\ sent = 0 =>
  /\ \A b \in docs, a \in docs : (computeDiff(b, a) = {}) = (b = a)
  /\ \A b \in docs : computeDiff(b, NullSnapshot) # {} /\ computeDiff(NullSnapshot, b) # {}

\* The trail is kept, in order, and closed with its session.
TrailSound == SavedIsKept /\ TrailIsOrdered /\ EndedIsFinal /\ DiffTells
=============================================================================
