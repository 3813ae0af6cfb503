---------------------------- MODULE Idempotency ----------------------------
(***************************************************************************)
(* The Idempotency-Key middleware: a Redis entry per storage key that is   *)
(* taken with SET NX before the handler runs and overwritten by the        *)
(* response it gave, so that a retry is answered from the entry.           *)
(*                                                                         *)
(* Every await on Redis is a step of its own, so any number of requests    *)
(* with the same key interleave.  The write of the response is not awaited *)
(* and happens some time after the client has its answer.                  *)
(***************************************************************************)
EXTENDS Integers, FiniteSets

CONSTANTS
  Requests,       \* records [id, principal, method, route, key, url, body]
  Retention,      \* IDEMPOTENCY_EXPIRATION_SECONDS, in ticks
  MaxFaults,      \* bound on the calls that throw, the crashes, the lost answers
  MayBypass       \* handlers may answer without res.json

VARIABLES
  entry,     \* what Redis holds under each storage key
  ttl,       \* how long each entry has left
  at,        \* where each request is
  reply,     \* what each client was answered
  window,    \* how often each entry has run out (history)
  lockedIn,  \* the window in which each request took the lock (history)
  faults     \* what has gone wrong so far

vars == <<entry, ttl, at, reply, window, lockedIn, faults>>

\* The parts are hashed together; hashes are taken to be free of collisions.
buildIdempotencyStorageKey(r) == <<r.principal, r.method, r.route, r.key>>

generateRequestHash(r) == <<r.method, r.url, r.body>>

Keys == {buildIdempotencyStorageKey(r) : r \in Requests}

Codes == {"2xx", "5xx"}
NoEntry == [status |-> "none"]
Processing(r) == [status |-> "processing", requestHash |-> generateRequestHash(r), by |-> r.id]
Completed(r, code) ==
  [status |-> "completed", requestHash |-> generateRequestHash(r), code |-> code, by |-> r.id]

\* Answers: none yet, an error of the middleware, or a body and who it is from.
NoReply == [kind |-> "none"]
Error(kind) == [kind |-> kind]
Body(code, id) == [kind |-> "body", code |-> code, from |-> id]

Init ==
  /\ entry = [k \in Keys |-> NoEntry]
  /\ ttl = [k \in Keys |-> 0]
  /\ at = [r \in Requests |-> "new"]
  /\ reply = [r \in Requests |-> NoReply]
  /\ window = [k \in Keys |-> 0]
  /\ lockedIn = [r \in Requests |-> -1]
  /\ faults = 0

InFlight(r) == at[r] \in {"get", "set", "handler", "persist"}

Answer(r, answer) ==
  /\ reply' = [reply EXCEPT ![r] = answer]
  /\ at' = [at EXCEPT ![r] = "done"]

Fault == faults < MaxFaults /\ faults' = faults + 1

-----------------------------------------------------------------------------
\* The request has a key that is well formed and Redis is configured.
arrive(r) ==
  /\ at[r] = "new"
  /\ at' = [at EXCEPT ![r] = "get"]
  /\ UNCHANGED <<entry, ttl, reply, window, lockedIn, faults>>

\* Without a Redis client the request is refused before anything is done.
refuse(r) ==
  /\ at[r] = "new" /\ Fault
  /\ Answer(r, Error("503"))
  /\ UNCHANGED <<entry, ttl, window, lockedIn>>

\* What an existing entry means for a request.
Verdict(r, e) ==
  CASE e.status = "processing" -> Error("409")
    [] e.status = "completed" /\ e.requestHash # generateRequestHash(r) -> Error("422")
    [] OTHER -> Body(e.code, e.by)

get(r) ==
  LET e == entry[buildIdempotencyStorageKey(r)] IN
  /\ at[r] = "get"
  /\ IF e = NoEntry
     THEN at' = [at EXCEPT ![r] = "set"] /\ UNCHANGED reply
     ELSE Answer(r, Verdict(r, e))
  /\ UNCHANGED <<entry, ttl, window, lockedIn, faults>>

Take(r) ==
  LET k == buildIdempotencyStorageKey(r) IN
  /\ entry' = [entry EXCEPT ![k] = Processing(r)]
  /\ ttl' = [ttl EXCEPT ![k] = Retention]

setProcessing(r) ==
  LET k == buildIdempotencyStorageKey(r) IN
  /\ at[r] = "set"
  /\ IF entry[k] = NoEntry
     THEN /\ Take(r)
          /\ at' = [at EXCEPT ![r] = "handler"]
          /\ lockedIn' = [lockedIn EXCEPT ![r] = window[k]]
          /\ UNCHANGED reply
     ELSE Answer(r, Error("409")) /\ UNCHANGED <<entry, ttl, lockedIn>>
  /\ UNCHANGED <<window, faults>>

\* redis.get or redis.set rejects and next(error) answers; a SET NX whose
\* answer was lost may have been applied all the same.
redisThrows(r) ==
  /\ at[r] \in {"get", "set"} /\ Fault
  /\ Answer(r, Error("500"))
  /\ \/ UNCHANGED <<entry, ttl>>
     \/ /\ at[r] = "set" /\ entry[buildIdempotencyStorageKey(r)] = NoEntry
        /\ Take(r)
  /\ UNCHANGED <<window, lockedIn>>

\* The handler, or the error handler after it threw, calls res.json: the
\* client is answered and the write to Redis is on its way.
handler(r, code) ==
  /\ at[r] = "handler"
  /\ reply' = [reply EXCEPT ![r] = Body(code, r.id)]
  /\ at' = [at EXCEPT ![r] = "persist"]
  /\ UNCHANGED <<entry, ttl, window, lockedIn, faults>>

\* The answer is sent with res.send or res.end, or the client goes away.
bypass(r) ==
  /\ MayBypass
  /\ at[r] = "handler"
  /\ Answer(r, Error("raw"))
  /\ UNCHANGED <<entry, ttl, window, lockedIn, faults>>

persist(r) ==
  LET k == buildIdempotencyStorageKey(r) IN
  /\ at[r] = "persist"
  /\ entry' = [entry EXCEPT ![k] = Completed(r, reply[r].code)]
  /\ ttl' = [ttl EXCEPT ![k] = Retention]
  /\ at' = [at EXCEPT ![r] = "done"]
  /\ UNCHANGED <<reply, window, lockedIn, faults>>

\* The rejected write is logged and forgotten.
persistFails(r) ==
  /\ at[r] = "persist" /\ Fault
  /\ at' = [at EXCEPT ![r] = "done"]
  /\ UNCHANGED <<entry, ttl, reply, window, lockedIn>>

\* The process that serves the request dies.
crash(r) ==
  /\ InFlight(r) /\ Fault
  /\ at' = [at EXCEPT ![r] = "dead"]
  /\ UNCHANGED <<entry, ttl, reply, window, lockedIn>>

\* Redis drops an entry whose time is up.
Tick ==
  /\ \E k \in Keys : ttl[k] > 0
  /\ ttl' = [k \in Keys |-> IF ttl[k] = 0 THEN 0 ELSE ttl[k] - 1]
  /\ entry' = [k \in Keys |-> IF ttl[k] = 1 THEN NoEntry ELSE entry[k]]
  /\ window' = [k \in Keys |-> IF ttl[k] = 1 THEN window[k] + 1 ELSE window[k]]
  /\ UNCHANGED <<at, reply, lockedIn, faults>>

\* Nothing is in flight and the server waits for requests.
Rest == (\A r \in Requests : ~InFlight(r)) /\ UNCHANGED vars

\* The steps the server takes by itself once a request has arrived.
Step(r) ==
  \/ get(r) \/ setProcessing(r) \/ persist(r) \/ bypass(r)
  \/ \E code \in Codes : handler(r, code)

Next ==
  \/ \E r \in Requests :
       arrive(r) \/ refuse(r) \/ Step(r) \/ redisThrows(r) \/ persistFails(r) \/ crash(r)
  \/ Tick
  \/ Rest

Spec == Init /\ [][Next]_vars

-----------------------------------------------------------------------------
\* Entries, answers and positions are of their kinds, and an entry is there
\* exactly while its time to live has not run out.
TypeOK ==
  /\ \A k \in Keys : (ttl[k] > 0) <=> (entry[k] # NoEntry)
  /\ ttl \in [Keys -> 0..Retention]
  /\ at \in [Requests -> {"new", "get", "set", "handler", "persist", "done", "dead"}]
  /\ \A r \in Requests :
       reply[r].kind \in {"none", "409", "422", "500", "503", "raw", "body"}
  /\ faults \in 0..MaxFaults

SameKey(q, r) == q # r /\ <<q.principal, q.method, q.route, q.key>> = <<r.principal, r.method, r.route, r.key>>

\* Of all requests with one key the handler runs for one until the entry has
\* run out, whatever interleaving of get and SET NX the requests meet in and
\* whatever calls fail: the lock is never taken twice in one window.
OneRunPerWindow ==
  \A q, r \in Requests :
    SameKey(q, r) /\ lockedIn[q] >= 0 => lockedIn[q] # lockedIn[r]

\* A body that a client is sent was produced by its own handler, or by the
\* handler of a request of the same caller, route and key with the same
\* payload, which itself answered just that.
ReplayIsFaithful ==
  \A q, r \in Requests :
    (reply[r].kind = "body" /\ reply[r].from = q.id /\ q # r) =>
      /\ SameKey(q, r)
      /\ q.url = r.url /\ q.body = r.body
      /\ reply[q] = reply[r]

-----------------------------------------------------------------------------
(* The inductive invariants, for any requests with ids of their own.       *)

Assumed ==
  /\ Retention \in Nat \ {0} /\ MaxFaults \in Nat
  /\ \A q, r \in Requests : q.id = r.id => q = r

KeyOf(r) == buildIdempotencyStorageKey(r)

Positions == {"new", "get", "set", "handler", "persist", "done", "dead"}

\* An entry is there while it has time left; the lock of the present window was
\* taken by whoever made the entry, so that nobody takes it while there is one.
LockInv ==
  /\ DOMAIN entry = Keys /\ ttl \in [Keys -> 0..Retention] /\ window \in [Keys -> Nat]
  /\ at \in [Requests -> Positions] /\ lockedIn \in [Requests -> Nat \cup {-1}]
  /\ \A k \in Keys : (ttl[k] > 0) <=> (entry[k] # NoEntry)
  /\ \A r \in Requests :
       /\ lockedIn[r] <= window[KeyOf(r)]
       /\ lockedIn[r] = window[KeyOf(r)] => entry[KeyOf(r)] # NoEntry
  /\ OneRunPerWindow

\* Request q answered body b, under the key and for the payload of r.
Source(q, r, b) ==
  /\ KeyOf(q) = KeyOf(r) /\ generateRequestHash(q) = generateRequestHash(r)
  /\ b.from = q.id /\ reply[q] = b

\* A stored response is the answer of the request that stored it, an answer is
\* final, and a body comes from a request with the same key and payload.
ReplayInv ==
  /\ DOMAIN entry = Keys /\ reply = [r \in Requests |-> reply[r]] /\ at \in [Requests -> Positions]
  /\ \A k \in Keys :
       \/ entry[k] = NoEntry
       \/ \E q \in Requests : entry[k] = Processing(q)
       \/ \E q \in Requests : /\ reply[q].kind = "body" /\ reply[q] = Body(reply[q].code, q.id)
                              /\ entry[k] = Completed(q, reply[q].code) /\ KeyOf(q) = k
  /\ \A r \in Requests :
       /\ at[r] \in {"new", "get", "set", "handler"} => reply[r] = NoReply
       /\ at[r] = "persist" => reply[r].kind = "body" /\ reply[r] = Body(reply[r].code, r.id)
       /\ reply[r].kind = "body" => \E q \in Requests : Source(q, r, reply[r])

===============================================================================
