----------------------------- MODULE Lifecycle -----------------------------
(***************************************************************************)
(* Start of the background workers and the graceful shutdown of a process: *)
(* a signal closes the HTTP server and stops the workers, waits for both,  *)
(* then closes the database pools and Redis.  One deadline covers all of   *)
(* it, and a later hard exit covers the deadline.                          *)
(***************************************************************************)
EXTENDS Integers, FiniteSets

CONSTANTS
  Requests,
  Workers,    \* workers started after an import
  Awaited,    \* those of them whose stop waits for the round under way
  Resources

ASSUME AwaitedAssumption == Awaited \subseteq Workers

VARIABLES
  req,        \* "new", "active", "done", or "cut" by closeAllConnections
  worker,     \* "importing", "absent", "running", "stopping", "stopped", "failed"
  busy,       \* workers in the middle of a round
  started,    \* registerShutdownSignals: a signal has been taken
  closing,    \* ApplicationLifecycle.closing
  phase,      \* of performShutdown
  http,       \* "open", "closing", "closed", "failed"
  res,        \* "open", "closing", "closed", "failed"
  closes,     \* how often the close of a resource was called
  deadline,   \* the timer of shutdown: "off", "armed", "fired"
  outcome,    \* of the promise of shutdown: "pending", "resolved", "rejected"
  exit        \* "none", "0", "1"

vars == <<req, worker, busy, started, closing, phase, http, res, closes, deadline, outcome, exit>>

Init ==
  /\ req = [r \in Requests |-> "new"]
  /\ worker = [w \in Workers |-> "importing"]
  /\ busy = {}
  /\ started = FALSE /\ closing = FALSE /\ phase = "none"
  /\ http = "open"
  /\ res = [x \in Resources |-> "open"]
  /\ closes = [x \in Resources |-> 0]
  /\ deadline = "off" /\ outcome = "pending" /\ exit = "none"

Alive == exit = "none"
Active == {r \in Requests : req[r] = "active"}
shutdownVars == <<started, closing, phase, http, res, closes, deadline, outcome, exit>>

-----------------------------------------------------------------------------
(* Requests and workers. *)

trackRequests(r) ==
  /\ Alive /\ req[r] = "new" /\ http = "open"
  /\ req' = [req EXCEPT ![r] = "active"]
  /\ UNCHANGED <<worker, busy, shutdownVars>>

done(r) ==
  /\ Alive /\ req[r] = "active"
  /\ req' = [req EXCEPT ![r] = "done"]
  /\ UNCHANGED <<worker, busy, shutdownVars>>

\* An initialiser after its import: nothing once the shutdown has begun, else
\* registerStop and the start, without an await between the test and these.
registerStop(w) ==
  /\ Alive /\ worker[w] = "importing"
  /\ worker' = [worker EXCEPT ![w] = IF closing THEN "absent" ELSE "running"]
  /\ UNCHANGED <<req, busy, shutdownVars>>

beginRound(w) ==
  /\ Alive /\ worker[w] = "running" /\ w \notin busy
  /\ busy' = busy \cup {w}
  /\ UNCHANGED <<req, worker, shutdownVars>>

endRound(w) ==
  /\ Alive /\ w \in busy
  /\ busy' = busy \ {w}
  /\ UNCHANGED <<req, worker, shutdownVars>>

Stoppable(w) == w \in Awaited => w \notin busy

\* The stop hook of a worker settles.
stopWorker(w) ==
  /\ Alive /\ worker[w] = "stopping" /\ Stoppable(w)
  /\ \E s \in {"stopped", "failed"} : worker' = [worker EXCEPT ![w] = s]
  /\ UNCHANGED <<req, busy, shutdownVars>>

-----------------------------------------------------------------------------
(* The shutdown. *)

\* SIGTERM or SIGINT; only the first starts a shutdown.
signal ==
  /\ Alive /\ started' = TRUE
  /\ UNCHANGED <<req, worker, busy, closing, phase, http, res, closes, deadline, outcome, exit>>

shutdown ==
  /\ Alive /\ started /\ phase = "none"
  /\ closing' = TRUE /\ deadline' = "armed" /\ phase' = "called"
  /\ UNCHANGED <<req, worker, busy, started, http, res, closes, outcome, exit>>

\* performShutdown: server.close and the hooks registered so far.
performShutdown ==
  /\ Alive /\ phase = "called"
  /\ phase' = "stopping" /\ http' = "closing"
  /\ worker' = [w \in Workers |-> IF worker[w] = "running" THEN "stopping" ELSE worker[w]]
  /\ UNCHANGED <<req, busy, started, closing, res, closes, deadline, outcome, exit>>

\* The callback of server.close: no request is left, or the close failed.
serverClosed ==
  /\ Alive /\ http = "closing"
  /\ \/ Active = {} /\ http' = "closed"
     \/ http' = "failed"
  /\ UNCHANGED <<req, worker, busy, started, closing, phase, res, closes, deadline, outcome, exit>>

\* closeResources: the first caller calls every close, the others share it.
closeResources ==
  IF \E x \in Resources : closes[x] > 0
  THEN UNCHANGED <<res, closes>>
  ELSE /\ res' = [x \in Resources |-> "closing"]
       /\ closes' = [x \in Resources |-> 1]

\* Mutant: the hooks have settled, and nobody waits for the server.
SettledHooks == \A w \in Workers : worker[w] # "stopping"

\* The hooks and the server's close have settled, well or not.
Settled == /\ \A w \in Workers : worker[w] # "stopping"
           /\ http \in {"closed", "failed"}

afterStops ==
  /\ Alive /\ phase = "stopping" /\ Settled
  /\ phase' = "closing"
  /\ closeResources
  /\ UNCHANGED <<req, worker, busy, started, closing, http, deadline, outcome, exit>>

closeResource(x) ==
  /\ Alive /\ res[x] = "closing"
  /\ \E s \in {"closed", "failed"} : res' = [res EXCEPT ![x] = s]
  /\ UNCHANGED <<req, worker, busy, started, closing, phase, http, closes, deadline, outcome, exit>>

Failure ==
  \/ http = "failed"
  \/ \E w \in Workers : worker[w] = "failed"
  \/ \E x \in Resources : res[x] = "failed"

\* The resources' closes have settled: the promise takes its outcome, unless
\* the deadline settled it before.
afterCloses ==
  /\ Alive /\ phase = "closing"
  /\ \A x \in Resources : res[x] \in {"closed", "failed"}
  /\ phase' = "ended"
  /\ outcome' = IF outcome # "pending" THEN outcome ELSE IF Failure THEN "rejected" ELSE "resolved"
  /\ UNCHANGED <<req, worker, busy, started, closing, http, res, closes, deadline, exit>>

\* The timer of shutdown, which finally clears when the promise is settled:
\* connections are cut, the resources closed, and the promise is rejected.
deadlineFires ==
  /\ Alive /\ deadline = "armed" /\ outcome = "pending"
  /\ deadline' = "fired" /\ outcome' = "rejected"
  /\ req' = [r \in Requests |-> IF req[r] = "active" THEN "cut" ELSE req[r]]
  /\ closeResources
  /\ UNCHANGED <<worker, busy, started, closing, phase, http, exit>>

finish(code) == Alive /\ exit' = code

exitOnOutcome ==
  /\ outcome # "pending"
  /\ finish(IF outcome = "resolved" THEN "0" ELSE "1")
  /\ UNCHANGED <<req, worker, busy, started, closing, phase, http, res, closes, deadline, outcome>>

\* The timer of the signal handler is due a second after the deadline.
hardExit ==
  /\ deadline = "fired"
  /\ finish("1")
  /\ UNCHANGED <<req, worker, busy, started, closing, phase, http, res, closes, deadline, outcome>>

Rest == exit # "none" /\ UNCHANGED vars

System == shutdown \/ performShutdown \/ afterStops \/ afterCloses \/ exitOnOutcome

Next ==
  \/ \E r \in Requests : trackRequests(r) \/ done(r)
  \/ \E w \in Workers : registerStop(w) \/ beginRound(w) \/ endRound(w) \/ stopWorker(w)
  \/ \E x \in Resources : closeResource(x)
  \/ System \/ signal \/ serverClosed \/ deadlineFires \/ hardExit \/ Rest

Spec == Init /\ [][Next]_vars

\* Promise callbacks run and timers fire; requests, workers and drivers may
\* take for ever.
FairSpec == Spec /\ WF_vars(System) /\ WF_vars(deadlineFires) /\ WF_vars(hardExit)

-----------------------------------------------------------------------------
\* Every variable is of its kind, and a phase entails its flags.
TypeOK ==
  /\ req \in [Requests -> {"new", "active", "done", "cut"}]
  /\ worker \in [Workers -> {"importing", "absent", "running", "stopping", "stopped", "failed"}]
  /\ busy \subseteq Workers
  /\ closing = (phase # "none") /\ closing => started
  /\ http \in {"open", "closing", "closed", "failed"}
  /\ exit \in {"none", "0", "1"}

Closing == \E x \in Resources : res[x] # "open"

\* A request keeps its database and Redis until it is answered: before the
\* deadline nothing is closed while one is active, unless server.close failed.
RequestsKeepResources ==
  Closing /\ deadline # "fired" /\ http # "failed" => Active = {}

\* A worker whose stop waits for its round is not cut off from the database in
\* the middle of one before the deadline.
RoundsKeepResources ==
  Closing /\ deadline # "fired" => busy \cap Awaited = {}

\* Exit code 0 means a complete shutdown: no request was cut or is active, no
\* worker runs, everything is closed, and no stop or close failed.
CleanExit ==
  exit = "0" =>
    /\ \A r \in Requests : req[r] \in {"new", "done"}
    /\ \A w \in Workers : worker[w] \notin {"running", "stopping", "failed"}
    /\ \A x \in Resources : res[x] = "closed"
    /\ http = "closed" /\ deadline # "fired"

\* A worker that finds the shutdown begun after its import never runs, so that
\* no worker is left without a stop.
NoLateWorker == phase \notin {"none", "called"} => \A w \in Workers : worker[w] # "running"

\* The deadline and the orderly shutdown never both close a resource.
ClosedOnce == \A x \in Resources : closes[x] <= 1

\* What an orderly shutdown promises: performShutdown takes the database and
\* Redis from no request in flight, and reports success for a complete
\* shutdown only.
ShutdownSound == RequestsKeepResources /\ CleanExit

=============================================================================
