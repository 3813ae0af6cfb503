------------------------------ MODULE Backends ------------------------------
(***************************************************************************)
(* What the service stands on, four families that share no state:          *)
(*  - "migrations": db/migrationRunner.ts and scripts/migrate.ts, started  *)
(*    by several operators without a lock;                                 *)
(*  - "queries": the pool, withTransaction and the query budget of a       *)
(*    request, db/pool.ts, db/connection.ts, middleware/queryBudget.ts;    *)
(*  - "kms": the signing adapters services/hsm/aws-kms-adapter.ts and      *)
(*    gcp-kms-adapter.ts over utils/retry-policy.ts;                       *)
(*  - "profiles": buyer-profile, a map of profiles and two indexes.        *)
(***************************************************************************)
EXTENDS Integers, Sequences, FiniteSets, FiniteSetsExt, SequencesExt

CONSTANTS
  Ops, MaxOps, MayFail,
  MayOverlap,             \* several migration runners at a time
  NMigrations, Runners, Commands,
  Statements, MaxClients,
  Provider, NRegions, maxRetries, MaxLost,
  Users, Emails, MaxProfiles

VARIABLES
  ops,
  registered, applied, schema, runner,         \* migrations
  free, ctx, conn,                             \* queries
  call,                                        \* kms
  profiles, userIdIndex, emailIndex, patched   \* profiles

migrationVars == <<registered, applied, schema, runner>>
queryVars == <<free, ctx, conn>>
kmsVars == <<call>>
profileVars == <<profiles, userIdIndex, emailIndex, patched>>
vars == <<ops, migrationVars, queryVars, kmsVars, profileVars>>
op(family) == family \in Ops /\ ops < MaxOps /\ ops' = ops + 1

(***************************************************************************)
(* Migrations. schema[i] is what the committed up and down scripts of      *)
(* migration i leave: 1 after up, one less after each down.                *)
(***************************************************************************)
IdleRunner == [pc |-> "idle", todo |-> <<>>]
firstN(s, count) == IF count = 0 THEN s ELSE SubSeq(s, 1, IF count < Len(s) THEN count ELSE Len(s))
pending == SelectSeq([i \in 1..registered |-> i], LAMBDA i : i \notin applied)
toRollback == Reverse(SelectSeq([i \in 1..registered |-> i], LAMBDA i : i \in applied))

\* A release adds a migration to the registry.
deploy ==
  /\ op("migrations") /\ registered < NMigrations /\ registered' = registered + 1
  /\ UNCHANGED <<applied, schema, runner, queryVars, kmsVars, profileVars>>

\* up and down read the applied migrations once; count = 0 is "all".
up(r, count) ==
  /\ op("migrations") /\ "up" \in Commands /\ runner[r].pc = "idle"
  /\ MayOverlap \/ \A q \in Runners : runner[q].pc = "idle"
  /\ runner' = [runner EXCEPT ![r] = [pc |-> "up", todo |-> firstN(pending, count)]]
  /\ UNCHANGED <<registered, applied, schema, queryVars, kmsVars, profileVars>>

down(r, count) ==
  /\ op("migrations") /\ "down" \in Commands /\ runner[r].pc = "idle"
  /\ MayOverlap \/ \A q \in Runners : runner[q].pc = "idle"
  /\ runner' = [runner EXCEPT ![r] = [pc |-> "down", todo |-> firstN(toRollback, count)]]
  /\ UNCHANGED <<registered, applied, schema, queryVars, kmsVars, profileVars>>

\* The primary key of schema_migrations refuses a second record.
recordMigration(i) == i \notin applied

\* One transaction: the script and its record. "lost" is a COMMIT that took
\* effect and was not answered. A failure ends the run.
migrate(r, outcome) ==
  LET i == Head(runner[r].todo)
      goesUp == runner[r].pc = "up"
      commits == outcome # "fails" /\ (goesUp => recordMigration(i))
  IN  /\ runner[r].pc # "idle" /\ runner[r].todo # <<>>
      /\ applied' = IF ~commits THEN applied ELSE IF goesUp THEN applied \cup {i} ELSE applied \ {i}
      /\ schema' = IF commits THEN [schema EXCEPT ![i] = @ + (IF goesUp THEN 1 ELSE -1)] ELSE schema
      /\ runner' = [runner EXCEPT ![r] =
           IF commits /\ outcome = "ok" THEN [@ EXCEPT !.todo = Tail(@)] ELSE IdleRunner]
      /\ UNCHANGED <<ops, registered, queryVars, kmsVars, profileVars>>

finish(r) ==
  /\ runner[r].pc # "idle" /\ runner[r].todo = <<>>
  /\ runner' = [runner EXCEPT ![r] = IdleRunner]
  /\ UNCHANGED <<ops, registered, applied, schema, queryVars, kmsVars, profileVars>>

\* detectDrift: an applied migration the registry lacks, and one that was
\* applied at another position than it is registered at.
driftErrors == applied \ 1..registered
driftWarnings == {i \in applied : Cardinality({j \in applied : j < i}) # i - 1}
driftCheck == driftErrors = {}

\* The commands; down rolls back one migration unless told otherwise.
main(r) == \E n \in 0..1 : up(r, n) \/ down(r, n + 1)

MigrationsNext ==
  \/ deploy
  \/ \E r \in Runners : main(r)
  \/ \E r \in Runners : finish(r) \/ \E o \in {"ok", "fails", "lost"} : (o = "ok" \/ MayFail) /\ migrate(r, o)

(***************************************************************************)
(* Queries. The statements of one request share its budget context; each   *)
(* goes through query or withTransaction.                                  *)
(***************************************************************************)
IdleConn == [pc |-> "idle", by |-> "query", open |-> FALSE, limited |-> FALSE]
NewContext == [breached |-> FALSE, breaches |-> 0, unlimited |-> FALSE]
goes(q, c) == conn' = [conn EXCEPT ![q] = c]

\* Once the budget is breached query falls back to the pool's own query.
query(q) ==
  /\ op("queries") /\ conn[q].pc = "idle"
  /\ goes(q, [IdleConn EXCEPT !.pc = IF ctx.breached THEN "plain" ELSE "connect"])
  /\ UNCHANGED <<migrationVars, free, ctx, kmsVars, profileVars>>

withTransaction(q) ==
  /\ op("queries") /\ conn[q].pc = "idle"
  /\ goes(q, [IdleConn EXCEPT !.pc = "connect", !.by = "transaction"])
  /\ UNCHANGED <<migrationVars, free, ctx, kmsVars, profileVars>>

plain(q) ==
  /\ conn[q].pc = "plain" /\ free > 0 /\ goes(q, IdleConn)
  /\ ctx' = [ctx EXCEPT !.unlimited = TRUE]
  /\ UNCHANGED <<ops, migrationVars, free, kmsVars, profileVars>>

connect(q, works) ==
  /\ conn[q].pc = "connect" /\ (works => free > 0)
  /\ free' = IF works THEN free - 1 ELSE free
  /\ goes(q, IF works THEN [conn[q] EXCEPT !.pc = "begin"] ELSE IdleConn)
  /\ UNCHANGED <<ops, migrationVars, ctx, kmsVars, profileVars>>

\* Both callers clean up by ROLLBACK; query does not when BEGIN failed.
cleanup(c) == IF c.by = "query" /\ ~c.open THEN "release" ELSE "rollback"
afterFailure(c) == [c EXCEPT !.pc = cleanup(c)]

\* query set its mind before connecting, withTransaction reads the context
\* after BEGIN.
begin(q, works) ==
  /\ conn[q].pc = "begin"
  /\ goes(q, IF works THEN [conn[q] EXCEPT !.open = TRUE,
                 !.pc = IF conn[q].by = "query" \/ ~ctx.breached THEN "set" ELSE "run"]
             ELSE afterFailure(conn[q]))
  /\ UNCHANGED <<ops, migrationVars, free, ctx, kmsVars, profileVars>>

setLocal(q, works) ==
  /\ conn[q].pc = "set"
  /\ goes(q, IF works THEN [conn[q] EXCEPT !.pc = "run", !.limited = TRUE] ELSE afterFailure(conn[q]))
  /\ UNCHANGED <<ops, migrationVars, free, ctx, kmsVars, profileVars>>

recordBreach(c) == IF c.breached THEN c ELSE [c EXCEPT !.breached = TRUE, !.breaches = @ + 1]

\* The statement is done, cancelled by its timeout (57014) or fails.
run(q, outcome) ==
  /\ conn[q].pc = "run" /\ (outcome = "cancelled" => conn[q].limited)
  /\ ctx' = IF outcome = "cancelled" THEN recordBreach(ctx)
            ELSE [ctx EXCEPT !.unlimited = @ \/ ~conn[q].limited]
  /\ goes(q, IF outcome = "ok" THEN [conn[q] EXCEPT !.pc = "commit"] ELSE afterFailure(conn[q]))
  /\ UNCHANGED <<ops, migrationVars, free, kmsVars, profileVars>>

commit(q, works) ==
  /\ conn[q].pc = "commit"
  /\ goes(q, IF works THEN [conn[q] EXCEPT !.pc = "release", !.open = FALSE] ELSE afterFailure(conn[q]))
  /\ UNCHANGED <<ops, migrationVars, free, ctx, kmsVars, profileVars>>

\* A ROLLBACK that fails is logged; its connection is broken and pg drops it.
rollback(q) ==
  /\ conn[q].pc = "rollback" /\ goes(q, [conn[q] EXCEPT !.pc = "release", !.open = FALSE])
  /\ UNCHANGED <<ops, migrationVars, free, ctx, kmsVars, profileVars>>

release(q) ==
  /\ conn[q].pc = "release" /\ free' = free + 1 /\ goes(q, IdleConn)
  /\ UNCHANGED <<ops, migrationVars, ctx, kmsVars, profileVars>>

\* The response is sent; the next request has a context of its own.
nextRequest ==
  /\ op("queries") /\ \A q \in Statements : conn[q].pc = "idle"
  /\ ctx # NewContext /\ ctx' = NewContext
  /\ UNCHANGED <<migrationVars, free, conn, kmsVars, profileVars>>

QueriesNext ==
  \/ nextRequest
  \/ \E q \in Statements :
       \/ query(q) \/ withTransaction(q) \/ plain(q) \/ rollback(q) \/ release(q)
       \/ \E works \in BOOLEAN :
            (works \/ MayFail) /\ (connect(q, works) \/ begin(q, works) \/ setLocal(q, works) \/ commit(q, works))
       \/ \E o \in {"ok", "cancelled", "error"} : (o = "ok" \/ MayFail) /\ run(q, o)

(***************************************************************************)
(* Signing keys. A call walks through stages, each a provider request      *)
(* tried in the regions in order and, in a region, up to maxRetries + 1    *)
(* times. A "lost" request took effect and its answer never came. made     *)
(* counts the versions created in each region, destroyed holds the regions *)
(* whose previous version was destroyed, previous is the region that the   *)
(* name of the previous version spells.                                    *)
(***************************************************************************)
IdleCall == [kind |-> "none", stage |-> 1, region |-> 1, attempt |-> 0, sends |-> 0,
             previous |-> 1, made |-> [r \in 1..NRegions |-> 0], lost |-> 0, destroyed |-> {}, over |-> FALSE,
             cause |-> "none", ended |-> "no"]

classifyAwsError(err) ==
  CASE err = "NotFound" -> "KEY_NOT_FOUND" [] err = "AccessDenied" -> "PERMISSION_DENIED"
    [] err = "Disabled" -> "KEY_DISABLED" [] err = "InvalidKeyUsage" -> "ALGORITHM_MISMATCH"
    [] err \in {"Throttling", "Internal", "Validation"} -> "PROVIDER_ERROR"
    [] OTHER -> "UNKNOWN"

isRetriable(err) == err \in {"Throttling", "Internal"}
isRetriableGcp(err) == err \in {"UNAVAILABLE", "DEADLINE_EXCEEDED", "RESOURCE_EXHAUSTED", "ABORTED"}

classifyGcpError(err) ==
  CASE err = "NOT_FOUND" -> "KEY_NOT_FOUND" [] err \in {"PERMISSION_DENIED", "UNAUTHENTICATED"} -> "PERMISSION_DENIED"
    [] err = "INVALID_ALGORITHM" -> "ALGORITHM_MISMATCH" [] err \in {"INVALID_DISABLED", "FAILED_PRECONDITION"} -> "KEY_DISABLED"
    [] err \in {"INVALID_ARGUMENT", "INTERNAL"} \/ isRetriableGcp(err) -> "PROVIDER_ERROR"
    [] OTHER -> "UNKNOWN"

\* A time-out of the connection is no KMSServiceException, and gRPC's
\* DEADLINE_EXCEEDED.
aws == Provider = "aws"
lostAs == IF aws THEN "TimeoutError" ELSE "DEADLINE_EXCEEDED"

errors == IF aws THEN {"NotFound", "Disabled", "Throttling", "Validation", "TimeoutError"}
          ELSE {"NOT_FOUND", "FAILED_PRECONDITION", "UNAVAILABLE", "INTERNAL", "DEADLINE_EXCEEDED"}

retriable(err) == IF aws THEN isRetriable(err) ELSE isRetriableGcp(err)
classified(err) == IF aws THEN classifyAwsError(err) ELSE classifyGcpError(err)

awsRotate == <<"describe", "rotate", "describe">>

\* Mutant: the previous version is destroyed before its successor exists.
gcpRotateDestroyFirst(kind) == <<"destroy", "rotate">>

\* The previous version is in the request ("rotateVersion"), is the primary
\* ("rotate"), or is not there to destroy ("rotateFresh").
gcpRotate(kind) ==
  CASE kind = "rotate" -> <<"describe", "rotate", "destroy">>
    [] kind = "rotateVersion" -> <<"rotate", "destroy">>
    [] OTHER -> <<"describe", "rotate">>

kinds == {"sign", "verify", "rotate"} \cup (IF aws THEN {} ELSE {"rotateVersion", "rotateFresh"})

stagesOf(kind) ==
  IF kind \in {"sign", "verify"} THEN <<kind>> ELSE IF aws THEN awsRotate ELSE gcpRotate(kind)

stage == stagesOf(call.kind)[call.stage]

ask(kind) ==
  /\ op("kms") /\ call.kind = "none" /\ call' = [IdleCall EXCEPT !.kind = kind]
  /\ UNCHANGED <<migrationVars, queryVars, profileVars>>

\* RetryPolicy.execute. The AWS adapter gives no shouldRetry: every error is
\* retried; the GCP adapter retries what isRetriableGcp accepts.
shouldRetry(err) == call.attempt < maxRetries /\ (aws \/ isRetriableGcp(err))

\* An error of the key is thrown at once, and so is one that is still the
\* provider's own when the retries are used up; any other goes on.
KeyErrors == {"KEY_NOT_FOUND", "PERMISSION_DENIED", "ALGORITHM_MISMATCH", "KEY_DISABLED"}

withRegionFailover(err) ==
  ~retriable(err) /\ classified(err) \notin KeyErrors /\ call.region < NRegions

withLocationFailover(err) ==
  ~retriable(err) /\ classified(err) \notin KeyErrors /\ call.region < NRegions

failsOver(err) == IF aws THEN withRegionFailover(err) ELSE withLocationFailover(err)

\* The failure of a destroy is swallowed.
swallowed == stage = "destroy"

nextStage(c) ==
  IF c.stage = Len(stagesOf(c.kind)) THEN [c EXCEPT !.ended = "ok"]
  ELSE [c EXCEPT !.stage = @ + 1, !.region = 1, !.attempt = 0]

\* replaceLocation: the first location is asked for the name as it is.
resolved == IF call.region = 1 /\ stage = "destroy" THEN call.previous ELSE call.region

effect(c) ==
  CASE stage = "rotate" -> [c EXCEPT !.made[resolved] = @ + 1]
    [] stage = "destroy" -> [c EXCEPT !.destroyed = @ \cup {resolved}]
    [] OTHER -> c

\* The version to destroy is the primary of the location that described the key.
described(c) == IF stage = "describe" /\ c.stage = 1 THEN [c EXCEPT !.previous = resolved] ELSE c

afterError(c, err) ==
  CASE shouldRetry(err) -> [c EXCEPT !.attempt = @ + 1]
    [] ~shouldRetry(err) /\ failsOver(err) -> [c EXCEPT !.region = @ + 1, !.attempt = 0, !.over = TRUE]
    [] OTHER -> IF swallowed THEN nextStage(c) ELSE [c EXCEPT !.ended = classified(err), !.cause = err]

send(outcome) ==
  LET sent == [call EXCEPT !.sends = @ + 1]
  IN  /\ call.kind # "none" /\ call.ended = "no" /\ (outcome = "lost" => call.lost < MaxLost)
      /\ call' = CASE outcome = "ok" -> nextStage(described(effect(sent)))
                   [] outcome = "lost" -> afterError([effect(sent) EXCEPT !.lost = @ + 1], lostAs)
                   [] OTHER -> afterError(sent, outcome)
      /\ UNCHANGED <<ops, migrationVars, queryVars, profileVars>>

answered ==
  /\ call.ended # "no" /\ call' = IdleCall
  /\ UNCHANGED <<ops, migrationVars, queryVars, profileVars>>

KmsNext ==
  \/ \E kind \in kinds : ask(kind)
  \/ \E o \in {"ok", "lost"} \cup errors : (o = "ok" \/ MayFail) /\ send(o)
  \/ answered

(***************************************************************************)
(* Buyer profiles. 0 is a field without a value. The controllers await     *)
(* only resolved promises, so that a handler is one step.                  *)
(***************************************************************************)
has(index, key) == \E e \in index : e[1] = key
live(id) == id \in 1..Len(profiles) /\ ~profiles[id].deleted
mayTouch(user, id) == user = "admin" \/ profiles[id].user = user

createProfile(user, email) ==
  LET id == Len(profiles) + 1
      unused == ~has(userIdIndex, user) /\ ~has(emailIndex, email)
  IN  /\ op("profiles") /\ Len(profiles) < MaxProfiles
      /\ profiles' = IF unused THEN Append(profiles, [user |-> user, email |-> email, fullName |-> 1, phone |-> 1,
                                                     deleted |-> FALSE]) ELSE profiles
      /\ userIdIndex' = IF unused THEN userIdIndex \cup {<<user, id>>} ELSE userIdIndex
      /\ emailIndex' = IF unused THEN emailIndex \cup {<<email, id>>} ELSE emailIndex
      /\ patched' = {} /\ UNCHANGED <<migrationVars, queryVars, kmsVars>>

\* The email index follows a changed email.
reindexed(index, old, new, id) == {e \in index : e[1] # old} \cup {<<new, id>>}

\* The controller names every field of the body, so that service.update
\* spreads an omitted one (0) over the stored value; the email is kept.
merged(p, data) ==
  [p EXCEPT !.fullName = data.fullName, !.phone = data.phone,
            !.email = IF data.email = 0 THEN p.email ELSE data.email]

updateProfile(id, data) ==
  LET p == profiles[id]
      moves == data.email # 0 /\ data.email # p.email
      taken == moves /\ \E e \in emailIndex : e[1] = data.email /\ live(e[2]) /\ e[2] # id
  IN  /\ op("profiles") /\ live(id) /\ ~taken
      /\ profiles' = [profiles EXCEPT ![id] = merged(p, data)]
      /\ emailIndex' = IF moves THEN reindexed(emailIndex, p.email, data.email, id) ELSE emailIndex
      /\ patched' = {[before |-> p, given |-> data, after |-> merged(p, data)]}
      /\ UNCHANGED <<migrationVars, queryVars, kmsVars, userIdIndex>>

\* A soft delete frees the user and the email.
unindexedUser(p) == {e \in userIdIndex : e[1] # p.user}

deleteProfile(id) ==
  LET p == profiles[id]
  IN  /\ op("profiles") /\ live(id)
      /\ profiles' = [profiles EXCEPT ![id].deleted = TRUE]
      /\ userIdIndex' = unindexedUser(p)
      /\ emailIndex' = {e \in emailIndex : e[1] # p.email}
      /\ patched' = {} /\ UNCHANGED <<migrationVars, queryVars, kmsVars>>

getById(id) == IF live(id) THEN {profiles[id]} ELSE {}
getByUserId(user) == UNION {getById(e[2]) : e \in {x \in userIdIndex : x[1] = user}}
getByEmail(email) == UNION {getById(e[2]) : e \in {x \in emailIndex : x[1] = email}}
list == {profiles[id] : id \in {i \in 1..Len(profiles) : live(i)}}
validateUpdateBuyerProfileDTO(data) == \E f \in {"fullName", "email", "phone"} : data[f] # 0
postProfile == \E user \in Users, email \in Emails : createProfile(user, email)

patchProfile ==
  \E user \in Users \cup {"admin"}, id \in 1..Len(profiles),
     data \in [fullName : {0, 2}, email : Emails \cup {0}, phone : {0, 2}] :
    mayTouch(user, id) /\ validateUpdateBuyerProfileDTO(data) /\ updateProfile(id, data)

removeProfile ==
  \E user \in Users \cup {"admin"}, id \in 1..Len(profiles) : mayTouch(user, id) /\ deleteProfile(id)

ProfilesNext == postProfile \/ patchProfile \/ removeProfile

(***************************************************************************)
Init ==
  /\ ops = 0
  /\ registered = 1 /\ applied = {} /\ schema = [i \in 1..NMigrations |-> 0]
  /\ runner = [r \in Runners |-> IdleRunner]
  /\ free = MaxClients /\ ctx = NewContext /\ conn = [q \in Statements |-> IdleConn]
  /\ call = IdleCall
  /\ profiles = <<>> /\ userIdIndex = {} /\ emailIndex = {} /\ patched = {}

Next == MigrationsNext \/ QueriesNext \/ KmsNext \/ ProfilesNext
Spec == Init /\ [][Next]_vars

\* What schema_migrations records is what the committed scripts left in the
\* database, whatever failed, was not answered or ran beside (up ||| up); and
\* as long as runs do not overlap, the applied migrations are the oldest
\* ones, so that drift-check has nothing to report.
RecordedIsApplied ==
  /\ \A i \in 1..NMigrations : schema[i] = (IF i \in applied THEN 1 ELSE 0)
  /\ ~MayOverlap => driftCheck /\ driftWarnings = {}

\* The pool loses no client: what is not free is held by exactly one
\* statement; a client comes back without an open transaction; and of the
\* statements of one request that run out of time one reports the breach.
PoolIsKept ==
  /\ free + Cardinality({q \in Statements : conn[q].pc \in {"begin", "set", "run", "commit", "rollback", "release"}})
       = MaxClients
  /\ \A q \in Statements : conn[q].pc = "release" => ~conn[q].open
  /\ ctx.breaches = (IF ctx.breached THEN 1 ELSE 0)

\* A rotation that is reported done has made a version, one more only for each
\* answer that was lost.  The previous version is destroyed only once there is a
\* new one, and as long as no request failed over, in the region of the new one:
\* otherwise the destroyed version may be the only one of its region
\* (gcp-kms-adapter.ts:346-371).  A key's own error is reported at once; any other
\* after every region was tried, but for one that the retry policy gives up on,
\* which is reported from the region that met it (gcp-kms-adapter.ts:431-432,
\* aws-kms-adapter.ts:358-359), where the headers promise the next region on
\* unavailability (gcp-kms-adapter.ts:31-34, aws-kms-adapter.ts:14-16).
KeysSound ==
  LET rotates == call.kind \notin {"none", "sign", "verify"}
      versions == SumFunction(call.made)
  IN  /\ call.ended = "ok" /\ rotates => versions >= 1
      /\ versions <= 1 + call.lost
      /\ call.destroyed # {} => versions >= 1
      /\ ~call.over => \A r \in call.destroyed : call.made[r] >= 1
      /\ call.ended \in {"PROVIDER_ERROR", "UNKNOWN"} =>
           call.region = NRegions \/ (retriable(call.cause) /\ call.attempt = maxRetries)
      /\ call.kind # "none" => call.sends <= call.stage * NRegions * (maxRetries + 1)

\* One live profile per user and per email, and each index finds exactly the
\* live profiles: create, update and delete keep map and indexes together.
ProfilesSound ==
  /\ \A user \in Users : getByUserId(user) = {p \in list : p.user = user}
  /\ \A email \in Emails : getByEmail(email) = {p \in list : p.email = email}
  /\ Cardinality(userIdIndex) = Cardinality({i \in 1..Len(profiles) : live(i)})
  /\ Cardinality(emailIndex) = Cardinality(userIdIndex)

\* The four families together.
BackendsSound == RecordedIsApplied /\ PoolIsKept /\ KeysSound /\ ProfilesSound

=============================================================================
