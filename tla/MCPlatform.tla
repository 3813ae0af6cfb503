---------------------------- MODULE MCPlatform ----------------------------
(***************************************************************************)
(* The machinery that every feature runs on: the shutdown of the process,  *)
(* the outbox with its relay, the idempotency middleware, the rotation of  *)
(* key encryption keys, feature rollouts, quotas, credentials, backends,   *)
(* the oversight of operators, data subjects, records, and the background  *)
(* chores.                                                                 *)
(* They share no state, so one of them runs at a time while the others     *)
(* stay in their initial state: the states of each are those of the        *)
(* product.                                                                *)
(***************************************************************************)
EXTENDS Machinery

CONSTANTS Parts   \* the parts that run

VARIABLES
  part,
  rolloutTime, rolloutOps, enabled, schedules, currentByKey, timer, isRunning,
  quotaTime, quotaRow, quotaReq, served, warned, asked,
  quarter, snapshots, attestations, reviewFile, up, running, check, save, saves, forced, report,
  sessions, initialized, unread, trail, torn, pendingWrite, writes, line, auditCall, sent, acked, swallowed, detached,
  trailFaults,
  subjectTime, subjectOps, personal, held, erasure, receipts, edited, exports, exporting, dsr, alerting,
  alertLoop, alerts,
  recordTime, recordOps, activeKek, segments, calls, appended, swept, evidence, anchored, auditFile, queue,
  spent, charged, auditExports, alarms, delivered, archive, walCheck, walReport,
  choreOps, choreTime, reminders, claims, proc, reminding, concurrency, since, burst, sms, expired, refunder,
  credentialOps, credentialTime, pc, factor, code, challenge, used, guard, cookies, flows, issued, intent,
  locks, mints, health, revoked, bus, acks, alarm,
  backendOps, registered, applied, schema, runner, free, ctx, conn, kmsCall, profiles, userIdIndex,
  emailIndex, patched

Req(id, who, body) ==
  [id |-> id, principal |-> who, method |-> "POST", route |-> "checkout",
   key |-> "k", url |-> "checkout", body |-> body]

\* A request and its retry, the key with another body, and another caller's
\* request with the same key.
OtherBody == Req(3, "alice", "b2")
OtherCaller == Req(4, "bob", "b1")
OneKey == {Req(1, "alice", "b1"), Req(2, "alice", "b1"), OtherBody, OtherCaller}

\* Four rows, one rotated already and one under an unexpected KEK.
MixedKeks == <<"old", "new", "other", "old">>

-----------------------------------------------------------------------------
(* Rollouts and quotas.                                                    *)

Step(p, a) == [percentage |-> p, at |-> a]

\* A plan in three steps and one whose percentages fall.
Plans == {<<Step(10, 1), Step(50, 2), Step(100, 3)>>, <<Step(40, 0), Step(30, 1)>>}

Rollout == INSTANCE FlagRollouts WITH
  Tenants <- {"t"}, ALL_TENANTS <- "*", Buckets <- {0, 9, 10, 55}, MaxSchedules <- 2, MaxTime <- 3, MaxOps <- 4,
  now <- rolloutTime, ops <- rolloutOps

\* Requests in turn, or two at a time, on the store in memory and on the one the
\* middleware uses; the latter with a limit of one a day, the only one it ever
\* refuses at.
QuotaParts == {"quota", "quota overlap", "quota sql"}
Quota(p) == INSTANCE PartnerQuota WITH
  Store <- IF p = "quota sql" THEN "sql" ELSE "memory", Day <- 2, Month <- 4,
  daily_limit <- IF p = "quota sql" THEN 1 ELSE 2, monthly_limit <- 3,
  Requests <- IF p = "quota" THEN {"q"} ELSE {"q", "r"}, MaxFailures <- 1,
  MaxTime <- IF p = "quota" THEN 4 ELSE 2, MaxRequests <- IF p = "quota" THEN 5 ELSE 4,
  now <- quotaTime, row <- quotaRow, req <- quotaReq

-----------------------------------------------------------------------------
(* The oversight of operators.                                             *)

Acyclic == [a |-> {"s"}, s |-> {"u"}, u |-> {}]
Cyclic == [a |-> {"u"}, u |-> {"a"}]

\* Two quarters around a new year and one after a gap; a cyclic configuration.  A
\* snapshot is forced or a second attestation made.
Review == INSTANCE AccessReview WITH
  Months <- <<35, 36, 40>>, Configs <- <<Acyclic, Cyclic, Acyclic>>, Reviewers <- {"x"}, Outcomes <- {"approved"},
  DEFAULT_LIST_LIMIT <- 1, Lookback <- 3, Checks <- {"c1"}, MaxSnapshots <- 2, MaxAttestations <- 2,
  MaxForced <- 1, MayCrash <- TRUE, MaxSaves <- 1, Savers <- {"p"}, now <- quarter, file <- reviewFile

\* The trail of a session with calls in turn, and with two at a time; the process
\* dies, and a write or the replay fails, or only one of these.
TrailParts == {"trail", "trail overlap"}
Trail(p) == INSTANCE Impersonation WITH
  Sessions <- {"s"}, Calls <- IF p = "trail" THEN {"c"} ELSE {"c", "d"},
  MaxRequests <- IF p = "trail" THEN 3 ELSE 2, MaxCrashes <- 1, MaxFailures <- 1, MayOverlap <- p = "trail overlap",
  file <- trail, chain <- writes, call <- auditCall, faults <- trailFaults

-----------------------------------------------------------------------------
(* Data subjects and records.                                              *)

DependsOn ==
  [users |-> {"checkout_sessions", "booking_intents"}, checkout_sessions |-> {}, booking_intents |-> {}]
TableOf == [u |-> "users", c |-> "checkout_sessions", b |-> "booking_intents"]

\* Erasures and exports that overlap and fail; then the deadlines of requests,
\* with operators that wait for the worker.
SubjectParts == {"erasure", "deadlines"}
Subject(p) == INSTANCE DataSubjects WITH
  Tables <- DOMAIN DependsOn, Rows <- {"u", "c"}, Hashed <- {"users"}, Erasures <- {"e", "f"},
  SlaDays <- 3, Thresholds <- <<2, 1>>, ExportTtl <- 1, MaxOps <- 3,
  Ops <- IF p = "erasure" THEN {"erase", "export"} ELSE {"requests"},
  Requests <- IF p = "erasure" THEN {"d"} ELSE {"d", "g"}, Loops <- IF p = "erasure" THEN {"l", "m"} ELSE {"l"},
  MaxTime <- IF p = "erasure" THEN 2 ELSE 4, MayOverlap <- p = "erasure", MayFail <- p = "erasure",
  now <- subjectTime, ops <- subjectOps, rows <- personal, running <- alerting, worker <- alertLoop

\* Transcripts in turn and with two calls at a time, evidence, the audit log, and
\* the archive of the write-ahead log.
RecordParts == {"transcripts", "transcripts overlap", "evidence", "audit", "wal"}
RecordOps == [x \in RecordParts |-> CASE x = "evidence" -> 1 [] OTHER -> 3]
Record(p) == INSTANCE Records WITH
  Ops <- IF p = "transcripts overlap" THEN {"transcripts"} ELSE {p}, MaxOps <- RecordOps[p],
  MaxTime <- 3, MayOverlap <- p \in {"transcripts overlap", "wal"}, MayFail <- TRUE,
  Segments <- IF p = "transcripts" THEN {"s", "t"} ELSE {"s"}, Calls <- IF p = "transcripts overlap" THEN {1, 2} ELSE {1},
  Overrides <- IF p = "transcripts" THEN {0, 1} ELSE {0},
  Jurisdictions <- IF p = "transcripts" THEN {"finra-us"} ELSE {"gdpr-default", "other"}, RETENTION <- 2, SHORTER <- 1, LONGER <- 3, batchLimit <- 1,
  Keks <- {"k1", "k2"}, Contents <- {"a", "b", "binary"}, Binary <- {"binary"}, MaxBatch <- 5, budget <- 5, epsilon <- 2, TTL <- 1,
  Positions <- 0..3, SegsPerLog <- 2, LogStride <- 4,
  now <- recordTime, ops <- recordOps, active <- activeKek, rows <- segments, chain <- evidence, file <- auditFile,
  entry <- spent, exports <- auditExports, check <- walCheck, report <- walReport

-----------------------------------------------------------------------------
(* Background chores, credentials and backends.                            *)

\* Reminders, text messages, and refunds of expired holds.
ChoreParts == {"reminders", "sms", "refunds"}
Chore(p) == INSTANCE Housekeeping WITH
  Ops <- {p}, MaxOps <- IF p = "reminders" THEN 1 ELSE 3, NReminders <- 2, Lead <- <<0, 1>>, limit <- 2, DEDUP_TTL <- 2, MAX_RETRIES <- 2,
  Chunks <- 2, scaleUpThreshold <- 1, scaleDownThreshold <- 1, Providers <- <<"twilio", "vonage">>,
  maxAttempts <- 2, Outcomes <- {"sent", "timeout", "refused", "soft"},
  NHolds <- IF p = "refunds" THEN 3 ELSE 0, batchSize <- 2, safetyThreshold <- 2,
  MaxTime <- 2, ops <- choreOps, time <- choreTime, loop <- reminding, holds <- expired

\* The second factor in turn and with two calls at a time, sign-in, minting, and
\* the revocation of tokens.
CredentialParts == {"mfa", "mfa overlap", "oauth", "mint", "revoke"}
CredentialOps == [mfa |-> 5, oauth |-> 6, mint |-> 4, revoke |-> 2]
Credential(p) == INSTANCE Credentials WITH
  Ops <- IF p = "mfa overlap" THEN {"mfa"} ELSE {p}, MaxOps <- IF p = "mfa overlap" THEN 3 ELSE CredentialOps[p],
  MayOverlap <- p = "mfa overlap", MayFail <- TRUE, MayCrash <- FALSE, Calls <- {"c", "d"},
  windowPeriods <- 1, maxFailedAttempts <- 2, lockoutDuration <- 2, freshness <- 1, challengeTtl <- 3,
  MaxSecrets <- IF p = "mfa overlap" THEN 1 ELSE 2, Oidc <- FALSE, MaxFlows <- 2, Intents <- 1..2, SupplierOf <- [i \in 1..2 |-> "p"],
  Keys <- {""}, Amounts <- {1}, maxUnits <- 1, probeWindowSize <- 3, minProbeSamples <- 2, failureThreshold <- 2,
  circuitOpenDuration <- 1, Replicas <- 1..3, threshold <- 60, alarmWindow <- 2, ackTtl <- 3, MaxTime <- IF p = "mint" THEN 1 ELSE 3,
  ops <- credentialOps, time <- credentialTime, row <- factor, minted <- mints

\* Migrations in turn and by two runners at a time, queries, the two key services,
\* and profiles.
BackendFamily ==
  [migrations |-> "migrations", upgrades |-> "migrations", queries |-> "queries", gcp |-> "kms", aws |-> "kms",
   profiles |-> "profiles"]
BackendOps == [migrations |-> 8, upgrades |-> 7, queries |-> 5, gcp |-> 2, aws |-> 2, profiles |-> 5]
BackendParts == DOMAIN BackendOps
Backend(p) == INSTANCE Backends WITH
  Ops <- {BackendFamily[p]}, MaxOps <- BackendOps[p], MayFail <- TRUE, MayOverlap <- p # "migrations",
  NMigrations <- 3, Runners <- {"r", "s"}, Commands <- IF p = "upgrades" THEN {"up"} ELSE {"up", "down"},
  Statements <- {"q", "p"}, MaxClients <- 1, Provider <- p, NRegions <- 2,
  maxRetries <- 1, MaxLost <- 2, Users <- {"u", "v"}, Emails <- {1, 2}, MaxProfiles <- 3,
  ops <- backendOps, call <- kmsCall

-----------------------------------------------------------------------------

outbox == <<created_at, table, leaseLeft, ackAge, at, batch, event, published, lapsed, faults>>
idempotency == <<entry, ttl, requestAt, reply, window, lockedIn, requestFaults>>
rotation == <<kek, store, loop, op, opsLeft, failuresLeft, doneBy, calm>>
machinery == <<vars, outbox, idempotency, rotation>>
rollouts == <<rolloutTime, rolloutOps, enabled, schedules, currentByKey, timer, isRunning>>
quotas == <<quotaTime, quotaRow, quotaReq, served, warned, asked>>
reviews == <<quarter, snapshots, attestations, reviewFile, up, running, check, save, saves, forced, report>>
trails ==
  <<sessions, initialized, unread, trail, torn, pendingWrite, writes, line, auditCall, sent, acked, swallowed, detached,
    trailFaults>>
subjects ==
  <<subjectTime, subjectOps, personal, held, erasure, receipts, edited, exports, exporting, dsr, alerting,
    alertLoop, alerts>>
records ==
  <<recordTime, recordOps, activeKek, segments, calls, appended, swept, evidence, anchored, auditFile, queue,
    spent, charged, auditExports, alarms, delivered, archive, walCheck, walReport>>
chores ==
  <<choreOps, choreTime, reminders, claims, proc, reminding, concurrency, since, burst, sms, expired, refunder>>
credentials ==
  <<credentialOps, credentialTime, pc, factor, code, challenge, used, guard, cookies, flows, issued, intent,
    locks, mints, health, revoked, bus, acks, alarm>>
backends ==
  <<backendOps, registered, applied, schema, runner, free, ctx, conn, kmsCall, profiles, userIdIndex,
    emailIndex, patched>>
services == <<rollouts, quotas, reviews, trails, subjects, records, chores, credentials, backends>>
all == <<part, machinery, services>>

\* The other body comes to a request and its retry, and calls fail; or the other
\* caller does.
IdempotencyNext ==
  /\ Idempotency!Next
  /\ \/ part = "idempotency" /\ requestAt'[OtherCaller] = "new"
     \/ part = "idempotency callers" /\ requestAt'[OtherBody] = "new" /\ requestFaults' = 0

\* Operators who do no more than pause a loop at work, keys that fail and a process
\* that dies where the runner survives it; then those and operators at any time.
KekNext ==
  /\ Kek!Next
  /\ \/ part = "kek" /\ calm'
     \/ part = "kek overlap" /\ opsLeft' > 1 /\ \A i \in 3..4 : loop'[i].pc = "new"

\* The instance of a component that runs, or its default where the component rests.
Chosen(p, parts, default) == p = IF part \in parts THEN part ELSE default

ServiceInit ==
  /\ Rollout!Init /\ (part = "rollouts" \/ enabled)
  /\ Review!Init
  /\ \E p \in QuotaParts : Chosen(p, QuotaParts, "quota") /\ Quota(p)!Init
  /\ \E p \in TrailParts : Chosen(p, TrailParts, "trail") /\ Trail(p)!Init
  /\ \E p \in SubjectParts : Chosen(p, SubjectParts, "erasure") /\ Subject(p)!Init
  /\ \E p \in RecordParts : Chosen(p, RecordParts, "audit") /\ Record(p)!Init
  /\ \E p \in ChoreParts : Chosen(p, ChoreParts, "sms") /\ Chore(p)!Init
  /\ \E p \in CredentialParts : Chosen(p, CredentialParts, "mint") /\ Credential(p)!Init
  /\ \E p \in BackendParts : Chosen(p, BackendParts, "queries") /\ Backend(p)!Init

MCInit ==
  /\ part \in Parts
  /\ Init /\ Outbox!Init /\ Idempotency!Init /\ Kek!Init
  /\ ServiceInit

MachineryNext ==
  \/ part = "shutdown" /\ Next /\ UNCHANGED <<outbox, idempotency, rotation>>
  \/ part = "outbox" /\ Outbox!Next /\ UNCHANGED <<vars, idempotency, rotation>>
  \/ IdempotencyNext /\ UNCHANGED <<vars, outbox, rotation>>
  \/ KekNext /\ UNCHANGED <<vars, outbox, idempotency>>

ServiceNext ==
  \/ part = "rollouts" /\ Rollout!Next
     /\ UNCHANGED <<quotas, reviews, trails, subjects, records, chores, credentials, backends>>
  \/ (\E p \in QuotaParts : part = p /\ Quota(p)!Next)
     /\ UNCHANGED <<rollouts, reviews, trails, subjects, records, chores, credentials, backends>>
  \/ part = "reviews" /\ Review!Next /\ (forced' = <<>> \/ Cardinality(attestations') <= 1)
     /\ UNCHANGED <<rollouts, quotas, trails, subjects, records, chores, credentials, backends>>
  \/ (\E p \in TrailParts : part = p /\ Trail(p)!Next)
     /\ (part = "trail overlap" => trailFaults'.crashes + trailFaults'.failures <= 1)
     /\ UNCHANGED <<rollouts, quotas, reviews, subjects, records, chores, credentials, backends>>
  \/ (\E p \in SubjectParts : part = p /\ Subject(p)!Next)
     /\ UNCHANGED <<rollouts, quotas, reviews, trails, records, chores, credentials, backends>>
  \/ (\E p \in RecordParts : part = p /\ Record(p)!Next)
     /\ UNCHANGED <<rollouts, quotas, reviews, trails, subjects, chores, credentials, backends>>
  \/ (\E p \in ChoreParts : part = p /\ Chore(p)!Next)
     /\ UNCHANGED <<rollouts, quotas, reviews, trails, subjects, records, credentials, backends>>
  \/ (\E p \in CredentialParts : part = p /\ Credential(p)!Next)
     /\ UNCHANGED <<rollouts, quotas, reviews, trails, subjects, records, chores, backends>>
  \/ (\E p \in BackendParts : part = p /\ Backend(p)!Next)
     /\ UNCHANGED <<rollouts, quotas, reviews, trails, subjects, records, chores, credentials>>

MCNext ==
  \/ MachineryNext /\ UNCHANGED <<part, services>>
  \/ ServiceNext /\ UNCHANGED <<part, machinery>>

\* Without requests these parts are at rest.
Idle ==
  /\ part \in TrailParts \cup SubjectParts \cup RecordParts \cup ChoreParts \cup CredentialParts \cup BackendParts
  /\ UNCHANGED all

MCSpec == MCInit /\ [][MCNext \/ Idle]_all

-----------------------------------------------------------------------------
\* What the shutdown, the deliveries and the rotation promise is in Machinery; the
\* types of a component are a conjunct of an invariant about it.

\* One schedule is in flight under each spelling of a tenant's name, the share of a
\* schedule only falls by its rollback, and nobody who is let in is dropped but by
\* a rollback or a new schedule, which an own one in flight does not give way to.
RolloutSound ==
  /\ [](part = "rollouts" => Rollout!OneInFlight /\ Rollout!ScheduleIsConsistent)
  /\ [][part = "rollouts" => Rollout!ExposureGrows /\ Rollout!NobodyIsDropped]_all

\* A partner is refused only after its limit of a day or a month was served.  With
\* the store in memory it is served no more often than its limits allow, one
\* request per overlapping one and those that a failing store lets through
\* excepted, and is shown what it has used; the store of the middleware does
\* neither, as QuotaNeverReached shows.
QuotaSound == \A p \in QuotaParts : part = p => Quota(p)!QuotaSound

\* A code is accepted once and no code during a lock-out; a sign-in is completed
\* with the cookies of its own flow; an intent is minted once within the units of
\* its supplier, but for mints whose record failed; silence about a revocation
\* means that the replicas know it, unless they start again.
CredentialsSound == \A p \in CredentialParts : part = p => Credential(p)!CredentialsSound

\* The recorded migrations are the ones the database has, for runs in turn and for
\* upgrades that overlap; no client of the pool is lost; a key is destroyed only
\* after its successor exists, in the same region when no request failed over;
\* every region is asked but for errors that the retries gave up on; the indexes
\* find exactly the live profiles.
BackendsSound == \A p \in BackendParts : part = p => Backend(p)!BackendsSound

\* Snapshots of access are taken once per quarter with every grant that can be
\* reached, and their files are whole; what an operator did as another user is
\* kept in order once it is saved, unless it was written behind a torn line or
\* the file could not be read, and an ended session stays ended.
OversightSound ==
  /\ part = "reviews" => Review!ReviewsSound
  /\ \A p \in TrailParts : part = p => Trail(p)!TrailSound

\* Receipts of an erasure tell what was erased, exports end with their time, and
\* the alerts of a request's deadline are sent once and in time.
SubjectsSound == \A p \in SubjectParts : part = p => Subject(p)!SubjectsSound


\* A reminder is sent once within the life of its claim by workers that do not
\* sleep after it; a message reported as sent was sent, and one reported as failed
\* was tried with every provider.
HousekeepingSound == \A p \in ChoreParts : part = p => Chore(p)!HousekeepingSound
=============================================================================
