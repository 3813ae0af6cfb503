\* Everything that the features run on, with what may go wrong in each.
SPECIFICATION MCSpec
CONSTANTS
  Requests = {r1}
  Workers = {relay, interval}
  Awaited = {relay}
  Resources = {database, redis}
  Events = {"e1", "e2"}
  RelayWorkers = {"w1", "w2"}
  BatchSize = 2
  Lease = 2
  Retention = 1
  CompactionBatch = 1
  SafetyThreshold = 1
  MaxFaults = 1
  MayLoseFetch = TRUE
  KeyedRequests <- OneKey
  KeyRetention = 1
  MaxKeyFaults = 1
  MayBypass = TRUE
  Rows = {1, 2, 3, 4}
  FirstKek <- MixedKeks
  batchSize = 2
  Loops = {1, 2, 3, 4}
  MaxOps = 5
  MaxFailures = 1
  Parts = {"shutdown", "outbox", "idempotency", "idempotency callers", "kek", "kek overlap",
           "rollouts", "quota", "quota overlap", "quota sql", "reviews",
           "trail", "trail overlap", "erasure", "deadlines",
           "transcripts", "transcripts overlap", "evidence", "audit", "wal",
           "reminders", "sms", "refunds", "mfa", "mfa overlap", "oauth", "mint", "revoke",
           "migrations", "upgrades", "queries", "gcp", "aws", "profiles"}
INVARIANTS
  ShutdownSound DeliveriesSound RotationSound QuotaSound CredentialsSound BackendsSound OversightSound
  SubjectsSound  HousekeepingSound
PROPERTIES
  RolloutSound
