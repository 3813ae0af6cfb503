------------------------------ MODULE Records ------------------------------
(***************************************************************************)
(* The records the platform must be able to produce later, four families  *)
(* that share no state (Ops chooses which of them move):                  *)
(*  - "transcripts": services/disputeMediationTranscriptStore.ts, the     *)
(*    envelope-encrypted store and its retention sweep;                   *)
(*  - "evidence": services/merkleTree.service.ts and                      *)
(*    services/disputeEvidenceAnchor.service.ts;                          *)
(*  - "audit": services/auditLogger.ts, services/auditExportService.ts,   *)
(*    services/epsilonBudgetTracker.ts and utils/auditEventValidator.ts;  *)
(*  - "wal": ops/wal/walIntegrityChecker.ts and its command line.         *)
(* Ciphertexts and hashes are terms: equal terms are equal bytes.         *)
(***************************************************************************)
EXTENDS Integers, Sequences, FiniteSets, FiniteSetsExt, SequencesExt

CONSTANTS
  Ops, MaxOps, MaxTime,
  MayOverlap,     \* two operations may interleave between their awaits
  MayFail,        \* the database, the chain and the log file may fail
  Calls,          \* callers of the transcript store
  Segments,       \* transcript segment ids
  Overrides,      \* retentionOverrideMs of a segment, 0 when absent
  Jurisdictions,  \* its retentionOverrideJurisdiction, "" when absent
  RETENTION,      \* DEFAULT_RETENTION_MS
  SHORTER, LONGER,\* of jurisdictions below and above the default
  batchLimit,     \* of a retention sweep
  Keks,           \* KEK versions
  Contents,       \* evidence contents
  Binary,         \* of these, the buffers that are no utf-8 text
  MaxBatch,       \* items of one evidence batch
  budget, epsilon,\* of the audit data set
  TTL,            \* life of an audit export
  Positions,      \* WAL positions, 0 .. n
  SegsPerLog, LogStride  \* how a position is numbered in a file name

VARIABLES
  now, ops,
  active, rows, calls, appended, swept,     \* transcripts
  chain, anchored,                          \* evidence
  file, queue, entry, charged, exports, alarms, delivered,  \* audit
  archive, check, report                    \* wal

transcriptVars == <<active, rows, calls, appended, swept>>
evidenceVars == <<chain, anchored>>
auditVars == <<file, queue, entry, charged, exports, alarms, delivered>>
walVars == <<archive, check, report>>
vars == <<now, ops, transcriptVars, evidenceVars, auditVars, walVars>>

op(family) == family \in Ops /\ ops < MaxOps /\ ops' = ops + 1
goesOn == UNCHANGED ops


\* A payload under its data key, and the data key under a KEK. The KMS is
\* the deployment's (external): unwrapping undoes wrapping.
\* The version stored with the row must be the one that wrapped the key.
encryptSegment(body, kek) == [sealed |-> body, wrappedBy |-> kek, kekVersionId |-> kek]

decryptSegment(row) ==
  IF row.cipher.wrappedBy = row.cipher.kekVersionId THEN row.cipher.sealed ELSE -2

\* The algorithm of aesKeyWrap and aesKeyUnwrap. The register A is a term
\* with the values XORed into its first and last byte; the block cipher is
\* an injective table of the pairs it has encrypted.
Iv == [half |-> <<"iv", 0>>, first |-> {}, last |-> {}]
Half(h) == [half |-> h, first |-> {}, last |-> {}]

\* The loop over k runs from 7 down while the shift starts at 56: the low
\* byte of t reaches byte 0.
wrapXor(a, t) == [a EXCEPT !.first = SymDiff(@, {t})]

\* Here the loop over k runs from 0 up: the low byte of t reaches byte 7.
unwrapXor(a, t) == [a EXCEPT !.last = SymDiff(@, {t})]
Rounds(n) == [m \in 1..6 * n |-> [j |-> (m - 1) \div n, i |-> ((m - 1) % n) + 1]]

wrapRound(s, r, n) ==
  LET c == Len(s.table) + 1
  IN  [A |-> wrapXor(Half(<<"L", c>>), n * r.j + r.i),
       R |-> [s.R EXCEPT ![r.i] = Half(<<"R", c>>)],
       table |-> Append(s.table, <<s.A, s.R[r.i]>>)]

aesKeyWrap(key) ==
  FoldLeft(LAMBDA s, r : wrapRound(s, r, Len(key)),
           [A |-> Iv, R |-> key, table |-> <<>>], Rounds(Len(key)))

decipher(table, a, b) ==
  LET hit == {c \in 1..Len(table) : a = Half(<<"L", c>>) /\ b = Half(<<"R", c>>)}
  IN  IF hit = {} THEN <<Half(<<"junk", 1>>), Half(<<"junk", 2>>)>>
                  ELSE table[CHOOSE c \in hit : TRUE]

unwrapRound(s, r, n) ==
  LET p == decipher(s.table, unwrapXor(s.A, n * r.j + r.i), s.R[r.i])
  IN  [s EXCEPT !.A = p[1], !.R[r.i] = p[2]]

\* <<>> stands for "AES-KW unwrap integrity check failed".
aesKeyUnwrap(w, n) ==
  LET s == FoldLeft(LAMBDA t, r : unwrapRound(t, r, n), w, Reverse(Rounds(n)))
  IN  IF s.A = Iv THEN s.R ELSE <<>>

\* fca-uk is below the default like gdpr-default.
JURISDICTION_RETENTION_OVERRIDES ==
  [j \in {"gdpr-default", "finra-us"} |-> IF j = "finra-us" THEN LONGER ELSE SHORTER]

\* A segment's own override goes before its jurisdiction's; "" is none, and a
\* jurisdiction without an entry counts as none.
computeRetentionClose(row) ==
  row.created + (IF row.override > 0 THEN row.override
                 ELSE IF row.jurisdiction \in DOMAIN JURISDICTION_RETENTION_OVERRIDES
                 THEN JURISDICTION_RETENTION_OVERRIDES[row.jurisdiction] ELSE RETENTION)

IdleCall == [pc |-> "idle", id |-> "", body |-> 0, override |-> 0, jurisdiction |-> "", kek |-> "",
             row |-> {}]

rowOf(id) == {k \in 1..Len(rows) : rows[k].id = id}

setActive(k) ==
  /\ op("transcripts") /\ k # active /\ active' = k
  /\ UNCHANGED <<now, rows, calls, appended, swept, evidenceVars, auditVars, walVars>>

\* appendSegment up to the answer of getActiveKek.
appendSegment(c, id, o, j) ==
  /\ op("transcripts") /\ calls[c].pc = "idle"
  /\ MayOverlap \/ \A d \in DOMAIN calls : calls[d].pc = "idle"
  /\ calls' = [calls EXCEPT ![c] = [IdleCall EXCEPT !.pc = "insert", !.id = id,
                 !.body = ops, !.override = o, !.jurisdiction = j, !.kek = active]]
  /\ UNCHANGED <<now, active, rows, appended, swept, evidenceVars, auditVars, walVars>>

\* Map.set keeps the place of an id that is already there.
insert(c) ==
  LET a == calls[c]
      row == [id |-> a.id, cipher |-> encryptSegment(a.body, a.kek), created |-> now,
              override |-> a.override, jurisdiction |-> a.jurisdiction, retentionStatus |-> "active"]
  IN  /\ a.pc = "insert" /\ goesOn
      /\ rows' = IF rowOf(a.id) = {} THEN Append(rows, row)
                 ELSE [rows EXCEPT ![CHOOSE k \in rowOf(a.id) : TRUE] = row]
      /\ appended' = [appended EXCEPT ![a.id] =
           [body |-> a.body, at |-> now, override |-> a.override, jurisdiction |-> a.jurisdiction]]
      /\ calls' = [calls EXCEPT ![c] = IdleCall]
      /\ UNCHANGED <<now, active, swept, evidenceVars, auditVars, walVars>>

insertFails(c) ==
  /\ MayFail /\ calls[c].pc = "insert" /\ goesOn
  /\ calls' = [calls EXCEPT ![c] = IdleCall]
  /\ UNCHANGED <<now, active, rows, appended, swept, evidenceVars, auditVars, walVars>>

\* getSegment: the row is copied, then decrypted after the KMS answered.
getSegment(c, id) ==
  /\ op("transcripts") /\ calls[c].pc = "idle" /\ rowOf(id) # {}
  /\ MayOverlap \/ \A d \in DOMAIN calls : calls[d].pc = "idle"
  /\ LET row == rows[CHOOSE k \in rowOf(id) : TRUE]
     IN  calls' = [calls EXCEPT ![c] =
           IF row.retentionStatus = "purged" THEN IdleCall
           ELSE [IdleCall EXCEPT !.pc = "decrypt", !.id = id, !.row = {row}]]
  /\ UNCHANGED <<now, active, rows, appended, swept, evidenceVars, auditVars, walVars>>

decrypted(c) ==
  /\ calls[c].pc = "decrypt" /\ goesOn /\ calls' = [calls EXCEPT ![c] = IdleCall]
  /\ UNCHANGED <<now, active, rows, appended, swept, evidenceVars, auditVars, walVars>>

due(row) == row.retentionStatus # "purged" /\ now >= computeRetentionClose(row)

\* The first batchLimit due rows, in insertion order.
purgeable == LET all == {k \in 1..Len(rows) : due(rows[k])}
             IN  {k \in all : Cardinality({m \in all : m < k}) < batchLimit}

purgedRow(row) == [row EXCEPT !.retentionStatus = "purged", !.cipher = encryptSegment(-1, "")]

\* runOnce of the retention runner; swept remembers when and how many.
runOnce ==
  /\ op("transcripts")
  /\ rows' = [k \in DOMAIN rows |->
                IF k \in purgeable THEN purgedRow(rows[k]) ELSE rows[k]]
  /\ swept' = [at |-> now, purged |-> Cardinality(purgeable)]
  /\ UNCHANGED <<now, active, calls, appended, evidenceVars, auditVars, walVars>>

TranscriptNext ==
  \/ \E k \in Keks : setActive(k)
  \/ \E c \in DOMAIN calls, id \in Segments :
        (\E o \in Overrides, j \in Jurisdictions : appendSegment(c, id, o, j)) \/ getSegment(c, id)
  \/ \E c \in DOMAIN calls : insert(c) \/ insertFails(c) \/ decrypted(c)
  \/ runOnce

(***************************************************************************)
(* Evidence anchoring                                                     *)
(***************************************************************************)
hashLeaf(c) == <<"leaf", c>>
hashNode(l, r) == <<"node", l, r>>

\* The last hash of an odd level is paired with itself.
nextLevel(level) ==
  [i \in 1..(Len(level) + 1) \div 2 |->
     hashNode(level[2 * i - 1], IF 2 * i <= Len(level) THEN level[2 * i] ELSE level[2 * i - 1])]
RECURSIVE levelsFrom(_)

levelsFrom(level) ==
  IF Len(level) <= 1 THEN <<level>> ELSE <<level>> \o levelsFrom(nextLevel(level))

buildTree(items) == levelsFrom([i \in DOMAIN items |-> hashLeaf(items[i])])
rootOf(items) == Last(buildTree(items))[1]

\* index is that of JavaScript, from 0.
proofStep(level, i) ==
  IF i % 2 = 1 THEN [position |-> "left", hash |-> level[i]]
  ELSE [position |-> "right", hash |-> level[IF i + 2 <= Len(level) THEN i + 2 ELSE i + 1]]

getProof(items, index) ==
  LET tree == buildTree(items)
  IN  [k \in 1..Len(tree) - 1 |-> proofStep(tree[k], index \div 2^(k - 1))]

verifyProof(leaf, proof, target) ==
  FoldLeft(LAMBDA h, s : IF s.position = "left" THEN hashNode(s.hash, h) ELSE hashNode(h, s.hash),
           leaf, proof) = target

verifyEvidence(c, proof, target) == verifyProof(hashLeaf(c), proof, target)

\* The leaf is made of the bytes; the item answered holds them as utf-8 text, in
\* which other bytes are replaced.
toUtf8(c) == IF c \in Binary THEN "replaced" ELSE c

createBatch(items) ==
  {[bytes |-> items[i], content |-> toUtf8(items[i]), proof |-> getProof(items, i - 1)] : i \in DOMAIN items}

\* anchorBatch: the memo may reach the chain although the answer is lost;
\* the caller then gets an error and no anchored items.
anchorBatch(items, outcome) ==
  /\ op("evidence")
  /\ chain' = IF outcome = "refused" THEN chain ELSE Append(chain, rootOf(items))
  /\ anchored' = IF outcome # "ok" THEN anchored
       ELSE anchored \cup {[bytes |-> b.bytes, content |-> b.content, proof |-> b.proof, items |-> items,
                            txId |-> Len(chain) + 1] : b \in createBatch(items)}
  /\ UNCHANGED <<now, transcriptVars, auditVars, walVars>>

\* verifyEvidenceOnChain, when Horizon answers with the transaction.
verifyEvidenceOnChain(c, proof, tx) == tx \in DOMAIN chain /\ verifyEvidence(c, proof, chain[tx])

EvidenceNext ==
  \E items \in UNION {[1..n -> Contents] : n \in 1..MaxBatch},
     outcome \in IF MayFail THEN {"ok", "refused", "lost"} ELSE {"ok"} :
    anchorBatch(items, outcome)

(***************************************************************************)
(* Audit log, privacy budget and exports                                  *)
(***************************************************************************)
\* A line is "event" (a valid event of the supported version) or "other"
\* (torn, foreign or of another version: decodeAuditEvent throws).
validateAuditEvent(line) == line = "event"
events(f) == Len(SelectSeq(f, validateAuditEvent))

\* An event that does not validate throws before the file is touched; a
\* failed append is swallowed.
appendLine(f, line) == {Append(f, line)} \cup IF MayFail THEN {f} ELSE {}

log(line) ==
  /\ op("audit") /\ (IF validateAuditEvent(line) THEN file' \in appendLine(file, line)
                     ELSE UNCHANGED file)
  /\ UNCHANGED <<now, queue, entry, charged, exports, alarms, delivered,
                 transcriptVars, evidenceVars, walVars>>

\* A line written by an older release, or cut short by a crash.
foreignLine ==
  /\ op("audit") /\ file' = Append(file, "other")
  /\ UNCHANGED <<now, queue, entry, charged, exports, alarms, delivered,
                 transcriptVars, evidenceVars, walVars>>

\* POST /audit/export: the job joins the queue.
createExport ==
  /\ op("audit")
  /\ queue' = Append(queue, [stage |-> "waiting", seen |-> events(file), read |-> 0])
  /\ UNCHANGED <<now, file, entry, charged, exports, alarms, delivered,
                 transcriptVars, evidenceVars, walVars>>

job == queue[1]
jobAt(stage) == queue # <<>> /\ job.stage = stage /\ goesOn
nextJob == Tail(queue)
staged(stage, n) == [queue EXCEPT ![1].stage = stage, ![1].read = n]

chargeReads ==
  /\ jobAt("waiting") /\ queue' = staged("charging", entry)
  /\ UNCHANGED <<now, file, entry, charged, exports, alarms, delivered,
                 transcriptVars, evidenceVars, walVars>>

exceedsBudget(spent) == spent + epsilon > budget

alarmLevel(spent) == IF spent >= budget THEN "exhausted"
                     ELSE IF spent * 10 >= budget * 8 THEN "warning" ELSE "none"

charge ==
  /\ jobAt("charging")
  /\ IF exceedsBudget(job.read)
     THEN queue' = nextJob /\ UNCHANGED <<entry, charged, alarms>>
     ELSE /\ entry' = job.read + epsilon /\ charged' = charged + epsilon
          /\ alarms' = alarms \cup ({alarmLevel(job.read + epsilon)} \ {"none"})
          /\ queue' = staged("reading", 0)
  /\ UNCHANGED <<now, file, exports, delivered, transcriptVars, evidenceVars, walVars>>

resetSpend ==
  /\ op("audit") /\ entry > 0 /\ entry' = 0 /\ charged' = 0 /\ alarms' = {}
  /\ ~(queue # <<>> /\ job.stage = "charging" /\ ~MayOverlap)
  /\ UNCHANGED <<now, file, queue, exports, delivered, transcriptVars, evidenceVars, walVars>>

buildExportContent == events(file)

readLog ==
  /\ jobAt("reading")
  /\ \/ queue' = staged("storing", buildExportContent)
     \/ MayFail /\ queue' = nextJob
  /\ UNCHANGED <<now, file, entry, charged, exports, alarms, delivered,
                 transcriptVars, evidenceVars, walVars>>

storeExport ==
  /\ jobAt("storing")
  /\ exports' = Append(exports, [content |-> job.read, seen |-> job.seen,
                                 logged |-> events(file), expiresAt |-> now + TTL,
                                 stored |-> TRUE])
  /\ file' \in appendLine(file, "event") /\ queue' = nextJob
  /\ UNCHANGED <<now, entry, charged, alarms, delivered, transcriptVars, evidenceVars, walVars>>

tokenExpired(e) == now > e.expiresAt

\* GET /audit/export/download with the token of export k.
getExport(k) ==
  /\ op("audit") /\ k \in DOMAIN exports /\ ~tokenExpired(exports[k]) /\ exports[k].stored
  /\ delivered' = delivered \cup {[export |-> k, at |-> now]}
  /\ file' \in appendLine(file, "event")
  /\ UNCHANGED <<now, queue, entry, charged, exports, alarms, transcriptVars,
                 evidenceVars, walVars>>

\* The timer of the ephemeral store.
evict(k) ==
  /\ k \in DOMAIN exports /\ exports[k].stored /\ now >= exports[k].expiresAt /\ goesOn
  /\ exports' = [exports EXCEPT ![k].stored = FALSE]
  /\ UNCHANGED <<now, file, queue, entry, charged, alarms, delivered, transcriptVars,
                 evidenceVars, walVars>>

AuditNext ==
  \/ \E line \in {"event", "other"} : log(line)
  \/ foreignLine \/ createExport \/ chargeReads \/ charge \/ resetSpend
  \/ readLog \/ storeExport
  \/ \E k \in 1..MaxOps : getExport(k) \/ evict(k)

(***************************************************************************)
(* The write-ahead-log archive                                            *)
(***************************************************************************)
\* A position of the log is written as two hexadecimal words, and the
\* checker reads both as one number.
sequenceNumber(pos) == (pos \div SegsPerLog) * LogStride + (pos % SegsPerLog)

File(pos, partial) == [pos |-> pos, isPartial |-> partial, hash |-> "good",
                       sidecar |-> IF partial THEN "none" ELSE "good"]

alarm(severity, code, pos) == [severity |-> severity, code |-> code, pos |-> pos]

archiver(files) ==
  /\ op("wal") /\ archive' = files /\ files # archive
  /\ MayOverlap \/ check.todo = {}
  /\ check' = [check EXCEPT !.steady = FALSE]
  /\ UNCHANGED <<now, report, transcriptVars, evidenceVars, auditVars>>

\* What may happen to an archive: a segment arrives, begins to arrive, is
\* completed, is lost, is damaged, or its sidecar is.
ArchiveStep ==
  \/ \E pos \in Positions, partial \in BOOLEAN : archiver(archive \cup {File(pos, partial)})
  \/ \E f \in archive :
       \/ archiver(archive \ {f})
       \/ f.isPartial /\ archiver((archive \ {f}) \cup {File(f.pos, FALSE)})
       \/ archiver((archive \ {f}) \cup {[f EXCEPT !.hash = "bad"]})
       \/ \E sc \in {"none", "unreadable"} :
            ~f.isPartial /\ archiver((archive \ {f}) \cup {[f EXCEPT !.sidecar = sc]})

at(files, pos) == {f \in files : f.pos = pos}

duplicateAlarms(files) ==
  UNION {IF Cardinality(at(files, f.pos)) > 1
         THEN {alarm("CRITICAL", "SPLIT_BRAIN", f.pos), alarm("CRITICAL", "DUPLICATE_SEGMENT", f.pos)}
         ELSE {} : f \in files}

\* Neighbours in the sorted order whose numbers do not follow each other.
gapAlarms(files) ==
  {alarm("CRITICAL", "GAP_DETECTED", f.pos) : f \in {f \in files :
     \E g \in files \ {f} : /\ f.pos <= g.pos /\ sequenceNumber(g.pos) # sequenceNumber(f.pos) + 1
                            /\ ~\E h \in files : f.pos < h.pos /\ h.pos < g.pos}}

\* check: the listing fails, or duplicates and gaps are found in it at once.
startCheck(lists) ==
  /\ op("wal") /\ check.todo = {}
  /\ IF lists
     THEN /\ check' = [todo |-> archive, steady |-> TRUE,
                       alarms |-> duplicateAlarms(archive) \cup gapAlarms(archive)]
          /\ UNCHANGED report
     ELSE /\ check' = [check EXCEPT !.alarms = {alarm("CRITICAL", "STORAGE_TIMEOUT", -1)}]
          /\ report' = {[alarms |-> check'.alarms, of |-> {}, listed |-> FALSE]}
  /\ UNCHANGED <<now, archive, transcriptVars, evidenceVars, auditVars>>

hashAlarms(f, expected) ==
  IF expected = "none"
  THEN IF f.isPartial THEN {alarm("INFO", "RESTORE_IN_PROGRESS", f.pos)} ELSE {}
  ELSE IF expected = "unreadable"
  THEN IF f.isPartial
       THEN {alarm("WARNING", "STORAGE_TIMEOUT", f.pos), alarm("INFO", "RESTORE_IN_PROGRESS", f.pos)}
       ELSE {alarm("WARNING", "STORAGE_TIMEOUT", f.pos)}
  ELSE IF f.hash # expected THEN {alarm("CRITICAL", "HASH_MISMATCH", f.pos)} ELSE {}

\* One segment: hashed as it is on disk now, compared with its sidecar. A
\* file that is gone, or a stream that fails, is a critical alarm.
verifySegment(f, reads) ==
  LET here == {g \in archive : g.pos = f.pos /\ g.isPartial = f.isPartial}
      found == IF here = {} \/ ~reads THEN {alarm("CRITICAL", "STORAGE_TIMEOUT", f.pos)}
               ELSE UNION {hashAlarms(g, g.sidecar) : g \in here}
      rest == check.todo \ {f}
  IN  /\ f \in check.todo /\ goesOn
      /\ check' = [check EXCEPT !.todo = rest, !.alarms = @ \cup found,
                                !.steady = @ /\ reads]
      /\ report' = IF rest = {} /\ check'.steady
                   THEN {[alarms |-> check'.alarms, of |-> archive, listed |-> TRUE]} ELSE report
      /\ UNCHANGED <<now, archive, transcriptVars, evidenceVars, auditVars>>

has(r, severity) == \E a \in r.alarms : a.severity = severity
exitCodeForReport(r) == IF has(r, "CRITICAL") THEN 3 ELSE IF has(r, "WARNING") THEN 2 ELSE 0

WalNext ==
  \/ ArchiveStep
  \/ \E lists \in BOOLEAN : (lists \/ MayFail) /\ startCheck(lists)
  \/ \E f \in check.todo, reads \in BOOLEAN : (reads \/ MayFail) /\ verifySegment(f, reads)

(***************************************************************************)
tick ==
  /\ now < MaxTime /\ now' = now + 1
  /\ UNCHANGED <<ops, transcriptVars, evidenceVars, auditVars, walVars>>

Init ==
  /\ now = 0 /\ ops = 0
  /\ active = (CHOOSE k \in Keks : TRUE) /\ rows = <<>> /\ calls = [c \in Calls |-> IdleCall]
  /\ appended = [id \in Segments |-> [body |-> -1, at |-> 0, override |-> 0, jurisdiction |-> ""]]
  /\ swept = [at |-> -1, purged |-> 0]
  /\ chain = <<>> /\ anchored = {}
  /\ file = <<>> /\ queue = <<>> /\ entry = 0 /\ charged = 0 /\ exports = <<>>
  /\ alarms = {} /\ delivered = {}
  /\ archive = {} /\ report = {}
  /\ check = [todo |-> {}, steady |-> FALSE, alarms |-> {}]

Next == TranscriptNext \/ EvidenceNext \/ AuditNext \/ WalNext \/ tick
Spec == Init /\ [][Next]_vars

(***************************************************************************)
(* What the records promise                                               *)
(***************************************************************************)
\* When the retention of what was appended ends: the segment's own term, else its
\* jurisdiction's, else the default.
KeptUntil(a) ==
  a.at + CASE a.override > 0 -> a.override
           [] a.override = 0 /\ a.jurisdiction = "finra-us" -> LONGER
           [] a.override = 0 /\ a.jurisdiction = "gdpr-default" -> SHORTER
           [] OTHER -> RETENTION

\* A transcript segment stays readable, with the body last appended under
\* its id, until its retention closes; a sweep that found no more than its
\* batch leaves nothing that is due.
TranscriptsKept ==
  /\ \A k \in DOMAIN rows :
       LET a == appended[rows[k].id]
       IN  IF rows[k].retentionStatus = "purged" THEN KeptUntil(a) <= now
           ELSE decryptSegment(rows[k]) = a.body
  /\ \A k \in DOMAIN rows : rows[k].retentionStatus = "purged" => decryptSegment(rows[k]) = -1
  /\ swept.purged < batchLimit => \A k \in DOMAIN rows :
       rows[k].retentionStatus = "active" => KeptUntil(appended[rows[k].id]) > swept.at

\* The bytes of each item anchored verify against the memo on the chain, and no
\* other content verifies with its proof, for every shape of batch.  The content
\* that is answered for an item verifies only if the bytes were utf-8 text
\* (disputeEvidenceAnchor.service.ts:58).
EvidenceProvable ==
  \A a \in anchored :
    /\ \A c \in Contents : verifyEvidenceOnChain(c, a.proof, a.txId) <=> c = a.bytes
    /\ verifyEvidenceOnChain(a.content, a.proof, a.txId) <=> a.bytes \notin Binary

\* The privacy budget counts every export that was begun and is never
\* overdrawn; reaching 80% of it raised an alarm; an export holds the valid
\* events logged before it was asked for and none that is not valid; and no
\* export is handed out after its token expired.
ExportsSound ==
  /\ entry <= budget /\ entry = charged
  /\ (entry * 10 >= budget * 8 /\ entry < budget) => "warning" \in alarms
  /\ entry >= budget => "exhausted" \in alarms
  /\ \A k \in DOMAIN exports :
       exports[k].seen <= exports[k].content /\ exports[k].content <= exports[k].logged
  /\ \A d \in delivered : d.at <= exports[d.export].expiresAt

\* A restore can run through the files: every position from the first to the last
\* is there once, and no checksum disagrees.
Restorable(files) ==
  /\ \A f, g \in files : f.pos = g.pos => f = g
  /\ \A f, g \in files : \A p \in Positions : f.pos < p /\ p < g.pos => at(files, p) # {}
  /\ \A f \in files : f.sidecar = "good" => f.hash = "good"

\* A report over an archive that did not change has exit code 0 or 2 only when a
\* restore can run through it; a position missing behind a partial segment counts,
\* where the comment at walIntegrityChecker.ts:377-378 says that its alarm is
\* suppressed.  The converse holds within one log file: where the second word of
\* the name starts again, the numbers do not follow each other and a gap is
\* reported that is none (253-276).
ReportsTell ==
  \A r \in report : r.listed =>
    /\ exitCodeForReport(r) # 3 => Restorable(r.of)
    /\ Restorable(r.of) /\ (\A f, g \in r.of : f.pos \div SegsPerLog = g.pos \div SegsPerLog)
         => exitCodeForReport(r) # 3


\* A stored segment can be read again with InMemoryTranscriptKms: its data
\* key, here of one word, is wrapped and unwrapped "byte-for-byte identical",
\* as services/__tests__/disputeMediationTranscriptStore.test.ts expects.
UnwrapRestores ==
  LET key == <<Half(<<"key", 1>>)>>
  IN  rows # <<>> => aesKeyUnwrap(aesKeyWrap(key), Len(key)) = key
=============================================================================
