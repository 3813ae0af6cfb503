---------------------------- MODULE AccessReview ----------------------------
(***************************************************************************)
(* Quarterly reviews of who may do what: snapshots of the role hierarchy,  *)
(* the reviewers' attestations, the worker that takes a snapshot when the  *)
(* quarter has none, and the two JSON files the evidence is saved to.      *)
(*                                                                         *)
(* A client of saving and loading loads once at start, before anything     *)
(* else, and stops if that fails; the code of the service has no such      *)
(* client yet.  A crash empties the memory and may leave the file that is  *)
(* being written torn.                                                     *)
(***************************************************************************)
EXTENDS Integers, Sequences, FiniteSets

CONSTANTS
  Months,        \* the months the clock visits, counted from year 0
  Configs,       \* roles.json in each of them: role -> roles it implies
  Reviewers, Outcomes,
  DEFAULT_LIST_LIMIT,
  Lookback,      \* quarters that the worker looks back
  Checks,        \* checks of the worker that may be in flight
  MaxSnapshots, MaxAttestations, MaxForced,
  MayCrash,      \* the process may die while it saves
  MaxSaves, Savers

Torn == [is |-> "torn", data |-> {}]
Missing == [is |-> "missing", data |-> {}]
Whole(d) == [is |-> "whole", data |-> d]
Idle == [pc |-> "idle"]

VARIABLES
  now,           \* index into Months
  snapshots, attestations,
  file,          \* the two files: Whole, Missing (ENOENT) or Torn
  up,            \* "loading", "run" or "down"
  running,       \* the worker's flag
  check,         \* checks in flight
  save,          \* saves in flight
  saves,         \* number of saves
  forced,        \* history variable: quarters of forced snapshots
  report         \* history variable: what the last check reported

vars == <<now, snapshots, attestations, file, up, running, check, save, saves, forced, report>>

-----------------------------------------------------------------------------
computeQuarterLabel(month) == [year |-> month \div 12, quarter |-> (month % 12) \div 3 + 1]

Label == computeQuarterLabel(Months[now])

readRolesConfigFromDisk == Configs[now]

\* One round of the loop of generatePreviousQuarters.
Before(l) == IF l.quarter - 1 < 1 THEN [year |-> l.year - 1, quarter |-> 4] ELSE [l EXCEPT !.quarter = @ - 1]

generatePreviousQuarters(count, from) ==
  LET back[k \in 0..count] == IF k = 0 THEN from ELSE Before(back[k - 1])
  IN  {back[k] : k \in 0..(count - 1)}

-----------------------------------------------------------------------------
\* Roles that imply each other, or a role that is not defined: an exception.
BadConfig(c) ==
  LET reach[k \in 0..Cardinality(DOMAIN c)] ==
        [r \in DOMAIN c |-> IF k = 0 THEN c[r] ELSE reach[k - 1][r] \cup UNION {reach[k - 1][s] : s \in c[r] \cap DOMAIN c}]
  IN  \/ \E r \in DOMAIN c : ~(c[r] \subseteq DOMAIN c)
      \/ \E r \in DOMAIN c : r \in reach[Cardinality(DOMAIN c)][r]

\* The depth-first resolve of an acyclic configuration, unfolded to depth d.
resolve(c, role, d) ==
  LET eff[k \in 0..d] == [r \in DOMAIN c |-> {r} \cup IF k = 0 THEN {} ELSE UNION {eff[k - 1][s] : s \in c[r]}]
  IN  eff[d][role]

buildRoleHierarchy(c) == [r \in DOMAIN c |-> resolve(c, r, Cardinality(DOMAIN c))]

buildGrantEntriesFromHierarchy(h) ==
  {[role |-> r, effectivePermissions |-> h[r], impliedRoles |-> h[r] \ {r}] : r \in DOMAIN h}

-----------------------------------------------------------------------------
\* Ids are never given twice: they grow over what memory and files know.
NextId(recs, f) == 1 + Cardinality({r.id : r \in recs \cup f.data})

findSnapshotForQuarter(l) == {s \in snapshots : s.quarterLabel = l}

listSnapshotsTotal(l) == Cardinality(findSnapshotForQuarter(l))

NewSnapshot ==
  [id |-> NextId(snapshots, file.snapshots), quarterLabel |-> Label,
   grants |-> buildGrantEntriesFromHierarchy(buildRoleHierarchy(readRolesConfigFromDisk)), config |-> readRolesConfigFromDisk]

\* Everything up to the first await happens in one turn.
createSnapshot(force) ==
  LET l == Label IN
  /\ Cardinality(snapshots) < MaxSnapshots \/ (~force /\ findSnapshotForQuarter(l) # {})
  /\ force => Len(forced) < MaxForced
  /\ IF ~force /\ findSnapshotForQuarter(l) # {}
     THEN UNCHANGED <<snapshots, forced>>
     ELSE /\ ~BadConfig(readRolesConfigFromDisk)
          /\ snapshots' = snapshots \cup {NewSnapshot}
          /\ forced' = IF force THEN Append(forced, l) ELSE forced

\* POST /access-review/snapshots
postSnapshot(force) ==
  /\ up = "run" /\ createSnapshot(force)
  /\ UNCHANGED <<now, attestations, file, up, running, check, save, saves, report>>

trim(raw) == raw.name

\* The stored reviewer is trimmed, the one compared with it is not: a name
\* with blanks around it equals no stored one.
SameReviewer(a, raw) == a.reviewer = raw.name /\ ~raw.padded

NewAttestation(s, raw, outcome) ==
  [id |-> NextId(attestations, file.attestations), snapshot |-> s.id, quarterLabel |-> s.quarterLabel,
   reviewer |-> trim(raw), outcome |-> outcome, padded |-> raw.padded]

createAttestation(s, raw, outcome) ==
  /\ Cardinality(attestations) < MaxAttestations
  /\ ~\E a \in attestations : a.snapshot = s.id /\ SameReviewer(a, raw)
  /\ attestations' = attestations \cup {NewAttestation(s, raw, outcome)}

\* POST /access-review/snapshots/:snapshotId/attestations
postAttestation(raw, outcome) ==
  /\ up = "run"
  /\ \E s \in snapshots : createAttestation(s, raw, outcome)
  /\ UNCHANGED <<now, snapshots, file, up, running, check, save, saves, forced, report>>

-----------------------------------------------------------------------------
\* The newest first, cut at the limit.
listAttestations(P(_), limit) ==
  {a \in attestations : P(a) /\ Cardinality({b \in attestations : P(b) /\ b.id > a.id}) < limit}

generateReport(s) ==
  LET listed == listAttestations(LAMBDA a : a.snapshot = s.id, DEFAULT_LIST_LIMIT)
  IN  [snapshot |-> s, attestations |-> listed, reviewed |-> listed # {}]

\* One row per grant; one per attestation, or a row that says review is pending.
formatCsvReport(r) ==
  [snapshot |-> r.snapshot.id, grants |-> r.snapshot.grants,
   rows |-> IF r.attestations = {} THEN {"pending_review"} ELSE {a.outcome : a \in r.attestations}]

\* Snapshots that are attested but not stored are skipped.
Attested == {t \in snapshots : t.id \in {a.snapshot : a \in attestations}}
generateAttestedReportsBundle == {generateReport(s) : s \in Attested}
generateAttestedReportsCsvBundle == {formatCsvReport(generateReport(s)) : s \in Attested}

\* GET /access-review/bundled-report
getBundledReport(format) ==
  IF format = "csv" THEN generateAttestedReportsCsvBundle
  ELSE {[snapshot |-> r.snapshot.id, grants |-> r.snapshot.grants, rows |-> {a.outcome : a \in r.attestations}] :
          r \in generateAttestedReportsBundle}

detectGaps(count) ==
  generatePreviousQuarters(count, Label) \ {s.quarterLabel : s \in snapshots}

-----------------------------------------------------------------------------
\* runAccessReviewCheck up to the await of createSnapshot.
runAccessReviewCheck(c) ==
  LET before == listSnapshotsTotal(Label) IN
  /\ up = "run" /\ running /\ check[c] = Idle
  /\ createSnapshot(FALSE)
  /\ check' = [check EXCEPT ![c] = [pc |-> "after", before |-> before, quarterLabel |-> Label, own |-> snapshots' # snapshots]]
  /\ UNCHANGED <<now, attestations, file, up, running, save, saves, report>>

\* The rest: the quarter's snapshots are counted again and the gaps listed.
finishCheck(c) ==
  /\ check[c] # Idle
  /\ report' = [created |-> listSnapshotsTotal(check[c].quarterLabel) > check[c].before,
                own |-> check[c].own,
                ownMissing |-> check[c].quarterLabel \in detectGaps(Lookback)]
  /\ check' = [check EXCEPT ![c] = Idle]
  /\ UNCHANGED <<now, snapshots, attestations, file, up, running, save, saves, forced>>

startAccessReviewWorker ==
  /\ up = "run" /\ ~running /\ running' = TRUE
  /\ UNCHANGED <<now, snapshots, attestations, file, up, check, save, saves, forced, report>>

stopAccessReviewWorker ==
  /\ up = "run" /\ running /\ running' = FALSE
  /\ UNCHANGED <<now, snapshots, attestations, file, up, check, save, saves, forced, report>>

-----------------------------------------------------------------------------
\* Both sets are taken in one turn, after the directories exist; opening a
\* file truncates it.
persistToDisk(p) ==
  /\ up = "run" /\ save[p] = Idle /\ saves < MaxSaves
  /\ save' = [save EXCEPT ![p] = [pc |-> "snapshots", snapshots |-> snapshots, attestations |-> attestations]]
  /\ file' = [file EXCEPT !.snapshots = Torn]
  /\ saves' = saves + 1
  /\ UNCHANGED <<now, snapshots, attestations, up, running, check, forced, report>>

writeSnapshots(p) ==
  /\ save[p].pc = "snapshots"
  /\ file' = [file EXCEPT !.snapshots = Whole(save[p].snapshots), !.attestations = Torn]
  /\ save' = [save EXCEPT ![p].pc = "attestations"]
  /\ UNCHANGED <<now, snapshots, attestations, up, running, check, saves, forced, report>>

writeAttestations(p) ==
  /\ save[p].pc = "attestations"
  /\ file' = [file EXCEPT !.attestations = Whole(save[p].attestations)]
  /\ save' = [save EXCEPT ![p] = Idle]
  /\ UNCHANGED <<now, snapshots, attestations, up, running, check, saves, forced, report>>

crash ==
  /\ MayCrash /\ up = "run"
  /\ up' = "loading"
  /\ snapshots' = {} /\ attestations' = {} /\ running' = FALSE
  /\ check' = [c \in Checks |-> Idle] /\ save' = [p \in Savers |-> Idle]
  /\ UNCHANGED <<now, file, saves, forced, report>>

\* ENOENT is an empty file; what does not parse is an exception.
loadFromDisk ==
  /\ up = "loading"
  /\ IF file.snapshots = Torn
     THEN up' = "down" /\ UNCHANGED <<snapshots, attestations>>
     ELSE /\ snapshots' = snapshots \cup file.snapshots.data
          /\ IF file.attestations = Torn
             THEN up' = "down" /\ UNCHANGED attestations
             ELSE up' = "run" /\ attestations' = attestations \cup file.attestations.data
  /\ UNCHANGED <<now, file, running, check, save, saves, forced, report>>

-----------------------------------------------------------------------------
Tick ==
  /\ now < Len(Months) /\ now' = now + 1
  /\ UNCHANGED <<snapshots, attestations, file, up, running, check, save, saves, forced, report>>

Rest == UNCHANGED vars

Init ==
  /\ now = 1
  /\ snapshots = {} /\ attestations = {}
  /\ file = [snapshots |-> Missing, attestations |-> Missing]
  /\ up = "loading" /\ running = FALSE
  /\ check = [c \in Checks |-> Idle] /\ save = [p \in Savers |-> Idle] /\ saves = 0
  /\ forced = << >>
  /\ report = [created |-> FALSE, own |-> FALSE, ownMissing |-> FALSE]

Next ==
  \/ \E force \in BOOLEAN : postSnapshot(force)
  \/ \E r \in Reviewers, padded \in BOOLEAN, o \in Outcomes : postAttestation([name |-> r, padded |-> padded], o)
  \/ \E c \in Checks : runAccessReviewCheck(c) \/ finishCheck(c)
  \/ startAccessReviewWorker \/ stopAccessReviewWorker
  \/ \E p \in Savers : persistToDisk(p) \/ writeSnapshots(p) \/ writeAttestations(p)
  \/ crash \/ loadFromDisk
  \/ Tick
  \/ Rest

Spec == Init /\ [][Next]_vars

-----------------------------------------------------------------------------
\* A quarter has one snapshot that nobody forced, however checks and requests
\* overlap (createSnapshot decides and stores in one turn).
OneSnapshotPerQuarter ==
  \A s \in snapshots :
     listSnapshotsTotal(s.quarterLabel)
       <= 1 + Cardinality({i \in DOMAIN forced : forced[i] = s.quarterLabel})

\* A snapshot lists, for every role, all that can be reached from it in the
\* configuration of that day.
GrantsAreReachable ==
  \A s \in snapshots : \A g \in s.grants :
     /\ g.role \in g.effectivePermissions
     /\ \A r \in g.effectivePermissions : s.config[r] \subseteq g.effectivePermissions
     /\ \A P \in SUBSET DOMAIN s.config :
          g.role \in P /\ (\A r \in P : s.config[r] \subseteq P) => g.effectivePermissions \subseteq P

\* Every attestation is evidence for a stored snapshot of its quarter, after
\* any crash and reload, so the bundle of reports, which is the same in both
\* formats, leaves none out; and one reviewer attests a snapshot once under the
\* name as stored.
EvidenceIsWhole ==
  up = "run" =>
    /\ \A a \in attestations : \E s \in snapshots : s.id = a.snapshot /\ s.quarterLabel = a.quarterLabel
    /\ getBundledReport("csv") = getBundledReport("json")
    /\ {r.snapshot : r \in getBundledReport("csv")} = {a.snapshot : a \in attestations}
    /\ \A a, b \in attestations :
         a # b /\ a.snapshot = b.snapshot /\ a.reviewer = b.reviewer => a.padded \/ b.padded

\* A check that took a snapshot says so, and does not then list its own
\* quarter as missing; the missing quarters are those of the calendar.
ChecksTellTheTruth ==
  /\ report.own => report.created
  /\ ~report.ownMissing
  /\ up = "run" =>
       detectGaps(Lookback) =
         {computeQuarterLabel(Months[now] - 3 * k) : k \in 0..(Lookback - 1)} \ {s.quarterLabel : s \in snapshots}

\* Access reviews keep their evidence.
ReviewsSound == OneSnapshotPerQuarter /\ GrantsAreReachable /\ EvidenceIsWhole /\ ChecksTellTheTruth
=============================================================================
