----------------------------- MODULE Recurrence -----------------------------
(***************************************************************************)
(* Recurring availability and time zones, four families that share no      *)
(* state (Ops chooses which of them move):                                 *)
(*  - "series": services/occurrenceSeriesService.ts, its repositories and  *)
(*    scheduler/occurrenceMaterializer.ts;                                 *)
(*  - "zones": services/timezoneResolverService.ts and the holiday impact  *)
(*    of a rule, services/recurrenceService.ts;                            *)
(*  - "preview": services/conflictPreviewService.ts;                       *)
(*  - "drift": scheduler/tzDriftMonitor.ts.                                *)
(* A recurrence rule is [dtstart, step, count, exdates]: the n-th          *)
(* occurrence is dtstart + n * step, count is 0 for a rule without COUNT   *)
(* or UNTIL. A day has two half-day units of time, and a zone is its       *)
(* offset in those units.                                                  *)
(***************************************************************************)
EXTENDS Integers, Sequences, FiniteSets, FiniteSetsExt, SequencesExt

CONSTANTS
  Ops, MaxOps, MaxTime, MayFail,
  MayOverlap,      \* a series may be edited while a materialization runs
  Runs,            \* materializations that may be under way together
  Rules,           \* recurrence rules
  MAX_OCCURRENCES, MAX_EXDATES,
  HORIZON,         \* horizonDays, in units of time
  MaxSeries,
  Blackouts,       \* sets of windows <<startMs, endMs>>
  Holidays,        \* sets of holidays [day, regions]
  Regions, Offsets,\* region codes; offsets of zones
  Stores,          \* stores of the supplier
  Intervals,       \* slots <<startTime, endTime>> of the professional
  Durations,       \* slotDurationMs of a preview
  maxIterations,   \* of findNextSafeStart
  DefaultSlots,    \* DEFAULT_SLOTS of the slot repository
  DST,             \* instant of the clock change, in half hours
  SlotIds, SlotRows, Tenants,  \* slot rows of the drift monitor
  scanLimit, pageSize, safetyThreshold, reportMissingMetadata

VARIABLES
  now, ops,
  series, rows, cleanups, mat, done,   \* series
  answer,                              \* zones and preview: the last answer
  context,                             \* zones
  slots, lastScan, gauges              \* drift

seriesVars == <<series, rows, cleanups, mat, done>>
driftVars == <<slots, lastScan, gauges>>
vars == <<now, ops, seriesVars, answer, context, driftVars>>
op(family) == family \in Ops /\ ops < MaxOps /\ ops' = ops + 1

(***************************************************************************)
(* Expansion                                                              *)
(***************************************************************************)
Day(t) == t \div 2
sameUtcDay(a, b) == Day(a) = Day(b)

\* An exception date loses its time and its zone: midnight UTC of the day that
\* is written.
parseSingleExdate(e) == 2 * Day(e)
parseExdates(rule) == {parseSingleExdate(e) : e \in rule.exdates}

\* Times the rule generates, before anything is left out.
raw(rule) == {rule.dtstart + n * rule.step : n \in 0..rule.count - 1}

\* Unbounded rules, too many exception dates and too many occurrences throw.
expandable(rule) ==
  /\ Cardinality(rule.exdates) <= MAX_EXDATES
  /\ rule.count > 0 /\ rule.step >= 1 /\ rule.count <= MAX_OCCURRENCES

inBlackout(t, windows) == \E w \in windows : w[1] <= t /\ t <= w[2]

expandRRuleWithExdate(rule, windows) ==
  {t \in raw(rule) : (~\E e \in parseExdates(rule) : sameUtcDay(e, t)) /\ ~inBlackout(t, windows)}

expandRRule(rule) == expandRRuleWithExdate(rule, {})
ensureBoundedRRule(rule) == IF rule.count > 0 THEN rule ELSE [rule EXCEPT !.count = MAX_OCCURRENCES]

(***************************************************************************)
(* Series and their materialized occurrences                              *)
(***************************************************************************)
IdleMat == [pc |-> "idle", todo |-> <<>>, cur |-> {}, at |-> 0, alone |-> TRUE]
theSeries(id) == {s \in series : s.id = id}
idle == \A m \in Runs : mat[m].pc = "idle"
quiet == MayOverlap \/ idle

createSeries(rule) ==
  /\ op("series") /\ quiet /\ Cardinality(series) < MaxSeries
  /\ LET id == IF done.ids = {} THEN 1 ELSE Max(done.ids) + 1
     IN  /\ series' = series \cup {[id |-> id, rrule |-> rule, version |-> 1]}
         /\ done' = [done EXCEPT !.ids = @ \cup {id}]
  /\ UNCHANGED <<now, rows, cleanups, mat, answer, context, driftVars>>

bumped(s, rule) == [s EXCEPT !.rrule = rule, !.version = @ + 1]

\* editSeries answers at once; the cleanup it starts runs on its own.
editSeries(id, rule) ==
  /\ op("series") /\ quiet /\ theSeries(id) # {}
  /\ LET old == CHOOSE s \in theSeries(id) : TRUE
         new == bumped(old, rule)
     IN  /\ series' = (series \ {old}) \cup {new}
         /\ cleanups' = cleanups \cup {[id |-> id, version |-> new.version]}
  /\ UNCHANGED <<now, rows, mat, done, answer, context, driftVars>>

staleRows(id, version) == {r \in rows : r.series = id /\ r.version < version}

cleanup(c, works) ==
  /\ c \in cleanups /\ cleanups' = cleanups \ {c}
  /\ rows' = IF works THEN rows \ staleRows(c.id, c.version) ELSE rows
  /\ UNCHANGED <<now, ops, series, mat, done, answer, context, driftVars>>

\* The foreign key removes the occurrences with the series.
deleteSeries(id) ==
  /\ op("series") /\ quiet /\ theSeries(id) # {}
  /\ series' = series \ theSeries(id) /\ rows' = {r \in rows : r.series # id}
  /\ UNCHANGED <<now, cleanups, mat, done, answer, context, driftVars>>

\* materializeAllSeries, one await after another.  History: whether a run was
\* alone from its start to its end.
materializeAllSeries(m) ==
  /\ op("series") /\ mat[m].pc = "idle"
  /\ mat' = [q \in Runs |->
               IF q # m THEN [mat[q] EXCEPT !.alone = mat[q].pc = "idle"]
               ELSE [IdleMat EXCEPT !.pc = "find", !.at = now, !.alone = idle,
                                    !.todo = SetToSortSeq({s.id : s \in series}, <)]]
  /\ UNCHANGED <<now, series, rows, cleanups, done, answer, context, driftVars>>

following(m) == [mat[m] EXCEPT !.pc = "find", !.todo = Tail(@), !.cur = {}]

findById(m) ==
  /\ mat[m].pc = "find" /\ mat[m].todo # <<>>
  /\ LET found == theSeries(Head(mat[m].todo))
     IN  mat' = [mat EXCEPT ![m] = IF \E s \in found : expandable(ensureBoundedRRule(s.rrule))
                                   THEN [@ EXCEPT !.pc = "upsert", !.cur = found] ELSE following(m)]
  /\ UNCHANGED <<now, ops, series, rows, cleanups, done, answer, context, driftVars>>


horizonOccurrences(s, at) ==
  {t \in expandRRule(ensureBoundedRRule(s.rrule)) : at <= t /\ t <= at + HORIZON}

\* One transaction: the rows of the series are deleted, those of the version
\* that was read are inserted. Inserting for a deleted series fails.
bulkUpsert(s) == {r \in rows : r.series # s.id}

upsert(m, works) ==
  /\ mat[m].pc = "upsert"
  /\ LET s == CHOOSE x \in mat[m].cur : TRUE
         dates == horizonOccurrences(s, mat[m].at)
         ok == works /\ (theSeries(s.id) # {} \/ dates = {})
     IN  /\ rows' = IF ok THEN bulkUpsert(s) \cup
                      {[series |-> s.id, version |-> s.version, date |-> d] : d \in dates} ELSE rows
         /\ mat' = [mat EXCEPT ![m] = IF ok THEN [@ EXCEPT !.pc = "clean"] ELSE following(m)]
  /\ UNCHANGED <<now, ops, series, cleanups, done, answer, context, driftVars>>

cleanStaleVersions(m, works) ==
  /\ mat[m].pc = "clean"
  /\ LET s == CHOOSE x \in mat[m].cur : TRUE
     IN  /\ rows' = IF works THEN rows \ staleRows(s.id, s.version) ELSE rows
         /\ done' = IF mat[m].alone
                    THEN [done EXCEPT !.runs = @ \cup {[id |-> s.id, version |-> s.version, at |-> mat[m].at]}]
                    ELSE done
  /\ mat' = [mat EXCEPT ![m] = following(m)]
  /\ UNCHANGED <<now, ops, series, cleanups, answer, context, driftVars>>

cleanExpired(m, works) ==
  /\ mat[m].pc = "find" /\ mat[m].todo = <<>>
  /\ mat' = [mat EXCEPT ![m] = IdleMat]
  /\ rows' = IF works THEN {r \in rows : r.date >= mat[m].at} ELSE rows
  /\ UNCHANGED <<now, ops, series, cleanups, done, answer, context, driftVars>>

SeriesNext ==
  \/ \E rule \in Rules : createSeries(rule) \/ \E id \in 1..MaxSeries + 1 : editSeries(id, rule)
  \/ \E id \in 1..MaxSeries + 1 : deleteSeries(id)
  \/ \E c \in cleanups, works \in BOOLEAN : (works \/ MayFail) /\ cleanup(c, works)
  \/ \E m \in Runs : materializeAllSeries(m) \/ findById(m)
  \/ \E m \in Runs, works \in BOOLEAN :
       (works \/ MayFail) /\ (upsert(m, works) \/ cleanStaleVersions(m, works) \/ cleanExpired(m, works))

(***************************************************************************)
(* Time zones and the impact of holidays                                  *)
(***************************************************************************)
\* The context of the supplier: zones are sets of at most one offset.
NoContext == [tenant |-> {}, supplier |-> {},
              stores |-> [s \in Stores |-> [known |-> FALSE, zone |-> {}, regions |-> {}]]]

Contexts ==
  [tenant : {{}} \cup {{o} : o \in Offsets}, supplier : {{}},
   stores : [Stores -> {[known |-> TRUE, zone |-> {}, regions |-> r] : r \in SUBSET Regions}
                       \cup {NoContext.stores[s] : s \in Stores}]]

\* store is {} or {s}.
storeZone(c, store) == UNION {c.stores[s].zone : s \in store}

\* {} when there is no tenant context: the call throws.
resolveTimezone(c, store) ==
  IF c.tenant = {} THEN {}
  ELSE IF storeZone(c, store) # {} THEN storeZone(c, store)
  ELSE IF c.supplier # {} THEN c.supplier ELSE c.tenant

setStoreTimezoneOverride(s, o) ==
  /\ op("zones")
  /\ context' = [context EXCEPT !.stores[s].known = TRUE, !.stores[s].zone = {o}]
  /\ UNCHANGED <<now, seriesVars, answer, driftVars>>

setSupplierDefaultTimezone(o) ==
  /\ op("zones") /\ context' = [context EXCEPT !.supplier = {o}]
  /\ UNCHANGED <<now, seriesVars, answer, driftVars>>

clearStoreTimezoneOverride(s) ==
  /\ op("zones") /\ context.stores[s].zone # {}
  /\ context' = [context EXCEPT !.stores[s].zone = {}]
  /\ UNCHANGED <<now, seriesVars, answer, driftVars>>

getRegionsForStore(s) == context.stores[s].regions
getAllRegionsForSupplier == UNION {context.stores[s].regions : s \in Stores}

baseRegions(store) ==
  IF store = {} THEN getAllRegionsForSupplier ELSE UNION {getRegionsForStore(s) : s \in store}

effectiveRegions(store, scoped) ==
  LET base == baseRegions(store)
  IN  IF scoped = {} THEN base ELSE IF base = {} THEN scoped ELSE base \cap scoped

\* inRange: the UTC day of the holiday meets [startMs, endMs].
inRange(h, startMs, endMs) == 2 * h.day + 1 >= startMs /\ 2 * h.day <= endMs

\* No region filter when no region is left.
affectedRegions(h, regions) == IF regions = {} THEN h.regions ELSE h.regions \cap regions
sameDayIso(h, t, zone) == Day(t + zone) = h.day \/ Day(t) = h.day

impactsOf(rule, windows, holidays, regions, zone) ==
  LET times == expandRRuleWithExdate(rule, windows)
      listed == {h \in holidays : inRange(h, Min(times), Max(times)) /\ affectedRegions(h, regions) # {}}
  IN  IF times = {} THEN {}
      ELSE {[t |-> p[1], h |-> p[2], in |-> affectedRegions(p[2], regions)] :
              p \in {q \in times \X listed : sameDayIso(q[2], q[1], zone)}}

analyze(rule, windows, holidays, store, scoped) ==
  /\ op("zones") /\ expandable(rule)
  /\ LET zone == resolveTimezone(context, store)
         at == IF zone = {} THEN 0 ELSE CHOOSE o \in zone : TRUE
     IN  answer' = [kind |-> "impact", rule |-> rule, windows |-> windows, holidays |-> holidays,
                    store |-> store, scoped |-> scoped, of |-> context, zone |-> at,
                    impacts |-> impactsOf(rule, windows, holidays, effectiveRegions(store, scoped), at)]
  /\ UNCHANGED <<now, seriesVars, context, driftVars>>

\* The caller hands in the zone (UTC without one) and the holidays.
analyzeSync(rule, windows, holidays, store, scoped, zone) ==
  /\ op("zones") /\ expandable(rule)
  /\ answer' = [kind |-> "sync", rule |-> rule, windows |-> windows, holidays |-> holidays,
                store |-> store, scoped |-> scoped, of |-> context, zone |-> zone,
                impacts |-> impactsOf(rule, windows, holidays, effectiveRegions(store, scoped), zone)]
  /\ UNCHANGED <<now, seriesVars, context, driftVars>>

ZonesNext ==
  \/ \E s \in Stores : clearStoreTimezoneOverride(s) \/ \E o \in Offsets : setStoreTimezoneOverride(s, o)
  \/ \E o \in Offsets : setSupplierDefaultTimezone(o)
  \/ \E rule \in Rules, w \in Blackouts, hs \in Holidays, store \in {{}} \cup {{s} : s \in Stores},
        scoped \in SUBSET Regions :
       analyze(rule, w, hs, store, scoped) \/ \E o \in Offsets : analyzeSync(rule, w, hs, store, scoped, o)

(***************************************************************************)
(* Conflict preview                                                       *)
(***************************************************************************)
overlaps(slot, from, to) == slot[1] < to /\ slot[2] > from

firstOverlap(profSlots, from, to) ==
  LET hits == {s \in profSlots : overlaps(s, from, to)}
      earliest == {s \in hits : \A u \in hits : s[1] <= u[1]}
  IN  IF hits = {} THEN {} ELSE {CHOOSE s \in earliest : TRUE}
RECURSIVE findNextSafeStart(_, _, _, _)

\* -1 (undefined) after maxIterations slots in the way.
findNextSafeStart(profSlots, after, durationMs, n) ==
  LET hit == firstOverlap(profSlots, after, after + durationMs)
  IN  IF n = maxIterations THEN -1
      ELSE IF hit = {} THEN after
      ELSE findNextSafeStart(profSlots, (CHOOSE s \in hit : TRUE)[2], durationMs, n + 1)

previewConflicts(rule, profSlots, durationMs) ==
  LET times == {t \in expandRRule(rule) : now <= t /\ t <= now + HORIZON}
  IN  {[start |-> p[1], slot |-> p[2], next |-> findNextSafeStart(profSlots, p[2][2], durationMs, 0)] :
         p \in {q \in times \X profSlots : overlaps(q[2], q[1], q[1] + durationMs)}}

preview(rule, profSlots, durationMs) ==
  /\ op("preview") /\ expandable(rule)
  /\ answer' = [kind |-> "preview", rule |-> rule, slots |-> profSlots, duration |-> durationMs, at |-> now,
                conflicts |-> previewConflicts(rule, profSlots, durationMs)]
  /\ UNCHANGED <<now, seriesVars, context, driftVars>>

\* The route makes a service of its own, over a repository of its own: it sees
\* the default slots, whatever slots exist.
postConflictsPreview(rule, existing, durationMs) ==
  /\ op("preview") /\ expandable(rule)
  /\ answer' = [kind |-> "route", rule |-> rule, slots |-> existing, duration |-> durationMs, at |-> now,
                conflicts |-> previewConflicts(rule, DefaultSlots, durationMs)]
  /\ UNCHANGED <<now, seriesVars, context, driftVars>>

PreviewNext ==
  \E rule \in Rules, ss \in SUBSET Intervals, d \in Durations :
    preview(rule, ss, d) \/ postConflictsPreview(rule, ss, d)

(***************************************************************************)
(* Drift monitor                                                          *)
(***************************************************************************)
\* A row is [tenant, naive, zoned, start]: naive is a timestamp without offset,
\* zoned says whether the zone field is set. A slot lasts an hour, two half
\* hours; the clock changes at DST.
HOUR == 2
WINDOW == 12
isInDSTTransition(t) == t - HOUR < DST /\ DST <= t + HOUR
checkPoints(start) == {start, start + 1, start + 2}

isNearDSTTransition(start) ==
  \E p \in checkPoints(start), n \in 0..8 : isInDSTTransition(p - WINDOW + n * (WINDOW \div 4))

NoFinding == [severity |-> "none", category |-> "none"]

inspectSlot(s) ==
  CASE s.naive -> [severity |-> IF s.zoned THEN "warning" ELSE "critical", category |-> "missing_tz"]
    [] ~s.naive /\ isNearDSTTransition(s.start) ->
         [severity |-> IF s.zoned THEN "info" ELSE "warning", category |-> "ambiguous"]
    [] ~s.naive /\ ~isNearDSTTransition(s.start) /\ ~s.zoned /\ reportMissingMetadata ->
         [severity |-> "info", category |-> "metadata"]
    [] OTHER -> NoFinding

\* The first limit rows behind the cursor.
listPage(cursor, limit) ==
  LET rest == {s \in slots : s.id > cursor}
  IN  {s \in rest : Cardinality({u \in rest : u.id < s.id}) < limit}
RECURSIVE scanFrom(_, _)

scanFrom(cursor, scanned) ==
  LET limit == Min({pageSize, scanLimit - scanned})
      page == listPage(cursor, limit)
  IN  IF scanned >= scanLimit \/ page = {} THEN {}
      ELSE page \cup (IF Cardinality(page) = limit
                      THEN scanFrom(Max({s.id : s \in page}), scanned + limit) ELSE {})

metricOf(category) == IF category \in {"ambiguous", "metadata"} THEN "ambiguous" ELSE "missing_tz"
Labels == Tenants \X {"critical", "warning", "info"} \X {"ambiguous", "missing_tz"}

countOf(findings, l) ==
  Cardinality({f \in findings : f.tenant = l[1] /\ f.severity = l[2] /\ metricOf(f.category) = l[3]})

upsertSlot(id, row) ==
  /\ op("drift")
  /\ slots' = {s \in slots : s.id # id} \cup
       {[id |-> id, tenant |-> row.tenant, naive |-> row.naive, zoned |-> row.zoned, start |-> row.start]}
  /\ UNCHANGED <<now, seriesVars, answer, context, lastScan, gauges>>

\* A gauge is only written for a tenant and severity with a finding.
gauged(findings, l) == IF countOf(findings, l) > 0 THEN countOf(findings, l) ELSE gauges.set[l]

scanTzDriftOnce ==
  /\ op("drift") /\ Cardinality(slots) <= safetyThreshold
  /\ LET read == scanFrom(0, 0)
         findings == {[slotId |-> s.id, tenant |-> s.tenant, severity |-> inspectSlot(s).severity,
                       category |-> inspectSlot(s).category] : s \in {x \in read : inspectSlot(x) # NoFinding}}
     IN  /\ lastScan' = [of |-> slots, scanned |-> Cardinality(read), findings |-> findings]
         /\ gauges' = [set |-> [l \in Labels |-> gauged(findings, l)],
                       sum |-> [l \in Labels |-> gauges.sum[l] + countOf(findings, l)]]
  /\ UNCHANGED <<now, seriesVars, answer, context, slots>>

DriftNext ==
  \/ \E id \in SlotIds, row \in SlotRows : upsertSlot(id, row)
  \/ scanTzDriftOnce

(***************************************************************************)
(* Specification                                                          *)
(***************************************************************************)
Init ==
  /\ now = 0 /\ ops = 0
  /\ series = {} /\ rows = {} /\ cleanups = {} /\ mat = [m \in Runs |-> IdleMat]
  /\ done = [ids |-> {}, runs |-> {}]
  /\ answer = [kind |-> "none"]
  /\ context \in IF "zones" \in Ops THEN Contexts ELSE {NoContext}
  /\ slots = {} /\ lastScan = [of |-> {}, scanned |-> 0, findings |-> {}]
  /\ gauges = [set |-> [l \in Labels |-> 0], sum |-> [l \in Labels |-> 0]]

pass ==
  /\ now < MaxTime /\ now' = now + 1
  /\ UNCHANGED <<ops, seriesVars, answer, context, driftVars>>

Next == SeriesNext \/ ZonesNext \/ PreviewNext \/ DriftNext \/ pass
Spec == Init /\ [][Next]_vars

(***************************************************************************)
(* Properties                                                             *)
(***************************************************************************)
\* After a run that had no other beside it, and until the series is edited or
\* time passes, the stored occurrences of a series are those of its current rule
\* within the horizon, in its current version.  Also where runs overlap, the
\* occurrences of a series are of one version, no occurrence outlives its series
\* and none carries a version the series never had.  (Line 51 of the materializer
\* calls it safe to call concurrently: a run that read a series before an edit
\* may replace what a later run has stored for the version after it.)
OccurrencesFollow ==
  /\ \A d \in done.runs :
       idle /\ now = d.at =>
         \A s \in series : (s.id = d.id /\ s.version = d.version) =>
           {r \in rows : r.series = s.id} =
             {[series |-> s.id, version |-> s.version, date |-> t] :
                t \in {u \in now..now + HORIZON : u \in expandRRule(ensureBoundedRRule(s.rrule))}}
  /\ \A r \in rows : \E s \in series : s.id = r.series /\ r.version <= s.version
  /\ \A q, r \in rows : q.series = r.series => q.version = r.version

\* An occurrence that is left (no exception date on its UTC day, not in a
\* blackout window, end included) is reported with exactly the holidays of its
\* UTC day and of its day in the zone that holds (the store's, else the
\* supplier's, else the tenant's), in a region of the store or of the supplier
\* without a store, among those from the UTC day of the first occurrence to that
\* of the last.  (sameDayIso compares the local day and falls back to UTC also
\* where the zone is known; the registry is asked for UTC days, so a holiday on
\* a local day before the first or after the last of them is not reported.)
ImpactSound ==
  answer.kind \in {"impact", "sync"} =>
    LET c == answer.of
        own == UNION {c.stores[s].zone : s \in answer.store}
        zone == IF answer.kind = "sync" THEN {answer.zone} ELSE IF c.tenant = {} THEN {0} ELSE IF own # {} THEN own
                ELSE IF c.supplier # {} THEN c.supplier ELSE c.tenant
        regions == UNION {c.stores[s].regions : s \in IF answer.store = {} THEN Stores ELSE answer.store}
        kept == {t \in raw(answer.rule) :
                   /\ \A e \in answer.rule.exdates : t \div 2 # e \div 2
                   /\ \A w \in answer.windows : t \notin w[1]..w[2]}
        inScope == {r \in regions : answer.scoped = {} \/ r \in answer.scoped}
        days(t) == {(t + o) \div 2 : o \in zone \cup {0}}
        span == {d \in {h.day : h \in answer.holidays} : \E t, u \in kept : t \div 2 <= d /\ d <= u \div 2}
    IN  /\ \A i \in answer.impacts : i.t \in kept /\ i.h.day \in days(i.t) \cap span /\ i.in # {}
        /\ \A t \in kept, h \in answer.holidays :
             h.day \in days(t) \cap span /\ h.regions \cap inScope # {} =>
               \E i \in answer.impacts : i.t = t /\ i.h = h /\ i.in = h.regions \cap inScope
        /\ \A i \in answer.impacts : inScope # {} => i.in \subseteq inScope

\* A suggested start is the earliest one after the slot in the way that meets
\* no slot of the professional, and every occurrence of the horizon that meets
\* a slot is listed.
SuggestionIsSafe ==
  answer.kind = "preview" =>
    LET free(t) == \A s \in answer.slots : (t..t + answer.duration - 1) \cap (s[1]..s[2] - 1) = {}
    IN  /\ \A c \in answer.conflicts : c.next # -1 =>
             c.next >= c.slot[2] /\ free(c.next) /\ \A t \in c.slot[2]..c.next - 1 : ~free(t)
        /\ \A t \in expandRRule(answer.rule) :
             answer.at <= t /\ t <= answer.at + HORIZON /\ ~free(t) =>
               \E c \in answer.conflicts : c.start = t
        /\ \A c \in answer.conflicts : ~free(c.start)

\* A scan reads the first scanLimit rows, each once whatever the page size,
\* finds every one that lacks its zone or lies within six hours and one of the
\* clock change (the coarse steps of the search leave no gap), and leaves the gauge of each tenant and
\* severity it found at the number of that scan.
ScanIsComplete ==
  LET first == {s \in lastScan.of : Cardinality({u \in lastScan.of : u.id <= s.id}) <= scanLimit}
  IN  /\ lastScan.scanned = Cardinality(first)
      /\ {f.slotId : f \in lastScan.findings} =
           {s.id : s \in {x \in first : \/ x.naive
                                        \/ DST - x.start \in 1 - WINDOW - HOUR..2 + WINDOW + HOUR
                                        \/ ~x.zoned /\ reportMissingMetadata}}
      /\ \A f \in lastScan.findings :
           LET l == <<f.tenant, f.severity, metricOf(f.category)>>
           IN  gauges.set[l] = countOf(lastScan.findings, l) /\ gauges.sum[l] >= gauges.set[l]

\* Occurrences follow their series, holiday impacts and suggestions are the
\* right ones and a scan misses nothing.
RecurrenceSound == OccurrencesFollow /\ ImpactSound /\ SuggestionIsSafe /\ ScanIsComplete

=============================================================================
