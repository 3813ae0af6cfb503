---------------------------- MODULE Marketplace ----------------------------
(***************************************************************************)
(* What buyers browse: the search over the slots table with its filters,   *)
(* orders, cursors, diversification and cache; the facet counts with their *)
(* write events; the warm-up of the search cache; the slot service in      *)
(* memory with its cached list, the reservations and the resale listings.  *)
(*                                                                         *)
(* The table of slots is external (PostgreSQL): Row gives the fields of a  *)
(* row, available and held change under the searches.                      *)
(***************************************************************************)
EXTENDS Integers, Sequences, FiniteSets, SequencesExt, FiniteSetsExt

CONSTANTS
  Ops,              \* of "search", "warmup", "changes", "facets", "slots", "listings"
  Row,              \* id -> [supplier, rating, price, category, near]
  Held0,            \* slots on hold from the start
  Queries,          \* [sortBy, page, diversify, suppress, geo]
  limit, cap,       \* page size, and slots of a supplier in a row
  MAX_GEO_CANDIDATES,
  MayRerank,        \* the learned order is on
  Requests,         \* searches or lists under way together
  MaxTracked, topN, \* records of the query tracker, queries replayed
  FacetQueries,     \* sets of categories, {} for all
  FRESHNESS_WINDOW, CACHE_TTL, maxEntries,
  MayCoincide,      \* a write and a count may have the same timestamp
  Times,            \* start and end times of slots
  MayOverlap,       \* a list may overlap writes
  Transferable,     \* slots whose supplier agrees to a resale
  MaxTime, MaxOps   \* bounds

Ids == DOMAIN Row

VARIABLES
  now, ops,
  available, held, changed,
  cache,                       \* cached results of the search, by key
  request,
  tracked, sequence, warmup,   \* the query tracker and the warm-ups
  rows, events, facets, shown, past, \* the table behind the facets, write events, cached counts
  slots, nextId, list, lister, \* the slot service, its cached list and its readers
  listing

vars == <<now, ops, available, held, changed, cache, request, tracked, sequence, warmup, rows, events,
          facets, shown, past, slots, nextId, list, lister, listing>>
table == <<available, held, changed>>
warm == <<tracked, sequence, warmup>>
facet == <<rows, events, facets, shown, past>>
memory == <<slots, nextId, list, lister, listing>>

NoQuery == [sortBy |-> "relevance", page |-> 1, diversify |-> FALSE, suppress |-> TRUE, geo |-> FALSE, cursor |-> {}]
\* History: seen, the slots of the pages so far; asked, for each of these pages,
\* whether it was read without the held slots.
Idle == [pc |-> "idle", q |-> NoQuery, total |-> 0, result |-> << >>, next |-> {}, seen |-> << >>, asked |-> << >>]
SEARCH_TTL == 1

Init ==
  /\ now = 1 /\ ops = 0
  /\ available = Ids /\ held = Held0 /\ changed = FALSE
  /\ cache = {} /\ request = [r \in Requests |-> Idle]
  /\ tracked = << >> /\ sequence = 0 /\ warmup = {}
  /\ rows = {} /\ events = << >> /\ facets = << >> /\ shown = {} /\ past = {<<1, {}>>}
  /\ slots = << >> /\ nextId = 1 /\ list = {} /\ lister = [r \in Requests |-> [pc |-> "idle", taken |-> << >>, got |-> << >>]]
  /\ listing = [i \in Ids |-> "none"]

Op(name) == name \in Ops /\ ops < MaxOps /\ ops' = ops + 1

-----------------------------------------------------------------------------
(* The search.                                                             *)

\* buildFilterClause.
matching(q) == {i \in available : q.suppress => i \notin held}

\* buildOrderByClause; the id decides last.
ranksBefore(sortBy, a, b) ==
  LET ra == Row[a]
      rb == Row[b] IN
  CASE sortBy = "rating" -> ra.rating > rb.rating \/ (ra.rating = rb.rating /\ a < b)
    [] sortBy = "price"  -> ra.price < rb.price \/ (ra.price = rb.price /\ a < b)
    [] OTHER -> \/ ra.rating > rb.rating
                \/ ra.rating = rb.rating /\ ra.price < rb.price
                \/ ra.rating = rb.rating /\ ra.price = rb.price /\ a < b

ordered(S, sortBy) ==
  [k \in 1 .. Cardinality(S) |-> CHOOSE a \in S : Cardinality({b \in S : ranksBefore(sortBy, b, a)}) = k - 1]

encodeCursor(i) == [id |-> i, rating |-> Row[i].rating, price |-> Row[i].price]

buildCursorPredicate(c, sortBy, i) ==
  LET r == Row[i] IN
  CASE sortBy = "rating" -> r.rating < c.rating \/ (r.rating = c.rating /\ i > c.id)
    [] sortBy = "price"  -> r.price > c.price \/ (r.price = c.price /\ i > c.id)
    [] OTHER -> \/ r.rating < c.rating
                \/ r.rating = c.rating /\ r.price > c.price
                \/ r.rating = c.rating /\ r.price = c.price /\ i > c.id

pageOf(s, page) == SubSeq(s, (page - 1) * limit + 1, Min({page * limit, Len(s)}))

\* The rows of the main query.
selected(q) ==
  LET s == ordered(matching(q), q.sortBy) IN
  IF q.cursor = {} THEN pageOf(s, q.page)
  ELSE LET c == CHOOSE c \in q.cursor : TRUE
           rest == SelectSeq(s, LAMBDA i : buildCursorPredicate(c, q.sortBy, i)) IN
       SubSeq(rest, 1, Min({limit, Len(rest)}))

countConsecutiveSupplier(recent, s) ==
  Max({k \in 0 .. Len(recent) : \A j \in Len(recent) - k + 1 .. Len(recent) : Row[recent[j]].supplier = s})

overCap(n) == n >= cap

\* diversifyResults: the first slot left whose supplier is not over the cap,
\* or the first one left.
RECURSIVE diversified(_, _)
diversified(done, left) ==
  IF left = << >> THEN done
  ELSE LET fits == {i \in DOMAIN left : ~overCap(countConsecutiveSupplier(done, Row[left[i]].supplier))}
           k == IF fits = {} THEN 1 ELSE Min(fits) IN
       diversified(Append(done, left[k]), RemoveAt(left, k))

diversifyResults(s) == IF Len(s) <= cap \/ cap <= 0 THEN s ELSE diversified(<< >>, s)

rerank(s) == IF MayRerank THEN Reverse(s) ELSE s

\* The key has every field of the query but the treatment of held slots.
generateCacheKey(q) == [sortBy |-> q.sortBy, page |-> q.page, diversify |-> q.diversify, geo |-> q.geo,
                        cursor |-> q.cursor]

cachedFor(q) == {e \in cache : e.key = generateCacheKey(q) /\ now < e.at + SEARCH_TTL}

\* recordQuery: the key of the tracker.
recordQuery(q) ==
  LET all == Append(tracked, [sortBy |-> q.sortBy, page |-> q.page, q |-> q, at |-> now]) IN
  SubSeq(all, Max({1, Len(all) - MaxTracked + 1}), Len(all))

\* search up to the answer of the cache.
searchWith(r, q, seen, asked) ==
  LET hit == cachedFor(q) IN
  /\ tracked' = recordQuery(q)
  /\ request' = [request EXCEPT ![r] =
       IF hit = {} THEN [Idle EXCEPT !.pc = "count", !.q = q, !.seen = seen, !.asked = Append(asked, q.suppress)]
       ELSE LET e == CHOOSE e \in hit : TRUE IN
            [pc |-> "done", q |-> q, total |-> e.total, result |-> e.result, next |-> e.next,
             seen |-> seen \o e.result, asked |-> Append(asked, e.q.suppress)]]

free(r) == request[r].pc \in {"idle", "done", "failed"} /\ \A w \in warmup : w.request # r

search(r, q) ==
  /\ free(r) /\ Op("search")
  /\ searchWith(r, [sortBy |-> q.sortBy, page |-> q.page, diversify |-> q.diversify,
                    suppress |-> q.suppress, geo |-> q.geo, cursor |-> {}], << >>, << >>)
  /\ UNCHANGED <<now, table, cache, sequence, warmup, facet, memory>>

\* The buyer asks for the page after the cursor of the last one.
searchNext(r) ==
  /\ free(r) /\ request[r].pc = "done" /\ request[r].next # {} /\ Op("search")
  /\ searchWith(r, [request[r].q EXCEPT !.cursor = request[r].next], request[r].seen, request[r].asked)
  /\ UNCHANGED <<now, table, cache, sequence, warmup, facet, memory>>

searchCount(r) ==
  /\ request[r].pc = "count" /\ ~request[r].q.geo
  /\ request' = [request EXCEPT ![r].pc = "rows", ![r].total = Cardinality(matching(request[r].q))]
  /\ UNCHANGED <<now, ops, table, cache, warm, facet, memory>>

\* The main query, the learned order, the diversification and the next cursor.
searchRows(r) ==
  LET q == request[r].q
      s == rerank(selected(q))
      result == IF q.diversify /\ Len(s) > 1 THEN diversifyResults(s) ELSE s IN
  /\ request[r].pc = "rows"
  /\ request' = [request EXCEPT ![r].pc = "store", ![r].result = result, ![r].seen = @ \o result,
                   ![r].next = IF Len(result) = limit THEN {encodeCursor(Last(result))} ELSE {}]
  /\ UNCHANGED <<now, ops, table, cache, warm, facet, memory>>

\* searchByGeoRadius: as many candidates as the query is limited to, any of
\* them, those in the radius, sorted, and the page of them.
searchByGeoRadius(r, C) ==
  LET q == request[r].q
      m == matching(q)
      inside == ordered({i \in C : Row[i].near}, q.sortBy)
      result == pageOf(inside, q.page) IN
  /\ request[r].pc = "count" /\ q.geo
  /\ C \subseteq m /\ Cardinality(C) = Min({MAX_GEO_CANDIDATES, Cardinality(m)})
  /\ request' = [request EXCEPT ![r].pc = "store", ![r].total = Len(inside), ![r].result = result,
                                ![r].seen = result, ![r].next = {}]
  /\ UNCHANGED <<now, ops, table, cache, warm, facet, memory>>

\* The result is stored; that may fail.
searchStore(r, ok) ==
  LET x == request[r]
      e == [key |-> generateCacheKey(x.q), q |-> x.q, total |-> x.total, result |-> x.result,
            next |-> x.next, at |-> now] IN
  /\ x.pc = "store"
  /\ cache' = IF ok THEN {o \in cache : o.key # e.key} \cup {e} ELSE cache
  /\ request' = [request EXCEPT ![r].pc = "done"]
  /\ UNCHANGED <<now, ops, table, warm, facet, memory>>

searchFails(r) ==
  /\ request[r].pc \in {"count", "rows"} /\ "changes" \in Ops
  /\ request' = [request EXCEPT ![r].pc = "failed"]
  /\ UNCHANGED <<now, ops, table, cache, warm, facet, memory>>

\* Slots are booked or put back, held or let go, next to the searches.
Change(i, hold) ==
  /\ Op("changes")
  /\ available' = IF hold THEN available ELSE SymDiff(available, {i})
  /\ held' = IF hold THEN SymDiff(held, {i}) ELSE held
  /\ changed' = TRUE
  /\ UNCHANGED <<now, cache, request, warm, facet, memory>>

-----------------------------------------------------------------------------
(* The warm-up after a commit of the taxonomy.                             *)

\* getTopQueries: by frequency of the tracker's key; the key has fewer fields
\* than the query, the first query with it stands for all.
KeyOf(t) == <<t.sortBy, t.page>>
firstWith(k) == Min({i \in DOMAIN tracked : KeyOf(tracked[i]) = k})
frequency(k) == Cardinality({i \in DOMAIN tracked : KeyOf(tracked[i]) = k})

moreFrequent(a, b) == frequency(a) > frequency(b)

getTopQueries ==
  LET keys == {KeyOf(tracked[i]) : i \in DOMAIN tracked}
      rank(k) == Cardinality({l \in keys : moreFrequent(l, k) \/ (frequency(l) = frequency(k) /\ firstWith(l) < firstWith(k))})
      top == [n \in 1 .. Cardinality(keys) |-> CHOOSE k \in keys : rank(k) = n - 1] IN
  [n \in 1 .. Min({topN, Len(top)}) |-> tracked[firstWith(top[n])].q]

commitTaxonomy ==
  /\ Op("warmup")
  /\ sequence' = sequence + 1
  /\ cache' = {}
  /\ warmup' = warmup \cup {[seq |-> sequence + 1, left |-> getTopQueries, request |-> "none", warmed |-> 0,
                             total |-> Len(getTopQueries), of |-> tracked, last |-> sequence + 1,
                             status |-> "running"]}
  /\ UNCHANGED <<now, table, request, tracked, facet, memory>>


superseded(w) == w.seq # sequence

\* One turn of the replay: the next query, or the end with its status.
warmNext(w, r) ==
  LET done == IF w.request = "none" THEN w
              ELSE [w EXCEPT !.warmed = IF request[w.request].pc = "done" THEN @ + 1 ELSE @, !.request = "none"] IN
  /\ w.status = "running"
  /\ w.request # "none" => request[w.request].pc \in {"done", "failed"}
  /\ IF superseded(w) \/ w.left = << >>
     THEN /\ warmup' = (warmup \ {w}) \cup {[done EXCEPT !.last = sequence, !.status =
                         IF superseded(w) THEN "cancelled" ELSE IF done.warmed = w.total THEN "success"
                         ELSE IF done.warmed > 0 THEN "partial" ELSE "failed"]}
          /\ UNCHANGED <<request, tracked>>
     ELSE /\ free(r) \/ w.request = r
          /\ warmup' = (warmup \ {w}) \cup {[done EXCEPT !.last = sequence, !.request = r, !.left = Tail(@)]}
          /\ searchWith(r, w.left[1], << >>, << >>)
  /\ UNCHANGED <<now, ops, table, cache, sequence, facet, memory>>

-----------------------------------------------------------------------------
(* The facet counts: a count per category, cached for a time and brought   *)
(* up to date with the write events since.                                 *)

CategoryOf(i) == Row[i].category
Categories == {CategoryOf(i) : i \in Ids}
countOf(R, cats) == [c \in Categories |-> Cardinality({i \in R : CategoryOf(i) = c /\ (cats = {} \/ c \in cats)})]

\* A slot is created or deleted, and the event recorded.
recordWriteEvent(i) ==
  /\ Op("facets")
  /\ MayCoincide \/ \A k \in DOMAIN facets : facets[k].refreshedAt # now
  /\ rows' = SymDiff(rows, {i})
  /\ events' = Append(events, [category |-> CategoryOf(i), create |-> i \notin rows, at |-> now])
  /\ past' = past \cup {<<now, rows'>>}
  /\ UNCHANGED <<now, table, cache, request, warm, facets, shown, memory>>

\* applySingleEvent.
applySingleEvent(counts, e) ==
  IF e.create THEN [counts EXCEPT ![e.category] = @ + 1]
  ELSE [counts EXCEPT ![e.category] = Max({0, @ - 1})]

since(events1, t) == SelectSeq(events1, LAMBDA e : e.at >= t)

applyWriteEvents(entry) ==
  LET new == since(events, entry.refreshedAt) IN
  IF new = << >> THEN entry
  ELSE [entry EXCEPT !.counts = FoldLeft(applySingleEvent, @, new),
                     !.refreshedAt = Max({new[i].at : i \in DOMAIN new} \cup {@})]

\* InMemoryCache: an expired entry is no entry; at its limit a new key evicts
\* the entry used longest ago.
live == SelectSeq(facets, LAMBDA e : now < e.expiresAt)
evictLeastRecentlyUsed(s) ==
  LET k == CHOOSE i \in DOMAIN s : \A j \in DOMAIN s : s[i].usedAt < s[j].usedAt \/ (s[i].usedAt = s[j].usedAt /\ i <= j)
  IN RemoveAt(s, k)

full(s) == Len(s) >= maxEntries

cacheSet(key, entry) ==
  LET others == SelectSeq(live, LAMBDA e : e.key # key)
      room == IF Len(others) = Len(live) /\ full(live) THEN evictLeastRecentlyUsed(live) ELSE others IN
  Append(room, entry)

\* getFacetCounts: fresh from the cache, from the cache and the events, or from
\* the table (read and stored in one step).
getFacetCounts(cats) ==
  LET hits == {i \in DOMAIN live : live[i].key = cats}
      hit == live[Min(hits)]
      touched == [i \in DOMAIN live |-> IF live[i].key = cats THEN [live[i] EXCEPT !.usedAt = now] ELSE live[i]]
      withWrites == applyWriteEvents(hit)
      fromCache == hits # {} /\ now - hit.refreshedAt < FRESHNESS_WINDOW
      fromWrites == hits # {} /\ now - withWrites.refreshedAt < FRESHNESS_WINDOW
      fresh == [key |-> cats, counts |-> countOf(rows, cats), refreshedAt |-> now, usedAt |-> now,
                expiresAt |-> now + CACHE_TTL] IN
  /\ Op("facets")
  /\ ~fromCache /\ ~fromWrites => MayCoincide \/ \A i \in DOMAIN events : events[i].at # now
  /\ facets' = IF fromCache \/ fromWrites THEN touched ELSE cacheSet(cats, fresh)
  /\ shown' = {[cats |-> cats, at |-> now, counts |->
                IF fromCache THEN hit.counts ELSE IF fromWrites THEN withWrites.counts ELSE fresh.counts]}
  /\ UNCHANGED <<now, table, cache, request, warm, rows, events, past, memory>>

-----------------------------------------------------------------------------
(* The slot service in memory, and its cached list.                        *)

createSlot(start, end) ==
  /\ Op("slots") /\ end > start
  /\ slots' = Append(slots, [id |-> nextId, start |-> start, end |-> end])
  /\ nextId' = nextId + 1
  /\ list' = {}
  /\ UNCHANGED <<now, table, cache, request, warm, facet, lister, listing>>

updateSlot(i, end) ==
  /\ Op("slots") /\ i \in DOMAIN slots
  /\ slots' = [slots EXCEPT ![i].end = end]
  /\ list' = {}
  /\ UNCHANGED <<now, table, cache, request, warm, facet, nextId, lister, listing>>

afterDelete(l) == {}

deleteSlot(i) ==
  /\ Op("slots") /\ i \in DOMAIN slots
  /\ slots' = RemoveAt(slots, i)
  /\ list' = afterDelete(list)
  /\ UNCHANGED <<now, table, cache, request, warm, facet, nextId, lister, listing>>

\* listSlots: the list is taken before the cache is asked.
listSlots(r) ==
  /\ lister[r].pc = "idle" /\ Op("slots")
  /\ lister' = [lister EXCEPT ![r] = [pc |-> "get", taken |-> slots, got |-> << >>]]
  /\ UNCHANGED <<now, table, cache, request, warm, facet, slots, nextId, list, listing>>

listSlotsGet(r) ==
  /\ lister[r].pc = "get"
  /\ lister' = [lister EXCEPT ![r] = IF list = {} THEN [@ EXCEPT !.pc = "set"]
                                      ELSE [@ EXCEPT !.pc = "idle", !.got = CHOOSE l \in list : TRUE]]
  /\ UNCHANGED <<now, ops, table, cache, request, warm, facet, slots, nextId, list, listing>>

listSlotsSet(r) ==
  /\ lister[r].pc = "set"
  /\ list' = {lister[r].taken}
  /\ lister' = [lister EXCEPT ![r].pc = "idle", ![r].got = lister[r].taken]
  /\ UNCHANGED <<now, ops, table, cache, request, warm, facet, slots, nextId, listing>>

\* One listing for a slot, ever.
createSecondaryListing(i) ==
  /\ Op("listings") /\ listing[i] = "none"
  /\ listing' = [listing EXCEPT ![i] = "active"]
  /\ UNCHANGED <<now, table, cache, request, warm, facet, slots, nextId, list, lister>>

expireSecondaryListings(S) ==
  /\ Op("listings") /\ S # {}
  /\ listing' = [i \in Ids |-> IF i \in S THEN "expired" ELSE listing[i]]
  /\ UNCHANGED <<now, table, cache, request, warm, facet, slots, nextId, list, lister>>

\* The routes: an instant of validation, then the service.
Quiet == MayOverlap \/ \A r \in Requests : lister[r].pc = "idle"

postSlot == Quiet /\ \E a, b \in Times : createSlot(a, b)
patchSlot == Quiet /\ \E i \in DOMAIN slots, b \in Times : updateSlot(i, b)
deleteSlotRoute == Quiet /\ \E i \in DOMAIN slots : deleteSlot(i)
getSlots(r) == Quiet /\ listSlots(r)
postListing == \E i \in Transferable : createSecondaryListing(i)

-----------------------------------------------------------------------------

Tick ==
  /\ now < MaxTime /\ now' = now + 1
  /\ past' = past \cup {<<now + 1, rows>>}
  /\ UNCHANGED <<ops, table, cache, request, warm, rows, events, facets, shown, memory>>

Next ==
  \/ \E r \in Requests :
       \/ \E q \in Queries : search(r, q)
       \/ searchNext(r) \/ searchCount(r) \/ searchRows(r)
       \/ \E C \in SUBSET Ids : searchByGeoRadius(r, C)
       \/ \E ok \in BOOLEAN : searchStore(r, ok)
       \/ searchFails(r)
       \/ \E w \in warmup : warmNext(w, r)
       \/ listSlotsGet(r) \/ listSlotsSet(r) \/ getSlots(r)
  \/ \E i \in Ids, hold \in BOOLEAN : Change(i, hold)
  \/ commitTaxonomy
  \/ \E i \in Ids : recordWriteEvent(i)
  \/ \E cats \in FacetQueries : getFacetCounts(cats)
  \/ postSlot \/ patchSlot \/ deleteSlotRoute \/ postListing
  \/ \E S \in SUBSET {i \in Ids : listing[i] = "active"} : expireSecondaryListings(S)
  \/ Tick

Spec == Init /\ [][Next]_vars

-----------------------------------------------------------------------------

\* A buyer who follows the cursors to the end has seen every matching slot
\* once, in the order asked for, when nothing reorders the pages, the table does
\* not change and each page was read for the same treatment of held slots.
CursorsCoverTheResult ==
  \A r \in Requests :
    LET x == request[r] IN
    x.pc = "done" /\ x.next = {} /\ ~x.q.geo /\ x.q.page = 1 /\ ~x.q.diversify /\ ~MayRerank /\ ~changed
      /\ (\A k \in DOMAIN x.asked : x.asked[k] = x.q.suppress) =>
      x.seen = ordered(matching(x.q), x.q.sortBy)

\* A diversified page has the slots of the page, and a supplier exceeds the
\* cap in a row only at the end, where no other supplier is left.
PagesAreDiverse ==
  \A r \in Requests :
    LET x == request[r]
        s == x.result
        run(i) == \A j \in i - cap .. i : j >= 1 /\ Row[s[j]].supplier = Row[s[i]].supplier IN
    x.pc = "store" /\ x.q.diversify /\ ~x.q.geo =>
      /\ IsInjective(s)
      /\ \A i \in DOMAIN s : run(i) => \A j \in i .. Len(s) : Row[s[j]].supplier = Row[s[i]].supplier

\* As long as the table does not change, an answer, from the cache or not, has
\* the slots of the page asked for: those of the query itself, unless a search
\* that differs from it in suppressHeld alone had filled the cache, then those of
\* that search.  (The key omits suppressHeld and showHeldReleaseEta: a buyer may
\* be shown held slots, or miss them, as an earlier one asked.)
CacheAnswersItsQuery ==
  \A r \in Requests :
    LET x == request[r]
        own == [x.q EXCEPT !.suppress = Last(x.asked)] IN
    x.pc = "done" /\ ~changed =>
      /\ x.q.geo => ToSet(x.result) \subseteq matching(own)
      /\ ~x.q.geo /\ ~MayRerank => /\ ToSet(x.result) = ToSet(selected(own))
                                  /\ x.total = Cardinality(matching(own))
      /\ ~x.q.geo /\ ~MayRerank /\ ~x.q.diversify => x.result = selected(own)
      /\ own # x.q => \E e \in cache : e.q = own

\* A warm-up that ends while it is the latest has replayed its queries, the most
\* frequent ones first; one that was superseded says so.
WarmupsSettle ==
  \A w \in warmup :
    /\ w.status = "success" => w.warmed = w.total
    /\ w.status = "cancelled" => w.seq < sequence
    /\ w.status # "cancelled" => w.last = w.seq
    /\ Len(w.left) = w.total /\ w.left # << >> =>
         LET seen(k) == Len(SelectSeq(w.of, LAMBDA t : KeyOf(t) = k)) IN
         \A i \in DOMAIN w.of : seen(KeyOf(w.of[i])) <= seen(KeyOf(w.left[1]))

\* The facet counts shown without a filter are those of the table at a moment
\* within the freshness window, and the cache keeps to its limit.
FacetsAreFresh ==
  /\ Len(facets) <= maxEntries
  /\ ~MayCoincide => \A x \in shown : x.cats = {} =>
       \E y \in past : /\ y[1] <= x.at /\ x.at - y[1] < FRESHNESS_WINDOW
                       /\ x.counts = countOf(y[2], {})

\* A list of slots that no write overlaps is the list of all slots.
ListIsCurrent ==
  ~MayOverlap => list \subseteq {slots}

=============================================================================
