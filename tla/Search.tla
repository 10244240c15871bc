------------------------------- MODULE Search -------------------------------
(***************************************************************************)
(* Searches whose filter is not all in the query: internalGet of           *)
(* ActivityService, by free places and distance, and getOrganizations of   *)
(* OrganizationService, by distance.  Each reads pages of the rows that    *)
(* match the query, filters them, and gives up after some pages without a  *)
(* hit.  Managers edit and delete rows between two pages.                  *)
(*                                                                         *)
(* Rows come in the order of their ids, which Prisma adds to every query   *)
(* with a page size; a sort of the query's own puts others before it.  A   *)
(* search of activities first leaves its query in the search history.      *)
(***************************************************************************)
EXTENDS Requests, Functions, Sequences

CONSTANTS
    RowIds,              \* of the rows
    Kinds,               \* what a row may be
    Queries,             \* what is searched for
    Searchers,           \* accounts
    ActivityPage,        \* searchLimit of a filtered search of activities,
    OrganizationPage,    \* and limit of one of organizations: 1000
    ActivityMisses,      \* pages without a hit that end a search of activities: 4,
    OrganizationMisses,  \* and of organizations, after the first: 5
    SpacingSec,          \* a query this soon replaces the last one of the history: 30
    MaxEdits,            \* bound: edits and deletions of rows
    MaxSearches,         \* bound: searches
    MaxSecond            \* bound: the clock

ASSUME RowIdsAssumption == RowIds \subseteq Nat /\ IsFiniteSet(RowIds)

VARIABLES
    searched, \* the table: "activity" or "organization"
    catalog,  \* its rows by id
    edits,    \* edits and deletions so far
    left,     \* searches still to come
    answer,   \* the last one, and the edits when it began
    history,  \* of the entries of the search history: whose and since when
    second    \* the clock

searchVars == <<searched, catalog, edits, left, answer, history, second>>

Null == -1

\* A query asks for a cursor or for an offset, not both.
ASSUME QueriesAssumption ==
    \A q \in Queries : /\ {q.limit, q.offset} \subseteq Nat /\ q.radius \in BOOLEAN
                       /\ q.cursor \in Nat \cup {Null} /\ (q.cursor # Null => q.offset = 0)
ASSUME PagesAssumption ==
    {ActivityPage, OrganizationPage, ActivityMisses, OrganizationMisses} \subseteq Nat \ {0}
ASSUME SpacingAssumption == SpacingSec \in Nat

\* A row: whether it matches the query, the limit of each shift (or null) and those who
\* joined it or wait for it, and whether its location is in the radius, out of it, or none.
Unlimited(row) == \E s \in DOMAIN row.shifts : row.shifts[s].limit = Null
Places(row) == FoldFunction(+, 0, [s \in DOMAIN row.shifts |-> row.shifts[s].limit])
Joined(row) == FoldFunction(+, 0, [s \in DOMAIN row.shifts |-> row.shifts[s].joined])

\* A shift without limit, or none with a place, which is taken for that.
Unbounded(row) == Unlimited(row) \/ Places(row) = 0

FilterActivity(row, q) ==
    /\ q.availableSlots # Null /\ ~ Unbounded(row) =>
           Places(row) - Joined(row) >= q.availableSlots
    /\ q.radius => row.location # "out"

FilterOrganization(row) == row.location = "in"

\* The rows of S that the filter lets through.
Hits(S, q) ==
    {i \in S : IF searched = "activity" THEN FilterActivity(catalog[i], q)
               ELSE q.radius => FilterOrganization(catalog[i])}

\* findMany: the rows that match, from the one of the cursor on.
Listed == {i \in DOMAIN catalog : catalog[i].listed}
From(cursor) ==
    IF cursor = Null THEN Listed
    ELSE IF cursor \in DOMAIN catalog THEN {i \in Listed : i >= cursor} ELSE {}
FindMany(cursor, skip, take) == PageOf(From(cursor), skip, take)

InOrder(S) == [n \in 1..Cardinality(S) |-> CHOOSE i \in S : Rank(S, i) = n]
Largest(S) == CHOOSE i \in S : \A j \in S : j <= i
Firsts(s, n) == IF Len(s) > n THEN SubSeq(s, 1, n) ELSE s

-----------------------------------------------------------------------------
(* The search history. *)

Times(a) == {history[i].at : i \in {i \in DOMAIN history : history[i].by = a}}

\* Mutant: the first entry of the account is read.
LatestFirst(a) == IF Times(a) = {} THEN Null
                ELSE CHOOSE t \in Times(a) : \A u \in Times(a) : t <= u

\* The latest entry of the account.
Latest(a) == IF Times(a) = {} THEN Null ELSE Largest(Times(a))

\* A search begins, with a look at the history if it is to be recorded.
SearchStart(h) ==
    \E a \in Searchers, q \in Queries :
        LET paging == [cursor |-> q.cursor, found |-> <<>>, misses |-> 0, edits |-> edits]
            known == Latest(a) # Null /\ second - Latest(a) < SpacingSec
            at == IF searched = "organization" THEN "first"
                  ELSE IF q.record /\ ~ known THEN "create"
                  ELSE IF q.record THEN "update" ELSE "page"
        IN  /\ left > 0
            /\ left' = left - 1
            /\ answer' = <<>>
            /\ Begin(h, [op |-> "search", at |-> at, by |-> a, on |-> {a},
                         arg |-> q, seen |-> paging])
            /\ UNCHANGED <<searched, catalog, edits, history, second>>

\* The entry keeps its createdAt when its query is replaced.
Record(h) ==
    /\ \/ At(h, "search", "create") /\ history' = Append(history, [by |-> req[h].by, at |-> second])
       \/ At(h, "search", "update") /\ UNCHANGED history
    /\ Goto(h, "page", req[h].seen)
    /\ UNCHANGED <<searched, catalog, edits, left, answer, second>>

-----------------------------------------------------------------------------
(* The pages. *)

Respond(h, found, misses) ==
    /\ answer' = [to |-> req[h].arg, ids |-> found, misses |-> misses,
                  edits |-> req[h].seen.edits]
    /\ End(h)

\* The loop goes on, or the response is the rows found.
Continue(h, more, seen, found) ==
    IF more THEN Goto(h, "page", seen) /\ UNCHANGED answer
    ELSE Respond(h, found, seen.misses)

\* What a page adds to a search.
Turned(seen, page, q) ==
    [seen EXCEPT !.cursor = Largest(page),
                 !.found = @ \o InOrder(Hits(page, q)),
                 !.misses = IF Hits(page, q) = {} THEN @ + 1 ELSE @]

\* Only a filter that asks for something makes the pages large.
SearchLimit(q) ==
    IF q.availableSlots > 0 \/ q.radius THEN ActivityPage ELSE q.limit

\* Mutant: the cursor row is not skipped.
ActivityRowsAgain(seen, q) ==
    FindMany(seen.cursor, IF seen.cursor = Null THEN q.offset ELSE 0, SearchLimit(q))

ActivityRows(seen, q) ==
    FindMany(seen.cursor, IF seen.cursor = Null THEN q.offset ELSE 1, SearchLimit(q))

\* internalGet: one turn of the loop.
ActivitySearch(h) ==
    LET q == req[h].arg
        seen == req[h].seen
        page == ActivityRows(seen, q)
        next == Turned(seen, page, q)
        more == Len(next.found) < q.limit /\ next.misses < ActivityMisses
    IN  /\ searched = "activity"
        /\ At(h, "search", "page")
        /\ IF q.limit = 0 \/ page = {} THEN Respond(h, Firsts(seen.found, q.limit), seen.misses)
           ELSE Continue(h, more, next, Firsts(next.found, q.limit))
        /\ UNCHANGED <<searched, catalog, edits, left, history, second>>

\* getOrganizations: the first page takes the row of the cursor along, and is all unless
\* the distance counts.
OrganizationFirst(h) ==
    LET q == req[h].arg
        page == FindMany(q.cursor, q.offset, IF q.radius THEN OrganizationPage ELSE q.limit)
        found == InOrder(Hits(page, q))
        next == [req[h].seen EXCEPT !.cursor = IF page = {} THEN Null ELSE Largest(page),
                                    !.found = found]
        more == q.radius /\ Len(found) < OrganizationPage
    IN  /\ At(h, "search", "first")
        /\ Continue(h, more, next, found)
        /\ UNCHANGED <<searched, catalog, edits, left, history, second>>

\* Its loop.  After a first page without rows there is no cursor, and the first row of
\* all is skipped.
OrganizationSearch(h) ==
    LET q == req[h].arg
        seen == req[h].seen
        page == FindMany(seen.cursor, 1, OrganizationPage)
        next == Turned(seen, page, q)
        more == Len(next.found) < OrganizationPage /\ next.misses < OrganizationMisses
    IN  /\ searched = "organization"
        /\ At(h, "search", "page")
        /\ IF page = {} THEN Respond(h, seen.found, seen.misses)
           ELSE Continue(h, more, next, next.found)
        /\ UNCHANGED <<searched, catalog, edits, left, history, second>>

-----------------------------------------------------------------------------

\* A manager edits a row, or deletes it.
EditRow(i) ==
    /\ edits < MaxEdits
    /\ edits' = edits + 1
    /\ \/ \E row \in Kinds : catalog' = [catalog EXCEPT ![i] = row]
       \/ catalog' = [j \in DOMAIN catalog \ {i} |-> catalog[j]]
    /\ UNCHANGED <<requestVars, searched, left, answer, history, second>>

SearchTick ==
    /\ second < MaxSecond
    /\ second' = second + 1
    /\ UNCHANGED <<requestVars, searched, catalog, edits, left, answer, history>>

\* The table, the clock and how many searches are to come may be anything at the start.
SearchInit ==
    /\ searched \in {"activity", "organization"}
    /\ catalog \in UNION {[S -> Kinds] : S \in SUBSET RowIds}
    /\ edits = 0
    /\ left \in 0..MaxSearches
    /\ answer = <<>>
    /\ history = <<>>
    /\ second \in 0..MaxSecond

SearchNext ==
    \/ \E h \in Handlers : \/ SearchStart(h) \/ Record(h) \/ ActivitySearch(h)
                           \/ OrganizationFirst(h) \/ OrganizationSearch(h)
                           \/ Abort(h) /\ UNCHANGED searchVars
    \/ \E i \in DOMAIN catalog : EditRow(i)
    \/ SearchTick

allSearchVars == <<requestVars, searchVars>>
SearchSpec == RequestsInit /\ SearchInit /\ [][SearchNext]_allSearchVars

-----------------------------------------------------------------------------
(* Properties. *)

\* The rows that a search is about, and those it is to find, without regard to pages.
Drop(s, n) == {s[i] : i \in n + 1 .. Len(s)}
Asked(q) ==
    IF q.cursor = Null THEN Drop(InOrder(Listed), q.offset)
    ELSE {i \in From(q.cursor) : searched = "organization" \/ i > q.cursor}
Sought(q) == Hits(Asked(q), q)

\* A search gave up, or has all it is to find.
GaveUp == \/ searched = "activity" /\ answer.misses = ActivityMisses
          \/ searched = "organization" /\ answer.misses = OrganizationMisses
Wanted(q) == IF searched = "activity" \/ ~ q.radius THEN q.limit ELSE OrganizationPage

\* The client's cursor is the last row of its page before and still matches; and it does
\* not ask for a page of organizations past the last, which is given the second row on.
Sensible(q) ==
    /\ q.cursor # Null => q.cursor \in Listed
    /\ searched = "organization" => q.offset < Cardinality(Listed)

SearchTypeOK ==
    /\ DOMAIN catalog \subseteq RowIds /\ Range(catalog) \subseteq Kinds
    /\ answer # <<>> => Range(answer.ids) \subseteq RowIds
    /\ history \in Seq([by : Searchers, at : 0..second])

\* Whatever happens to the rows meanwhile, no search of activities has a row twice, out
\* of order or beyond its limit.  A search of rows that have not been edited since has the first of
\* the rows it is to find, without a gap, and has fewer than it wants only if there are no
\* more or too many pages had none.
SearchAnswers ==
    answer # <<>> =>
        /\ \A i, j \in DOMAIN answer.ids : i < j => answer.ids[i] < answer.ids[j]
        /\ searched = "activity" => Len(answer.ids) <= answer.to.limit
        /\ answer.edits = edits /\ Sensible(answer.to) =>
              /\ answer.ids = Firsts(InOrder(Sought(answer.to)), Len(answer.ids))
              /\ \/ Len(answer.ids) >= Wanted(answer.to) \/ GaveUp
                 \/ Len(answer.ids) = Cardinality(Sought(answer.to))

\* The entries of a client that waits for its answers are at least so far apart that they
\* do not count as spam, however often it searches.
HistoryIsSpaced ==
    manner # "any" =>
        \A i, j \in DOMAIN history :
            i < j /\ history[i].by = history[j].by => history[j].at - history[i].at >= SpacingSec
=============================================================================
