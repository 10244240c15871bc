----------------------------- MODULE MCServices -----------------------------
(***************************************************************************)
(* Small instances of Tokens, Accounts, Attendance, Review, Ratings,       *)
(* ActivityWindow, Search and Analytics for TLC.  They share no rows, so   *)
(* that each behaviour is one service's: `service' says whose.  Init pairs *)
(* the manners of the clients with the services whose properties speak of  *)
(* them, and leaves those that are not asked in one state.                 *)
(***************************************************************************)
EXTENDS Tokens, Accounts, Attendance, Review, Ratings, ActivityWindow,
        Search, Analytics, TLC

VARIABLE service

allVars == <<requestVars, tokenVars, accountVars, attendanceVars, reviewVars,
             ratingVars, windowVars, searchVars, analyticsVars, service>>

\* Shift s2 teaches one more skill than s1, and s3, to come, asks for the one of s1.
Hours == "s1" :> 1 @@ "s2" :> 2
Skills == "s1" :> ("x" :> 1) @@ "s2" :> ("x" :> 1 @@ "y" :> 1) @@ "s3" :> ("x" :> 1)

\* Account 2 was not approved for s2.
ApprovedFor == {<<1, "s1">>, <<1, "s2">>, <<2, "s1">>}

\* Rows: two shifts of which one is full, out of the radius; a shift that is overfull; one
\* without limit nor location; and a row that does not match.
Shift(limit, joined) == [limit |-> limit, joined |-> joined]
SearchRow(listed, shifts, location) ==
    [listed |-> listed, shifts |-> shifts, location |-> location]
RowKinds ==
    {SearchRow(TRUE, <<Shift(1, 0), Shift(1, 1)>>, "out"), SearchRow(TRUE, <<Shift(1, 2)>>, "in"),
     SearchRow(TRUE, <<Shift(Null, 3)>>, "none"), SearchRow(FALSE, <<>>, "in")}

\* Searches with and without a filter, a cursor, an offset; the last one is recorded.
Query(limit, offset, cursor, availableSlots, radius) ==
    [limit |-> limit, offset |-> offset, cursor |-> cursor,
     availableSlots |-> availableSlots, radius |-> radius, record |-> FALSE]
SearchQueries ==
    {Query(2, 0, Null, Null, FALSE), Query(2, 1, Null, 1, FALSE), Query(2, 0, 1, 1, FALSE),
     Query(1, 0, Null, 0, FALSE), Query(2, 0, Null, Null, TRUE), Query(2, 0, 1, Null, TRUE),
     Query(2, 1, Null, Null, TRUE), Query(0, 0, Null, 1, FALSE),
     [Query(1, 0, Null, Null, FALSE) EXCEPT !.record = TRUE]}

\* One search of any table, or several of an empty one that leave their traces.
AnyTable == /\ left = 1 /\ second = MaxSecond /\ catalog \in [RowIds -> Kinds]
EmptyTable == /\ left = MaxSearches /\ second = 0 /\ catalog = <<>> /\ searched = "activity"

ServicesInit ==
    /\ RequestsInit
    /\ \/ service = "token" /\ manner \in {"any", "subject"}
       \/ service = "account" /\ manner \in {"any", "subject"} /\ ~ failing
       \/ service = "account" /\ manner = "serial" /\ failing
       \/ service = "attendance" /\ manner \in {"any", "client", "subject"} /\ ~ failing
       \/ service = "attendance" /\ manner = "serial" /\ failing
       \/ service = "review" /\ manner \in {"subject", "serial"}
       \/ service \in {"review", "rating", "window"} /\ manner = "any" /\ ~ failing
       \/ service \in {"rating", "window"} /\ manner = "serial"
       \/ service = "search" /\ manner = "serial" /\ ~ failing
       \/ service = "search" /\ manner \in {"any", "client"} /\ failing
       \/ service = "analytics" /\ manner = "any"
    /\ IF service = "search" /\ manner = "serial" THEN AnyTable ELSE EmptyTable
    /\ TokensInit /\ AccountsInit /\ AttendanceInit /\ ReviewInit /\ RatingsInit /\ WindowInit
    /\ SearchInit /\ AnalyticsInit
    /\ service = "analytics" \/ completed = {}

askedVars == <<searchVars, analyticsVars>>
servedVars == <<tokenVars, accountVars, attendanceVars, reviewVars, ratingVars, windowVars>>

Only(rest) == UNCHANGED <<rest, service>>

\* Clients that do not keep apart send their requests about one account, the second, and
\* none about its role, which is a single write.
AboutOne == manner = "any" => \A h \in Handlers :
    req'[h].on \subseteq {<<"account", 2>>} /\ req'[h].op # "role"

\* Those that do not keep apart send two ratings.
FewRatings == manner = "any" => sent' <= 2

ServicesNext ==
    \/ /\ service = "token" /\ TokensNext
       /\ Only(<<accountVars, attendanceVars, reviewVars, ratingVars, windowVars, askedVars>>)
    \/ /\ service = "account" /\ AccountsNext /\ AboutOne
       /\ Only(<<tokenVars, attendanceVars, reviewVars, ratingVars, windowVars, askedVars>>)
    \/ /\ service = "attendance" /\ AttendanceNext
       /\ Only(<<tokenVars, accountVars, reviewVars, ratingVars, windowVars, askedVars>>)
    \/ /\ service = "review" /\ ReviewNext
       /\ Only(<<tokenVars, accountVars, attendanceVars, ratingVars, windowVars, askedVars>>)
    \/ /\ service = "rating" /\ RatingsNext /\ FewRatings
       /\ Only(<<tokenVars, accountVars, attendanceVars, reviewVars, windowVars, askedVars>>)
    \/ /\ service = "window" /\ WindowNext
       /\ Only(<<tokenVars, accountVars, attendanceVars, reviewVars, ratingVars, askedVars>>)
    \/ /\ service = "search" /\ SearchNext
       /\ Only(<<servedVars, analyticsVars>>)
    \/ /\ service = "analytics" /\ AnalyticsNext
       /\ Only(<<servedVars, searchVars>>)

ServicesSpec == ServicesInit /\ [][ServicesNext]_allVars

\* The types of the modules that keep averages, windows, searches and rankings.
ServicesTypeOK == RatingsTypeOK /\ WindowTypeOK /\ SearchTypeOK /\ AnalyticsTypeOK

Interchangeable == Permutations(Handlers)
=============================================================================
