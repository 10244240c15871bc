----------------------------- MODULE Analytics -----------------------------
(***************************************************************************)
(* The rankings of accounts and of organizations: refreshAnalytics of      *)
(* AnalyticsTaskService, fired by an interval, by its endpoint and by the  *)
(* endpoints of the rankings, which AnalyticsService answers from three    *)
(* keys of Redis, each written by itself.                                  *)
(*                                                                         *)
(* A ranking is kept as how often it counts the hours of each shift: that  *)
(* is what the two may disagree on, and what a run may get wrong.          *)
(***************************************************************************)
EXTENDS Requests

CONSTANTS
    PastShifts,    \* ids of the shifts of the last month
    PageOfShifts,  \* take: 1000
    Day,           \* how long the rankings are good for
    MaxChanges,    \* bound: shifts that are completed or deleted
    MaxHour        \* bound: the clock

ASSUME DayAssumption == Day \in Nat \ {0}
ASSUME PageAssumption == PageOfShifts \in Nat \ {0}
ASSUME PastShiftsAssumption == PastShifts \subseteq Nat /\ PastShifts # {}

VARIABLES
    completed,     \* the shifts whose status is completed,
    deleted,       \* and those no longer there
    accounts,      \* the three keys: ANALYTICS_TOP_ACCOUNTS_KEY,
    organizations, \* ANALYTICS_TOP_ORGANIZATIONS_KEY,
    lastUpdated,   \* ANALYTICS_LAST_UPDATED_KEY
    isRunning,     \* the field of the task
    changes,       \* shifts completed or deleted so far
    hour           \* the clock

keyVars == <<accounts, organizations, lastUpdated>>
analyticsVars == <<completed, deleted, accounts, organizations, lastUpdated, isRunning,
                   changes, hour>>

\* No key.
Missing == -1
NoRanking == <<>>

\* Nothing counted yet.
Zero == [s \in PastShifts |-> 0]

\* isAfter and isBefore of the instant a day ago.
Fresh == lastUpdated # Missing /\ lastUpdated + Day > hour
Expired == lastUpdated = Missing \/ lastUpdated + Day < hour

-----------------------------------------------------------------------------
(* The task. *)

RunRequest == [op |-> "refresh", at |-> "check", by |-> 0, on |-> {"rankings"},
               arg |-> 0, seen |-> 0]

\* Mutant: a run does not mind another one.
RefreshAgain(h) ==
    /\ isRunning' = TRUE
    /\ Begin(h, RunRequest)
    /\ UNCHANGED <<completed, deleted, keyVars, changes, hour>>

\* The guard and the flag.  The interval and an endpoint of its own fire it.
Refresh(h) ==
    /\ ~ isRunning
    /\ isRunning' = TRUE
    /\ Begin(h, RunRequest)
    /\ UNCHANGED <<completed, deleted, keyVars, changes, hour>>

\* getAccountRankings fires it if the rankings are a day old, and then has no answer.
AskAccounts(h) == Expired /\ Refresh(h)

\* getOrganizationRankings fires it if there is a date, whatever it is, and reads the
\* ranking after: without a date it reads none and throws.
AskOrganizations(h) == lastUpdated # Missing /\ Refresh(h)

\* The test of the date; a run that returns here ends, and the flag is reset.
RefreshCheck(h) ==
    /\ At(h, "refresh", "check")
    /\ IF Fresh THEN End(h) /\ isRunning' = FALSE
       ELSE Goto(h, "page", [cursor |-> Missing, counted |-> Zero]) /\ UNCHANGED isRunning
    /\ UNCHANGED <<completed, deleted, keyVars, changes, hour>>

\* Mutant: the first row is skipped, although there is no cursor yet.
PageSkipping(cursor) ==
    LET S == {s \in completed : cursor # Missing => cursor \notin deleted /\ s >= cursor}
    IN  PageOf(S, 1, PageOfShifts)

\* findMany: the completed shifts, after the row of the cursor.
PageAfter(cursor) ==
    LET S == {s \in completed : cursor # Missing => cursor \notin deleted /\ s >= cursor}
    IN  PageOf(S, IF cursor = Missing THEN 0 ELSE 1, PageOfShifts)

\* The shifts of a page are counted; after the last page the rankings are made.
RefreshPage(h) ==
    LET seen == req[h].seen
        page == PageAfter(seen.cursor)
    IN  /\ At(h, "refresh", "page")
        /\ \/ page = {} /\ Goto(h, "accounts", seen.counted)
           \/ \E last \in page :
                 /\ \A s \in page : s <= last
                 /\ Goto(h, "page", [cursor |-> last,
                                     counted |-> [s \in PastShifts |->
                                         seen.counted[s] + (IF s \in page THEN 1 ELSE 0)]])
        /\ UNCHANGED analyticsVars

\* The keys are set one after the other.
SetAccounts(h) ==
    /\ At(h, "refresh", "accounts")
    /\ accounts' = req[h].seen
    /\ Goto(h, "organizations", req[h].seen)
    /\ UNCHANGED <<completed, deleted, organizations, lastUpdated, isRunning, changes, hour>>

\* The date is taken once the second is set.
SetOrganizations(h) ==
    /\ At(h, "refresh", "organizations")
    /\ organizations' = req[h].seen
    /\ Goto(h, "date", hour)
    /\ UNCHANGED <<completed, deleted, accounts, lastUpdated, isRunning, changes, hour>>

SetLastUpdated(h) ==
    /\ At(h, "refresh", "date")
    /\ lastUpdated' = req[h].seen
    /\ isRunning' = FALSE
    /\ End(h)
    /\ UNCHANGED <<completed, deleted, accounts, organizations, changes, hour>>

\* A query of a run rejects, and finally resets the flag; or the process ends.
RefreshFails(h) ==
    /\ Abort(h)
    /\ isRunning' = FALSE
    /\ UNCHANGED <<completed, deleted, keyVars, changes, hour>>

-----------------------------------------------------------------------------

\* The status task completes a shift, a month has passed since one, or a manager deletes
\* one.
ShiftChanges(s) ==
    /\ changes < MaxChanges
    /\ changes' = changes + 1
    /\ \/ s \notin completed \cup deleted /\ completed' = completed \cup {s} /\ UNCHANGED deleted
       \/ s \in completed /\ completed' = completed \ {s} /\ UNCHANGED deleted
       \/ s \notin deleted /\ completed' = completed \ {s} /\ deleted' = deleted \cup {s}
    /\ UNCHANGED <<requestVars, keyVars, isRunning, hour>>

AnalyticsTick ==
    /\ hour < MaxHour
    /\ hour' = hour + 1
    /\ UNCHANGED <<requestVars, completed, deleted, keyVars, isRunning, changes>>

AnalyticsInit ==
    /\ completed \in SUBSET PastShifts
    /\ deleted = {}
    /\ accounts = NoRanking /\ organizations = NoRanking /\ lastUpdated = Missing
    /\ isRunning = FALSE
    /\ changes = 0
    /\ hour = 0

AnalyticsNext ==
    \/ \E h \in Handlers : \/ Refresh(h) \/ AskAccounts(h) \/ AskOrganizations(h)
                           \/ RefreshCheck(h) \/ RefreshPage(h)
                           \/ SetAccounts(h) \/ SetOrganizations(h) \/ SetLastUpdated(h)
                           \/ RefreshFails(h)
    \/ \E s \in PastShifts : ShiftChanges(s)
    \/ AnalyticsTick

allAnalyticsVars == <<requestVars, analyticsVars>>
AnalyticsSpec == RequestsInit /\ AnalyticsInit /\ [][AnalyticsNext]_allAnalyticsVars

-----------------------------------------------------------------------------
(* Properties. *)

Rankings == [PastShifts -> Nat]

\* The keys and the runs are well formed, whatever fails.
AnalyticsTypeOK ==
    /\ completed \subseteq PastShifts \ deleted
    /\ accounts \in Rankings \cup {NoRanking}
    /\ organizations \in Rankings \cup {NoRanking}
    /\ lastUpdated \in {Missing} \cup 0..hour
    /\ isRunning \in BOOLEAN

\* The two rankings are there as soon as there is a date, as the endpoints take for
\* granted, and while it is fresh they are those of one run: the keys are set one by one,
\* but a run that fails or has only begun has no fresh date beside it.
RankingsAgree ==
    /\ lastUpdated # Missing => accounts # NoRanking /\ organizations # NoRanking
    /\ Fresh => accounts = organizations

\* However shifts are completed and deleted meanwhile, no shift is counted twice; and if
\* none was, each completed one is counted.
EveryShiftCounts ==
    accounts # NoRanking =>
        /\ \A s \in PastShifts : accounts[s] <= 1
        /\ changes = 0 => \A s \in completed : accounts[s] = 1
=============================================================================
