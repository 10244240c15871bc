------------------------------ MODULE ShiftTask ------------------------------
(***************************************************************************)
(* The scheduled task that brings the status of shifts and activities up   *)
(* to date: ShiftTaskService.updateShiftVolunteerStatus, run every three   *)
(* minutes and by POST /shifts/refresh, and the method it ends with,       *)
(* ActivityService.refreshActivitiesStatus.  Managers create, edit and     *)
(* delete shifts while it pages through the tables, and the clock goes on. *)
(*                                                                         *)
(* Every query and every updateMany of the task is a step.  A page is read *)
(* by Prisma's cursor: rows that match, in the order of their ids, from    *)
(* the id of the cursor row on (none if that row is gone), skipping one.   *)
(***************************************************************************)
EXTENDS Integers, FiniteSets, FiniteSetsExt

CONSTANTS
    Runs,        \* invocations that can be in flight, one of them the Interval
    Interval,
    Activities,  \* activity ids
    ActivityOf,  \* the activity of each shift id
    InitShifts,  \* the shifts there are at the start
    Windows,     \* values of [startTime, endTime] a manager enters
    PageSize,    \* `take'
    MaxNow,      \* bound: last instant of the clock
    MaxEdits,    \* bound: shifts created, edited or deleted
    MaxFails     \* bound: runs that a failing query ends

Shifts == DOMAIN ActivityOf
Status == {"pending", "ongoing", "completed"}

ASSUME RunsAssumption == Interval \in Runs
\* Ids are given in order, so that one is the last.
ASSUME IdsAssumption ==
    /\ Shifts \subseteq Nat \ {0} /\ Activities \subseteq Nat \ {0}
    /\ \E n \in Shifts \cup Activities : \A i \in Shifts \cup Activities : i <= n
ASSUME ActivityOfAssumption ==
    ActivityOf \in [Shifts -> Activities] /\ InitShifts \subseteq Shifts
ASSUME WindowsAssumption == Windows \subseteq [start : Int, end : Int]
ASSUME BoundsAssumption ==
    PageSize \in Nat \ {0} /\ {MaxNow, MaxEdits, MaxFails} \subseteq Nat

VARIABLES
    now,        \* the clock
    shift,      \* Shift rows by id: window and status
    activity,   \* the status of each activity
    isRunning,  \* the flag of the service
    run,        \* where each invocation is
    edits, fails

vars == <<now, shift, activity, isRunning, run, edits, fails>>

NoUpdates == [st \in Status |-> {}]

\* cursor: the last id of the page before, 0 before the first page.
Idle == [at |-> "idle", table |-> "shift", whereNow |-> 0, cursor |-> 0,
         update |-> NoUpdates]

-----------------------------------------------------------------------------
(* The filters and the status they lead to. *)

\* The where clause of the task, with the dates it was built with.
ShiftMatches(s, t) ==
    LET w == shift[s].win
    IN  \/ shift[s].status = "pending" /\ w.start <= t
        \/ shift[s].status = "ongoing" /\ (w.start > t \/ w.end <= t)
        \/ shift[s].status = "completed" /\ w.end > t

\* The status lists a shift of the page is put on (two, if it ends before it starts).
Lists(w, t) ==
    (IF w.start > t THEN {"pending"} ELSE {})
    \cup (IF w.start <= t /\ w.end > t THEN {"ongoing"} ELSE {})
    \cup (IF w.end <= t THEN {"completed"} ELSE {})

StatusesOf(a) == {shift[s].status : s \in {i \in DOMAIN shift : ActivityOf[i] = a}}

\* Mutant: an activity that is ongoing is never looked at again.
ActivityMatchesIdle(a) ==
    \/ activity[a] = "pending" /\ StatusesOf(a) \ {"pending"} # {}
    \/ activity[a] = "completed" /\ StatusesOf(a) \ {"completed"} # {}

ActivityMatches(a) ==
    \/ activity[a] = "pending" /\ StatusesOf(a) \ {"pending"} # {}
    \/ activity[a] = "ongoing" /\ "ongoing" \notin StatusesOf(a)
    \/ activity[a] = "completed" /\ StatusesOf(a) \ {"completed"} # {}

\* `every' holds of an activity without shifts, so that one counts as pending.
ActivityStatus(a) ==
    CASE StatusesOf(a) \subseteq {"pending"} -> "pending"
      [] ~ StatusesOf(a) \subseteq {"pending"}
         /\ StatusesOf(a) \subseteq {"completed"} -> "completed"
      [] OTHER -> "ongoing"

\* LIMIT PageSize OFFSET skip, in the order of the ids.
Page(ids, skip) ==
    {i \in ids : Cardinality({j \in ids : j < i}) \in skip..(skip + PageSize - 1)}

\* cursor: { id: c }, skip: 1.
From(ids, c, existing) ==
    IF c = 0 THEN Page(ids, 0)
    ELSE IF c \in existing THEN Page({i \in ids : i >= c}, 1) ELSE {}

-----------------------------------------------------------------------------
(* The task. *)

Become(r, state) == run' = [run EXCEPT ![r] = state]

\* Mutant: the guard stands inside the try, so that finally resets the flag.
TriggerInTry(r) ==
    /\ run[r].at = "idle"
    /\ \/ isRunning /\ isRunning' = FALSE /\ UNCHANGED run
       \/ /\ ~ isRunning
          /\ isRunning' = TRUE
          /\ Become(r, [Idle EXCEPT !.at = "query", !.whereNow = now])
    /\ UNCHANGED <<now, shift, activity, edits, fails>>

\* The guard is checked and the flag set before the first await.
Trigger(r) ==
    /\ run[r].at = "idle"
    /\ \/ isRunning /\ UNCHANGED <<isRunning, run>>
       \/ /\ ~ isRunning
          /\ isRunning' = TRUE
          /\ Become(r, [Idle EXCEPT !.at = "query", !.whereNow = now])
    /\ UNCHANGED <<now, shift, activity, edits, fails>>

\* finally { this.isRunning = false }
End(r) == isRunning' = FALSE /\ Become(r, Idle)

QueryShifts(r) ==
    LET page == From({s \in DOMAIN shift : ShiftMatches(s, run[r].whereNow)},
                     run[r].cursor, DOMAIN shift)
    IN  /\ run[r].at = "query" /\ run[r].table = "shift"
        /\ \/ /\ page # {}
              /\ Become(r, [run[r] EXCEPT
                     !.at = "pending", !.cursor = Max(page),
                     !.update = [st \in Status |->
                                    {s \in page : st \in Lists(shift[s].win, now)}]])
           \/ /\ page = {}
              /\ Become(r, [Idle EXCEPT !.at = "query", !.table = "activity"])
        /\ UNCHANGED <<now, shift, activity, isRunning, edits, fails>>

\* The first page of activities only gives the cursor of the second.
QueryActivities(r) ==
    LET page == From({a \in Activities : ActivityMatches(a)}, run[r].cursor, Activities)
    IN  /\ run[r].at = "query" /\ run[r].table = "activity"
        /\ \/ /\ page # {} /\ run[r].cursor = 0
              /\ Become(r, [run[r] EXCEPT !.cursor = Max(page)])
              /\ UNCHANGED isRunning
           \/ /\ page # {} /\ run[r].cursor # 0
              /\ Become(r, [run[r] EXCEPT
                     !.at = "pending", !.cursor = Max(page),
                     !.update = [st \in Status |->
                                    {a \in page : ActivityStatus(a) = st}]])
              /\ UNCHANGED isRunning
           \/ page = {} /\ End(r)
        /\ UNCHANGED <<now, shift, activity, edits, fails>>

\* One updateMany per status: pending, ongoing, completed; then the next page.
After(st) == CASE st = "pending" -> "ongoing"
               [] st = "ongoing" -> "completed"
               [] st = "completed" -> "query"

UpdateMany(r) ==
    LET st == run[r].at
        ids == run[r].update[st]
    IN  /\ st \in Status
        /\ IF run[r].table = "shift"
           THEN /\ shift' = [s \in DOMAIN shift |->
                               IF s \in ids THEN [shift[s] EXCEPT !.status = st]
                               ELSE shift[s]]
                /\ UNCHANGED activity
           ELSE /\ activity' = [a \in Activities |-> IF a \in ids THEN st ELSE activity[a]]
                /\ UNCHANGED shift
        /\ Become(r, [run[r] EXCEPT !.at = After(st), !.update[st] = {}])
        /\ UNCHANGED <<now, isRunning, edits, fails>>

\* Mutant: no finally.
FailForGood(r) ==
    /\ run[r].at # "idle" /\ fails < MaxFails
    /\ fails' = fails + 1
    /\ Become(r, Idle)
    /\ UNCHANGED <<now, shift, activity, isRunning, edits>>

\* A query that rejects ends the run; what it has written stays.
Fail(r) ==
    /\ run[r].at # "idle" /\ fails < MaxFails
    /\ fails' = fails + 1
    /\ End(r)
    /\ UNCHANGED <<now, shift, activity, edits>>

-----------------------------------------------------------------------------
(* Everybody else. *)

Edit ==
    /\ edits < MaxEdits
    /\ edits' = edits + 1
    /\ UNCHANGED <<now, activity, isRunning, run, fails>>

\* Mutant: the status of a new shift is none of the task's.
CreateDraft(s, w) ==
    /\ Edit
    /\ \A i \in DOMAIN shift : i < s
    /\ shift' = [i \in DOMAIN shift \cup {s} |->
                    IF i = s THEN [win |-> w, status |-> "draft"] ELSE shift[i]]

\* createShift; ids only grow.
CreateShift(s, w) ==
    /\ Edit
    /\ \A i \in DOMAIN shift : i < s
    /\ shift' = [i \in DOMAIN shift \cup {s} |->
                    IF i = s
                    THEN [win |-> w, status |-> IF w.end < now THEN "completed"
                                                ELSE "pending"]
                    ELSE shift[i]]

\* updateShift leaves the status alone.
UpdateShift(s, w) ==
    /\ Edit
    /\ s \in DOMAIN shift
    /\ shift' = [shift EXCEPT ![s].win = w]

DeleteShift(s) ==
    /\ Edit
    /\ s \in DOMAIN shift
    /\ shift' = [i \in DOMAIN shift \ {s} |-> shift[i]]

Tick ==
    /\ now < MaxNow
    /\ now' = now + 1
    /\ UNCHANGED <<shift, activity, isRunning, run, edits, fails>>

-----------------------------------------------------------------------------

Init ==
    /\ now = 0
    /\ shift \in [InitShifts -> {[win |-> w, status |-> "pending"] : w \in Windows}]
    /\ activity = [a \in Activities |-> "pending"]
    /\ isRunning = FALSE
    /\ run = [r \in Runs |-> Idle]
    /\ edits = 0 /\ fails = 0

Step(r) == QueryShifts(r) \/ QueryActivities(r) \/ UpdateMany(r)

Next ==
    \/ \E r \in Runs : Trigger(r) \/ Step(r) \/ Fail(r)
    \/ \E s \in Shifts : \/ \E w \in Windows : CreateShift(s, w) \/ UpdateShift(s, w)
                         \/ DeleteShift(s)
    \/ Tick

\* Node resumes every invocation whose query has answered, and the Interval keeps
\* firing; nobody is obliged to call the endpoint, to edit, or to fail.
Fairness ==
    /\ \A r \in Runs : WF_vars(Step(r))
    /\ WF_vars(Trigger(Interval))

Spec == Init /\ [][Next]_vars /\ Fairness

-----------------------------------------------------------------------------
(* Properties. *)

TypeOK ==
    /\ now \in 0..MaxNow /\ edits \in 0..MaxEdits /\ fails \in 0..MaxFails
    /\ DOMAIN shift \subseteq Shifts
    /\ shift \in [DOMAIN shift -> [win : Windows, status : Status]]
    /\ activity \in [Activities -> Status]
    /\ isRunning \in BOOLEAN
    /\ run \in [Runs -> [at : {"idle", "query"} \cup Status,
                         table : {"shift", "activity"}, whereNow : 0..MaxNow,
                         cursor : {0} \cup Shifts \cup Activities,
                         update : [Status -> SUBSET (Shifts \cup Activities)]]]

\* "Guard to prevent multiple runs": two invocations never page through the tables at
\* once, also after a run that failed.
OneRun ==
    \A q, r \in Runs : run[q].at # "idle" /\ run[r].at # "idle" => q = r

\* The status a shift should have by its window.
Due(w, t) == IF w.end <= t THEN "completed" ELSE IF w.start <= t THEN "ongoing" ELSE "pending"

StaleShifts ==
    {s \in DOMAIN shift : /\ shift[s].win.start <= shift[s].win.end
                          /\ shift[s].status # Due(shift[s].win, now)}

StaleActivities ==
    {a \in Activities : StatusesOf(a) # {} /\ activity[a] # ActivityStatus(a)}

\* Once the clock, the managers and the failures leave it alone, the task gives every
\* shift (that does not end before it starts) the status its window calls for, however
\* they interfered with the pages before: a row one run skips is met by a later run.
ShiftsSettle == <>[](StaleShifts = {})

\* Then all but one page of the activities have the status their shifts call for.
ActivitiesSettleButOnePage == <>[](Cardinality(StaleActivities) <= PageSize)

\* "Then query next 100 records using cursor until no more records" (shift-task): a run
\* that gets to the activities has brought every shift up to date.
RunCoversShifts ==
    \A r \in Runs : run[r].at # "idle" /\ run[r].table = "activity" => StaleShifts = {}

\* "Query first 100 records", "then query next 100 records" (activity.service): in the
\* end every activity has the status its shifts call for.
ActivitiesSettle == <>[](StaleActivities = {})
=============================================================================
