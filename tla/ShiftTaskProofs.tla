-------------------------- MODULE ShiftTaskProofs --------------------------
(***************************************************************************)
(* Proofs about ShiftTask, for any number of invocations, shifts and       *)
(* activities, any size of a page, and any edits and failures.             *)
(***************************************************************************)
EXTENDS ShiftTask, WellFoundedInduction, TLAPS

Ids == Shifts \cup Activities

\* The last id of a page is one of its ids.
LEMMA MaxIsElement ==
    ASSUME NEW S \in SUBSET Ids, S # {}
    PROVE  Max(S) \in S
<1> DEFINE Bounds == {n \in Nat : \A i \in S : i <= n}
<1>1. S \subseteq Nat
  BY IdsAssumption DEF Ids
<1>2. Bounds # {}
  <2>1. PICK n \in Ids : \A i \in Ids : i <= n
    BY IdsAssumption DEF Ids
  <2>2. n \in Nat
    BY IdsAssumption DEF Ids
  <2> QED BY <2>1, <2>2
<1>3. PICK m \in Bounds : \A n \in Bounds : ~ (<<n, m>> \in OpToRel(<, Nat))
  BY <1>2, NatLessThanWellFounded, WFMin
<1>4. \A n \in Bounds : ~ (n < m)
  BY <1>3 DEF OpToRel
<1>5. m \in S
  <2> SUFFICES ASSUME m \notin S PROVE FALSE
    OBVIOUS
  <2>1. \A i \in S : i < m
    BY <1>1
  <2>2. m - 1 \in Bounds
    <3>1. PICK i \in S : i \in Nat /\ i < m
      BY <1>1, <2>1
    <3>2. m - 1 \in Nat /\ \A j \in S : j <= m - 1
      BY <1>1, <2>1, <3>1
    <3> QED BY <3>2
  <2>3. m - 1 < m
    OBVIOUS
  <2> QED BY <1>4, <2>2, <2>3
<1>6. \A i \in S : m >= i
  BY <1>1
<1> QED BY <1>5, <1>6 DEF Max

-----------------------------------------------------------------------------
(* Type correctness. *)

Phases == {"idle", "query"} \cup Status
RunStates == [at : Phases, table : {"shift", "activity"}, whereNow : 0..MaxNow,
              cursor : {0} \cup Ids, update : [Status -> SUBSET Ids]]

LEMMA TypeOKRuns == TypeOK => run \in [Runs -> RunStates]
  BY DEF TypeOK, RunStates, Phases, Ids

LEMMA RunsTypeOK ==
    ASSUME now \in 0..MaxNow, edits \in 0..MaxEdits, fails \in 0..MaxFails,
           DOMAIN shift \subseteq Shifts,
           shift \in [DOMAIN shift -> [win : Windows, status : Status]],
           activity \in [Activities -> Status], isRunning \in BOOLEAN,
           run \in [Runs -> RunStates]
    PROVE  TypeOK
  BY DEF TypeOK, RunStates, Phases, Ids

LEMMA IdleType == Idle \in RunStates
  BY BoundsAssumption DEF Idle, RunStates, Phases, NoUpdates

LEMMA PageType ==
    ASSUME NEW S \in SUBSET Ids, NEW c, NEW T
    PROVE  From(S, c, T) \in SUBSET S
  BY DEF From, Page

\* A run goes on, and the tables stay.
LEMMA RunOnly ==
    ASSUME TypeOK, NEW r \in Runs, NEW state \in RunStates, Become(r, state),
           isRunning' \in BOOLEAN, fails' \in 0..MaxFails,
           UNCHANGED <<now, shift, activity, edits>>
    PROVE  TypeOK'
<1>1. run' \in [Runs -> RunStates]
  BY TypeOKRuns DEF Become
<1> QED BY <1>1, RunsTypeOK DEF TypeOK, RunStates, Phases, Ids

LEMMA TriggerType ==
    ASSUME TypeOK, NEW r \in Runs, Trigger(r)
    PROVE  TypeOK'
<1>1. CASE UNCHANGED run
  BY <1>1 DEF Trigger, TypeOK
<1>2. CASE Become(r, [Idle EXCEPT !.at = "query", !.whereNow = now])
  <2>1. [Idle EXCEPT !.at = "query", !.whereNow = now] \in RunStates
    BY IdleType DEF RunStates, Phases, TypeOK
  <2>2. isRunning' \in BOOLEAN
    BY DEF Trigger, TypeOK
  <2>3. fails' \in 0..MaxFails /\ UNCHANGED <<now, shift, activity, edits>>
    BY DEF Trigger, TypeOK
  <2> QED BY <1>2, <2>1, <2>2, <2>3, RunOnly
<1> QED BY <1>1, <1>2 DEF Trigger

\* The next page of a run: it goes on from the last id, with ids of the page to update.
LEMMA QueriedType ==
    ASSUME NEW q \in RunStates, NEW page \in SUBSET Ids, page # {},
           NEW lists \in [Status -> SUBSET page]
    PROVE  /\ [q EXCEPT !.cursor = Max(page)] \in RunStates
           /\ [q EXCEPT !.at = "pending", !.cursor = Max(page), !.update = lists] \in RunStates
<1>1. Max(page) \in Ids
  BY MaxIsElement
<1>2. lists \in [Status -> SUBSET Ids]
  OBVIOUS
<1>3. [q EXCEPT !.cursor = Max(page)] \in RunStates
  BY <1>1 DEF RunStates
<1>4. [q EXCEPT !.at = "pending", !.cursor = Max(page), !.update = lists] \in RunStates
  BY <1>1, <1>2 DEF RunStates, Phases, Status
<1> QED BY <1>3, <1>4

LEMMA QueryShiftsType ==
    ASSUME TypeOK, NEW r \in Runs, QueryShifts(r)
    PROVE  TypeOK'
<1> DEFINE S == {s \in DOMAIN shift : ShiftMatches(s, run[r].whereNow)}
           page == From(S, run[r].cursor, DOMAIN shift)
           lists == [st \in Status |-> {s \in page : st \in Lists(shift[s].win, now)}]
<1>1. S \in SUBSET Ids
  BY DEF TypeOK, Ids
<1> HIDE DEF S
<1>2. page \in SUBSET Ids
  BY <1>1, PageType
<1>3. run[r] \in RunStates
  BY TypeOKRuns
<1>4. isRunning' \in BOOLEAN /\ fails' \in 0..MaxFails
      /\ UNCHANGED <<now, shift, activity, edits>>
  BY DEF QueryShifts, TypeOK
<1>5. \/ page # {} /\ Become(r, [run[r] EXCEPT !.at = "pending", !.cursor = Max(page),
                                              !.update = lists])
      \/ Become(r, [Idle EXCEPT !.at = "query", !.table = "activity"])
  BY DEF QueryShifts, S
<1> HIDE DEF page
<1>6. lists \in [Status -> SUBSET page]
  OBVIOUS
<1> HIDE DEF lists
<1>7. CASE page # {} /\ Become(r, [run[r] EXCEPT !.at = "pending", !.cursor = Max(page),
                                               !.update = lists])
  <2>1. [run[r] EXCEPT !.at = "pending", !.cursor = Max(page), !.update = lists] \in RunStates
    BY <1>2, <1>3, <1>6, <1>7, QueriedType
  <2> QED BY <1>4, <1>7, <2>1, RunOnly
<1>8. CASE Become(r, [Idle EXCEPT !.at = "query", !.table = "activity"])
  <2>1. [Idle EXCEPT !.at = "query", !.table = "activity"] \in RunStates
    BY IdleType DEF RunStates, Phases
  <2> QED BY <1>4, <1>8, <2>1, RunOnly
<1> QED BY <1>5, <1>7, <1>8

LEMMA QueryActivitiesType ==
    ASSUME TypeOK, NEW r \in Runs, QueryActivities(r)
    PROVE  TypeOK'
<1> DEFINE S == {a \in Activities : ActivityMatches(a)}
           page == From(S, run[r].cursor, Activities)
           lists == [st \in Status |-> {a \in page : ActivityStatus(a) = st}]
<1>1. S \in SUBSET Ids
  BY DEF Ids
<1> HIDE DEF S
<1>2. page \in SUBSET Ids
  BY <1>1, PageType
<1>3. run[r] \in RunStates
  BY TypeOKRuns
<1>4. isRunning' \in BOOLEAN /\ fails' \in 0..MaxFails
      /\ UNCHANGED <<now, shift, activity, edits>>
  BY DEF QueryActivities, TypeOK, End
<1>5. \/ page # {} /\ Become(r, [run[r] EXCEPT !.cursor = Max(page)])
      \/ page # {} /\ Become(r, [run[r] EXCEPT !.at = "pending", !.cursor = Max(page),
                                              !.update = lists])
      \/ Become(r, Idle)
  BY DEF QueryActivities, S, End
<1> HIDE DEF page
<1>6. lists \in [Status -> SUBSET page]
  OBVIOUS
<1> HIDE DEF lists
<1>7. CASE page # {} /\ Become(r, [run[r] EXCEPT !.cursor = Max(page)])
  <2>1. [run[r] EXCEPT !.cursor = Max(page)] \in RunStates
    BY <1>2, <1>3, <1>6, <1>7, QueriedType
  <2> QED BY <1>4, <1>7, <2>1, RunOnly
<1>8. CASE page # {} /\ Become(r, [run[r] EXCEPT !.at = "pending", !.cursor = Max(page),
                                               !.update = lists])
  <2>1. [run[r] EXCEPT !.at = "pending", !.cursor = Max(page), !.update = lists] \in RunStates
    BY <1>2, <1>3, <1>6, <1>8, QueriedType
  <2> QED BY <1>4, <1>8, <2>1, RunOnly
<1>9. CASE Become(r, Idle)
  BY <1>4, <1>9, IdleType, RunOnly
<1> QED BY <1>5, <1>7, <1>8, <1>9

LEMMA UpdateManyType ==
    ASSUME TypeOK, NEW r \in Runs, UpdateMany(r)
    PROVE  TypeOK'
<1> DEFINE st == run[r].at
           state == [run[r] EXCEPT !.at = After(st), !.update[st] = {}]
<1>1. st \in Status /\ run[r] \in RunStates
  BY TypeOKRuns DEF UpdateMany
<1>2. After(st) \in Phases
  BY <1>1 DEF After, Phases, Status
<1>3. state \in RunStates
  BY <1>1, <1>2 DEF RunStates
<1>4. Become(r, state) /\ UNCHANGED <<now, isRunning, edits, fails>>
  BY DEF UpdateMany
<1>5. run' \in [Runs -> RunStates]
  BY <1>3, <1>4, TypeOKRuns DEF Become
<1>6. CASE run[r].table = "shift"
  <2>1. /\ shift' = [s \in DOMAIN shift |->
                       IF s \in run[r].update[st] THEN [shift[s] EXCEPT !.status = st]
                       ELSE shift[s]]
        /\ UNCHANGED activity
    BY <1>6 DEF UpdateMany
  <2>2. \A s \in DOMAIN shift :
            shift[s] \in [win : Windows, status : Status]
            /\ [shift[s] EXCEPT !.status = st] \in [win : Windows, status : Status]
    BY <1>1 DEF TypeOK
  <2> HIDE DEF st, state
  <2>3. DOMAIN shift' = DOMAIN shift /\ shift' \in [DOMAIN shift -> [win : Windows, status : Status]]
    BY <2>1, <2>2
  <2> QED BY <1>4, <1>5, <2>1, <2>3 DEF TypeOK, RunStates, Phases, Ids
<1>7. CASE run[r].table # "shift"
  <2>1. /\ activity' = [a \in Activities |->
                          IF a \in run[r].update[st] THEN st ELSE activity[a]]
        /\ UNCHANGED shift
    BY <1>7 DEF UpdateMany
  <2> HIDE DEF st, state
  <2>2. activity' \in [Activities -> Status]
    BY <1>1, <2>1 DEF TypeOK
  <2> QED BY <1>4, <1>5, <2>1, <2>2 DEF TypeOK, RunStates, Phases, Ids
<1> QED BY <1>6, <1>7

LEMMA EditType ==
    ASSUME TypeOK, NEW s \in Shifts, NEW w \in Windows,
           CreateShift(s, w) \/ UpdateShift(s, w) \/ DeleteShift(s)
    PROVE  TypeOK'
<1> DEFINE Row == [win : Windows, status : Status]
<1>1. edits' \in 0..MaxEdits /\ UNCHANGED <<now, activity, isRunning, run, fails>>
  BY BoundsAssumption DEF CreateShift, UpdateShift, DeleteShift, Edit, TypeOK
<1>2. DOMAIN shift' \subseteq Shifts /\ shift' \in [DOMAIN shift' -> Row]
  <2>1. CASE CreateShift(s, w)
    <3> DEFINE row == [win |-> w, status |-> IF w.end < now THEN "completed" ELSE "pending"]
    <3>1. row \in Row
      BY DEF Status
    <3>2. shift' = [i \in DOMAIN shift \cup {s} |-> IF i = s THEN row ELSE shift[i]]
      BY <2>1 DEF CreateShift
    <3> HIDE DEF row
    <3>3. DOMAIN shift' = DOMAIN shift \cup {s}
      BY <3>2
    <3> QED BY <3>1, <3>2, <3>3 DEF TypeOK
  <2>2. CASE UpdateShift(s, w)
    <3>1. s \in DOMAIN shift /\ shift' = [shift EXCEPT ![s] = [shift[s] EXCEPT !.win = w]]
      BY <2>2 DEF UpdateShift
    <3>2. [shift[s] EXCEPT !.win = w] \in Row
      BY <3>1 DEF TypeOK
    <3> QED BY <3>1, <3>2 DEF TypeOK
  <2>3. CASE DeleteShift(s)
    <3>1. shift' = [i \in DOMAIN shift \ {s} |-> shift[i]]
      BY <2>3 DEF DeleteShift
    <3>2. DOMAIN shift' = DOMAIN shift \ {s}
      BY <3>1
    <3> QED BY <3>1, <3>2 DEF TypeOK
  <2> QED BY <2>1, <2>2, <2>3
<1> QED BY <1>1, <1>2 DEF TypeOK

LEMMA InitType == Init => TypeOK
<1> SUFFICES ASSUME Init PROVE TypeOK
  OBVIOUS
<1>1. run \in [Runs -> RunStates]
  BY IdleType DEF Init
<1>2. /\ DOMAIN shift = InitShifts
      /\ shift \in [InitShifts -> [win : Windows, status : Status]]
  BY DEF Init, Status
<1>3. activity \in [Activities -> Status]
  BY DEF Init, Status
<1>4. now \in 0..MaxNow /\ edits \in 0..MaxEdits /\ fails \in 0..MaxFails
  BY BoundsAssumption DEF Init
<1> QED BY <1>1, <1>2, <1>3, <1>4, RunsTypeOK, ActivityOfAssumption DEF Init

LEMMA StepType == TypeOK /\ [Next]_vars => TypeOK'
<1> SUFFICES ASSUME TypeOK, [Next]_vars PROVE TypeOK'
  OBVIOUS
<1>1. ASSUME NEW r \in Runs, Fail(r) PROVE TypeOK'
  <2>1. fails' \in 0..MaxFails
    BY <1>1, BoundsAssumption DEF Fail, TypeOK
  <2>2. isRunning' \in BOOLEAN /\ Become(r, Idle) /\ UNCHANGED <<now, shift, activity, edits>>
    BY <1>1 DEF Fail, End
  <2> QED BY <2>1, <2>2, IdleType, RunOnly
<1>2. ASSUME NEW s \in Shifts, DeleteShift(s) PROVE TypeOK'
  <2>1. CASE Windows = {}
    <3>1. s \in DOMAIN shift /\ shift[s].win \in Windows
      BY <1>2 DEF DeleteShift, TypeOK
    <3> QED BY <2>1, <3>1
  <2>2. CASE Windows # {}
    <3>1. PICK w \in Windows : TRUE
      BY <2>2
    <3> QED BY <1>2, <3>1, EditType
  <2> QED BY <2>1, <2>2
<1>3. CASE Tick
  BY <1>3, BoundsAssumption DEF Tick, TypeOK
<1>4. CASE UNCHANGED vars
  BY <1>4 DEF vars, TypeOK
<1> QED
  BY <1>1, <1>2, <1>3, <1>4, TriggerType, QueryShiftsType, QueryActivitiesType,
     UpdateManyType, EditType DEF Next, Step

\* The task keeps the tables and its own cursor well formed: the cursor is the id of a row,
\* since a page that is not empty has a last one.
THEOREM TypeCorrect == Spec => []TypeOK
  BY InitType, StepType, PTL DEF Spec

-----------------------------------------------------------------------------
(* One run at a time: the flag is set while, and only while, a run pages.  That makes  *)
(* the property inductive.                                                             *)

Paging == {r \in Runs : run[r].at # "idle"}
FlagInv == /\ DOMAIN run = Runs /\ isRunning \in BOOLEAN
           /\ (Paging # {}) => isRunning
           /\ OneRun

LEMMA FlagInit == Init => FlagInv
<1> SUFFICES ASSUME Init PROVE FlagInv
  OBVIOUS
<1>1. DOMAIN run = Runs /\ \A r \in Runs : run[r].at = "idle"
  BY DEF Init, Idle
<1>2. isRunning \in BOOLEAN
  BY DEF Init
<1> QED BY <1>1, <1>2 DEF FlagInv, Paging, OneRun

\* A run that pages goes on paging, or it ends and takes the flag along.
LEMMA FlagGoesOn ==
    ASSUME FlagInv, NEW r \in Runs, run[r].at # "idle", NEW state, Become(r, state),
           \/ UNCHANGED isRunning
           \/ isRunning' = FALSE /\ state.at = "idle"
    PROVE  FlagInv'
<1>1. /\ DOMAIN run' = Runs /\ run'[r] = state
      /\ \A q \in Runs \ {r} : run'[q] = run[q] /\ run[q].at = "idle"
  BY DEF FlagInv, OneRun, Become
<1>2. isRunning
  BY DEF FlagInv, Paging
<1>3. OneRun'
  BY <1>1 DEF OneRun
<1>4. Paging' \subseteq {r} /\ (state.at = "idle" => Paging' = {})
  BY <1>1 DEF Paging
<1> QED BY <1>1, <1>2, <1>3, <1>4 DEF FlagInv

LEMMA FlagStep == FlagInv /\ [Next]_vars => FlagInv'
<1> SUFFICES ASSUME FlagInv, [Next]_vars PROVE FlagInv'
  OBVIOUS
<1>0. Idle.at = "idle"
  BY DEF Idle
<1>1. ASSUME NEW r \in Runs, Trigger(r) PROVE FlagInv'
  <2>1. CASE isRunning /\ UNCHANGED <<isRunning, run>>
    BY <2>1 DEF FlagInv, Paging, OneRun
  <2>2. CASE ~ isRunning /\ isRunning' = TRUE
             /\ Become(r, [Idle EXCEPT !.at = "query", !.whereNow = now])
    <3>1. \A q \in Runs : run[q].at = "idle"
      BY <2>2 DEF FlagInv, Paging
    <3>2. DOMAIN run' = Runs /\ \A q \in Runs \ {r} : run'[q] = run[q]
      BY <2>2 DEF FlagInv, Become
    <3>3. OneRun'
      BY <3>1, <3>2 DEF OneRun
    <3> QED BY <2>2, <3>2, <3>3 DEF FlagInv
  <2> QED BY <1>1, <2>1, <2>2 DEF Trigger
<1>2. ASSUME NEW r \in Runs, QueryShifts(r) PROVE FlagInv'
  BY <1>2, FlagGoesOn DEF QueryShifts
<1>3. ASSUME NEW r \in Runs, QueryActivities(r) PROVE FlagInv'
  BY <1>0, <1>3, FlagGoesOn DEF QueryActivities, End
<1>4. ASSUME NEW r \in Runs, UpdateMany(r) PROVE FlagInv'
  BY <1>4, FlagGoesOn DEF UpdateMany, Status
<1>5. ASSUME NEW r \in Runs, Fail(r) PROVE FlagInv'
  BY <1>0, <1>5, FlagGoesOn DEF Fail, End
<1>6. ASSUME UNCHANGED <<isRunning, run>> PROVE FlagInv'
  BY <1>6 DEF FlagInv, Paging, OneRun
<1> QED
  BY <1>1, <1>2, <1>3, <1>4, <1>5, <1>6
  DEF Next, Step, CreateShift, UpdateShift, DeleteShift, Edit, Tick, vars

\* Two invocations never page at once, however they are fired and fail.
THEOREM RunsExclude == Spec => []OneRun
<1>1. FlagInv => OneRun
  BY DEF FlagInv
<1> QED BY <1>1, FlagInit, FlagStep, PTL DEF Spec
=============================================================================
