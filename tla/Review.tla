------------------------------- MODULE Review -------------------------------
(***************************************************************************)
(* Reviewing a volunteer: review of ShiftVolunteerService and, before it   *)
(* answers, onShiftVolunteerReviewed of ProfileSkillService and of         *)
(* OrganizationService, and updateMeetSkillRequirements; and the refresh   *)
(* of an organization's hours, refreshOrganizationHoursContributed.        *)
(*                                                                         *)
(* One volunteer of one organization: shifts that are completed, which are *)
(* reviewed, and shifts to come, which the volunteer has registered for.   *)
(* The review adds the hours that it changes, by what it read before it    *)
(* wrote, to three tables one after the other.  The event that is emitted  *)
(* at the end changes nothing.                                             *)
(*                                                                         *)
(* The skills are replaced in a transaction at read committed: deleteMany  *)
(* removes the rows that are there when it starts, and rows that another   *)
(* review commits before createMany are still there with the new ones.     *)
(***************************************************************************)
EXTENDS Requests, Functions, FiniteSetsExt

CONSTANTS
    Completed,      \* shifts that are reviewed
    Upcoming,       \* shifts that are not completed
    Duration,       \* hours of each completed shift
    ShiftSkill,     \* what each shift asks for: hours by skill
    Completions,    \* what a review may say; 0 stands for null too
    MaxReviews      \* bound: reviews

ASSUME CompletedAssumption == IsFiniteSet(Completed)
ASSUME DurationAssumption == Completions \subseteq Nat /\ Duration \in [Completed -> Nat]

VARIABLES
    completion,       \* of the registration for each completed shift
    profileSkill,     \* the rows of the volunteer: hours by skill
    doomed,           \* those the transaction of each slot is about to delete
    hoursContributed, \* of the organization
    meets,            \* meetSkillRequirements of the registrations to come
    reviews,          \* reviews that have been sent
    repaired          \* the queries that had rejected at the last refresh

skillVars == <<profileSkill, doomed>>
tables == <<completion, skillVars, hoursContributed, meets>>
reviewVars == <<tables, reviews, repaired>>

HoursOf(skills, k) == IF k \in DOMAIN skills THEN skills[k] ELSE 0

Meets(skills, s) == \A k \in DOMAIN ShiftSkill[s] :
    k \in DOMAIN skills /\ skills[k] >= ShiftSkill[s][k]

Contributed == MapThenSumSet(LAMBDA s : Duration[s] * completion[s], Completed)

ReviewRequest(h, op, at, on, arg, seen) ==
    /\ Begin(h, [op |-> op, at |-> at, by |-> 0, on |-> {<<"review", s>> : s \in on},
                 arg |-> arg, seen |-> seen])
    /\ UNCHANGED <<tables, repaired>>

\* nextHours - previousHours of the review in slot h.
Change(h) ==
    LET r == req[h].arg
    IN  Duration[r.shift] * r.next - Duration[r.shift] * r.previous

-----------------------------------------------------------------------------

\* review: the registration is read, and written by its id.
ReviewRead(h) ==
    /\ reviews < MaxReviews
    /\ reviews' = reviews + 1
    /\ \E s \in Completed, c \in Completions :
            ReviewRequest(h, "review", "write", {s},
                          [shift |-> s, previous |-> completion[s], next |-> c], 0)

ReviewWrite(h) ==
    /\ At(h, "review", "write")
    /\ completion' = [completion EXCEPT ![req[h].arg.shift] = req[h].arg.next]
    /\ Goto(h, "skills", 0)
    /\ UNCHANGED <<skillVars, hoursContributed, meets, reviews, repaired>>

\* ProfileSkillService.onShiftVolunteerReviewed: the skills of the volunteer are read; all
\* of them are deleted, and those of this shift are stored with their new hours.
SkillsRead(h) ==
    /\ At(h, "review", "skills")
    /\ Goto(h, "replace", profileSkill)
    /\ UNCHANGED reviewVars

SkillsDelete(h) ==
    /\ At(h, "review", "replace")
    /\ doomed' = [doomed EXCEPT ![h] = DOMAIN profileSkill]
    /\ Goto(h, "create", req[h].seen)
    /\ UNCHANGED <<completion, profileSkill, hoursContributed, meets, reviews, repaired>>

\* The rows that stay when the transaction commits, and the skills it stores.
Survivors(h) == DOMAIN profileSkill \ doomed[h]
Taught(h) == DOMAIN ShiftSkill[req[h].arg.shift]

\* The commit: of the rows it has removed, none is left for the others to remove.
Replace(h) ==
    /\ profileSkill' = [k \in Survivors(h) \cup Taught(h) |->
                            IF k \in Taught(h) THEN HoursOf(req[h].seen, k) + Change(h)
                            ELSE profileSkill[k]]
    /\ doomed' = [g \in Handlers |-> IF g = h THEN {} ELSE doomed[g] \ doomed[h]]

\* A row of this profile and skill that stays violates the key: the review rejects.
SkillsCreate(h) ==
    /\ At(h, "review", "create")
    /\ \/ /\ Survivors(h) \cap Taught(h) = {}
          /\ Replace(h)
          /\ Goto(h, "hours", 0)
       \/ /\ Survivors(h) \cap Taught(h) # {}
          /\ doomed' = [doomed EXCEPT ![h] = {}]
          /\ Violates(h)
          /\ UNCHANGED profileSkill
    /\ UNCHANGED <<completion, hoursContributed, meets, reviews, repaired>>

\* Mutant: what was added for an earlier review is not taken back.
HoursAddAgain(h) ==
    /\ At(h, "review", "hours")
    /\ hoursContributed' = hoursContributed + Change(h)
            + Duration[req[h].arg.shift] * req[h].arg.previous
    /\ Goto(h, "requirements", 0)
    /\ UNCHANGED <<completion, skillVars, meets, reviews, repaired>>

\* OrganizationService.onShiftVolunteerReviewed.
HoursAdd(h) ==
    /\ At(h, "review", "hours")
    /\ hoursContributed' = hoursContributed + Change(h)
    /\ Goto(h, "requirements", 0)
    /\ UNCHANGED <<completion, skillVars, meets, reviews, repaired>>

\* Mutant: the requirements are checked with the skills read before.
RequirementsStale(h) ==
    \/ /\ At(h, "review", "create") /\ Survivors(h) \cap Taught(h) = {}
       /\ Replace(h)
       /\ Goto(h, "hours", {s \in Upcoming : Meets(req[h].seen, s)})
       /\ UNCHANGED <<completion, hoursContributed, meets, reviews, repaired>>
    \/ /\ At(h, "review", "hours")
       /\ hoursContributed' = hoursContributed + Change(h)
       /\ Goto(h, "meet", req[h].seen)
       /\ UNCHANGED <<completion, skillVars, meets, reviews, repaired>>

\* updateMeetSkillRequirements: which registrations for shifts to come now meet what the
\* shifts ask for; nothing is taken back from the others.
RequirementsRead(h) ==
    /\ At(h, "review", "requirements")
    /\ Goto(h, "meet", {s \in Upcoming : Meets(profileSkill, s)})
    /\ UNCHANGED reviewVars

MeetWrite(h) ==
    /\ At(h, "review", "meet")
    /\ meets' = meets \cup req[h].seen
    /\ End(h)
    /\ UNCHANGED <<completion, skillVars, hoursContributed, reviews, repaired>>

\* What comes after the rows of the skills are removed.
Accounting(h) ==
    SkillsCreate(h) \/ HoursAdd(h) \/ RequirementsRead(h)

ReviewVolunteer(h) ==
    \/ ReviewRead(h) \/ ReviewWrite(h) \/ SkillsRead(h) \/ SkillsDelete(h)
    \/ Accounting(h) \/ MeetWrite(h)

-----------------------------------------------------------------------------

\* refreshOrganizationHoursContributed: the sum over the registrations is read, and
\* written.
RefreshRead(h) ==
    /\ ReviewRequest(h, "refresh", "write", Completed, 0, Contributed)
    /\ UNCHANGED reviews

RefreshWrite(h) ==
    /\ At(h, "refresh", "write")
    /\ hoursContributed' = req[h].seen
    /\ repaired' = aborts
    /\ End(h)
    /\ UNCHANGED <<completion, skillVars, meets, reviews>>

RefreshHours(h) == RefreshRead(h) \/ RefreshWrite(h)

-----------------------------------------------------------------------------

ReviewInit ==
    /\ completion = [s \in Completed |-> 0]
    /\ profileSkill = <<>>
    /\ doomed = [h \in Handlers |-> {}]
    /\ hoursContributed = 0
    /\ meets = {s \in Upcoming : Meets(profileSkill, s)}
    /\ reviews = 0
    /\ repaired = 0

ReviewNext ==
    \E h \in Handlers : \/ ReviewVolunteer(h) \/ RefreshHours(h)
                        \/ /\ Abort(h) /\ doomed' = [doomed EXCEPT ![h] = {}]
                           /\ UNCHANGED <<completion, profileSkill, hoursContributed, meets,
                                          reviews, repaired>>

allReviewVars == <<requestVars, reviewVars>>
ReviewSpec == RequestsInit /\ ReviewInit /\ [][ReviewNext]_allReviewVars

-----------------------------------------------------------------------------
(* Properties. *)

\* Reviews of different registrations may race.  As long as no query has rejected since
\* the last refresh, be it because two of them stored the hours of one skill, the hours of
\* the organization are those of its registrations; and a refresh that is alone puts right
\* what failed reviews have left.
HoursAddUp ==
    manner \in {"subject", "serial"} /\ Quiet /\ aborts = repaired =>
        hoursContributed = Contributed

\* However reviews race, also when they leave the skills of both or one of them rejects:
\* a registration to come whose requirements the volunteer's skills now meet is marked,
\* since a review checks them after it has stored the skills.  Only a query that rejects
\* after that, in the run where queries may, leaves one unmarked.
MarkedWhenMet ==
    ~ failing /\ Quiet => \A s \in Upcoming : Meets(profileSkill, s) => s \in meets

\* What the comment on the hours of a skill says, one review after the other: they add up
\* those of the reviewed shifts that teach it.
SkillsAddUp ==
    manner = "serial" /\ ~ failing /\ Quiet =>
        \A k \in UNION {DOMAIN ShiftSkill[s] : s \in Completed} :
            HoursOf(profileSkill, k) =
                MapThenSumSet(LAMBDA s : Duration[s] * completion[s],
                              {s \in Completed : k \in DOMAIN ShiftSkill[s]})
=============================================================================
