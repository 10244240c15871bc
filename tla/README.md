# Verification of volunteer-backend

This directory holds TLA+ models of the NestJS service in `src/`, the TLC runs
that check them on small instances, and theorems that TLAPS proves for every
value of the constants. Every definition of a model is translated from the
TypeScript code; `PROJECT.json` maps it to its lines, and lists the hazards of the
code with the properties that cover them.

## 1. The system

One Node process (or several behind a balancer) serves HTTP requests. A request
handler is an `async` method of a service that queries PostgreSQL through
Prisma. Handlers share nothing but the database, so two handlers interleave at
every `await`. Writes that belong together run in an interactive
`$transaction`, at PostgreSQL's default isolation, Read Committed. Most
handlers validate rows they read *before* the transaction they write them in,
and some write on the service's own connection inside the callback of a
transaction, which does not include them. Scheduled tasks (`@Interval`) run in
the same process and guard themselves with a boolean field. Listeners of events
(`emitAsync`, `emit`) go on after, or before, the answer to the request.

| component | state | operations | what is hard |
|---|---|---|---|
| Shift registrations (`shift-volunteer.service.ts`) | `VolunteerShift` rows, `Shift.joinedParticipants`, `Shift.availableSlots` | join, cancelJoin, leave, approve, reject, remove, batches | check-then-write, two tables that must agree, concurrent joins |
| Shifts (`shift.service.ts`) | `Shift` rows, window of the activity | create, update, delete | counters recomputed from a count, windows from values read earlier, writes outside their transaction |
| Shift task, activity refresh (`shift-task.service.ts`, `activity.service.ts`) | status of shifts and activities, `isRunning` | periodic run, `POST /shifts/refresh` | paging through a table whose filter the page changes, failures, edits in between |
| Attendance (`shift-volunteer.service.ts`) | check-in, check-out, verification of a registration | volunteer and manager | check-then-write against a clock |
| Review, profile skills, organization hours | completion, hours of skills and of the organization, `meetSkillRequirements` | review, its listeners, refresh | three tables updated one after the other, by a difference |
| Ratings (`shift-volunteer.listener.ts`) | ratings of registrations, shifts, activities | rate, its listener | averages of stale reads, empty sets |
| Organizations, members, roles | `Organization`, `Member`, `MemberRole` rows | create, decide, join, cancel, leave, approve, reject, remove, grant, revoke, transfer | check-then-write, one owner |
| Tokens (`token.service.ts`) | one row per account and type | create, verify, expire | renewal races verification |
| Accounts, account verification | flags, requests, log of bans | register, ask, block, decide, ban, admin role | two queries that are not in one transaction |
| Chats and chat groups | chats, participants, read marks | create, send, read, block, add, remove, leave, hand over, delete | an owner who takes no part, messages that cross reads |
| Reports | status, messages | file, message, cancel, complete, reject | a rejection nobody handles ends the process |
| Search of activities and organizations, its history | `SearchHistory` rows | paged, filtered search | rows edited between two pages |
| Analytics | three Redis keys, `isRunning` | task, endpoints | keys set one by one, runs that fail |
| News, profiles, contacts, locations, skills, notifications, email, files | single rows; outside services | CRUD, I/O | nothing a model would show |

What makes each of them correct:

* the counters of a shift agree with its limit (`SlotsConserved`, `SlotsCoverFree`) and with its approved registrations (`ImplementsLifecycle`);
* a volunteer has one active registration per shift, and can always leave one that is approved (`OneActiveRegistration`, `ApprovedIsActive`);
* nobody works two overlapping shifts (`NoOverlappingApprovals`, `ApprovalCancelsPending`: the code breaks both);
* one run of the status task at a time, which in the end brings every shift and every
  activity up to date (`OneRun`, `ShiftsSettle`, `ActivitiesSettleButOnePage`; the code breaks `RunCoversShifts` and `ActivitiesSettle`);
* attendance: a check-out follows a check-in, and what the staff has settled stays (`CheckOutFollowsCheckIn`, `SettledStaysSettled`);
* review: the hours of an organization are those of its registrations, and those who meet the requirements are marked (`HoursAddUp`, `MarkedWhenMet`; the code breaks `SkillsAddUp`);
* ratings: once the listeners are done, a shift has the average of its approved registrations, and the activity that of its shifts, unless an average was refused (`RatingsSettle`);
* the window of an activity covers its shifts, but for those whose creation failed halfway (`WindowCovers`);
* organizations: one membership per account, whose status moves by the promised steps, one owner, members only where verified (`OneMembership`, `ImplementsMembership`, `OwnerRoleIsOwners`, `MembersOfVerified`);
* tokens: each is acted on at most once, and the newest one mailed is valid (`EveryUseTakesOne`, `NewestIsLive`);
* accounts: verified on request, disabled on record, one open request (`VerifiedOnRequest`, `DisabledOnRecord`, `OneOpenVerification`);
* chats: the owner takes part, who is marked as having read a chat has seen its latest message (`GroupOwnerTakesPart`, `ReadSeesLatest`);
* reports: decided after an answer, one open per target, closed ones stay closed (`DecidedAfterAnswer`, `OneOpenReport`, `ClosedStaysClosed`);
* searches return rows once, in order, without a gap (`SearchAnswers`); a client's history entries are spaced (`HistoryIsSpaced`);
* the two rankings are of one run, and count every shift once (`RankingsAgree`, `EveryShiftCounts`).

## 2. The modules

| module | models |
|---|---|
| `ShiftRegistration` | registrations, counters, request handlers, edits and deletion of shifts |
| `RegistrationLifecycle` | what the registration endpoints promise, one atomic operation each |
| `ShiftTask` | the scheduled task, its paging, and the activity refresh it ends with |
| `Requests` | what the handlers of all services below have in common |
| `Organization`, `MembershipLifecycle` | organizations, members and roles; the promised steps of a membership |
| `Chats`, `Reports` | chats of two and of groups; reports |
| `Tokens`, `Accounts` | mailed tokens; accounts and what administrators decide about them |
| `Attendance`, `Review`, `Ratings` | check-in and check-out; reviews with their listeners; ratings with theirs |
| `ActivityWindow` | the window of an activity under changes of its shifts |
| `Search`, `Analytics` | paged searches and the search history; the rankings |
| `MCShiftRegistration`, `MCShiftTask`, `MCCommunities`, `MCServices` | instances for TLC |
| `ShiftRegistrationProofs`, `ShiftTaskProofs`, `OrganizationProofs` | theorems about the module of that name |
| `CommunitiesProofs`, `AccountsProofs` | theorems about `Reports`, `Chats` and `MCCommunities`; about `Tokens` and `Accounts` |
| `VolunteeringProofs`, `QueriesProofs` | theorems about `Attendance`, `Review`, `Ratings` and `ActivityWindow`; about `Search`, `Analytics` and `MCServices` |
| `RequestsProofs` | lemmas these share on requests, tables and finite sets |

### ShiftRegistration

`shift` and `vol` are the two tables as functions from ids; a deleted row is
outside the domain. `req[h]` is the handler in slot `h`: its operation `op`, the
query it waits for `at`, the account `by`, the ids of the URL, and what it has
read so far (`view`, the limit and window of the shift; `match`, the rows an
`updateMany` selected; `slots`, the computed free places). One query is one
step:

    idle --Request--> shift --ReadShift--> rows --XRead--> [match -->] commit --XCommit--> idle

A guard that fails finishes the request, as the exception does. `Abort` is any
query that rejects: the transaction rolls back and the handler throws. A batch
(`approveMany`, `removeMany`) keeps the ids to do in `todo` and goes on with the
next one after success or failure, as the `try` in the loop does; the endpoint
`reject` calls `approveMany`, so there is no batch of rejections.

A transaction that only touches rows by their id is one step. Two are split,
because Read Committed lets another transaction commit in between: `join` (the
`updateMany` selects rows, the commit creates one) and `updateShift` (count,
then an absolute value). The consecutive queries of `approveOrReject` before its
transaction are one step: only the last one decides. `leave` tests
the status of the shift after its second query, the model with the first: the
value is the same one, read once.

The status of a shift is changed by `RefreshStatus`, which stands for
`ShiftTask`: it may write the status that any earlier instant, and for an edited
shift any window, leads to. A null `availableSlots` stays null when it is
incremented; a field that is `undefined` is not written.

Constants that restrict the environment: `Editable` is the set of shifts managers edit or
delete; `SameShiftUrls` says whether the shift in a URL is that of the
registration in it; `Isolation` is `"none"` (any requests overlap), `"client"`
(an account waits for its own join, cancelJoin and leave) or `"subject"`
(requests in flight are about different accounts).

### ShiftTask

`run[r]` is one invocation: the query or update it is at, the table, the
`whereNow` its filter was built with, the cursor and the ids still to be
updated. `isRunning` is the field of the service. `From` is Prisma's cursor
query: rows that match, in the order of their ids, from the cursor row's id on,
none if that row is gone, skipping one. `Lists` computes the three lists
independently, as the code does: a window that ends before it starts
is put on two of them. `Fail` is a query that rejects; the `finally` runs.
`automaticStatusUpdate` is true throughout, nothing in `src/` sets it otherwise.

### RegistrationLifecycle

The abstract specification has two variables, the registrations and the
number of participants per shift, and one atomic action per operation; every
action recounts the participants. `ShiftRegistration` refines it by
`Ids <- 1..MaxRegs`, `reg <- vol`, `joined <- ` the column
`joinedParticipants`: a commit maps to an operation, every other step
stutters. That it does so for batches and rejections in any order shows that the increments of the code
never drift from the count they stand for.

### Requests, and the services built on it

`req[h]` is the request in slot `h`: its method, the query it waits for, the account, the
things it is about, its parameters and what it has read. One query is one step; the first
one belongs to the step in which the request arrives, and a request that its first guard
refuses is no step. Consecutive look-ups of which only the last one decides are one
step, where nothing can change the answer of the earlier ones; each module says which. `Abort` is a query that rejects, or the process
that ends: a transaction rolls back, what was written before it stays.

Little holds of clients that send what they like. `manner`, chosen in `Init`, says how far
they keep apart: `any`; `client`, an account waits for its answer; `subject`,
requests in flight are about different things; `serial`. A property names the manners it
is promised for, so that the weaker ones show where the code races. `failing`
says whether queries may reject at all: what must hold when they do not
is not asked after a failure half way. `PageOf` is a page of `findMany` in the order of ids, with
its `cursor`, `skip` and `take`; it is defined by `Rank`, the place of an id in a set, and not by
the library's sort, of which a proof could not tell what it returns.

* **Organization**: `org` and `member` are the tables, `MemberRole` a field of `member`. Grants and
  transfers replace roles in a transaction whose `deleteMany` sees only what is
  committed, hence the roles read in `change` and `clear`. The guard of a grant compares the id of an account with
  that of a member, as the code does. The controller of
  `transferOwnership` discards the answer of `validateAccountMemberHasRole`: any approved member
  may transfer, and so it is here. The owner it takes the organization from keeps the role; `displaced`
  names these, so that `OwnerRoleIsOwners` says who may have the role: them, and the owner.
  `MembershipLifecycle` has the steps that the comments above the methods promise
  ("pending -> cancelled"); `Standing` maps the rows of an account to its status.
* **Chats**: `part` are participant rows, each with an id that is not used again. Deleting
  one deletes its messages, deleting a chat its participants (`onDelete: Cascade`). `read` is the mark;
  `unseen` says that the latest message is of another and was never shown to the participant: an
  answer of `readChat` holds one message (`getChatInclude`), so nothing can be said of those before it.
  The accounts named in `to` are there, and the creator may be among them, which gives it two rows.
  Accounts are added one or two at a time, two of them perhaps the same.
* **Reports**: `createReportMessage` starts `validateReportMessage` without
  awaiting it, with the id of the report for that of the reporter; it rejects for nearly
  everybody but admins, nobody handles it, and Node ends the process: `Exit` drops all
  requests in flight.
* **Tokens**: the codes of a key are numbered; `createToken` reads, deletes and stores,
  `verifyAndExpireToken` reads, deletes and is acted on (`verifyAccount`, `resetPassword`).
* **Accounts**: `verifyAccount` and `banAccount` hand the service's own `this.prisma`
  queries to a transaction, so that each commits by itself: two steps, each of which may be the last.
  `updateAccount` writes back the row it has read, with the flags. Anybody decides about anybody: the
  controllers of verifications, bans and requests ask for no role.
* **Attendance**: one shift, the rows of its volunteers and a clock. Besides checking in and out and
  their verification: leave, remove, and the approval of one who was removed, which write `status`.
  `verifyCheckInMany` is one transaction whose rows are looked for by the update
  itself: one step.
* **Review**: one volunteer. `review`, the two listeners it awaits, which add the
  *change* of the hours to profile skills and to the organization, and the marking of registrations
  to come. The skills are deleted and created in a transaction at Read Committed: two steps.
  `doomed` are the rows the first has seen; the rows that others commit before the second stay, and if one is
  of the same skill the primary key refuses the new one and the review rejects, in any run. `repaired` records
  the failures before the last refresh of an organization's hours.
* **Ratings**: one activity, whose shifts the task completes and, when a manager has moved them, puts back to pending or
  ongoing. An average is kept as the ratings it averages, the only thing that
  can be lost or stale. The rating columns hold whole numbers: an average that is not whole is refused by
  Prisma, and one of nothing, 0 / 0, is refused or stored as null; both are steps. Nobody handles what
  a listener rejects with: `Refuse` ends the process, with the requests in flight. The listener runs after the
  answer; a request lasts until its listener ends, so that the manners mean more here than a
  client can know. `refused` records whether the last average of the activity was refused.
* **ActivityWindow**: one activity. Its shifts may end before they start, as the DTOs skip the check of those that do,
  and an update may move one end only. `updateShift` runs in one transaction; `createShift` and `deleteShift`
  write the shift outside theirs, so that it stays written when the rest fails. `missed` are the shifts that a
  `createShift` stored before it failed.
* **Search**: the loop of `internalGet` and `getOrganizations` over a table that is edited
  between pages. `answer` is the last answer with the number of edits when it began. A row
  is what the filters see of it: limits and participants of its shifts, and its distance
  as in, out or none. `InOrder` is again by rank. A query that is `Asked` has no offset beside a cursor,
  which `PaginationQueryDto` refuses. Rows come in the order of ids; other sort orders are left out.
* **Analytics**: a ranking is how often it counts each shift. `Fresh` and `Expired` are the tests
  of the task and of `getAccountRankings`; `getOrganizationRankings` fires a run whenever there is a date.

The modules of a group share no rows. `MCCommunities` and `MCServices` check them as one
specification in which `service`, chosen in `Init`, says whose behaviour it
is: the state space is the sum of theirs, not the product. `Init` pairs manners and services so
that every property has the manners it speaks of.

## 3. Runs

| run | instance | shows |
|---|---|---|
| `Races` | 2 handlers, 2 shifts with limit 1, a volunteer, a manager, any URL, `Isolation` client | `SlotsConserved`, `OneActiveRegistration` |
| `Subjects` | 2 handlers, 2 volunteers, 2 managers, 3 registrations, a shift that starts, `Isolation` subject | `ApprovedIsActive`, `ImplementsLifecycle` |
| `Serial` | 1 handler, batches of 2, 2 overlapping shifts, one of them edited and deleted, a manager who volunteers, shifts that end | `TypeOK`, `SlotsCoverFree`, `ImplementsLifecycle` |
| `Task` | 2 runs, 3 shifts in 2 activities, pages of 1, 2 edits, a failure, 2 ticks, an inverted window | `TypeOK`, `OneRun`, `ShiftsSettle`, `ActivitiesSettleButOnePage` |
| `Communities` | 2 handlers, a failure; 2 accounts, an organization, 3 member rows, 2 roles; a chat, 3 participant rows, 2 messages; 2 reports on a target; and the transfers of ownership among 3 accounts | `OneMembership`, `OwnerRoleIsOwners`, `MembersOfVerified`, `ImplementsMembership`; `GroupOwnerTakesPart`, `ReadSeesLatest`; `DecidedAfterAnswer`, `OneOpenReport`, `ClosedStaysClosed`; `CommunitiesTypeOK` |
| `Services` | 2 handlers, a failure; 3 tokens of a key; 2 accounts, 2 requests, 2 bans; a volunteer's attendance; 3 reviews of 2 shifts; 3 ratings of 2 shifts; 2 shifts in an activity; a table of 4 rows; 3 shifts to rank | the properties of the eight services, `ServicesTypeOK` |

Runs that find a disagreement between the code and its own comments, each
with its counterexample (one more needs none: the comment of `join` speaks of "pending or
approved shifts", the code compares with approved ones only):

| run | property | the code |
|---|---|---|
| `ApproveOverlap` | `NoOverlappingApprovals` | the overlap test of `approveOrReject` has no `return` |
| `ApproveCancels` | `ApprovalCancelsPending` | cancels the pending registrations of the manager, not of the volunteer |
| `TwoJoins` | `OneActiveRegistration` | two concurrent joins stay active both |
| `RunCovers` | `RunCoversShifts` | the cursor row has left the filter, `skip: 1` passes over the next row |
| `Activities` | `ActivitiesSettle` | the first page of activities is never updated |
| `Skills` | `SkillsAddUp` | a review deletes the hours of every skill its shift does not teach |

**Bounds.** `MaxRegs` bounds the registrations ever created: two are enough for a
volunteer who ends one and registers again while the managers work on the first, three
add a second volunteer beside. `MaxJoined` bounds the participant counter
in both directions; `MaxBatch` the ids of one batch, two being the least
with a next one; `MaxNow`, `MaxEdits`, `MaxFails` count the clock, edits and
failures. Two handlers suffice for every race of a check with a write. Pages
hold one row instead of one hundred: what matters is that there are as many
pages as rows, and three shifts give a first, a next and a skipped one. The bounds on
registrations, participants and the clock also stand in the guards of the
model, so the theorems hold for every value of them.

In `Communities` three member rows let an account that should have one get a second; three
participant rows are a group of two with one who comes back, or whose creator is in it twice; two messages are one to read and one that
comes between the mark and the answer. `Insiders` are the two accounts of all methods; in the service `ownership`
a third one joins them and only the methods that lead to a transfer go on, since a member who hands over what is neither his nor
goes to the owner takes three. Clients that only wait for their own answers, who are promised one membership, send no grants
(`AmongInsiders`), and clients that do not wait at all neither send nor read messages of a group (`MessagesOfTwo`): no property promises
them anything of these, and the types hold by theorem. In `Services` three tokens are one used, one replaced and one to
come; the clock of attendance runs from before the start to after both limits; three reviews
are two shifts and a correction, one shift teaching a skill more than the other; ratings of 1 and 4 have averages that are whole and others that
are not, and two of a shift settle after a third corrects one; requests about accounts that do not keep apart are all about one account, and none about its role (`AboutOne`), and ratings that do not are two (`FewRatings`); one rejected query is a failure at every place of every
request, as `Init` starts from all manners. Searches read pages of one row where the
code takes 1000, and give up after two pages without a hit instead of four or five: four
rows are enough for a cursor, a skipped row, two misses and a hit
behind them. All tables of the four rows are checked under one search, with one edit; histories with three
searches of an empty table. `Analytics` has pages of one shift, a day of two ticks in a clock
of four, and one change of a shift.

`Editable = {}` in `Races` because `updateShift` sets the free places from a count:
`SlotsConserved` is about the shifts nobody edits, `SlotsCoverFree` is
what remains of it for the others, one request at a time. Under the race
of an edit and an approval that fails too: see the hazards in `PROJECT.json`.
Approving a registration while its owner joins again can
leave it approved and inactive, and approving it twice at once counts it twice:
`Subjects` excludes both by its `Isolation`.

**What the models show beyond their properties.** The modules translate these as the code
has them; where a property would fail it is promised to the manners for which it does not.

* `createChat` with oneself matches every later `createChat` of that account;
  `updateChat` passes its whole DTO as data.
* A member who leaves or is removed keeps the role rows and has the roles again
  on coming back; a manager's grant strips the owner role of the owner, as it replaces all roles.
* An admin's first message that races a cancellation reopens the report.
* A review never takes `meetSkillRequirements` back, and a join that reads the
  skills before a review has stored them may miss the mark.
* Two reviews at once may leave a volunteer with the skills of both shifts, or one of them fails on the key and the hours of the
  organization miss it until the next refresh.
* A rating whose average is not whole, or an activity with no completed shift left, ends the process; the average
  of the activity stays behind those of its shifts.
* `updateAccount` that races a ban or a verification undoes it on the account.
* A reader of a chat is marked as having read all its messages by an answer that holds the latest only.
* A filtered search of activities ends after four pages without a hit, one of organizations
  after five more pages; the latter returns the cursor row again,
  does not cut to the limit, and a page past the end starts again at the second
  row. Asking for zero free places, or for a radius of zero, keeps the pages as small as without a
  filter; activities whose limits add up to zero count as unlimited; volunteers who wait count as joined.
* `getOrganizationRankings` throws before the first run and may answer a day late, as it tests for a date
  instead of for none; `getAccountRankings` has no answer when it fires a run.

**Deadlock** is checked in the runs of `ShiftRegistration` and `ShiftTask`. A state without
requests can always start one as long as there is an idle handler, and a busy handler
can always abort. It is not in `Communities`, `Services` and `Skills`: there tables and clocks reach their
bounds, and a request that must insert a row beyond one waits for ever.

**Fairness.** Only `ShiftTask` states any: weak fairness of each invocation's next step (Node resumes a
handler whose query has answered) and of the interval's trigger (`@Interval`
keeps firing). It assumes none of the endpoint, the managers, the clock or of failures,
whose number is bounded: `ShiftsSettle` says what happens once they leave
the task alone. In the other modules nothing must happen: they answer requests.

## 4. Proofs

For every value of the constants that the named assumptions of the modules allow. Every invariant and every action
property that a run checks and finds true is a theorem, in the form in which it is checked:

| theorem | shows | strengthening |
|---|---|---|
| `ShiftRegistrationProofs` | | |
| `TypeCorrect` | `TypeOK` | inductive: join commits only while the shift is there, `DeleteShift` takes the registrations along |
| `SlotsAreConserved` | `SlotsConserved` | `InFlight`: a request past its first query about a shift nobody edits has seen the limit it still has |
| `OneActive` | `OneActiveRegistration`, if `Isolation` is client or subject, or requests do not overlap | `ClientsTakeTurns`, and `JoinsKnow`: the rows a join matched include all active ones of its account |
| `ApprovedAreActive` | `ApprovedIsActive`, if `Isolation` is subject, or requests do not overlap | `SubjectInv`: the rows that a request has read and is about to replace or to decide are as it read them |
| `TablesImplementLifecycle` | `ImplementsLifecycle`, under the same hypothesis and `SameShiftUrls` | `RefineInv`: also that `joinedParticipants` is the number of approved registrations; then each commit maps to one operation, every other step stutters |
| `SlotsCover` | `SlotsCoverFree`, if requests do not overlap, and `SameShiftUrls` | `CoverInv`: also that the count an edit of the limit has made is still that of the table |
| `ShiftTaskProofs` | | |
| `TypeCorrect` | `TypeOK` | inductive; `MaxIsElement` gives a page that is not empty a last id |
| `RunsExclude` | `OneRun` | `FlagInv`: the flag is set while a run pages, and at most one does |
| `OrganizationProofs` | | |
| `OrganizationTypeCorrect`, `OneMembershipEach` | `OrganizationTypeOK`, `OneMembership` | `Exclusive`: requests in flight do not wait for each other; `Fresh`: a join that found no row of its account still would not; `Known`: a request is about the membership it writes |
| `MembershipsImplemented` | `ImplementsMembership`: every step is a promised step of one membership, or none | `Current`: the row of a request has the status it was read with, while requests about a membership keep apart |
| `OwnersHoldTheirRole`, `OnlyVerifiedHaveMembers` | `OwnerRoleIsOwners`, `MembersOfVerified` | `GovernanceInv`: a transfer in flight is between two rows of its organization and takes the role from the one of who asked for it, if that has it; a decision in flight is about a pending organization, a join about a verified one |
| `AccountsProofs` | | |
| `TokensTypeCorrect` | `TokensTypeOK` | the types of requests |
| `EveryUseTakesItsToken` | `EveryUseTakesOne` | counts acceptances, requests that have deleted their row, and the row, against the tokens stored |
| `NewestTokenIsLive` | `NewestIsLive` | `NewestInv`: the stored code is the last one issued, and so is the one a verification that keeps apart is about to accept |
| `AccountsTypeCorrect`, `DisabledWithRecord` | `AccountsTypeOK`, `DisabledOnRecord` | a ban, or an update, about to disable an account has a ban on record |
| `VerifiedWithRequest`, `OneRequestIsOpen` | `VerifiedOnRequest`, `OneOpenVerification` | `VerificationInv`: a request in flight is about the open one of its account, or, where it verifies the account, has decided it in its favour |
| `CommunitiesProofs` | | |
| `ReportsTypeCorrect`, `DecisionsAreAnswered` | `ReportsTypeOK`, `DecidedAfterAnswer` | decisions in flight are about answered reports |
| `OneReportIsOpen`, `ClosedReportsStayClosed` | `OneOpenReport`, `ClosedStaysClosed` | `OpenInv`: a report that a request is about to write is still open; one about to file has none |
| `ChatsTypeCorrect`, `OwnersTakePart`, `ReadersHaveSeen` | `ChatsTypeOK`, `GroupOwnerTakesPart`, `ReadSeesLatest` | `ChatsInv`: what a request has read of a chat nobody else is about still holds; `Catching`: where a mark runs ahead of the latest message, a request is about to show it |
| `CommunitiesTypeCorrect` | `CommunitiesTypeOK` | the invariant of the service the behaviour is of; the variables of the others do not move |
| `VolunteeringProofs` | | |
| `AttendanceTypeCorrect`, `CheckOutComesLater` | `AttendanceTypeOK`, `CheckOutFollowsCheckIn` | `TakeTurns`: of the requests about a row at most one is the volunteer's, and what it saw of its own columns still holds |
| `SettledForGood` | `SettledStaysSettled` | `SettledInv`: a check-in or check-out in flight is about a row that is approved and not settled |
| `HoursOfRegistrations`, `SkillsAreMarked` | `HoursAddUp`, `MarkedWhenMet` | `ReviewInv`: the hours are a sum over registrations in which those under review still count as they did before; a registration that should be marked has a review that will |
| `RatingsTypeCorrect`, `AveragesSettle` | `RatingsTypeOK`, `RatingsSettle` | `RatingsInv`: an average that is whole and out of date, and one of the activity that was not refused, has a listener before the query that writes it; what a listener has read is still so |
| `WindowTypeCorrect`, `WindowCoversShifts` | `WindowTypeOK`, `WindowCovers` | `WindowInv`: a request that has written its shift and not yet the activity has computed a window that covers all but the missed ones; should it fail, the one that is there still covers the others |
| `QueriesProofs` | | |
| `SearchTypeCorrect`, `SearchesAnswer` | `SearchTypeOK`, `SearchAnswers` | `SearchInv`: what a search of unedited rows has found is exactly what it is to find up to its cursor |
| `HistorySpaced` | `HistoryIsSpaced` | `HistoryInv`: the entries of an account about to get one are long past |
| `RankingsOfOneRun`, `AnalyticsTypeCorrect` | `RankingsAgree`, `AnalyticsTypeOK` | a run past its check is alone and has no fresh date beside it |
| `EveryShiftIsCounted` | `EveryShiftCounts` | `CountingInv`: a run has counted what is up to its cursor once, and nothing behind it |
| `ServicesTypeCorrect` | `ServicesTypeOK` | the invariant of the service the behaviour is of |

Properties that speak of some manners only are theorems with that condition in them, as the runs
check them; there is none on the number of requests, accounts, rows, edits or failures.

**Assumptions.** Handler slots are finite in number (`HandlersAssumption`), as a process has finitely many requests in
flight: `AccountsProofs` counts them. So are the accounts of chats (`ChattersAssumption`), the shifts of a review
(`CompletedAssumption`), and the ids of a searched table (`RowIdsAssumption`). Bounds (`BoundsAssumption`,
`MaxMessagesAssumption`, `MaxAbortsAssumption`) are natural numbers of any size. Pages hold at least one row
(`PagesAssumption`, `PageAssumption`), times and durations are natural numbers (`InstantsAssumption`, `SpacingAssumption`,
`LifeAssumption`, `DurationAssumption`). A day is not zero and there are shifts to rank, or an empty ranking could not be
told from none. `QueriesAssumption`: no query has an offset beside a cursor, which
`src/src/common/dtos/pagination-params.dto.ts` refuses. The module of an MC run extends every module with an
assumption, so TLC evaluates them.

**Layout.** Each invariant proof has one lemma per action, or one step for the actions that leave the tables alone, and
lemmas for what a step does to the slots (`SlotOnly`, `GotoSlot`, `Arrives`); a theorem combines them by PTL.

**Sums and finite sets.** The library's induction theorems take an operator as a parameter and cannot be used. What is said
of every finite subset is shown by a smallest counterexample: `LeastNat` (a set of numbers has a least
element) gives `NoneBad` (no subset is bad, if a nonempty bad one stays bad without one of its elements). The sums in
`HoursOfRegistrations`, the windows in `WindowCoversShifts` and the ranks in `SearchesAnswer` and
`EveryShiftIsCounted` rest on it, and so does `LargestNat`.

**Model-checked only.** Liveness (`ShiftsSettle`, `ActivitiesSettleButOnePage`), which needs the fairness of
`ShiftTask` and so ENABLED, and the six runs that end in a counterexample. That a prover accepts a property for every instance says
nothing of the manners it does not speak of: where the code races, the runs and the notes of section 3 show it.

## 5. What is not modelled

Left out of the modelled components: names, descriptions, locations, contacts and the rows of
skills beside a shift, read-only queries, the permission guards of the controllers (except those that a method's
own queries make), the events to the sockets of the chat gateway, which follow the commit, and the
disabling of an organization's files and profile. A crash of the process is an `Abort` of every
request in flight: nothing but the database and Redis survives, and `isRunning` starts false.

Components that stay out (`PROJECT.json` lists them with the reason):

* News: CRUD of single rows. Its daily task pages through all rows, by a cursor that no
  update moves, and writes each popularity without waiting, catching failures;
  the value is a function of the row and is overwritten the next day.
* Profiles, contacts, locations, skills, roles: CRUD of single rows without a protocol.
* Notifications, email, files: calls of Firebase, SMTP and S3, whose failures are logged.
* Framework: wiring, DTO validation and configuration; the database client appears in how the
  modules split and roll back queries. Of the implementation's lines many are DTOs, controllers
  that forward, and the seeds of a development database: no state changes a property could be about.

What could follow: a composition of `Attendance` and `Review` with the rows of `ShiftRegistration`, whose approvals
they take for granted; one of `ActivityWindow` with `ShiftTask`, whose activities it moves; and one
of `Organization` with `ShiftRegistration`, whose managers are its members.
