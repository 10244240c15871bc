------------------------- MODULE ShiftRegistration -------------------------
(***************************************************************************)
(* Registrations of volunteers for shifts: the rows of the VolunteerShift  *)
(* table, the participant counters of the Shift table, and the request     *)
(* handlers of ShiftVolunteerService and ShiftService that read and write  *)
(* them.  A handler is a process: every database query it awaits is a step *)
(* of its own, so that the steps of two handlers interleave wherever the   *)
(* code awaits.  A read that a later step relies on is kept in the         *)
(* handler's record, and may be stale by the time it is used.              *)
(*                                                                         *)
(* The database runs at Read Committed.  An interactive transaction whose  *)
(* statements address rows by id is one step; the two that match or count  *)
(* rows before they write (join, updateShift) are two.                     *)
(***************************************************************************)
EXTENDS Integers, Sequences, FiniteSets

CONSTANTS
    Accounts,   \* accounts that register for shifts
    Censors,    \* accounts that approve, reject and remove (may overlap Accounts)
    Shifts,     \* shift ids
    Handlers,   \* slots for requests in flight
    Limits,     \* values of numberOfParticipants a manager enters; may hold NULL
    Windows,    \* values of [startTime, endTime] a manager enters
    Editable,   \* the shifts whose details a manager edits or deletes
    MaxRegs,    \* bound: registrations ever created
    MaxJoined,  \* bound: absolute value of joinedParticipants
    MaxBatch,   \* bound: ids in one approve-many or remove-many request
    MaxNow,     \* bound: last instant of the clock
    Isolation,  \* "none", "client" or "subject": which requests never overlap
    SameShiftUrls, \* TRUE: the :shiftId of a URL is the shift of its :id
    NULL, UNDEF \* SQL NULL, and a field that is absent from a request body

ASSUME LimitsAssumption == Limits \subseteq Nat \cup {NULL}
ASSUME WindowsAssumption == Windows \subseteq [start : Int, end : Int]
ASSUME NullsAssumption == NULL \notin Int /\ UNDEF \notin Int /\ NULL # UNDEF
ASSUME BoundsAssumption == {MaxRegs, MaxJoined, MaxBatch, MaxNow} \subseteq Nat
ASSUME EditableAssumption == Editable \subseteq Shifts

VARIABLES
    now,     \* the clock
    shift,   \* Shift rows, by id; a deleted row is outside the domain
    vol,     \* VolunteerShift rows, by id; likewise
    nextId,  \* the next value of the autoincrement id of VolunteerShift
    req      \* the request each handler is working on

vars == <<now, shift, vol, nextId, req>>

ShiftStatus == {"pending", "ongoing", "completed"}
ShiftVolunteerStatus ==
    {"pending", "cancelled", "approved", "rejected", "removed", "left"}

ClientOps == {"join", "cancelJoin", "leave"}
CensorOps == {"approve", "reject", "remove"}

NoView == [n |-> NULL, win |-> NULL]

Idle == [op |-> "none", at |-> "idle", by |-> NULL, s |-> NULL, id |-> 0,
         todo |-> <<>>, dto |-> [n |-> UNDEF, win |-> UNDEF],
         view |-> NoView, match |-> {}, slots |-> UNDEF]

-----------------------------------------------------------------------------
(* Queries on the two tables. *)

Before(w, t) == w.end < t
Overlap(v, w) == v.start < w.end /\ v.end > w.start

\* The status the scheduled task gives a shift with window w at instant t.
StatusAt(w, t) ==
    CASE w.end <= t                -> "completed"
      [] w.end > t /\ w.start <= t -> "ongoing"
      [] w.end > t /\ w.start > t  -> "pending"

RegsOf(s) == {i \in DOMAIN vol : vol[i].shift = s}
ActiveRegs(a, s) == {i \in RegsOf(s) : vol[i].acct = a /\ vol[i].active}
Approved(s) == {i \in RegsOf(s) : vol[i].status = "approved"}

\* A Prisma update of counters that hold NULL leaves NULL behind.
Plus(x, k) == IF x = NULL THEN NULL ELSE x + k

\* Mutant: leaving does not give the place back.
MoveKeepsSlot(row, k, limited) ==
    [row EXCEPT !.joined = @ + k,
                !.slots = IF limited /\ k > 0 THEN Plus(@, -k) ELSE @]

\* joinedParticipants moves by k; availableSlots by -k when the handler saw a limit.
Move(row, k, limited) ==
    [row EXCEPT !.joined = @ + k, !.slots = IF limited THEN Plus(@, -k) ELSE @]

View(s) == [n |-> shift[s].n, win |-> shift[s].win]

-----------------------------------------------------------------------------
(* Requests. *)

\* The accounts whose registrations a request reads or writes.
Subjects(r) ==
    {r.by} \cup {vol[i].acct : i \in ({r.id} \cup {r.todo[k] : k \in DOMAIN r.todo})
                                     \cap DOMAIN vol}

Overlapping(q, r) ==
    \/ /\ Isolation = "client"
       /\ q.op \in ClientOps /\ r.op \in ClientOps /\ q.by = r.by
    \/ /\ Isolation = "subject"
       /\ "idle" \notin {q.at, r.at}
       /\ Subjects(q) \cap Subjects(r) # {}

Begin(h, r) ==
    /\ req[h].at = "idle"
    /\ \A g \in Handlers : ~ Overlapping(req[g], r)
    /\ req' = [req EXCEPT ![h] = r]
    /\ UNCHANGED <<now, shift, vol, nextId>>

\* The handler returns or throws; in a batch the next id takes its turn.
Ended(r) ==
    IF r.todo = <<>> THEN Idle
    ELSE [Idle EXCEPT !.op = r.op, !.at = "shift", !.by = r.by, !.s = r.s,
                      !.id = Head(r.todo), !.todo = Tail(r.todo)]

Finish(h) == req' = [req EXCEPT ![h] = Ended(@)]

\* Any awaited query can reject: the transaction rolls back, the handler throws.
Abort(h) ==
    /\ req[h].at # "idle"
    /\ Finish(h)
    /\ UNCHANGED <<now, shift, vol, nextId>>

\* join, cancelJoin, leave
RequestByClient(h) ==
    \E op \in ClientOps, a \in Accounts, s \in Shifts :
        /\ op = "join" => nextId <= MaxRegs
        /\ Begin(h, [Idle EXCEPT !.op = op, !.at = "shift", !.by = a, !.s = s])

\* approveOrReject, remove
RequestByCensor(h) ==
    \E op \in CensorOps, m \in Censors, s \in Shifts, i \in 1..(nextId - 1) :
        /\ SameShiftUrls => i \in RegsOf(s)
        /\ Begin(h, [Idle EXCEPT !.op = op, !.at = "shift", !.by = m,
                                 !.s = s, !.id = i])

Batches == UNION {[1..k -> 1..(nextId - 1)] : k \in 1..MaxBatch}

\* approveMany, which serves the endpoints approve and reject, and removeMany:
\* a query for the shift, then the single operation on one id after the other.
RequestMany(h) ==
    \E op \in {"approve", "remove"}, m \in Censors, s \in DOMAIN shift, ids \in Batches :
        /\ shift[s].status # "completed"
        /\ SameShiftUrls => \A k \in DOMAIN ids : ids[k] \in RegsOf(s)
        /\ Begin(h, [Idle EXCEPT !.op = op, !.at = "shift", !.by = m, !.s = s,
                                 !.id = Head(ids), !.todo = Tail(ids)])

\* updateShift
RequestUpdate(h) ==
    \E s \in Editable, n \in Limits \cup {UNDEF}, w \in Windows \cup {UNDEF} :
        Begin(h, [Idle EXCEPT !.op = "update", !.at = "shift", !.s = s,
                              !.dto = [n |-> n, win |-> w]])

-----------------------------------------------------------------------------
(* The first query of every handler: the shift, and what it must satisfy.  (leave   *)
(* throws for a shift that has started after its second query, join and the others *)
(* before theirs; nothing is written in between.)                                  *)

Full(s) == shift[s].slots # NULL /\ shift[s].slots <= 0

ShiftAdmits(r) ==
    /\ r.s \in DOMAIN shift
    /\ r.op = "join" => shift[r.s].status = "pending" /\ ~ Full(r.s)
    /\ r.op = "leave" => shift[r.s].status = "pending"
    /\ r.op \in CensorOps => shift[r.s].status # "completed"

ReadShift(h) ==
    LET r == req[h]
    IN  /\ r.at = "shift"
        /\ \/ /\ ShiftAdmits(r)
              /\ req' = [req EXCEPT ![h].at = "rows", ![h].view = View(r.s)]
           \/ /\ ~ ShiftAdmits(r)
              /\ Finish(h)
        /\ UNCHANGED <<now, shift, vol, nextId>>

\* The second query finds registrations; the handler goes on with one of `found'.
Select(h, found, next) ==
    /\ req[h].at = "rows"
    /\ \/ \E i \in found : req' = [req EXCEPT ![h].at = next, ![h].id = i]
       \/ found = {} /\ Finish(h)
    /\ UNCHANGED <<now, shift, vol, nextId>>

-----------------------------------------------------------------------------
(* join *)

\* `find' picks an arbitrary active registration for the shift, if any.
MayJoin(r) ==
    LET mine == ActiveRegs(r.by, r.s)
    IN  /\ \/ mine = {}
           \/ \E i \in mine : vol[i].status \notin {"pending", "approved"}
        /\ \A i \in DOMAIN vol :
              (/\ vol[i].acct = r.by /\ vol[i].active /\ vol[i].status = "approved"
               /\ vol[i].shift # r.s)
              => ~ Overlap(r.view.win, shift[vol[i].shift].win)

MustNotJoin(r) ==
    \/ \E i \in ActiveRegs(r.by, r.s) : vol[i].status \in {"pending", "approved"}
    \/ ~ MayJoin(r)

JoinRead(h) ==
    /\ req[h].op = "join" /\ req[h].at = "rows"
    /\ \/ MayJoin(req[h]) /\ req' = [req EXCEPT ![h].at = "match"]
       \/ MustNotJoin(req[h]) /\ Finish(h)
    /\ UNCHANGED <<now, shift, vol, nextId>>

\* Mutant: updateMany passes over the registrations the volunteer ended.
JoinMatchSome(h) ==
    /\ req[h].op = "join" /\ req[h].at = "match"
    /\ req' = [req EXCEPT
          ![h].at = "commit",
          ![h].match = {i \in ActiveRegs(req[h].by, req[h].s) :
                           vol[i].status \in {"rejected", "removed"}}]
    /\ UNCHANGED <<now, shift, vol, nextId>>

\* updateMany of the transaction selects the account's active registrations ...
JoinMatch(h) ==
    /\ req[h].op = "join" /\ req[h].at = "match"
    /\ req' = [req EXCEPT ![h].at = "commit",
                          ![h].match = ActiveRegs(req[h].by, req[h].s)]
    /\ UNCHANGED <<now, shift, vol, nextId>>

\* ... and the commit shows them inactive, with the new registration.
NewReg(a, s) == [acct |-> a, shift |-> s, status |-> "pending", active |-> TRUE]

JoinCommit(h) ==
    LET r == req[h]
    IN  /\ r.op = "join" /\ r.at = "commit"
        /\ r.s \in DOMAIN shift
        /\ nextId <= MaxRegs
        /\ vol' = [i \in DOMAIN vol \cup {nextId} |->
                      IF i = nextId THEN NewReg(r.by, r.s)
                      ELSE [vol[i] EXCEPT !.active = @ /\ i \notin r.match]]
        /\ nextId' = nextId + 1
        /\ Finish(h)
        /\ UNCHANGED <<now, shift>>

-----------------------------------------------------------------------------
(* cancelJoin, leave *)

MineWith(r, status) ==
    {i \in ActiveRegs(r.by, r.s) : vol[i].status = status}

CancelRead(h) ==
    /\ req[h].op = "cancelJoin"
    /\ Select(h, MineWith(req[h], "pending"), "commit")

CancelCommit(h) ==
    LET r == req[h]
    IN  /\ r.op = "cancelJoin" /\ r.at = "commit"
        /\ r.id \in DOMAIN vol
        /\ vol' = [vol EXCEPT ![r.id].status = "cancelled"]
        /\ Finish(h)
        /\ UNCHANGED <<now, shift, nextId>>

LeaveRead(h) ==
    /\ req[h].op = "leave"
    /\ Select(h, MineWith(req[h], "approved"), "commit")

\* The transaction of leave and of remove: give the place back, set the status.
GiveBack(h, status) ==
    LET r == req[h]
    IN  /\ r.at = "commit"
        /\ r.s \in DOMAIN shift /\ r.id \in DOMAIN vol
        /\ shift[r.s].joined > -MaxJoined
        /\ shift' = [shift EXCEPT ![r.s] = Move(@, -1, r.view.n # NULL)]
        /\ vol' = [vol EXCEPT ![r.id].status = status]
        /\ Finish(h)
        /\ UNCHANGED <<now, nextId>>

LeaveCommit(h) == req[h].op = "leave" /\ GiveBack(h, "left")

-----------------------------------------------------------------------------
(* approveOrReject, remove *)

\* Mutant: the query forgets active.
AddressedAny(r) == {r.id} \cap DOMAIN vol

Addressed(r) == {i \in {r.id} \cap DOMAIN vol : vol[i].active}

\* The overlap test of the code discards its comparison, so it finds no overlap.
MayApprove(r) ==
    {i \in Addressed(r) : vol[i].status \in {"pending", "rejected", "removed"}}
MayReject(r) == {i \in Addressed(r) : vol[i].status = "pending"}
\* Mutant: remove does not look at the status.
MayRemoveAny(r) == {i \in Addressed(r) : vol[i].shift = r.s}

MayRemove(r) ==
    {i \in Addressed(r) : vol[i].shift = r.s /\ vol[i].status = "approved"}

ApproveRead(h) ==
    /\ req[h].op = "approve"
    /\ Select(h, MayApprove(req[h]), "commit")

RejectRead(h) ==
    /\ req[h].op = "reject"
    /\ Select(h, MayReject(req[h]), "commit")

RemoveRead(h) ==
    /\ req[h].op = "remove"
    /\ Select(h, MayRemove(req[h]), "commit")

\* Mutant: the where clause forgets the status.
CancelledWithAny(r) ==
    {i \in DOMAIN vol : /\ vol[i].acct = r.by /\ vol[i].active /\ vol[i].shift # r.s
                        /\ Overlap(shift[vol[i].shift].win, r.view.win)}

\* The pending registrations the transaction cancels: those of the account that
\* approves, for other shifts that overlap the window the handler read.
CancelledWith(r) ==
    {i \in DOMAIN vol : /\ vol[i].acct = r.by /\ vol[i].active
                        /\ vol[i].status = "pending" /\ vol[i].shift # r.s
                        /\ Overlap(shift[vol[i].shift].win, r.view.win)}

ApproveCommit(h) ==
    LET r == req[h]
    IN  /\ r.op = "approve" /\ r.at = "commit"
        /\ r.s \in DOMAIN shift /\ r.id \in DOMAIN vol
        /\ shift[r.s].joined < MaxJoined
        /\ shift' = [shift EXCEPT ![r.s] = Move(@, 1, r.view.n # NULL)]
        /\ vol' = [i \in DOMAIN vol |->
                      IF i = r.id THEN [vol[i] EXCEPT !.status = "approved"]
                      ELSE IF i \in CancelledWith(r)
                           THEN [vol[i] EXCEPT !.status = "cancelled"]
                           ELSE vol[i]]
        /\ Finish(h)
        /\ UNCHANGED <<now, nextId>>

RejectCommit(h) ==
    LET r == req[h]
    IN  /\ r.op = "reject" /\ r.at = "commit"
        /\ r.id \in DOMAIN vol
        /\ vol' = [vol EXCEPT ![r.id].status = "rejected"]
        /\ Finish(h)
        /\ UNCHANGED <<now, shift, nextId>>

RemoveCommit(h) == req[h].op = "remove" /\ GiveBack(h, "removed")

-----------------------------------------------------------------------------
(* updateShift, deleteShift, and the scheduled change of status *)

\* `dto.numberOfParticipants != shift.numberOfParticipants': null equals undefined.
SameLimit(m, n) == m = n \/ {m, n} \subseteq {NULL, UNDEF}

FreeSlots(n, taken) == IF n - taken > 0 THEN n - taken ELSE 0

UpdateCount(h) ==
    LET r == req[h]
    IN  /\ r.op = "update" /\ r.at = "rows"
        /\ req' = [req EXCEPT
              ![h].at = "commit",
              ![h].slots =
                  CASE SameLimit(r.dto.n, r.view.n) -> UNDEF
                    [] ~ SameLimit(r.dto.n, r.view.n)
                       /\ r.dto.n \in {NULL, UNDEF} -> NULL
                    [] OTHER -> FreeSlots(r.dto.n, Cardinality(Approved(r.s)))]
        /\ UNCHANGED <<now, shift, vol, nextId>>

\* A field that is undefined is left alone.
Set(old, new) == IF new = UNDEF THEN old ELSE new

\* Mutant: the free places are not computed anew.
EditedLimitOnly(row, r) ==
    [row EXCEPT !.n = Set(@, r.dto.n), !.win = Set(@, r.dto.win)]

Edited(row, r) ==
    [row EXCEPT !.n = Set(@, r.dto.n), !.win = Set(@, r.dto.win),
                !.slots = Set(@, r.slots)]

UpdateCommit(h) ==
    LET r == req[h]
    IN  /\ r.op = "update" /\ r.at = "commit"
        /\ r.s \in DOMAIN shift
        /\ shift' = [shift EXCEPT ![r.s] = Edited(@, r)]
        /\ Finish(h)
        /\ UNCHANGED <<now, vol, nextId>>

\* Mutant: no cascade.
DeleteShiftAlone(s) ==
    /\ s \in DOMAIN shift \cap Editable
    /\ shift' = [t \in DOMAIN shift \ {s} |-> shift[t]]
    /\ UNCHANGED <<now, vol, nextId, req>>

\* The foreign key of VolunteerShift cascades.
DeleteShift(s) ==
    /\ s \in DOMAIN shift \cap Editable
    /\ shift' = [t \in DOMAIN shift \ {s} |-> shift[t]]
    /\ vol' = [i \in DOMAIN vol \ RegsOf(s) |-> vol[i]]
    /\ UNCHANGED <<now, nextId, req>>

\* The effect of ShiftTaskService on one shift (module ShiftTask has the task): the
\* status it computed at some earlier instant from the window it read then.
RefreshStatus(s) ==
    /\ s \in DOMAIN shift
    /\ \E t \in 0..now, w \in IF s \in Editable THEN Windows ELSE {shift[s].win} :
          /\ shift[s].status # StatusAt(w, t)
          /\ shift' = [shift EXCEPT ![s].status = StatusAt(w, t)]
    /\ UNCHANGED <<now, vol, nextId, req>>

Tick ==
    /\ now < MaxNow
    /\ now' = now + 1
    /\ UNCHANGED <<shift, vol, nextId, req>>

-----------------------------------------------------------------------------

\* createShift: as many free places as participants, nobody in yet.
NewShift(n, w) ==
    [status |-> IF Before(w, 0) THEN "completed" ELSE "pending",
     n |-> n, slots |-> n, joined |-> 0, win |-> w]

Init ==
    /\ now = 0
    /\ shift \in [Shifts -> {NewShift(n, w) : n \in Limits, w \in Windows}]
    /\ vol = <<>>
    /\ nextId = 1
    /\ req = [h \in Handlers |-> Idle]

Request(h) ==
    \/ RequestByClient(h) \/ RequestByCensor(h) \/ RequestMany(h) \/ RequestUpdate(h)

Step(h) ==
    \/ ReadShift(h)
    \/ JoinRead(h) \/ JoinMatch(h) \/ JoinCommit(h)
    \/ CancelRead(h) \/ CancelCommit(h)
    \/ LeaveRead(h) \/ LeaveCommit(h)
    \/ ApproveRead(h) \/ ApproveCommit(h)
    \/ RejectRead(h) \/ RejectCommit(h)
    \/ RemoveRead(h) \/ RemoveCommit(h)
    \/ UpdateCount(h) \/ UpdateCommit(h)

Next ==
    \/ \E h \in Handlers : Request(h) \/ Step(h) \/ Abort(h)
    \/ \E s \in Shifts : DeleteShift(s) \/ RefreshStatus(s)
    \/ Tick

Spec == Init /\ [][Next]_vars

-----------------------------------------------------------------------------
(* Types. *)

Window == [start : Int, end : Int]
OrNull(S) == S \cup {NULL}

ShiftRow == [status : ShiftStatus, n : OrNull(Nat), slots : OrNull(Int),
             joined : Int, win : Window]
RegRow == [acct : Accounts, shift : Shifts, status : ShiftVolunteerStatus,
           active : BOOLEAN]
RequestRecord ==
    {r \in [op : {"none", "update"} \cup ClientOps \cup CensorOps,
            at : {"idle", "shift", "rows", "match", "commit"},
            by : OrNull(Accounts \cup Censors), s : OrNull(Shifts), id : Nat,
            todo : Seq(Nat),
            dto : [n : OrNull(Nat) \cup {UNDEF}, win : Window \cup {UNDEF}],
            view : [n : OrNull(Nat), win : OrNull(Window)],
            match : SUBSET Nat, slots : OrNull(Nat) \cup {UNDEF}] :
        r.op \in ClientOps => r.by \in Accounts}

\* Every table and every request in flight is well formed: ids of registrations are
\* below the autoincrement counter, and their shifts exist (the foreign key).
TypeOK ==
    /\ now \in Nat
    /\ nextId \in Nat \ {0}
    /\ DOMAIN shift \subseteq Shifts
    /\ shift \in [DOMAIN shift -> ShiftRow]
    /\ DOMAIN vol \subseteq 1..(nextId - 1)
    /\ vol \in [DOMAIN vol -> RegRow]
    /\ \A i \in DOMAIN vol : vol[i].shift \in DOMAIN shift
    /\ req \in [Handlers -> RequestRecord]

-----------------------------------------------------------------------------
(* Properties. *)

\* While nobody edits a shift, its free places and its participants always add up to
\* its limit, and a shift without a limit never gets a count of free places, whatever
\* requests race on it: the counters move together (approveOrReject, leave, remove).
SlotsConserved ==
    \A s \in DOMAIN shift \ Editable :
        shift[s].slots = Plus(shift[s].n, -shift[s].joined)

\* An account has at most one active registration for a shift: join marks the other
\* ones inactive in the transaction that creates the new one.
OneActiveRegistration ==
    \A i, j \in DOMAIN vol :
        (/\ vol[i].active /\ vol[j].active
         /\ vol[i].acct = vol[j].acct /\ vol[i].shift = vol[j].shift) => i = j

\* An approved volunteer can leave or be removed: both look for the active
\* registration only, so an approved one must not be marked inactive by join.
ApprovedIsActive ==
    \A i \in DOMAIN vol : vol[i].status = "approved" => vol[i].active

\* The free places a limited shift shows are never fewer than its limit leaves, also
\* after updateShift changed the limit: nobody is told the shift is full when it is not.
SlotsCoverFree ==
    \A s \in DOMAIN shift :
        NULL \notin {shift[s].n, shift[s].slots}
            => shift[s].slots >= shift[s].n - shift[s].joined

\* What the tables promise at the granularity of whole requests: the states of a
\* registration and the participants of a shift (join, cancelJoin, leave,
\* approveOrReject, remove, deleteShift) as atomic operations.
Lifecycle == INSTANCE RegistrationLifecycle
    WITH Ids <- 1..MaxRegs, reg <- vol,
         joined <- [s \in DOMAIN shift |-> shift[s].joined]
ImplementsLifecycle == Lifecycle!Spec

\* "Check if any other shift is overlapping" (approveOrReject): no account is approved
\* for two shifts whose windows overlap.
NoOverlappingApprovals ==
    \A i, j \in DOMAIN vol :
        (/\ vol[i].acct = vol[j].acct /\ vol[i].shift # vol[j].shift
         /\ {vol[i].status, vol[j].status} = {"approved"})
        => ~ Overlap(shift[vol[i].shift].win, shift[vol[j].shift].win)

\* "Cancel other overlapping pending shifts" (approveOrReject): an approval leaves the
\* volunteer with no pending registration for an overlapping shift.
ApprovalCancelsPending ==
    [][\A i, j \in DOMAIN vol \cap DOMAIN vol' :
          (/\ vol[i].status # "approved" /\ vol'[i].status = "approved"
           /\ vol[j].acct = vol[i].acct /\ vol[j].shift # vol[i].shift
           /\ vol[j].active /\ vol[j].status = "pending"
           /\ Overlap(shift[vol[i].shift].win, shift[vol[j].shift].win))
          => vol'[j].status = "cancelled"]_vars
=============================================================================
