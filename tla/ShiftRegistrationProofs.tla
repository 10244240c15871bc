----------------------- MODULE ShiftRegistrationProofs -----------------------
(***************************************************************************)
(* Proofs about ShiftRegistration, for every number of accounts, shifts,   *)
(* requests in flight and registrations, every limit and every window.     *)
(***************************************************************************)
EXTENDS ShiftRegistration, FiniteSetTheorems, TLAPS

USE LimitsAssumption, WindowsAssumption, BoundsAssumption, EditableAssumption
-----------------------------------------------------------------------------
(* Type correctness. *)

\* The task computes a status for any window, also one that ends before it starts.
LEMMA StatusAtType ==
    ASSUME NEW w \in Window, NEW t \in Int
    PROVE  StatusAt(w, t) \in ShiftStatus
  BY DEF StatusAt, ShiftStatus, Window

LEMMA IdleType == Idle \in RequestRecord
  BY DEF Idle, NoView, RequestRecord, OrNull, ClientOps

\* What a handler goes on with when it is done with one id.
LEMMA EndedType ==
    ASSUME NEW r \in RequestRecord
    PROVE  Ended(r) \in RequestRecord
<1>1. Idle \in RequestRecord
  BY IdleType
<1>2. CASE r.todo = <<>>
  BY <1>1, <1>2 DEF Ended
<1>3. CASE r.todo # <<>>
  <2>1. Head(r.todo) \in Nat /\ Tail(r.todo) \in Seq(Nat)
    BY <1>3 DEF RequestRecord
  <2>2. Ended(r) = [Idle EXCEPT !.op = r.op, !.at = "shift", !.by = r.by, !.s = r.s,
                                !.id = Head(r.todo), !.todo = Tail(r.todo)]
    BY <1>3 DEF Ended
  <2>3. /\ r.op \in {"none", "update"} \cup ClientOps \cup CensorOps
        /\ r.by \in OrNull(Accounts \cup Censors) /\ r.s \in OrNull(Shifts)
    BY DEF RequestRecord
  <2> HIDE <1>3
  <2> QED BY <1>1, <2>1, <2>2, <2>3 DEF RequestRecord
<1> QED BY <1>2, <1>3

\* A step that changes one request only.
LEMMA RequestOnly ==
    ASSUME TypeOK, NEW h \in Handlers, NEW r \in RequestRecord,
           req' = [req EXCEPT ![h] = r], UNCHANGED <<now, shift, vol, nextId>>
    PROVE  TypeOK'
  BY DEF TypeOK

LEMMA FinishType ==
    ASSUME TypeOK, NEW h \in Handlers, Finish(h)
    PROVE  req' \in [Handlers -> RequestRecord]
  BY EndedType DEF TypeOK, Finish

\* The registrations a request names.
IdsOf(r) == {r.id} \cup {r.todo[k] : k \in DOMAIN r.todo}

\* What a request names when it arrives: a shift that managers may edit, if it is an
\* update, and registrations that were created, those of its shift if URLs agree.
Names(r) ==
    /\ r.at = "shift"
    /\ r.op = "update" => r.s \in Editable
    /\ \A i \in IdsOf(r) : i < nextId
    /\ SameShiftUrls /\ r.op \in CensorOps => IdsOf(r) \subseteq RegsOf(r.s)

\* A request that arrives overlaps no other one: of the same client under "client", of
\* any subject they share under "subject".
Fresh(r) ==
    /\ Names(r)
    /\ \A g \in Handlers :
          Isolation = "client" /\ r.op \in ClientOps /\ req[g].op \in ClientOps
              => req[g].by # r.by
    /\ \A g \in Handlers :
          Isolation = "subject" /\ req[g].at # "idle"
              => Subjects(req[g]) \cap Subjects(r) = {}

\* A handler that is idle takes a well-formed request.
LEMMA RequestBegins ==
    ASSUME TypeOK, NEW h \in Handlers, Request(h)
    PROVE  /\ req[h].at = "idle" /\ UNCHANGED <<now, shift, vol, nextId>>
           /\ \E r \in RequestRecord : req' = [req EXCEPT ![h] = r] /\ Fresh(r)
<1> SUFFICES \E r \in RequestRecord : Begin(h, r) /\ Names(r)
  BY DEF Begin, Overlapping, Fresh, Names
<1>1. CASE RequestByClient(h)
  <2>1. PICK op \in ClientOps, a \in Accounts, s \in Shifts :
            Begin(h, [Idle EXCEPT !.op = op, !.at = "shift", !.by = a, !.s = s])
    BY <1>1 DEF RequestByClient
  <2>2. [Idle EXCEPT !.op = op, !.at = "shift", !.by = a, !.s = s] \in RequestRecord
    BY IdleType DEF RequestRecord, OrNull, ClientOps, CensorOps
  <2> DEFINE r == [Idle EXCEPT !.op = op, !.at = "shift", !.by = a, !.s = s]
  <2>3. r.at = "shift" /\ r.op = op /\ r.id = 0 /\ r.todo = <<>>
    BY DEF Idle
  <2>4. op \notin CensorOps \cup {"update"} /\ 0 < nextId
    BY DEF ClientOps, CensorOps, TypeOK
  <2> HIDE DEF r
  <2>5. Names(r)
    BY <2>3, <2>4 DEF Names, IdsOf
  <2> QED BY <2>1, <2>2, <2>5 DEF r
<1>2. CASE RequestByCensor(h)
  <2>1. PICK op \in CensorOps, m \in Censors, s \in Shifts, i \in 1..(nextId - 1) :
            /\ Begin(h, [Idle EXCEPT !.op = op, !.at = "shift", !.by = m,
                                     !.s = s, !.id = i])
            /\ SameShiftUrls => i \in RegsOf(s)
    BY <1>2 DEF RequestByCensor
  <2>2. [Idle EXCEPT !.op = op, !.at = "shift", !.by = m, !.s = s, !.id = i]
            \in RequestRecord
    <3>1. i \in Nat
      BY DEF TypeOK
    <3> QED BY <3>1, IdleType DEF RequestRecord, OrNull, ClientOps, CensorOps
  <2> DEFINE r == [Idle EXCEPT !.op = op, !.at = "shift", !.by = m, !.s = s, !.id = i]
  <2>3. r.at = "shift" /\ r.op = op /\ r.s = s /\ r.id = i /\ r.todo = <<>>
    BY DEF Idle
  <2>4. op # "update" /\ i < nextId
    BY DEF CensorOps, TypeOK
  <2> HIDE DEF r
  <2>5. Names(r)
    BY <2>1, <2>3, <2>4 DEF Names, IdsOf
  <2> QED BY <2>1, <2>2, <2>5 DEF r
<1>3. CASE RequestMany(h)
  <2>1. PICK op \in {"approve", "remove"}, m \in Censors, s \in DOMAIN shift,
             ids \in Batches :
            /\ Begin(h, [Idle EXCEPT !.op = op, !.at = "shift", !.by = m, !.s = s,
                                     !.id = Head(ids), !.todo = Tail(ids)])
            /\ SameShiftUrls => \A k \in DOMAIN ids : ids[k] \in RegsOf(s)
    BY <1>3 DEF RequestMany
  <2>2. PICK k \in 1..MaxBatch : ids \in [1..k -> 1..(nextId - 1)]
    BY DEF Batches
  <2>3. ids \in Seq(Nat) /\ ids # <<>>
    <3>1. ids \in [1..k -> Nat] /\ k \in Nat /\ k > 0
      BY <2>2 DEF TypeOK
    <3> QED BY <3>1
  <2>4. Head(ids) \in Nat /\ Tail(ids) \in Seq(Nat)
    BY <2>3
  <2>5. [Idle EXCEPT !.op = op, !.at = "shift", !.by = m, !.s = s,
                     !.id = Head(ids), !.todo = Tail(ids)] \in RequestRecord
    <3>1. op \in CensorOps /\ s \in Shifts
      BY DEF CensorOps, TypeOK
    <3> QED BY <3>1, <2>4, IdleType DEF RequestRecord, OrNull, ClientOps, CensorOps
  <2> DEFINE r == [Idle EXCEPT !.op = op, !.at = "shift", !.by = m, !.s = s,
                               !.id = Head(ids), !.todo = Tail(ids)]
  <2>6. /\ r.at = "shift" /\ r.op = op /\ r.s = s
        /\ r.id = Head(ids) /\ r.todo = Tail(ids)
    BY DEF Idle
  <2>7. Head(ids) = ids[1] /\ 1 \in DOMAIN ids
    BY <2>3
  <2>8. \A j \in DOMAIN Tail(ids) : j + 1 \in DOMAIN ids /\ Tail(ids)[j] = ids[j + 1]
    BY <2>3
  <2>9. \A j \in DOMAIN ids : ids[j] \in 1..(nextId - 1)
    BY <2>2
  <2> HIDE DEF r
  <2>10. \A i \in IdsOf(r) : \E j \in DOMAIN ids : i = ids[j]
    BY <2>6, <2>7, <2>8 DEF IdsOf
  <2>11. \A i \in IdsOf(r) : i < nextId
    BY <2>9, <2>10 DEF TypeOK
  <2>12. Names(r)
    BY <2>1, <2>6, <2>10, <2>11 DEF Names
  <2> QED BY <2>1, <2>5, <2>12 DEF r
<1>4. CASE RequestUpdate(h)
  <2>1. PICK s \in Editable, n \in Limits \cup {UNDEF}, w \in Windows \cup {UNDEF} :
            Begin(h, [Idle EXCEPT !.op = "update", !.at = "shift", !.s = s,
                                  !.dto = [n |-> n, win |-> w]])
    BY <1>4 DEF RequestUpdate
  <2>2. [Idle EXCEPT !.op = "update", !.at = "shift", !.s = s,
                     !.dto = [n |-> n, win |-> w]] \in RequestRecord
    <3>1. [n |-> n, win |-> w]
              \in [n : OrNull(Nat) \cup {UNDEF}, win : Window \cup {UNDEF}]
      BY DEF OrNull, Window
    <3>2. s \in Shifts /\ "update" \notin ClientOps
      BY DEF ClientOps
    <3> QED BY <3>1, <3>2, IdleType DEF RequestRecord, OrNull
  <2> DEFINE r == [Idle EXCEPT !.op = "update", !.at = "shift", !.s = s,
                               !.dto = [n |-> n, win |-> w]]
  <2>3. r.at = "shift" /\ r.op = "update" /\ r.s = s /\ r.id = 0 /\ r.todo = <<>>
    BY DEF Idle
  <2>4. "update" \notin CensorOps /\ 0 < nextId
    BY DEF CensorOps, TypeOK
  <2> HIDE DEF r
  <2>5. Names(r)
    BY <2>3, <2>4 DEF Names, IdsOf
  <2> QED BY <2>1, <2>2, <2>5 DEF r
<1> QED BY <1>1, <1>2, <1>3, <1>4 DEF Request

\* The states an operation moves a registration from.
From(op) ==
    CASE op \in {"cancelJoin", "reject"} -> {"pending"}
      [] op \in {"leave", "remove"}      -> {"approved"}
      [] op = "approve"                  -> {"pending", "rejected", "removed"}

\* The registration a request is about to write to is one its query finds.
Selected(r) ==
    /\ r.id \in DOMAIN vol
    /\ vol[r.id].active /\ vol[r.id].status \in From(r.op)
    /\ r.op \in ClientOps => vol[r.id].acct = r.by /\ vol[r.id].shift = r.s

\* What a handler becomes when a query answers: it has the shift's row, or it goes on
\* with what it read; a join that is about to commit has the account's active rows.
Reads(q, r) ==
    /\ r.op = q.op /\ r.by = q.by /\ r.s = q.s /\ r.todo = q.todo
    /\ \/ /\ q.at = "shift" /\ r.at = "rows" /\ r.id = q.id
          /\ r.s \in DOMAIN shift /\ r.view = View(r.s)
       \/ /\ q.at \in {"rows", "match"} /\ r.at \in {"match", "commit"}
          /\ r.view = q.view
          /\ r.at = "match" => r.op = "join" /\ MayJoin(r)
          /\ r.op \notin {"cancelJoin", "leave"} => r.id = q.id
          /\ r.op \in {"cancelJoin", "leave"} \cup CensorOps => Selected(r)
          /\ r.op = "join" /\ r.at = "commit"
                => q.at = "match" /\ r.match = ActiveRegs(r.by, r.s)

Read(h) ==
    \/ ReadShift(h) \/ JoinRead(h) \/ JoinMatch(h) \/ CancelRead(h) \/ LeaveRead(h)
    \/ ApproveRead(h) \/ RejectRead(h) \/ RemoveRead(h) \/ UpdateCount(h)

LEMMA ReadMoves ==
    ASSUME TypeOK, NEW h \in Handlers, Read(h)
    PROVE  /\ UNCHANGED <<now, shift, vol, nextId>>
           /\ \/ Finish(h)
              \/ \E r \in RequestRecord : /\ req' = [req EXCEPT ![h] = r]
                                          /\ Reads(req[h], r)
<1> DEFINE r == req[h]
<1>1. r \in RequestRecord
  BY DEF TypeOK
<1>3. CASE ReadShift(h)
  <2>1. CASE ShiftAdmits(r) /\ req' = [req EXCEPT ![h].at = "rows", ![h].view = View(r.s)]
    <3>1. View(r.s) \in [n : OrNull(Nat), win : OrNull(Window)]
      BY <2>1 DEF TypeOK, ShiftAdmits, View, ShiftRow, OrNull
    <3>2. [r EXCEPT !.at = "rows", !.view = View(r.s)] \in RequestRecord
      BY <1>1, <3>1 DEF RequestRecord
    <3>3. req' = [req EXCEPT ![h] = [r EXCEPT !.at = "rows", !.view = View(r.s)]]
      BY <2>1 DEF TypeOK
    <3> QED BY <1>1, <1>3, <2>1, <3>2, <3>3 DEF ReadShift, ShiftAdmits, Reads, RequestRecord
  <2> QED BY <1>3, <2>1 DEF ReadShift
<1>4. ASSUME NEW found, Select(h, found, "commit"),
             r.op \in {"cancelJoin", "leave"} \cup CensorOps,
             \A i \in found : /\ i \in DOMAIN vol
                              /\ vol[i].active /\ vol[i].status \in From(r.op)
                              /\ r.op \in CensorOps => i = r.id
                              /\ r.op \in ClientOps => vol[i].acct = r.by /\ vol[i].shift = r.s
      PROVE  /\ UNCHANGED <<now, shift, vol, nextId>>
             /\ \/ Finish(h)
                \/ \E q \in RequestRecord : /\ req' = [req EXCEPT ![h] = q]
                                            /\ Reads(r, q)
  <2>1. CASE \E i \in found : req' = [req EXCEPT ![h].at = "commit", ![h].id = i]
    <3>1. PICK i \in found : req' = [req EXCEPT ![h].at = "commit", ![h].id = i]
      BY <2>1
    <3>2. i \in Nat
      BY <1>4 DEF TypeOK
    <3>3. [r EXCEPT !.at = "commit", !.id = i] \in RequestRecord
      BY <1>1, <3>2 DEF RequestRecord
    <3> DEFINE q == [r EXCEPT !.at = "commit", !.id = i]
    <3>4. req' = [req EXCEPT ![h] = q]
      BY <3>1 DEF TypeOK
    <3>5. /\ q.op = r.op /\ q.by = r.by /\ q.s = r.s /\ q.todo = r.todo
          /\ q.at = "commit" /\ q.id = i /\ q.view = r.view /\ r.at = "rows"
      BY <1>1, <1>4 DEF RequestRecord, Select
    <3> HIDE DEF q
    <3>6. Reads(r, q)
      BY <1>4, <3>5 DEF Reads, Selected, CensorOps
    <3> QED BY <1>4, <3>3, <3>4, <3>6 DEF Select, q
  <2> QED BY <1>4, <2>1 DEF Select
<1>5. CASE JoinRead(h)
  <2>1. CASE MayJoin(r) /\ req' = [req EXCEPT ![h].at = "match"]
    <3>1. [r EXCEPT !.at = "match"] \in RequestRecord
      BY <1>1 DEF RequestRecord
    <3> DEFINE q == [r EXCEPT !.at = "match"]
    <3>2. req' = [req EXCEPT ![h] = q]
      BY <2>1 DEF TypeOK
    <3>3. /\ q.op = r.op /\ q.by = r.by /\ q.s = r.s /\ q.todo = r.todo
          /\ q.at = "match" /\ q.id = r.id /\ q.view = r.view
          /\ r.at = "rows" /\ r.op = "join"
      BY <1>1, <1>5 DEF RequestRecord, JoinRead
    <3> HIDE DEF q
    <3>4. MayJoin(q)
      BY ONLY <2>1, <3>3 DEF MayJoin
    <3>5. Reads(r, q)
      BY <3>3, <3>4 DEF Reads, CensorOps
    <3> QED BY <1>5, <3>1, <3>2, <3>5 DEF JoinRead, q
  <2> QED BY <1>5, <2>1 DEF JoinRead
<1>6. CASE JoinMatch(h)
  <2>1. ActiveRegs(r.by, r.s) \in SUBSET Nat
    BY DEF TypeOK, ActiveRegs, RegsOf
  <2>2. [r EXCEPT !.at = "commit", !.match = ActiveRegs(r.by, r.s)] \in RequestRecord
    BY <1>1, <2>1 DEF RequestRecord
  <2>3. req' = [req EXCEPT ![h] =
                  [r EXCEPT !.at = "commit", !.match = ActiveRegs(r.by, r.s)]]
    BY <1>6 DEF TypeOK, JoinMatch
  <2>4. r.op \notin CensorOps /\ r.op \notin {"cancelJoin", "leave"}
    BY <1>6 DEF JoinMatch, CensorOps
  <2> QED BY <1>1, <1>6, <2>2, <2>3, <2>4 DEF JoinMatch, Reads, RequestRecord
<1>7. CASE CancelRead(h) \/ LeaveRead(h)
  <2>1. \A status : \A i \in MineWith(r, status) :
            /\ i \in DOMAIN vol /\ vol[i].active /\ vol[i].status = status
            /\ vol[i].acct = r.by /\ vol[i].shift = r.s
    BY DEF MineWith, ActiveRegs, RegsOf
  <2>2. CASE CancelRead(h)
    <3>1. r.op = "cancelJoin" /\ Select(h, MineWith(r, "pending"), "commit")
      BY <2>2 DEF CancelRead
    <3> QED BY <1>4, <2>1, <3>1 DEF From, CensorOps
  <2>3. CASE LeaveRead(h)
    <3>1. r.op = "leave" /\ Select(h, MineWith(r, "approved"), "commit")
      BY <2>3 DEF LeaveRead
    <3> QED BY <1>4, <2>1, <3>1 DEF From, CensorOps
  <2> QED BY <1>7, <2>2, <2>3
<1>8. CASE ApproveRead(h) \/ RejectRead(h) \/ RemoveRead(h)
  <2>1. /\ \A i \in MayApprove(r) :
              vol[i].status \in {"pending", "rejected", "removed"}
        /\ \A i \in MayReject(r) : vol[i].status = "pending"
        /\ \A i \in MayRemove(r) : vol[i].status = "approved"
        /\ \A i \in MayApprove(r) \cup MayReject(r) \cup MayRemove(r) :
              i \in DOMAIN vol /\ vol[i].active /\ i = r.id
    BY DEF MayApprove, MayReject, MayRemove, Addressed
  <2>2. CASE ApproveRead(h)
    <3>1. r.op = "approve" /\ Select(h, MayApprove(r), "commit")
      BY <2>2 DEF ApproveRead
    <3> QED BY <1>4, <2>1, <3>1 DEF From, CensorOps, ClientOps
  <2>3. CASE RejectRead(h)
    <3>1. r.op = "reject" /\ Select(h, MayReject(r), "commit")
      BY <2>3 DEF RejectRead
    <3> QED BY <1>4, <2>1, <3>1 DEF From, CensorOps, ClientOps
  <2>4. CASE RemoveRead(h)
    <3>1. r.op = "remove" /\ Select(h, MayRemove(r), "commit")
      BY <2>4 DEF RemoveRead
    <3> QED BY <1>4, <2>1, <3>1 DEF From, CensorOps, ClientOps
  <2> QED BY <1>8, <2>2, <2>3, <2>4
<1>9. CASE UpdateCount(h)
  <2> DEFINE slots ==
        CASE SameLimit(r.dto.n, r.view.n) -> UNDEF
          [] ~ SameLimit(r.dto.n, r.view.n) /\ r.dto.n \in {NULL, UNDEF} -> NULL
          [] OTHER -> FreeSlots(r.dto.n, Cardinality(Approved(r.s)))
  <2>1. Cardinality(Approved(r.s)) \in Nat
    <3>1. Approved(r.s) \subseteq 1..(nextId - 1)
      BY DEF TypeOK, Approved, RegsOf
    <3>2. IsFiniteSet(1..(nextId - 1))
      <4>1. 1 \in Int /\ nextId - 1 \in Int
        BY DEF TypeOK
      <4> QED BY <4>1, FS_Interval
    <3>3. IsFiniteSet(Approved(r.s))
      BY <3>1, <3>2, FS_Subset
    <3> QED BY <3>3, FS_CardinalityType
  <2>2. r.dto.n \in OrNull(Nat) \cup {UNDEF}
    BY <1>1 DEF RequestRecord
  <2>3. slots \in OrNull(Nat) \cup {UNDEF}
    <3>1. CASE SameLimit(r.dto.n, r.view.n)
      BY <3>1
    <3>2. CASE ~ SameLimit(r.dto.n, r.view.n) /\ r.dto.n \in {NULL, UNDEF}
      BY <3>2 DEF OrNull
    <3>3. CASE ~ SameLimit(r.dto.n, r.view.n) /\ r.dto.n \notin {NULL, UNDEF}
      <4>1. r.dto.n \in Nat
        BY <2>2, <3>3 DEF OrNull
      <4>2. FreeSlots(r.dto.n, Cardinality(Approved(r.s))) \in Nat
        BY <2>1, <4>1 DEF FreeSlots
      <4> QED BY <3>3, <4>2 DEF OrNull
    <3> QED BY <3>1, <3>2, <3>3
  <2>4. [r EXCEPT !.at = "commit", !.slots = slots] \in RequestRecord
    BY <1>1, <2>3 DEF RequestRecord
  <2>5. req' = [req EXCEPT ![h] = [r EXCEPT !.at = "commit", !.slots = slots]]
    BY <1>9 DEF TypeOK, UpdateCount
  <2> DEFINE q == [r EXCEPT !.at = "commit", !.slots = slots]
  <2>6. /\ q.op = "update" /\ q.by = r.by /\ q.s = r.s /\ q.todo = r.todo
        /\ q.at = "commit" /\ q.id = r.id /\ q.view = r.view
        /\ r.at = "rows" /\ r.op = "update"
    BY <1>1, <1>9 DEF RequestRecord, UpdateCount
  <2> HIDE DEF q
  <2>7. Reads(r, q)
    BY <2>6 DEF Reads, CensorOps
  <2> QED BY <1>9, <2>4, <2>5, <2>7 DEF UpdateCount, q
<1> QED BY <1>3, <1>5, <1>6, <1>7, <1>8, <1>9 DEF Read

\* A commit that changes the status of one registration.
LEMMA StatusChangeType ==
    ASSUME TypeOK, NEW i \in DOMAIN vol, NEW status \in ShiftVolunteerStatus,
           vol' = [vol EXCEPT ![i].status = status]
    PROVE  /\ DOMAIN vol' = DOMAIN vol
           /\ vol' \in [DOMAIN vol' -> RegRow]
           /\ \A j \in DOMAIN vol' : vol'[j].shift = vol[j].shift
  BY DEF TypeOK, RegRow

\* A commit that moves the counters of one shift.
LEMMA MoveType ==
    ASSUME TypeOK, NEW s \in DOMAIN shift, NEW k \in Int, NEW limited \in BOOLEAN,
           shift' = [shift EXCEPT ![s] = Move(@, k, limited)]
    PROVE  /\ DOMAIN shift' = DOMAIN shift
           /\ shift' \in [DOMAIN shift' -> ShiftRow]
<1>1. shift[s] \in ShiftRow
  BY DEF TypeOK
<1>2. shift[s].joined + k \in Int /\ Plus(shift[s].slots, -k) \in OrNull(Int)
  BY <1>1 DEF ShiftRow, OrNull, Plus
<1>3. Move(shift[s], k, limited) \in ShiftRow
  BY <1>1, <1>2 DEF Move, ShiftRow
<1> QED BY <1>3 DEF TypeOK

LEMMA GiveBackType ==
    ASSUME TypeOK, NEW h \in Handlers, NEW status \in ShiftVolunteerStatus,
           GiveBack(h, status)
    PROVE  TypeOK'
<1> DEFINE r == req[h]
<1>1. /\ r.s \in DOMAIN shift /\ r.id \in DOMAIN vol
      /\ shift' = [shift EXCEPT ![r.s] = Move(@, -1, r.view.n # NULL)]
      /\ vol' = [vol EXCEPT ![r.id].status = status]
      /\ Finish(h) /\ UNCHANGED <<now, nextId>>
  BY DEF GiveBack
<1>2. DOMAIN shift' = DOMAIN shift /\ shift' \in [DOMAIN shift' -> ShiftRow]
  <2>1. -1 \in Int /\ (r.view.n # NULL) \in BOOLEAN
    OBVIOUS
  <2> QED BY <1>1, <2>1, MoveType
<1>3. /\ DOMAIN vol' = DOMAIN vol
      /\ vol' \in [DOMAIN vol' -> RegRow]
      /\ \A j \in DOMAIN vol' : vol'[j].shift = vol[j].shift
  BY <1>1, StatusChangeType
<1> QED BY <1>1, <1>2, <1>3, FinishType DEF TypeOK

\* The commit of every request on registrations.
LEMMA CommitType ==
    ASSUME TypeOK, NEW h \in Handlers,
           \/ JoinCommit(h) \/ CancelCommit(h) \/ LeaveCommit(h)
           \/ ApproveCommit(h) \/ RejectCommit(h) \/ RemoveCommit(h)
    PROVE  TypeOK'
<1> DEFINE r == req[h]
<1>1. r \in RequestRecord
  BY DEF TypeOK
<1>2. CASE JoinCommit(h)
  <2>1. /\ r.op = "join" /\ r.s \in DOMAIN shift
        /\ vol' = [i \in DOMAIN vol \cup {nextId} |->
                      IF i = nextId THEN NewReg(r.by, r.s)
                      ELSE [vol[i] EXCEPT !.active = @ /\ i \notin r.match]]
        /\ nextId' = nextId + 1
        /\ Finish(h) /\ UNCHANGED <<now, shift>>
    BY <1>2 DEF JoinCommit
  <2>2. NewReg(r.by, r.s) \in RegRow
    BY <1>1, <2>1 DEF TypeOK, RequestRecord, ClientOps, NewReg, RegRow,
                      ShiftVolunteerStatus
  <2>3. \A i \in DOMAIN vol : /\ vol[i] \in RegRow /\ vol[i].active \in BOOLEAN
                              /\ i \in Nat /\ i # nextId
    BY DEF TypeOK, RegRow
  <2>4. \A i \in DOMAIN vol :
            /\ [vol[i] EXCEPT !.active = @ /\ i \notin r.match] \in RegRow
            /\ [vol[i] EXCEPT !.active = @ /\ i \notin r.match].shift = vol[i].shift
    BY <2>3 DEF RegRow
  <2>5. /\ DOMAIN vol' = DOMAIN vol \cup {nextId}
        /\ vol' \in [DOMAIN vol' -> RegRow]
        /\ \A i \in DOMAIN vol' : vol'[i].shift \in DOMAIN shift
    BY <2>1, <2>2, <2>3, <2>4 DEF TypeOK, NewReg
  <2>6. DOMAIN vol' \subseteq 1..(nextId' - 1) /\ nextId' \in Nat \ {0}
    BY <2>1, <2>5 DEF TypeOK
  <2> QED BY <2>1, <2>5, <2>6, FinishType DEF TypeOK
<1>3. CASE CancelCommit(h) \/ RejectCommit(h)
  <2>1. PICK status \in {"cancelled", "rejected"} :
            /\ r.id \in DOMAIN vol
            /\ vol' = [vol EXCEPT ![r.id].status = status]
            /\ Finish(h) /\ UNCHANGED <<now, shift, nextId>>
    BY <1>3 DEF CancelCommit, RejectCommit
  <2> QED BY <2>1, StatusChangeType, FinishType DEF TypeOK, ShiftVolunteerStatus
<1>4. CASE LeaveCommit(h) \/ RemoveCommit(h)
  BY <1>4, GiveBackType DEF LeaveCommit, RemoveCommit, ShiftVolunteerStatus
<1>5. CASE ApproveCommit(h)
  <2>1. /\ r.s \in DOMAIN shift
        /\ shift' = [shift EXCEPT ![r.s] = Move(@, 1, r.view.n # NULL)]
        /\ vol' = [i \in DOMAIN vol |->
                      IF i = r.id THEN [vol[i] EXCEPT !.status = "approved"]
                      ELSE IF i \in CancelledWith(r)
                           THEN [vol[i] EXCEPT !.status = "cancelled"]
                           ELSE vol[i]]
        /\ Finish(h) /\ UNCHANGED <<now, nextId>>
    BY <1>5 DEF ApproveCommit
  <2>2. /\ DOMAIN vol' = DOMAIN vol
        /\ \A i \in DOMAIN vol : vol'[i] \in RegRow /\ vol'[i].shift = vol[i].shift
        /\ vol' = [i \in DOMAIN vol |-> vol'[i]]
    BY <2>1 DEF TypeOK, RegRow, ShiftVolunteerStatus
  <2>3. DOMAIN shift' = DOMAIN shift /\ shift' \in [DOMAIN shift' -> ShiftRow]
    <3>1. 1 \in Int /\ (r.view.n # NULL) \in BOOLEAN
      OBVIOUS
    <3> QED BY <2>1, <3>1, MoveType
  <2> QED BY <2>1, <2>2, <2>3, FinishType DEF TypeOK
<1> QED BY <1>2, <1>3, <1>4, <1>5

LEMMA UpdateCommitType ==
    ASSUME TypeOK, NEW h \in Handlers, UpdateCommit(h)
    PROVE  TypeOK'
<1> DEFINE r == req[h]
<1>1. /\ r.s \in DOMAIN shift
      /\ shift' = [shift EXCEPT ![r.s] = Edited(@, r)]
      /\ Finish(h) /\ UNCHANGED <<now, vol, nextId>>
  BY DEF UpdateCommit
<1>2. /\ r.dto.n \in OrNull(Nat) \cup {UNDEF} /\ r.dto.win \in Window \cup {UNDEF}
      /\ r.slots \in OrNull(Nat) \cup {UNDEF}
  BY DEF TypeOK, RequestRecord
<1>3. shift[r.s] \in ShiftRow
  BY <1>1 DEF TypeOK
<1>4. Edited(shift[r.s], r) \in ShiftRow
  <2>1. /\ Set(shift[r.s].n, r.dto.n) \in OrNull(Nat)
        /\ Set(shift[r.s].win, r.dto.win) \in Window
        /\ Set(shift[r.s].slots, r.slots) \in OrNull(Int)
    BY <1>2, <1>3 DEF ShiftRow, Set, OrNull
  <2> QED BY <1>3, <2>1 DEF ShiftRow, Edited
<1>5. DOMAIN shift' = DOMAIN shift /\ shift' \in [DOMAIN shift' -> ShiftRow]
  BY <1>1, <1>4 DEF TypeOK
<1>6. req' \in [Handlers -> RequestRecord]
  BY <1>1, FinishType
<1> QED BY <1>1, <1>5, <1>6 DEF TypeOK

\* The steps outside any request on registrations.
LEMMA OtherType ==
    ASSUME TypeOK,
           \/ \E s \in Shifts : DeleteShift(s) \/ RefreshStatus(s)
           \/ Tick
    PROVE  TypeOK'
<1>1. ASSUME NEW s \in Shifts, DeleteShift(s) PROVE TypeOK'
  <2>1. /\ DOMAIN shift' \subseteq DOMAIN shift /\ DOMAIN vol' \subseteq DOMAIN vol
        /\ shift' \in [DOMAIN shift' -> ShiftRow] /\ vol' \in [DOMAIN vol' -> RegRow]
    BY <1>1 DEF DeleteShift, TypeOK
  <2>2. \A i \in DOMAIN vol' : vol'[i].shift \in DOMAIN shift'
    BY <1>1 DEF DeleteShift, TypeOK, RegsOf
  <2> QED BY <1>1, <2>1, <2>2 DEF DeleteShift, TypeOK
<1>2. ASSUME NEW s \in Shifts, RefreshStatus(s) PROVE TypeOK'
  <2>1. PICK t \in 0..now, w \in IF s \in Editable THEN Windows ELSE {shift[s].win} :
            shift' = [shift EXCEPT ![s].status = StatusAt(w, t)]
    BY <1>2 DEF RefreshStatus
  <2>2. s \in DOMAIN shift /\ shift[s] \in ShiftRow /\ t \in Int
    BY <1>2 DEF RefreshStatus, TypeOK
  <2>3. w \in Window
    BY <2>1, <2>2 DEF ShiftRow, Window
  <2>4. StatusAt(w, t) \in ShiftStatus
    BY <2>2, <2>3, StatusAtType
  <2>5. DOMAIN shift' = DOMAIN shift /\ shift' \in [DOMAIN shift' -> ShiftRow]
    BY <2>1, <2>2, <2>4 DEF TypeOK, ShiftRow
  <2> QED BY <1>2, <2>5 DEF RefreshStatus, TypeOK
<1>3. ASSUME Tick PROVE TypeOK'
  BY <1>3 DEF Tick, TypeOK
<1> QED BY <1>1, <1>2, <1>3

LEMMA InitType == Init => TypeOK
<1> SUFFICES ASSUME Init PROVE TypeOK
  OBVIOUS
<1>1. \A n \in Limits, w \in Windows : NewShift(n, w) \in ShiftRow
  BY DEF NewShift, ShiftRow, OrNull, Window, ShiftStatus
<1>2. DOMAIN shift = Shifts /\ shift \in [Shifts -> ShiftRow]
  BY <1>1 DEF Init
<1>3. req \in [Handlers -> RequestRecord]
  BY IdleType DEF Init
<1>4. DOMAIN vol = {}
  BY DEF Init
<1> QED BY <1>2, <1>3, <1>4 DEF Init, TypeOK

LEMMA StepType == TypeOK /\ [Next]_vars => TypeOK'
<1> SUFFICES ASSUME TypeOK, [Next]_vars PROVE TypeOK'
  OBVIOUS
<1>1. CASE \E h \in Handlers : Request(h)
  <2>1. PICK h \in Handlers : Request(h)
    BY <1>1
  <2> QED BY <2>1, RequestBegins, RequestOnly
<1>2. CASE \E h \in Handlers : Step(h)
  <2>1. PICK h \in Handlers : Step(h)
    BY <1>2
  <2>2. CASE Read(h)
    BY <2>2, ReadMoves, FinishType, RequestOnly DEF TypeOK
  <2> QED BY <2>1, <2>2, CommitType, UpdateCommitType DEF Step, Read
<1>3. ASSUME NEW h \in Handlers, Abort(h) PROVE TypeOK'
  BY <1>3, FinishType DEF Abort, TypeOK
<1>4. CASE (\E s \in Shifts : DeleteShift(s) \/ RefreshStatus(s)) \/ Tick
  BY <1>4, OtherType
<1>5. CASE UNCHANGED vars
  BY <1>5 DEF vars, TypeOK
<1> QED BY <1>1, <1>2, <1>3, <1>4, <1>5 DEF Next

\* Every table and every request in flight stays well formed, whatever requests race:
\* in particular no registration outlives its shift (ShiftService.deleteShift).
THEOREM TypeCorrect == Spec => []TypeOK
  BY InitType, StepType, PTL DEF Spec

-----------------------------------------------------------------------------
(* The counters of a shift add up.  What makes this inductive is the data a handler  *)
(* carries: nobody but updateShift writes numberOfParticipants, so the limit every   *)
(* handler read earlier is still the limit of a shift that nobody edits.             *)

ViewCurrent(r) ==
    r.at \in {"rows", "match", "commit"} /\ r.s \in DOMAIN shift \ Editable
        => r.view.n = shift[r.s].n

InFlight ==
    \A h \in Handlers : /\ ViewCurrent(req[h])
                        /\ req[h].op = "update" => req[h].s \in Editable

SlotsInv == TypeOK /\ InFlight /\ SlotsConserved

LEMMA EndedFacts ==
    ASSUME NEW r \in RequestRecord
    PROVE  /\ Ended(r).at \in {"idle", "shift"}
           /\ Ended(r).op = "update" => r.op = "update" /\ Ended(r).s = r.s
           /\ Ended(r).op \in ClientOps => Ended(r).op = r.op /\ Ended(r).by = r.by
  BY IdleType DEF Ended, Idle, RequestRecord, ClientOps

Ends(h) == req[h].at # "idle" /\ Finish(h)

\* Every step of a handler ends its work on an id, takes a request, or reads.
LEMMA HandlerMoves ==
    ASSUME TypeOK, NEW h \in Handlers, Request(h) \/ Step(h) \/ Abort(h)
    PROVE  \/ Ends(h)
           \/ \E r \in RequestRecord : /\ req' = [req EXCEPT ![h] = r]
                                       /\ Fresh(r) \/ Reads(req[h], r)
<1>1. CASE Request(h)
  BY <1>1, RequestBegins
<1>2. CASE Read(h)
  <2>1. req[h].at # "idle"
    BY <1>2 DEF Read, ReadShift, JoinRead, JoinMatch, CancelRead, LeaveRead, ApproveRead,
                RejectRead, RemoveRead, UpdateCount, Select
  <2> QED BY <1>2, <2>1, ReadMoves DEF Ends
<1>3. CASE Ends(h)
  BY <1>3
<1> QED
  BY <1>1, <1>2, <1>3 DEF Step, Read, Abort, JoinCommit, CancelCommit, LeaveCommit,
         ApproveCommit, RejectCommit, RemoveCommit, UpdateCommit, GiveBack, Ends

\* While the limits of the shifts nobody edits stand, what is in flight stays current.
LEMMA InFlightStep ==
    ASSUME TypeOK, InFlight, NEW h \in Handlers, Request(h) \/ Step(h) \/ Abort(h),
           \A s \in DOMAIN shift' \ Editable :
               s \in DOMAIN shift /\ shift'[s].n = shift[s].n
    PROVE  InFlight'
<1>1. \A g \in Handlers : req[g] \in RequestRecord
  BY DEF TypeOK
<1>2. CASE Ends(h)
  <2>1. \A g \in Handlers : req'[g] = IF g = h THEN Ended(req[h]) ELSE req[g]
    BY <1>2 DEF Ends, Finish, TypeOK
  <2> QED BY <1>1, <2>1, EndedFacts DEF InFlight, ViewCurrent
<1>3. CASE ~ Ends(h)
  <2>1. PICK r \in RequestRecord : /\ req' = [req EXCEPT ![h] = r]
                                   /\ Fresh(r) \/ Reads(req[h], r)
    BY <1>3, HandlerMoves
  <2>2. req' = [req EXCEPT ![h] = r]
    BY <2>1
  <2>3. \A g \in Handlers : req'[g] = IF g = h THEN r ELSE req[g]
    BY <2>2 DEF TypeOK
  <2>4. CASE Fresh(r)
    BY <2>3, <2>4 DEF InFlight, ViewCurrent, Fresh, Names
  <2>5. CASE Reads(req[h], r)
    BY <2>3, <2>5 DEF InFlight, ViewCurrent, Reads, View
  <2> QED BY <2>1, <2>4, <2>5
<1> QED BY <1>2, <1>3

\* A shift as an action leaves it: same limit, and counters that still add up.
LEMMA MoveConserves ==
    ASSUME NEW row \in ShiftRow, NEW k \in Int, row.slots = Plus(row.n, -row.joined)
    PROVE  /\ Move(row, k, row.n # NULL).n = row.n
           /\ Move(row, k, row.n # NULL).slots
                = Plus(row.n, -(Move(row, k, row.n # NULL).joined))
<1>1. /\ Move(row, k, row.n # NULL).n = row.n
      /\ Move(row, k, row.n # NULL).joined = row.joined + k
      /\ Move(row, k, row.n # NULL).slots
             = IF row.n # NULL THEN Plus(row.slots, -k) ELSE row.slots
  BY DEF Move, ShiftRow
<1>2. CASE row.n = NULL
  BY <1>1, <1>2 DEF Plus
<1>3. CASE row.n # NULL
  <2>1. row.n \in Nat /\ row.joined \in Int
    BY <1>3 DEF ShiftRow, OrNull
  <2>2. row.slots = row.n - row.joined /\ row.slots # NULL
    BY <1>3, <2>1, NullsAssumption DEF Plus
  <2> QED BY <1>1, <1>3, <2>1, <2>2 DEF Plus
<1> QED BY <1>2, <1>3

LEMMA SlotsStep == SlotsInv /\ [Next]_vars => SlotsInv'
<1> SUFFICES ASSUME SlotsInv, [Next]_vars PROVE InFlight' /\ SlotsConserved'
  BY StepType DEF SlotsInv
<1> USE DEF SlotsInv
<1>1. ASSUME NEW h \in Handlers, Request(h) \/ Step(h) \/ Abort(h), UNCHANGED shift
      PROVE  InFlight' /\ SlotsConserved'
  BY <1>1, InFlightStep DEF SlotsConserved
<1>2. ASSUME NEW h \in Handlers, NEW k \in Int, Step(h),
             req[h].at = "commit", req[h].s \in DOMAIN shift,
             shift' = [shift EXCEPT ![req[h].s] = Move(@, k, req[h].view.n # NULL)]
      PROVE  InFlight' /\ SlotsConserved'
  <2> DEFINE s == req[h].s
  <2>1. shift[s] \in ShiftRow /\ DOMAIN shift' = DOMAIN shift
    BY <1>2 DEF TypeOK
  <2>2. \A t \in DOMAIN shift :
            shift'[t] = IF t = s THEN Move(shift[s], k, req[h].view.n # NULL) ELSE shift[t]
    BY <1>2
  <2>3. CASE s \in Editable
    BY <1>2, <2>1, <2>2, <2>3, InFlightStep DEF SlotsConserved
  <2>4. CASE s \notin Editable
    <3>1. req[h].view.n = shift[s].n /\ shift[s].slots = Plus(shift[s].n, -shift[s].joined)
      BY <1>2, <2>4 DEF InFlight, ViewCurrent, SlotsConserved
    <3>2. shift'[s].n = shift[s].n /\ shift'[s].slots = Plus(shift'[s].n, -shift'[s].joined)
      BY <1>2, <2>1, <2>2, <3>1, MoveConserves
    <3> QED BY <1>2, <2>1, <2>2, <3>2, InFlightStep DEF SlotsConserved
  <2> QED BY <2>3, <2>4
<1>3. ASSUME NEW h \in Handlers, UpdateCommit(h)
      PROVE  InFlight' /\ SlotsConserved'
  <2>1. req[h].s \in Editable /\ shift' = [shift EXCEPT ![req[h].s] = Edited(@, req[h])]
    BY <1>3 DEF UpdateCommit, InFlight
  <2>2. DOMAIN shift' = DOMAIN shift /\ \A t \in DOMAIN shift \ Editable : shift'[t] = shift[t]
    BY <2>1
  <2> QED BY <1>3, <2>2, InFlightStep DEF Step, SlotsConserved
<1>4. ASSUME NEW s \in Shifts, DeleteShift(s) PROVE InFlight' /\ SlotsConserved'
  BY <1>4 DEF DeleteShift, InFlight, ViewCurrent, SlotsConserved
<1>5. ASSUME NEW s \in Shifts, RefreshStatus(s) PROVE InFlight' /\ SlotsConserved'
  <2>1. /\ DOMAIN shift' = DOMAIN shift /\ req' = req
        /\ \A t \in DOMAIN shift : /\ shift'[t].n = shift[t].n
                                   /\ shift'[t].slots = shift[t].slots
                                   /\ shift'[t].joined = shift[t].joined
    BY <1>5 DEF RefreshStatus, TypeOK, ShiftRow
  <2> QED BY <2>1 DEF InFlight, ViewCurrent, SlotsConserved
<1>6. CASE Tick \/ UNCHANGED vars
  BY <1>6 DEF Tick, vars, InFlight, ViewCurrent, SlotsConserved
<1>7. ASSUME NEW h \in Handlers, Request(h) \/ Step(h) \/ Abort(h)
      PROVE  InFlight' /\ SlotsConserved'
  <2>1. CASE Request(h) \/ Abort(h) \/ Read(h)
    BY <1>1, <1>7, <2>1, RequestBegins, ReadMoves DEF Abort
  <2>2. CASE JoinCommit(h) \/ CancelCommit(h) \/ RejectCommit(h)
    BY <1>1, <1>7, <2>2 DEF JoinCommit, CancelCommit, RejectCommit
  <2>3. CASE LeaveCommit(h) \/ RemoveCommit(h)
    <3>1. -1 \in Int OBVIOUS
    <3> QED BY <1>2, <2>3, <3>1 DEF LeaveCommit, RemoveCommit, GiveBack, Step
  <2>4. CASE ApproveCommit(h)
    <3>1. 1 \in Int OBVIOUS
    <3> QED BY <1>2, <2>4, <3>1 DEF ApproveCommit, Step
  <2>5. CASE UpdateCommit(h)
    BY <1>3, <2>5
  <2> QED BY <1>7, <2>1, <2>2, <2>3, <2>4, <2>5 DEF Step, Read
<1> QED BY <1>4, <1>5, <1>6, <1>7 DEF Next

LEMMA SlotsInit == Init => SlotsInv
<1> SUFFICES ASSUME Init PROVE InFlight /\ SlotsConserved
  BY InitType DEF SlotsInv
<1>1. InFlight
  BY DEF Init, InFlight, ViewCurrent, Idle
<1>2. ASSUME NEW n \in Limits PROVE n = Plus(n, -0)
  BY NullsAssumption DEF Plus
<1>3. \A s \in Shifts : \E n \in Limits, w \in Windows : shift[s] = NewShift(n, w)
  BY DEF Init
<1>4. SlotsConserved
  BY <1>2, <1>3 DEF SlotsConserved, NewShift, Init
<1> QED BY <1>1, <1>4

\* As long as nobody edits a shift, its free places and participants add up to its
\* limit, for every interleaving of join, leave, approve, reject, remove and batches.
THEOREM SlotsAreConserved == Spec => []SlotsConserved
<1>1. SlotsInv => SlotsConserved
  BY DEF SlotsInv
<1> QED BY <1>1, SlotsInit, SlotsStep, PTL DEF Spec

-----------------------------------------------------------------------------
(* One active registration per account and shift, for clients that send one request  *)
(* at a time.  The inductive part: between the two halves of its transaction a join  *)
(* knows every active registration it replaces, since only another join of the same  *)
(* account could add one.                                                            *)

ClientsTakeTurns ==
    \A g, h \in Handlers :
        (/\ g # h /\ {req[g].op, req[h].op} \subseteq ClientOps
         /\ "idle" \notin {req[g].at, req[h].at})
            => req[g].by # req[h].by

JoinsKnow ==
    \A h \in Handlers : req[h].op = "join" /\ req[h].at = "commit"
        => \A i \in DOMAIN vol :
              vol[i].acct = req[h].by /\ vol[i].shift = req[h].s /\ vol[i].active
                  => i \in req[h].match

ActiveInv == TypeOK /\ ClientsTakeTurns /\ JoinsKnow /\ OneActiveRegistration

\* No registration is added or becomes active.
NoneActivated ==
    /\ DOMAIN vol' \subseteq DOMAIN vol
    /\ \A i \in DOMAIN vol' : /\ vol'[i].acct = vol[i].acct /\ vol'[i].shift = vol[i].shift
                              /\ vol'[i].active => vol[i].active

LEMMA OnlyJoinActivates ==
    ASSUME TypeOK, [Next]_vars, \A h \in Handlers : ~ JoinCommit(h)
    PROVE  NoneActivated
<1>1. ASSUME UNCHANGED vol PROVE NoneActivated
  BY <1>1 DEF NoneActivated
<1>2. ASSUME NEW h \in Handlers, NEW i \in DOMAIN vol, NEW status,
             vol' = [vol EXCEPT ![i].status = status]
      PROVE  NoneActivated
  BY <1>2 DEF NoneActivated, TypeOK, RegRow
<1>3. ASSUME NEW h \in Handlers, Request(h) \/ Read(h) \/ Abort(h) \/ UpdateCommit(h)
      PROVE  NoneActivated
  BY <1>1, <1>3, RequestBegins, ReadMoves DEF Abort, UpdateCommit
<1>4. ASSUME NEW h \in Handlers,
             CancelCommit(h) \/ RejectCommit(h) \/ LeaveCommit(h) \/ RemoveCommit(h)
      PROVE  NoneActivated
  BY <1>2, <1>4 DEF CancelCommit, RejectCommit, LeaveCommit, RemoveCommit, GiveBack
<1>5. ASSUME NEW h \in Handlers, ApproveCommit(h)
      PROVE  NoneActivated
  BY <1>5 DEF ApproveCommit, NoneActivated, TypeOK, RegRow
<1>6. ASSUME NEW s \in Shifts, DeleteShift(s) \/ RefreshStatus(s)
      PROVE  NoneActivated
  BY <1>6 DEF DeleteShift, RefreshStatus, NoneActivated
<1>7. CASE Tick \/ UNCHANGED vars
  BY <1>1, <1>7 DEF Tick, vars
<1> QED BY <1>3, <1>4, <1>5, <1>6, <1>7 DEF Next, Step, Read

\* There is one request at a time.
Sequential == \A g, h \in Handlers : g = h

LEMMA TurnsStep ==
    ASSUME Isolation \in {"client", "subject"} \/ Sequential,
           TypeOK, ClientsTakeTurns, [Next]_vars
    PROVE  ClientsTakeTurns'
<1>0. CASE Sequential
  BY <1>0 DEF Sequential, ClientsTakeTurns
<1>1. ASSUME NEW h \in Handlers, Request(h) \/ Step(h) \/ Abort(h),
             Isolation \in {"client", "subject"}
      PROVE  ClientsTakeTurns'
  <2>1. CASE Ends(h)
    <3>1. \A g \in Handlers : req'[g] = IF g = h THEN Ended(req[h]) ELSE req[g]
      BY <2>1 DEF Ends, Finish, TypeOK
    <3>2. req[h] \in RequestRecord /\ req[h].at # "idle"
      BY <2>1 DEF TypeOK, Ends
    <3> QED BY <3>1, <3>2, EndedFacts DEF ClientsTakeTurns
  <2>2. CASE ~ Ends(h)
    <3>1. PICK r \in RequestRecord : /\ req' = [req EXCEPT ![h] = r]
                                     /\ Fresh(r) \/ Reads(req[h], r)
      BY <1>1, <2>2, HandlerMoves
    <3>2. \A g \in Handlers : req'[g] = IF g = h THEN r ELSE req[g]
      BY <3>1 DEF TypeOK
    <3>3. CASE Fresh(r)
      <4>1. \A g \in Handlers : req[g].by \in Subjects(req[g]) /\ r.by \in Subjects(r)
        BY DEF Subjects
      <4> QED BY <1>1, <3>2, <3>3, <4>1 DEF ClientsTakeTurns, Fresh
    <3>4. CASE Reads(req[h], r)
      BY <3>2, <3>4 DEF ClientsTakeTurns, Reads
    <3> QED BY <3>1, <3>3, <3>4
  <2> QED BY <2>1, <2>2
<1>2. CASE UNCHANGED req
  BY <1>2 DEF ClientsTakeTurns
<1> QED BY <1>0, <1>1, <1>2 DEF Next, DeleteShift, RefreshStatus, Tick, vars

\* A step that activates nothing keeps the rows that joins know.
LEMMA QuietStep ==
    ASSUME TypeOK, JoinsKnow, OneActiveRegistration, [Next]_vars, NoneActivated
    PROVE  JoinsKnow' /\ OneActiveRegistration'
<1>1. OneActiveRegistration'
  BY DEF OneActiveRegistration, NoneActivated
<1>2. CASE UNCHANGED req
  <2> SUFFICES ASSUME NEW h \in Handlers, req[h].op = "join", req[h].at = "commit",
                      NEW i \in DOMAIN vol', vol'[i].acct = req[h].by,
                      vol'[i].shift = req[h].s, vol'[i].active
               PROVE  i \in req[h].match
    BY <1>1, <1>2 DEF JoinsKnow
  <2> QED BY DEF JoinsKnow, NoneActivated
<1>3. ASSUME NEW h \in Handlers, Request(h) \/ Step(h) \/ Abort(h)
      PROVE  JoinsKnow'
  <2>1. CASE Ends(h)
    <3>1. \A g \in Handlers : req'[g] = IF g = h THEN Ended(req[h]) ELSE req[g]
      BY <2>1 DEF Ends, Finish, TypeOK
    <3>2. Ended(req[h]).at # "commit"
      BY EndedFacts DEF TypeOK
    <3> QED BY <3>1, <3>2 DEF JoinsKnow, NoneActivated
  <2>2. CASE ~ Ends(h)
    <3>1. PICK r \in RequestRecord : /\ req' = [req EXCEPT ![h] = r]
                                     /\ Fresh(r) \/ Reads(req[h], r)
      BY <1>3, <2>2, HandlerMoves
    <3>2. \A g \in Handlers : req'[g] = IF g = h THEN r ELSE req[g]
      BY <3>1 DEF TypeOK
    <3>3. CASE Fresh(r)
      BY <3>2, <3>3 DEF JoinsKnow, NoneActivated, Fresh, Names
    <3>4. CASE Reads(req[h], r)
      BY <3>2, <3>4 DEF JoinsKnow, NoneActivated, Reads, ActiveRegs, RegsOf
    <3> QED BY <3>1, <3>3, <3>4
  <2> QED BY <2>1, <2>2
<1> QED BY <1>1, <1>2, <1>3 DEF Next, DeleteShift, RefreshStatus, Tick, vars

\* The commit of a join replaces every active registration it knows by the new one.
LEMMA JoinStep ==
    ASSUME TypeOK, ClientsTakeTurns, JoinsKnow, OneActiveRegistration,
           NEW h \in Handlers, JoinCommit(h)
    PROVE  JoinsKnow' /\ OneActiveRegistration'
<1> DEFINE r == req[h]
<1>1. /\ r.op = "join" /\ r.at = "commit"
      /\ vol' = [i \in DOMAIN vol \cup {nextId} |->
                    IF i = nextId THEN NewReg(r.by, r.s)
                    ELSE [vol[i] EXCEPT !.active = @ /\ i \notin r.match]]
      /\ Finish(h)
  BY DEF JoinCommit
<1>2. \A i \in DOMAIN vol : vol[i] \in RegRow /\ i # nextId
  BY DEF TypeOK
<1>3. /\ DOMAIN vol' = DOMAIN vol \cup {nextId}
      /\ vol'[nextId].acct = r.by /\ vol'[nextId].shift = r.s
      /\ \A i \in DOMAIN vol : /\ vol'[i].acct = vol[i].acct
                               /\ vol'[i].shift = vol[i].shift
                               /\ vol'[i].active => vol[i].active /\ i \notin r.match
  <2>1. DOMAIN vol' = DOMAIN vol \cup {nextId} /\ vol'[nextId] = NewReg(r.by, r.s)
    BY <1>1
  <2>2. \A i \in DOMAIN vol :
            vol'[i] = [vol[i] EXCEPT !.active = @ /\ i \notin r.match]
    BY <1>1, <1>2
  <2>3. \A i \in DOMAIN vol : vol[i].active \in BOOLEAN
    BY <1>2 DEF RegRow
  <2>4. ASSUME NEW i \in DOMAIN vol
        PROVE  /\ vol'[i].acct = vol[i].acct /\ vol'[i].shift = vol[i].shift
               /\ vol'[i].active = (vol[i].active /\ i \notin r.match)
    BY <1>2, <2>2, <2>3 DEF RegRow
  <2>5. vol'[nextId].acct = r.by /\ vol'[nextId].shift = r.s
    BY <2>1 DEF NewReg
  <2>6. \A i \in DOMAIN vol : /\ vol'[i].acct = vol[i].acct
                              /\ vol'[i].shift = vol[i].shift
                              /\ vol'[i].active => vol[i].active /\ i \notin r.match
    BY <2>4
  <2> QED BY <2>1, <2>5, <2>6
<1>4. \A i \in DOMAIN vol : vol[i].acct = r.by /\ vol[i].shift = r.s
                                => ~ vol'[i].active
  BY <1>1, <1>3 DEF JoinsKnow
<1>5. OneActiveRegistration'
  BY <1>3, <1>4 DEF OneActiveRegistration
<1>6. \A g \in Handlers : req'[g] = IF g = h THEN Ended(req[h]) ELSE req[g]
  BY <1>1 DEF Finish, TypeOK
<1>7. Ended(req[h]).at # "commit"
  BY EndedFacts DEF TypeOK
<1>8. \A g \in Handlers \ {h} :
        req[g].op = "join" /\ req[g].at = "commit" => req[g].by # r.by
  BY <1>1 DEF ClientsTakeTurns, ClientOps
<1>9. JoinsKnow'
  BY <1>3, <1>6, <1>7, <1>8 DEF JoinsKnow
<1> QED BY <1>5, <1>9

LEMMA ActiveInit == Init => ActiveInv
<1> SUFFICES ASSUME Init PROVE ActiveInv
  OBVIOUS
<1>1. ClientsTakeTurns /\ JoinsKnow
  BY DEF Init, Idle, ClientsTakeTurns, JoinsKnow, ClientOps
<1>2. OneActiveRegistration
  BY DEF Init, OneActiveRegistration
<1> QED BY <1>1, <1>2, InitType DEF ActiveInv

LEMMA ActiveStep ==
    ASSUME Isolation \in {"client", "subject"} \/ Sequential, ActiveInv, [Next]_vars
    PROVE  ActiveInv'
<1>1. TypeOK' /\ ClientsTakeTurns'
  BY StepType, TurnsStep DEF ActiveInv
<1>2. CASE \E h \in Handlers : JoinCommit(h)
  BY <1>1, <1>2, JoinStep DEF ActiveInv
<1>3. CASE ~ \E h \in Handlers : JoinCommit(h)
  BY <1>1, <1>3, OnlyJoinActivates, QuietStep DEF ActiveInv
<1> QED BY <1>2, <1>3

\* An account has one active registration per shift at most, provided a client never
\* has two requests in flight ("subject" implies it); managers and edits may interleave
\* with it freely.
THEOREM OneActive ==
    ASSUME Isolation \in {"client", "subject"} \/ Sequential
    PROVE  Spec => []OneActiveRegistration
<1>1. ActiveInv /\ [Next]_vars => ActiveInv'
  BY ActiveStep
<1>2. ActiveInv => OneActiveRegistration
  BY DEF ActiveInv
<1> QED BY <1>1, <1>2, ActiveInit, PTL DEF Spec

-----------------------------------------------------------------------------
(* Requests about different accounts ("subject").  Two requests in flight share no   *)
(* account, so what a request has read about its own accounts stands until it writes. *)

SubjectsApart ==
    \A g, h \in Handlers :
        g # h /\ "idle" \notin {req[g].at, req[h].at}
            => Subjects(req[g]) \cap Subjects(req[h]) = {}

\* Requests name registrations that were created, so never the next one.
IdsExist == \A h \in Handlers : \A i \in IdsOf(req[h]) : i < nextId

\* A censor's request names registrations of its shift, where URLs agree.
UrlsAgree ==
    SameShiftUrls => \A h \in Handlers : req[h].op \in CensorOps =>
        \A i \in IdsOf(req[h]) \cap DOMAIN vol : vol[i].shift = req[h].s

Replaceable(r) ==
    \A i \in ActiveRegs(r.by, r.s) : vol[i].status \notin {"pending", "approved"}

\* What the queries of a request found is still so.
Settled(r) ==
    /\ r.op = "join" /\ r.at \in {"match", "commit"} => Replaceable(r)
    /\ r.op = "join" /\ r.at = "commit"
           => /\ r.match \cap DOMAIN vol = ActiveRegs(r.by, r.s)
              /\ \A i \in r.match : i < nextId
    /\ r.op \in {"cancelJoin", "leave"} \cup CensorOps /\ r.at = "commit"
           => (r.id \in DOMAIN vol => Selected(r))

SubjectInv ==
    /\ ActiveInv
    /\ SubjectsApart /\ IdsExist /\ UrlsAgree
    /\ \A h \in Handlers : Settled(req[h])
    /\ ApprovedIsActive

LEMMA SubjectsOfIds ==
    ASSUME NEW r
    PROVE  Subjects(r) = {r.by} \cup {vol[i].acct : i \in IdsOf(r) \cap DOMAIN vol}
  BY DEF Subjects, IdsOf

\* A batch goes on with ids it had named.
LEMMA EndedIds ==
    ASSUME NEW r \in RequestRecord, Ended(r).at # "idle"
    PROVE  /\ Ended(r).op = r.op /\ Ended(r).by = r.by /\ Ended(r).s = r.s
           /\ IdsOf(Ended(r)) \subseteq IdsOf(r)
<1>1. r.todo # <<>> /\ r.todo \in Seq(Nat)
  BY DEF Ended, Idle, RequestRecord
<1>2. /\ Ended(r).op = r.op /\ Ended(r).by = r.by /\ Ended(r).s = r.s
      /\ Ended(r).id = Head(r.todo) /\ Ended(r).todo = Tail(r.todo)
  BY <1>1 DEF Ended, Idle
<1>3. Head(r.todo) = r.todo[1] /\ 1 \in DOMAIN r.todo
  BY <1>1
<1>4. \A k \in DOMAIN Tail(r.todo) :
          k + 1 \in DOMAIN r.todo /\ Tail(r.todo)[k] = r.todo[k + 1]
  BY <1>1
<1> QED BY <1>2, <1>3, <1>4 DEF IdsOf

\* A request that is done with an id takes the next one of its batch, or is gone.
LEMMA MovedIds ==
    ASSUME TypeOK, NEW h \in Handlers, Ends(h)
    PROVE  /\ \A g \in Handlers : req'[g] = IF g = h THEN Ended(req[h]) ELSE req[g]
           /\ Ended(req[h]).at \in {"idle", "shift"}
  BY EndedFacts DEF TypeOK, Ends, Finish

\* A step of a handler writes to rows of the accounts its request is about, and a row
\* it inserts is a pending registration of the one that sent it.
LEMMA Confined ==
    ASSUME TypeOK, NEW h \in Handlers, Request(h) \/ Step(h) \/ Abort(h), Settled(req[h])
    PROVE  /\ DOMAIN vol \subseteq DOMAIN vol' /\ nextId' >= nextId
           /\ \A i \in DOMAIN vol' \ DOMAIN vol :
                 /\ i = nextId /\ req[h].at = "commit"
                 /\ vol'[i] = NewReg(req[h].by, req[h].s)
           /\ \A i \in DOMAIN vol :
                 /\ vol'[i].acct = vol[i].acct /\ vol'[i].shift = vol[i].shift
                 /\ vol'[i] # vol[i] => /\ req[h].at = "commit"
                                        /\ vol[i].acct \in Subjects(req[h])
<1> DEFINE r == req[h]
<1>1. \A i \in DOMAIN vol : vol[i] \in RegRow /\ i # nextId
  BY DEF TypeOK
<1>2. nextId \in Nat
  BY DEF TypeOK
<1>3. r.by \in Subjects(r) /\ (r.id \in DOMAIN vol => vol[r.id].acct \in Subjects(r))
  BY DEF Subjects
<1>4. CASE JoinCommit(h)
  <2>1. /\ r.op = "join" /\ r.at = "commit"
        /\ vol' = [i \in DOMAIN vol \cup {nextId} |->
                      IF i = nextId THEN NewReg(r.by, r.s)
                      ELSE [vol[i] EXCEPT !.active = @ /\ i \notin r.match]]
        /\ nextId' = nextId + 1
    BY <1>4 DEF JoinCommit
  <2>2. DOMAIN vol' = DOMAIN vol \cup {nextId} /\ vol'[nextId] = NewReg(r.by, r.s)
    BY <2>1
  <2>3. ASSUME NEW i \in DOMAIN vol
        PROVE  /\ vol'[i].acct = vol[i].acct /\ vol'[i].shift = vol[i].shift
               /\ vol'[i] # vol[i] => vol[i].acct \in Subjects(r)
    <3>1. vol'[i] = [vol[i] EXCEPT !.active = @ /\ i \notin r.match]
      BY <1>1, <2>1
    <3>2. vol[i].active \in BOOLEAN /\ vol[i] \in RegRow
      BY <1>1 DEF RegRow
    <3>3. CASE i \notin r.match
      <4>1. (vol[i].active /\ i \notin r.match) = vol[i].active
        BY <3>2, <3>3
      <4> QED BY <3>1, <3>2, <4>1 DEF RegRow
    <3>4. CASE i \in r.match
      <4>1. vol[i].acct = r.by
        BY <2>1, <3>4 DEF Settled, ActiveRegs
      <4> QED BY <1>3, <3>1, <3>2, <4>1 DEF RegRow
    <3> QED BY <3>3, <3>4
  <2> QED BY <1>2, <2>1, <2>2, <2>3
<1>5. ASSUME NEW status, vol' = [vol EXCEPT ![r.id].status = status],
             r.at = "commit", r.id \in DOMAIN vol, nextId' = nextId
      PROVE  /\ DOMAIN vol \subseteq DOMAIN vol' /\ nextId' >= nextId
             /\ DOMAIN vol' \subseteq DOMAIN vol
             /\ \A i \in DOMAIN vol :
                   /\ vol'[i].acct = vol[i].acct /\ vol'[i].shift = vol[i].shift
                   /\ vol'[i] # vol[i] => /\ r.at = "commit"
                                          /\ vol[i].acct \in Subjects(r)
  BY <1>1, <1>2, <1>3, <1>5 DEF RegRow
<1>6. CASE CancelCommit(h) \/ RejectCommit(h) \/ LeaveCommit(h) \/ RemoveCommit(h)
  BY <1>5, <1>6 DEF CancelCommit, RejectCommit, LeaveCommit, RemoveCommit, GiveBack
<1>7. CASE ApproveCommit(h)
  <2>1. /\ r.at = "commit" /\ r.id \in DOMAIN vol /\ nextId' = nextId
        /\ vol' = [i \in DOMAIN vol |->
                      IF i = r.id THEN [vol[i] EXCEPT !.status = "approved"]
                      ELSE IF i \in CancelledWith(r)
                           THEN [vol[i] EXCEPT !.status = "cancelled"]
                           ELSE vol[i]]
    BY <1>7 DEF ApproveCommit
  <2>2. \A i \in CancelledWith(r) : vol[i].acct = r.by
    BY DEF CancelledWith
  <2> QED BY <1>1, <1>2, <1>3, <2>1, <2>2 DEF RegRow
<1>8. CASE Request(h) \/ Read(h) \/ Abort(h) \/ UpdateCommit(h)
  <2>1. UNCHANGED <<vol, nextId>>
    BY <1>8, RequestBegins, ReadMoves DEF Abort, UpdateCommit
  <2> QED BY <1>2, <2>1
<1> QED BY <1>4, <1>6, <1>7, <1>8 DEF Step, Read

\* What a request found about its own accounts stands while another one takes a step.
LEMMA OthersStaySettled ==
    ASSUME TypeOK, SubjectsApart, IdsExist, NEW h \in Handlers,
           Request(h) \/ Step(h) \/ Abort(h), Settled(req[h]),
           NEW g \in Handlers, g # h, req[g].at # "idle", Settled(req[g]), req'[g] = req[g]
    PROVE  Settled(req[g])' /\ Subjects(req[g])' = Subjects(req[g])
<1> DEFINE r == req[g]
<1>1. /\ DOMAIN vol \subseteq DOMAIN vol' /\ nextId' >= nextId
      /\ \A i \in DOMAIN vol' \ DOMAIN vol :
            /\ i = nextId /\ req[h].at = "commit"
            /\ vol'[i] = NewReg(req[h].by, req[h].s)
      /\ \A i \in DOMAIN vol :
            /\ vol'[i].acct = vol[i].acct /\ vol'[i].shift = vol[i].shift
            /\ vol'[i] # vol[i] => /\ req[h].at = "commit"
                                   /\ vol[i].acct \in Subjects(req[h])
  BY Confined
<1>2. req[h].at = "commit" => Subjects(req[h]) \cap Subjects(r) = {}
  BY DEF SubjectsApart
<1>3. \A i \in IdsOf(r) : i # nextId
  BY DEF IdsExist, TypeOK
<1>4. IdsOf(r) \cap DOMAIN vol' = IdsOf(r) \cap DOMAIN vol
  BY <1>1, <1>3
<1>5. {vol'[i].acct : i \in IdsOf(r) \cap DOMAIN vol'}
        = {vol[i].acct : i \in IdsOf(r) \cap DOMAIN vol}
  BY <1>1, <1>4
<1>6. Subjects(r)' = Subjects(r)
  BY <1>5, SubjectsOfIds DEF Subjects, IdsOf
<1>7. r.by \in Subjects(r) /\ req[h].by \in Subjects(req[h])
  BY DEF Subjects
<1>8. \A i \in DOMAIN vol : vol[i].acct \in Subjects(r) => vol'[i] = vol[i]
  BY <1>1, <1>2
<1>9. \A i \in DOMAIN vol' \ DOMAIN vol : vol'[i].acct # r.by
  BY <1>1, <1>2, <1>7 DEF NewReg
<1>10. ActiveRegs(r.by, r.s)' = ActiveRegs(r.by, r.s)
  <2>1. \A i : i \in ActiveRegs(r.by, r.s)' <=> /\ i \in DOMAIN vol' /\ vol'[i].shift = r.s
                                                /\ vol'[i].acct = r.by /\ vol'[i].active
    BY DEF ActiveRegs, RegsOf
  <2>2. \A i : i \in ActiveRegs(r.by, r.s) <=> /\ i \in DOMAIN vol /\ vol[i].shift = r.s
                                               /\ vol[i].acct = r.by /\ vol[i].active
    BY DEF ActiveRegs, RegsOf
  <2>3. \A i : i \in ActiveRegs(r.by, r.s)' <=> i \in ActiveRegs(r.by, r.s)
    BY <1>1, <1>7, <1>8, <1>9, <2>1, <2>2
  <2> QED BY <2>3
<1>11. \A i \in ActiveRegs(r.by, r.s) : i \in DOMAIN vol /\ vol'[i] = vol[i]
  BY <1>7, <1>8 DEF ActiveRegs, RegsOf
<1>12. Replaceable(r) => Replaceable(r)'
  BY <1>10, <1>11 DEF Replaceable
<1>13. /\ r.match \cap DOMAIN vol = ActiveRegs(r.by, r.s)
       /\ \A i \in r.match : i < nextId
       => /\ r.match \cap DOMAIN vol' = ActiveRegs(r.by, r.s)'
          /\ \A i \in r.match : i < nextId'
  <2> SUFFICES ASSUME r.match \cap DOMAIN vol = ActiveRegs(r.by, r.s),
                      \A i \in r.match : i < nextId
               PROVE  /\ r.match \cap DOMAIN vol' = ActiveRegs(r.by, r.s)'
                      /\ \A i \in r.match : i < nextId'
    OBVIOUS
  <2>1. nextId \in Nat /\ nextId' \in Nat /\ r.match \subseteq Nat
    BY StepType DEF TypeOK, RequestRecord, Next
  <2>2. \A i \in r.match : i # nextId /\ i < nextId'
    BY <1>1, <2>1
  <2>3. r.match \cap DOMAIN vol' = r.match \cap DOMAIN vol
    BY <1>1, <2>2
  <2> QED BY <1>10, <2>2, <2>3
<1>14. r.id \in DOMAIN vol' => r.id \in DOMAIN vol /\ vol'[r.id] = vol[r.id]
  <2>1. r.id \in IdsOf(r)
    BY DEF IdsOf
  <2>2. r.id \in DOMAIN vol => vol[r.id].acct \in Subjects(r)
    BY DEF Subjects
  <2> QED BY <1>4, <1>8, <2>1, <2>2
<1>15. Selected(r) /\ r.id \in DOMAIN vol' => Selected(r)'
  BY <1>14 DEF Selected
<1> QED BY <1>6, <1>12, <1>13, <1>14, <1>15 DEF Settled

\* What the handler itself goes on with: a request about no account it was not about,
\* with what it has just read.
LEMMA OwnStaysSettled ==
    ASSUME TypeOK, OneActiveRegistration, IdsExist, UrlsAgree, NEW h \in Handlers,
           Request(h) \/ Step(h) \/ Abort(h), Settled(req[h])
    PROVE  /\ Settled(req[h])'
           /\ req[h].at # "idle" /\ req'[h].at # "idle"
                 => Subjects(req[h])' \subseteq Subjects(req[h])
           /\ \A i \in IdsOf(req'[h]) : i < nextId'
           /\ SameShiftUrls /\ req'[h].op \in CensorOps
                 => \A i \in IdsOf(req'[h]) \cap DOMAIN vol' : vol'[i].shift = req'[h].s
<1> DEFINE q == req[h]
<1>1. q \in RequestRecord /\ nextId \in Nat /\ nextId' \in Nat /\ nextId > 0
  BY StepType DEF TypeOK, Next
<1>2. /\ DOMAIN vol \subseteq DOMAIN vol' /\ nextId' >= nextId
      /\ \A i \in DOMAIN vol' \ DOMAIN vol : i = nextId
      /\ \A i \in DOMAIN vol :
            vol'[i].acct = vol[i].acct /\ vol'[i].shift = vol[i].shift
  BY Confined
<1>3. IdsOf(q) \subseteq Nat
  <2>1. q.id \in Nat /\ q.todo \in Seq(Nat)
    BY <1>1 DEF RequestRecord
  <2> QED BY <2>1 DEF IdsOf
<1>4. CASE Ends(h)
  <2>1. req'[h] = Ended(q) /\ Ended(q).at \in {"idle", "shift"}
    BY <1>4, MovedIds
  <2>2. Settled(req[h])'
    BY <2>1 DEF Settled
  <2>3. CASE Ended(q).at = "idle"
    <3>1. Ended(q) = Idle
      BY <2>3 DEF Ended, Idle
    <3>2. IdsOf(Idle) = {0} /\ Idle.op \notin CensorOps /\ Idle.at = "idle"
      BY DEF IdsOf, Idle, CensorOps
    <3> HIDE DEF Idle
    <3> QED BY <1>1, <1>2, <2>1, <2>2, <3>1, <3>2
  <2>4. CASE Ended(q).at # "idle"
    <3>1. /\ req'[h].op = q.op /\ req'[h].by = q.by /\ req'[h].s = q.s
          /\ IdsOf(req'[h]) \subseteq IdsOf(q)
      BY <1>1, <2>1, <2>4, EndedIds
    <3>2. \A i \in IdsOf(req'[h]) : i # nextId /\ i < nextId'
      BY <1>1, <1>2, <1>3, <3>1 DEF IdsExist
    <3>3. Subjects(req[h])' \subseteq Subjects(q)
      <4>1. Subjects(req[h])'
              = {req'[h].by} \cup {vol'[i].acct : i \in IdsOf(req'[h]) \cap DOMAIN vol'}
        BY DEF Subjects, IdsOf
      <4> QED BY <1>2, <3>1, <3>2, <4>1, SubjectsOfIds
    <3>4. SameShiftUrls /\ req'[h].op \in CensorOps
            => \A i \in IdsOf(req'[h]) \cap DOMAIN vol' : vol'[i].shift = req'[h].s
      BY <1>2, <3>1, <3>2 DEF UrlsAgree
    <3> QED BY <2>2, <3>2, <3>3, <3>4
  <2> QED BY <2>3, <2>4
<1>5. CASE ~ Ends(h)
  <2>1. PICK r \in RequestRecord : /\ req' = [req EXCEPT ![h] = r]
                                   /\ Fresh(r) \/ Reads(q, r)
    BY <1>5, HandlerMoves
  <2>2. req'[h] = r
    BY <2>1 DEF TypeOK
  <2>3. CASE Request(h)
    <3>1. q.at = "idle" /\ UNCHANGED <<vol, nextId>>
      BY <2>3, RequestBegins
    <3>2. PICK f \in RequestRecord : req' = [req EXCEPT ![h] = f] /\ Names(f)
      BY <2>3, RequestBegins DEF Fresh
    <3>3. req'[h] = f
      BY <3>2 DEF TypeOK
    <3>4. Settled(f)'
      BY <3>2 DEF Settled, Names
    <3>5. Settled(req[h])'
      BY <3>3, <3>4
    <3>6. /\ \A i \in IdsOf(f) : i < nextId'
          /\ SameShiftUrls /\ f.op \in CensorOps
                => \A i \in IdsOf(f) \cap DOMAIN vol' : vol'[i].shift = f.s
      BY <3>1, <3>2 DEF Names, RegsOf
    <3> QED BY <3>1, <3>3, <3>5, <3>6
  <2>4. CASE ~ Request(h)
    <3>1. Read(h) /\ UNCHANGED <<vol, nextId>>
      <4>1. \/ Read(h) \/ JoinCommit(h) \/ CancelCommit(h) \/ LeaveCommit(h)
            \/ ApproveCommit(h) \/ RejectCommit(h) \/ RemoveCommit(h) \/ UpdateCommit(h)
            \/ Abort(h)
        BY <2>4 DEF Step, Read
      <4>2. Read(h)
        BY <1>5, <4>1 DEF Ends, Abort, JoinCommit, CancelCommit, LeaveCommit, ApproveCommit,
                          RejectCommit, RemoveCommit, UpdateCommit, GiveBack
      <4> QED BY <4>2, ReadMoves
    <3>2. q.at # "idle"
      BY <3>1 DEF Read, ReadShift, JoinRead, JoinMatch, CancelRead, LeaveRead, ApproveRead,
                  RejectRead, RemoveRead, UpdateCount, Select
    <3>3. ~ Finish(h)
      BY <1>5, <3>2 DEF Ends
    <3>4. PICK f \in RequestRecord : req' = [req EXCEPT ![h] = f] /\ Reads(q, f)
      BY <3>1, <3>3, ReadMoves
    <3>5. req'[h] = f
      BY <3>4 DEF TypeOK
    <3>6. Settled(f)
      <4>1. CASE f.at = "match"
        <5>1. MayJoin(f)
          BY <3>4, <4>1 DEF Reads
        <5>2. Replaceable(f)
          BY <5>1 DEF MayJoin, Replaceable, OneActiveRegistration, ActiveRegs, RegsOf
        <5> QED BY <4>1, <5>2 DEF Settled
      <4>2. CASE f.op = "join" /\ f.at = "commit"
        <5>1. Replaceable(f) /\ f.match = ActiveRegs(f.by, f.s)
          BY <3>4, <4>2 DEF Reads, Settled, Replaceable
        <5>2. f.match \subseteq DOMAIN vol /\ \A i \in f.match : i < nextId
          BY <5>1 DEF ActiveRegs, RegsOf, TypeOK
        <5> QED BY <4>2, <5>1, <5>2 DEF Settled, CensorOps
      <4>3. CASE f.op # "join"
        BY <3>4, <4>3 DEF Reads, Settled
      <4>4. CASE f.at \notin {"match", "commit"}
        BY <4>4 DEF Settled
      <4> QED BY <4>1, <4>2, <4>3, <4>4
    <3>7. Settled(f)'
      BY <3>1, <3>6 DEF Settled, Replaceable, Selected, ActiveRegs, RegsOf
    <3>8. f.by = q.by /\ f.op = q.op /\ f.s = q.s /\ f.todo = q.todo
      BY <3>4 DEF Reads
    <3>9. \/ f.id = q.id
          \/ /\ f.id \in DOMAIN vol /\ vol[f.id].acct = f.by /\ f.op \in ClientOps
      BY <3>4 DEF Reads, Selected, ClientOps
    <3>10. Subjects(f) \subseteq Subjects(q)
      BY <3>8, <3>9 DEF Subjects
    <3>11. \A i \in IdsOf(f) : i < nextId
      <4>1. \A i \in DOMAIN vol : i < nextId
        BY DEF TypeOK
      <4> QED BY <3>8, <3>9, <4>1 DEF IdsExist, IdsOf
    <3>12. SameShiftUrls /\ f.op \in CensorOps
              => \A i \in IdsOf(f) \cap DOMAIN vol : vol[i].shift = f.s
      BY <3>8, <3>9 DEF UrlsAgree, IdsOf, ClientOps, CensorOps
    <3>13. Subjects(f)' = Subjects(f)
      BY <3>1 DEF Subjects
    <3>14. Settled(req[h])' /\ Subjects(req[h])' = Subjects(f)'
      BY <3>5, <3>7
    <3> QED BY <3>1, <3>5, <3>10, <3>11, <3>12, <3>13, <3>14
  <2> QED BY <2>3, <2>4
<1> QED BY <1>4, <1>5

\* An approved registration is not made inactive, and an approval finds an active one.
LEMMA ApprovedStaysActive ==
    ASSUME TypeOK, ApprovedIsActive, NEW h \in Handlers,
           Request(h) \/ Step(h) \/ Abort(h), Settled(req[h])
    PROVE  ApprovedIsActive'
<1> DEFINE r == req[h]
<1>1. \A i \in DOMAIN vol : vol[i] \in RegRow /\ i # nextId
  BY DEF TypeOK
<1>2. CASE JoinCommit(h)
  <2>1. /\ r.op = "join" /\ r.at = "commit"
        /\ vol' = [i \in DOMAIN vol \cup {nextId} |->
                      IF i = nextId THEN NewReg(r.by, r.s)
                      ELSE [vol[i] EXCEPT !.active = @ /\ i \notin r.match]]
    BY <1>2 DEF JoinCommit
  <2>2. vol'[nextId].status = "pending"
    BY <2>1 DEF NewReg
  <2>3. ASSUME NEW i \in DOMAIN vol, vol'[i].status = "approved"
        PROVE  vol'[i].active
    <3>1. vol'[i] = [vol[i] EXCEPT !.active = @ /\ i \notin r.match]
      BY <1>1, <2>1
    <3>2. vol[i].status = "approved"
      BY <1>1, <2>3, <3>1 DEF RegRow
    <3>3. i \notin r.match
      BY <2>1, <3>2 DEF Settled, Replaceable
    <3>4. vol[i].active
      BY <3>2 DEF ApprovedIsActive
    <3> QED BY <1>1, <3>1, <3>3, <3>4 DEF RegRow
  <2>4. DOMAIN vol' = DOMAIN vol \cup {nextId}
    BY <2>1
  <2> QED BY <2>2, <2>3, <2>4 DEF ApprovedIsActive
<1>3. ASSUME NEW status, status # "approved", r.id \in DOMAIN vol,
             vol' = [vol EXCEPT ![r.id].status = status]
      PROVE  ApprovedIsActive'
  BY <1>1, <1>3 DEF ApprovedIsActive, RegRow
<1>4. CASE CancelCommit(h) \/ RejectCommit(h) \/ LeaveCommit(h) \/ RemoveCommit(h)
  BY <1>3, <1>4 DEF CancelCommit, RejectCommit, LeaveCommit, RemoveCommit, GiveBack
<1>5. CASE ApproveCommit(h)
  <2>1. vol[r.id].active
    BY <1>5 DEF ApproveCommit, Settled, Selected, CensorOps
  <2> QED BY <1>1, <1>5, <2>1 DEF ApproveCommit, ApprovedIsActive, RegRow
<1>6. CASE Request(h) \/ Read(h) \/ Abort(h) \/ UpdateCommit(h)
  BY <1>6, RequestBegins, ReadMoves DEF Abort, UpdateCommit, ApprovedIsActive
<1> QED BY <1>2, <1>4, <1>5, <1>6 DEF Step, Read

LEMMA SubjectInit == Init => SubjectInv
<1> SUFFICES ASSUME Init PROVE SubjectInv
  OBVIOUS
<1>1. \A h \in Handlers : req[h] = Idle
  BY DEF Init
<1>2. Idle.at = "idle" /\ IdsOf(Idle) = {0} /\ Idle.op \notin CensorOps
  BY DEF Idle, IdsOf, CensorOps
<1> HIDE DEF Idle
<1>3. nextId = 1 /\ DOMAIN vol = {}
  BY DEF Init
<1>4. SubjectsApart /\ IdsExist /\ UrlsAgree /\ ApprovedIsActive
  BY <1>1, <1>2, <1>3 DEF SubjectsApart, IdsExist, UrlsAgree, ApprovedIsActive
<1>5. \A h \in Handlers : Settled(req[h])
  BY <1>1, <1>2 DEF Settled
<1> QED BY <1>4, <1>5, ActiveInit DEF SubjectInv

\* Steps outside any request delete rows or leave them alone.
LEMMA OtherSettled ==
    ASSUME SubjectInv,
           \/ \E s \in Shifts : DeleteShift(s) \/ RefreshStatus(s)
           \/ Tick \/ UNCHANGED vars
    PROVE  /\ SubjectsApart' /\ IdsExist' /\ UrlsAgree' /\ ApprovedIsActive'
           /\ \A h \in Handlers : Settled(req[h])'
<1>1. /\ req' = req /\ nextId' = nextId /\ DOMAIN vol' \subseteq DOMAIN vol
      /\ \A i \in DOMAIN vol' : vol'[i] = vol[i]
  BY DEF DeleteShift, RefreshStatus, Tick, vars
<1>2. IdsExist' /\ UrlsAgree' /\ ApprovedIsActive'
  BY <1>1 DEF SubjectInv, IdsExist, IdsOf, UrlsAgree, ApprovedIsActive
<1>3. ASSUME NEW h \in Handlers
      PROVE  Subjects(req[h])' \subseteq Subjects(req[h]) /\ Settled(req[h])'
  <2>0. PICK r : r = req[h]
    OBVIOUS
  <2>1. req'[h] = r /\ Settled(r)
    BY <1>1, <2>0 DEF SubjectInv
  <2>2. Subjects(r)' \subseteq Subjects(r)
    BY <1>1 DEF Subjects
  <2>3. ActiveRegs(r.by, r.s)' = ActiveRegs(r.by, r.s) \cap DOMAIN vol'
    BY <1>1 DEF ActiveRegs, RegsOf
  <2>4. Replaceable(r) => Replaceable(r)'
    BY <1>1, <2>3 DEF Replaceable
  <2>5. r.match \cap DOMAIN vol = ActiveRegs(r.by, r.s)
           => r.match \cap DOMAIN vol' = ActiveRegs(r.by, r.s)'
    BY <1>1, <2>3
  <2>6. Selected(r) /\ r.id \in DOMAIN vol' => Selected(r)'
    BY <1>1 DEF Selected
  <2>7. Settled(r)'
    BY <1>1, <2>1, <2>4, <2>5, <2>6 DEF Settled
  <2>8. Subjects(req[h])' = Subjects(r)' /\ (Settled(req[h])' <=> Settled(r)')
    BY <2>1
  <2> QED BY <2>0, <2>2, <2>7, <2>8
<1>4. SubjectsApart'
  BY <1>1, <1>3 DEF SubjectInv, SubjectsApart
<1> QED BY <1>2, <1>3, <1>4

LEMMA SubjectStep ==
    ASSUME Isolation = "subject" \/ Sequential, SubjectInv, [Next]_vars
    PROVE  SubjectInv'
<1>1. ActiveInv' /\ TypeOK
  BY ActiveStep DEF SubjectInv, ActiveInv
<1>2. ASSUME NEW h \in Handlers, Request(h) \/ Step(h) \/ Abort(h)
      PROVE  SubjectInv'
  <2>1. Settled(req[h]) /\ SubjectsApart /\ IdsExist /\ UrlsAgree /\ OneActiveRegistration
    BY DEF SubjectInv, ActiveInv
  <2>2. /\ Settled(req[h])'
        /\ req[h].at # "idle" /\ req'[h].at # "idle"
              => Subjects(req[h])' \subseteq Subjects(req[h])
        /\ \A i \in IdsOf(req'[h]) : i < nextId'
        /\ SameShiftUrls /\ req'[h].op \in CensorOps
              => \A i \in IdsOf(req'[h]) \cap DOMAIN vol' : vol'[i].shift = req'[h].s
    BY <1>1, <1>2, <2>1, OwnStaysSettled
  <2>3. \A g \in Handlers \ {h} : req'[g] = req[g]
    <3>1. CASE Ends(h)
      BY <1>1, <3>1, MovedIds
    <3>2. CASE ~ Ends(h)
      BY <1>1, <1>2, <3>2, HandlerMoves DEF TypeOK
    <3> QED BY <3>1, <3>2
  <2>4. \A g \in Handlers \ {h} : req[g].at # "idle"
            => Settled(req[g])' /\ Subjects(req[g])' = Subjects(req[g])
    BY <1>1, <1>2, <2>1, <2>3, OthersStaySettled DEF SubjectInv
  <2>5. \A g \in Handlers : Settled(req[g])'
    <3>1. ASSUME NEW g \in Handlers \ {h}, req[g].at = "idle" PROVE Settled(req[g])'
      BY <2>3, <3>1 DEF Settled
    <3> QED BY <2>2, <2>4, <3>1
  <2>6. /\ DOMAIN vol \subseteq DOMAIN vol' /\ nextId' >= nextId
        /\ \A i \in DOMAIN vol' \ DOMAIN vol : i = nextId
        /\ \A i \in DOMAIN vol : vol'[i].shift = vol[i].shift
    BY <1>1, <1>2, <2>1, Confined
  <2>7. ASSUME NEW g \in Handlers \ {h}, NEW i \in IdsOf(req[g])
        PROVE  i < nextId' /\ i # nextId
    <3>1. req[g].id \in Nat /\ req[g].todo \in Seq(Nat)
      BY <1>1 DEF TypeOK, RequestRecord
    <3>2. i \in Nat
      BY <2>7, <3>1 DEF IdsOf
    <3>3. nextId \in Nat /\ nextId' \in Nat
      BY <1>1 DEF ActiveInv, TypeOK
    <3>4. i < nextId
      BY <2>1, <2>7 DEF IdsExist
    <3> QED BY <2>6, <3>2, <3>3, <3>4
  <2>8. IdsExist'
    <3> SUFFICES ASSUME NEW g \in Handlers PROVE \A i \in IdsOf(req'[g]) : i < nextId'
      BY DEF IdsExist, IdsOf
    <3>1. CASE g = h
      BY <2>2, <3>1
    <3>2. CASE g # h
      BY <2>3, <2>7, <3>2
    <3> QED BY <3>1, <3>2
  <2>9. UrlsAgree'
    <3> SUFFICES ASSUME NEW g \in Handlers, SameShiftUrls, req'[g].op \in CensorOps
                 PROVE  \A i \in IdsOf(req'[g]) \cap DOMAIN vol' : vol'[i].shift = req'[g].s
      BY DEF UrlsAgree, IdsOf
    <3>1. CASE g = h
      BY <2>2, <3>1
    <3>2. CASE g # h
      BY <2>1, <2>3, <2>6, <2>7, <3>2 DEF UrlsAgree
    <3> QED BY <3>1, <3>2
  <2>10. SubjectsApart'
    <3>0. CASE Sequential
      BY <3>0 DEF Sequential, SubjectsApart
    <3>1. CASE Request(h) /\ Isolation = "subject"
      <4>1. UNCHANGED vol /\ \E r \in RequestRecord : /\ req' = [req EXCEPT ![h] = r]
                                                      /\ Fresh(r)
        BY <1>1, <3>1, RequestBegins
      <4>2. PICK r \in RequestRecord : req' = [req EXCEPT ![h] = r] /\ Fresh(r)
        BY <4>1
      <4>3. req'[h] = r
        BY <1>1, <4>2 DEF TypeOK
      <4>4. Subjects(req[h])' = Subjects(r)
        BY <4>1, <4>3 DEF Subjects
      <4>5. \A g \in Handlers \ {h} : req[g].at # "idle"
                => Subjects(req[g]) \cap Subjects(r) = {}
        BY <3>1, <4>2 DEF Fresh
      <4> QED BY <2>1, <2>3, <2>4, <4>4, <4>5 DEF SubjectsApart
    <3>2. CASE ~ Request(h)
      <4>1. req[h].at # "idle"
        BY <1>2, <3>2 DEF Step, Abort, ReadShift, JoinRead, JoinMatch, JoinCommit, CancelRead,
              CancelCommit, LeaveRead, LeaveCommit, ApproveRead, ApproveCommit, RejectRead,
              RejectCommit, RemoveRead, RemoveCommit, UpdateCount, UpdateCommit, Select,
              GiveBack
      <4> QED BY <2>1, <2>2, <2>3, <2>4, <4>1 DEF SubjectsApart
    <3> QED BY <3>0, <3>1, <3>2
  <2>11. ApprovedIsActive'
    BY <1>1, <1>2, <2>1, ApprovedStaysActive DEF SubjectInv
  <2> QED BY <1>1, <2>5, <2>8, <2>9, <2>10, <2>11 DEF SubjectInv
<1>3. CASE \/ \E s \in Shifts : DeleteShift(s) \/ RefreshStatus(s)
           \/ Tick \/ UNCHANGED vars
  BY <1>1, <1>3, OtherSettled DEF SubjectInv
<1> QED BY <1>2, <1>3 DEF Next

\* An approved registration is active, so that its volunteer can leave and be removed,
\* provided no two requests in flight are about the same account: a join that replaces
\* registrations and an approval of one of them would mark it inactive.
THEOREM ApprovedAreActive ==
    ASSUME Isolation = "subject" \/ Sequential
    PROVE  Spec => []ApprovedIsActive
<1>1. SubjectInv /\ [Next]_vars => SubjectInv'
  BY SubjectStep
<1>2. SubjectInv => ApprovedIsActive
  BY DEF SubjectInv
<1> QED BY <1>1, <1>2, SubjectInit, PTL DEF Spec

-----------------------------------------------------------------------------
(* The tables implement RegistrationLifecycle.  A handler's queries stutter and its  *)
(* commit is the abstract operation, because what the queries found still holds; the *)
(* participants of a shift are the approved registrations of it.                     *)

JoinedCounts == \A s \in DOMAIN shift : shift[s].joined = Cardinality(Approved(s))

RefineInv == SubjectInv /\ JoinedCounts

LEMMA ApprovedFinite ==
    ASSUME TypeOK, NEW s
    PROVE  IsFiniteSet(Approved(s)) /\ Approved(s) \subseteq DOMAIN vol
<1>1. Approved(s) \subseteq DOMAIN vol /\ DOMAIN vol \subseteq 1..(nextId - 1)
  BY DEF TypeOK, Approved, RegsOf
<1>2. 1 \in Int /\ nextId - 1 \in Int
  BY DEF TypeOK
<1>3. IsFiniteSet(1..(nextId - 1))
  BY <1>2, FS_Interval
<1>4. IsFiniteSet(Approved(s))
  BY <1>1, <1>3, FS_Subset
<1> QED BY <1>1, <1>4

\* The abstract counters, once the tables agree with them.
LEMMA BecomeHolds ==
    ASSUME JoinedCounts', DOMAIN shift' = DOMAIN shift, NEW R, vol' = R
    PROVE  [s \in DOMAIN shift |-> shift[s].joined]' = Lifecycle!Count(R)
<1>1. \A s : Approved(s)' = {i \in DOMAIN R : R[i].shift = s /\ R[i].status = "approved"}
  BY DEF Approved, RegsOf
<1>2. \A s \in DOMAIN shift' : shift'[s].joined = Cardinality(Approved(s)')
  BY DEF JoinedCounts, Approved, RegsOf
<1>3. \A s \in DOMAIN shift :
          shift'[s].joined
            = Cardinality({i \in DOMAIN R : R[i].shift = s /\ R[i].status = "approved"})
  BY <1>1, <1>2
<1>4. PICK c : c = Lifecycle!Count(R)
  OBVIOUS
<1>5. c = [s \in DOMAIN [t \in DOMAIN shift |-> shift[t].joined] |->
              Cardinality({i \in DOMAIN R : R[i].shift = s /\ R[i].status = "approved"})]
  BY ONLY <1>4 DEF Lifecycle!Count, Lifecycle!Cardinality, Cardinality
<1>6. c = [s \in DOMAIN shift |->
              Cardinality({i \in DOMAIN R : R[i].shift = s /\ R[i].status = "approved"})]
  BY ONLY <1>5
<1>7. c = [s \in DOMAIN shift' |-> shift'[s].joined]
  BY <1>3, <1>6
<1> QED BY <1>4, <1>7

\* A step that leaves the approved registrations alone, and the participants.
LEMMA CountsStay ==
    ASSUME JoinedCounts, DOMAIN shift' \subseteq DOMAIN shift,
           \A s \in DOMAIN shift' : /\ shift'[s].joined = shift[s].joined
                                    /\ Approved(s)' = Approved(s)
    PROVE  JoinedCounts'
  BY DEF JoinedCounts

\* A registration that becomes approved, one participant more.
LEMMA CountsAdd ==
    ASSUME TypeOK, JoinedCounts, DOMAIN shift' = DOMAIN shift,
           NEW s \in DOMAIN shift, NEW i, i \notin Approved(s),
           shift'[s].joined = shift[s].joined + 1, Approved(s)' = Approved(s) \cup {i},
           \A t \in DOMAIN shift : t # s => /\ shift'[t].joined = shift[t].joined
                                            /\ Approved(t)' = Approved(t)
    PROVE  JoinedCounts'
<1>1. IsFiniteSet(Approved(s))
  BY ApprovedFinite
<1>2. Cardinality(Approved(s) \cup {i}) = Cardinality(Approved(s)) + 1
  BY <1>1, FS_AddElement
<1>3. \A t \in DOMAIN shift : shift'[t].joined = Cardinality(Approved(t)')
  BY <1>2 DEF JoinedCounts
<1> QED BY <1>3 DEF JoinedCounts

\* A registration that is approved no more, one participant less.
LEMMA CountsRemove ==
    ASSUME TypeOK, JoinedCounts, DOMAIN shift' = DOMAIN shift,
           NEW s \in DOMAIN shift, NEW i, i \in Approved(s),
           shift'[s].joined = shift[s].joined - 1, Approved(s)' = Approved(s) \ {i},
           \A t \in DOMAIN shift : t # s => /\ shift'[t].joined = shift[t].joined
                                            /\ Approved(t)' = Approved(t)
    PROVE  JoinedCounts'
<1>1. IsFiniteSet(Approved(s))
  BY ApprovedFinite
<1>2. Cardinality(Approved(s) \ {i}) = Cardinality(Approved(s)) - 1
  BY <1>1, FS_RemoveElement
<1>3. \A t \in DOMAIN shift : shift'[t].joined = Cardinality(Approved(t)')
  BY <1>2 DEF JoinedCounts
<1> QED BY <1>3 DEF JoinedCounts

\* join
LEMMA JoinRefines ==
    ASSUME RefineInv, NEW h \in Handlers, JoinCommit(h)
    PROVE  JoinedCounts' /\ Lifecycle!Next
<1> DEFINE r == req[h]
<1>0. TypeOK /\ JoinedCounts
  BY DEF RefineInv, SubjectInv, ActiveInv
<1>1. /\ r.op = "join" /\ r.at = "commit" /\ r.s \in DOMAIN shift /\ nextId <= MaxRegs
      /\ vol' = [i \in DOMAIN vol \cup {nextId} |->
                    IF i = nextId THEN NewReg(r.by, r.s)
                    ELSE [vol[i] EXCEPT !.active = @ /\ i \notin r.match]]
      /\ UNCHANGED shift
  BY DEF JoinCommit
<1>2. \A i \in DOMAIN vol : vol[i] \in RegRow /\ i # nextId
  BY <1>0 DEF TypeOK
<1>3. \A s : Approved(s)' = Approved(s)
  <2>1. DOMAIN vol' = DOMAIN vol \cup {nextId} /\ vol'[nextId].status = "pending"
    BY <1>1 DEF NewReg
  <2>2. ASSUME NEW i \in DOMAIN vol
        PROVE  vol'[i].status = vol[i].status /\ vol'[i].shift = vol[i].shift
    <3>1. vol'[i] = [vol[i] EXCEPT !.active = @ /\ i \notin r.match]
      BY <1>1, <1>2
    <3> QED BY <1>2, <3>1 DEF RegRow
  <2> QED BY <2>1, <2>2 DEF Approved, RegsOf
<1>4. JoinedCounts'
  BY <1>0, <1>1, <1>3, CountsStay
<1>5. /\ \A i \in ActiveRegs(r.by, r.s) : vol[i].status \notin {"pending", "approved"}
      /\ r.match \cap DOMAIN vol = ActiveRegs(r.by, r.s)
  BY <1>1 DEF RefineInv, SubjectInv, Settled, Replaceable
<1>6. /\ r.by \in Accounts /\ r.s \in Shifts /\ nextId \in 1..MaxRegs
      /\ nextId \notin DOMAIN vol
  BY <1>0, <1>1 DEF TypeOK, RequestRecord, ClientOps
<1>7. PICK a \in Accounts, s \in Shifts, id \in 1..MaxRegs :
          a = r.by /\ s = r.s /\ id = nextId
  BY <1>6
<1>8. Lifecycle!Current(a, s) = ActiveRegs(a, s)
  BY DEF Lifecycle!Current, ActiveRegs, RegsOf
<1>9. vol' = [i \in DOMAIN vol \cup {id} |->
                  IF i = id
                  THEN [acct |-> a, shift |-> s, status |-> "pending", active |-> TRUE]
                  ELSE [vol[i] EXCEPT !.active = @ /\ i \notin Lifecycle!Current(a, s)]]
  <2>1. \A i \in DOMAIN vol : i \in r.match <=> i \in ActiveRegs(a, s)
    BY <1>5, <1>7
  <2> QED BY <1>1, <1>7, <1>8, <2>1 DEF NewReg
<1>10. Lifecycle!Register(a, s, id)
  <2>1. DOMAIN shift' = DOMAIN shift
    BY <1>1
  <2>2. PICK R : R = [i \in DOMAIN vol \cup {id} |->
                  IF i = id
                  THEN [acct |-> a, shift |-> s, status |-> "pending", active |-> TRUE]
                  ELSE [vol[i] EXCEPT !.active = @ /\ i \notin Lifecycle!Current(a, s)]]
    OBVIOUS
  <2>3. vol' = R
    BY <1>9, <2>2
  <2>4. [t \in DOMAIN shift |-> shift[t].joined]' = Lifecycle!Count(R)
    BY <1>4, <2>1, <2>3, BecomeHolds
  <2>5. \A i \in Lifecycle!Current(a, s) : vol[i].status \notin {"pending", "approved"}
    BY <1>5, <1>7, <1>8
  <2>6. id \notin DOMAIN vol /\ s \in DOMAIN [t \in DOMAIN shift |-> shift[t].joined]
    BY <1>1, <1>6, <1>7
  <2> QED BY <2>2, <2>3, <2>4, <2>5, <2>6 DEF Lifecycle!Register, Lifecycle!Become
<1> QED BY <1>4, <1>10 DEF Lifecycle!Next

\* How the status of one registration changes the approved ones.
LEMMA ApprovedAfter ==
    ASSUME TypeOK, NEW i \in DOMAIN vol, NEW status,
           vol' = [vol EXCEPT ![i].status = status], NEW s
    PROVE  /\ s # vol[i].shift => Approved(s)' = Approved(s)
           /\ s = vol[i].shift => Approved(s)' = IF status = "approved"
                                                 THEN Approved(s) \cup {i}
                                                 ELSE Approved(s) \ {i}
<1>1. /\ DOMAIN vol' = DOMAIN vol /\ vol'[i].status = status
      /\ \A j \in DOMAIN vol : /\ vol'[j].shift = vol[j].shift
                               /\ j # i => vol'[j].status = vol[j].status
  BY DEF TypeOK, RegRow
<1> QED BY <1>1 DEF Approved, RegsOf

\* The commit that changes one registration is the abstract change of it.
LEMMA ChangeRefines ==
    ASSUME JoinedCounts', DOMAIN shift' = DOMAIN shift,
           NEW i \in DOMAIN vol, NEW from, NEW to,
           vol[i].active, vol[i].status \in from, vol' = [vol EXCEPT ![i].status = to]
    PROVE  Lifecycle!Change(i, from, to)
<1>1. PICK R : R = [vol EXCEPT ![i].status = to]
  OBVIOUS
<1>2. [s \in DOMAIN shift |-> shift[s].joined]' = Lifecycle!Count(R)
  BY <1>1, BecomeHolds
<1> QED BY <1>1, <1>2 DEF Lifecycle!Change, Lifecycle!Become

\* cancelJoin, reject
LEMMA CancelRefines ==
    ASSUME RefineInv, NEW h \in Handlers, CancelCommit(h) \/ RejectCommit(h)
    PROVE  JoinedCounts' /\ Lifecycle!Next
<1>0. TypeOK /\ JoinedCounts /\ Settled(req[h])
  BY DEF RefineInv, SubjectInv, ActiveInv
<1>1. PICK i \in DOMAIN vol : i = req[h].id
  BY DEF CancelCommit, RejectCommit
<1>2. PICK to \in {"cancelled", "rejected"} :
          /\ vol' = [vol EXCEPT ![i].status = to] /\ UNCHANGED shift
          /\ to = "cancelled" <=> CancelCommit(h)
  BY <1>1 DEF CancelCommit, RejectCommit
<1>3. vol[i].active /\ vol[i].status \in {"pending"}
  BY <1>0, <1>1 DEF CancelCommit, RejectCommit, Settled, Selected, From, CensorOps
<1>4. \A s : Approved(s)' = Approved(s)
  <2> SUFFICES ASSUME NEW s PROVE Approved(s)' = Approved(s)
    OBVIOUS
  <2>1. Approved(s) \ {i} = Approved(s)
    BY <1>3 DEF Approved
  <2>2. to # "approved"
    OBVIOUS
  <2> QED BY <1>0, <1>2, <2>1, <2>2, ApprovedAfter
<1>5. JoinedCounts'
  BY <1>0, <1>2, <1>4, CountsStay
<1>6. Lifecycle!Change(i, {"pending"}, to)
  BY <1>2, <1>3, <1>5, ChangeRefines
<1>7. Lifecycle!Cancel(i) \/ Lifecycle!Reject(i)
  BY <1>2, <1>6 DEF Lifecycle!Cancel, Lifecycle!Reject
<1> QED BY <1>5, <1>7 DEF Lifecycle!Next

\* leave, remove
LEMMA LeaveRefines ==
    ASSUME SameShiftUrls, RefineInv, NEW h \in Handlers, LeaveCommit(h) \/ RemoveCommit(h)
    PROVE  JoinedCounts' /\ Lifecycle!Next
<1>0. TypeOK /\ JoinedCounts /\ Settled(req[h]) /\ UrlsAgree
  BY DEF RefineInv, SubjectInv, ActiveInv
<1>1. PICK i \in DOMAIN vol, s \in DOMAIN shift : i = req[h].id /\ s = req[h].s
  BY DEF LeaveCommit, RemoveCommit, GiveBack
<1>2. PICK to \in {"left", "removed"} :
          /\ vol' = [vol EXCEPT ![i].status = to]
          /\ shift' = [shift EXCEPT ![s] = Move(@, -1, req[h].view.n # NULL)]
          /\ to = "left" <=> LeaveCommit(h)
  BY <1>1 DEF LeaveCommit, RemoveCommit, GiveBack
<1>3. vol[i].active /\ vol[i].status \in {"approved"}
  BY <1>0, <1>1 DEF LeaveCommit, RemoveCommit, GiveBack, Settled, Selected, From, CensorOps
<1>4. vol[i].shift = s
  <2>1. CASE LeaveCommit(h)
    BY <1>0, <1>1, <2>1 DEF LeaveCommit, GiveBack, Settled, Selected, ClientOps
  <2>2. CASE RemoveCommit(h)
    BY <1>0, <1>1, <2>2 DEF RemoveCommit, UrlsAgree, IdsOf, CensorOps
  <2> QED BY <2>1, <2>2
<1>5. i \in Approved(s)
  BY <1>3, <1>4 DEF Approved, RegsOf
<1>6. /\ Approved(s)' = Approved(s) \ {i}
      /\ \A t : t # s => Approved(t)' = Approved(t)
  BY <1>0, <1>2, <1>4, ApprovedAfter
<1>7. /\ DOMAIN shift' = DOMAIN shift /\ shift'[s].joined = shift[s].joined - 1
      /\ \A t \in DOMAIN shift : t # s => shift'[t].joined = shift[t].joined
  <2>1. shift[s] \in ShiftRow
    BY <1>0 DEF TypeOK
  <2> QED BY <1>2, <2>1 DEF Move, ShiftRow
<1>8. JoinedCounts'
  BY <1>0, <1>5, <1>6, <1>7, CountsRemove
<1>9. Lifecycle!Change(i, {"approved"}, to)
  BY <1>2, <1>3, <1>7, <1>8, ChangeRefines
<1>10. Lifecycle!Leave(i) \/ Lifecycle!Remove(i)
  BY <1>2, <1>9 DEF Lifecycle!Leave, Lifecycle!Remove
<1> QED BY <1>8, <1>10 DEF Lifecycle!Next

\* approve
LEMMA ApproveRefines ==
    ASSUME SameShiftUrls, RefineInv, NEW h \in Handlers, ApproveCommit(h)
    PROVE  JoinedCounts' /\ Lifecycle!Next
<1>0. TypeOK /\ JoinedCounts /\ Settled(req[h]) /\ UrlsAgree
  BY DEF RefineInv, SubjectInv, ActiveInv
<1>1. PICK i \in DOMAIN vol, s \in DOMAIN shift : i = req[h].id /\ s = req[h].s
  BY DEF ApproveCommit
<1>2. vol[i].shift = s /\ req[h].op = "approve" /\ req[h].at = "commit"
  BY <1>0, <1>1 DEF ApproveCommit, UrlsAgree, IdsOf, CensorOps
<1>3. vol[i].active /\ vol[i].status \in {"pending", "rejected", "removed"}
  BY <1>0, <1>1, <1>2 DEF Settled, Selected, From, CensorOps
<1>4. PICK C \in SUBSET DOMAIN vol : C = CancelledWith(req[h])
  BY DEF CancelledWith
<1>5. /\ i \notin C
      /\ \A c \in C : vol[c].active /\ vol[c].status = "pending" /\ vol[c].shift # vol[i].shift
      /\ \A c, d \in C : vol[c].acct = vol[d].acct
  BY <1>1, <1>2, <1>4 DEF CancelledWith
<1>6. PICK R : R = [k \in DOMAIN vol |->
                      IF k = i THEN [vol[k] EXCEPT !.status = "approved"]
                      ELSE IF k \in C THEN [vol[k] EXCEPT !.status = "cancelled"]
                      ELSE vol[k]]
  OBVIOUS
<1>7. vol' = R
  BY <1>1, <1>4, <1>6 DEF ApproveCommit
<1>8. /\ DOMAIN vol' = DOMAIN vol /\ vol'[i].status = "approved" /\ vol'[i].shift = s
      /\ \A k \in DOMAIN vol : /\ vol'[k].shift = vol[k].shift
                               /\ k # i => (vol'[k].status = "approved"
                                                <=> vol[k].status = "approved")
  <2>1. \A k \in DOMAIN vol : vol[k] \in RegRow
    BY <1>0 DEF TypeOK
  <2> QED BY <1>2, <1>5, <1>6, <1>7, <2>1 DEF RegRow
<1>9. /\ i \notin Approved(s) /\ Approved(s)' = Approved(s) \cup {i}
      /\ \A t : t # s => Approved(t)' = Approved(t)
  BY <1>2, <1>3, <1>8 DEF Approved, RegsOf
<1>10. /\ DOMAIN shift' = DOMAIN shift /\ shift'[s].joined = shift[s].joined + 1
       /\ \A t \in DOMAIN shift : t # s => shift'[t].joined = shift[t].joined
  <2>1. shift[s] \in ShiftRow
    BY <1>0 DEF TypeOK
  <2>2. shift' = [shift EXCEPT ![s] = Move(@, 1, req[h].view.n # NULL)]
    BY <1>1 DEF ApproveCommit
  <2> QED BY <2>1, <2>2 DEF Move, ShiftRow
<1>11. JoinedCounts'
  BY <1>0, <1>9, <1>10, CountsAdd
<1>12. [t \in DOMAIN shift |-> shift[t].joined]' = Lifecycle!Count(R)
  BY <1>7, <1>10, <1>11, BecomeHolds
<1>13. Lifecycle!Approve(i, C)
  BY <1>3, <1>5, <1>6, <1>7, <1>12 DEF Lifecycle!Approve, Lifecycle!Become
<1>14. C \in SUBSET (DOMAIN vol \ {i})
  BY <1>5
<1> QED BY <1>11, <1>13, <1>14 DEF Lifecycle!Next

\* deleteShift
LEMMA DeleteRefines ==
    ASSUME RefineInv, NEW s \in Shifts, DeleteShift(s)
    PROVE  JoinedCounts' /\ Lifecycle!Next
<1>1. /\ s \in DOMAIN shift
      /\ shift' = [t \in DOMAIN shift \ {s} |-> shift[t]]
      /\ vol' = [i \in DOMAIN vol \ RegsOf(s) |-> vol[i]]
  BY DEF DeleteShift
<1>2. DOMAIN shift' = DOMAIN shift \ {s} /\ \A t \in DOMAIN shift' : shift'[t] = shift[t]
  BY <1>1
<1>3. \A t \in DOMAIN shift' : Approved(t)' = Approved(t)
  BY <1>1, <1>2 DEF Approved, RegsOf
<1>4. JoinedCounts'
  BY <1>2, <1>3, CountsStay DEF RefineInv
<1>5. vol' = [i \in {k \in DOMAIN vol : vol[k].shift # s} |-> vol[i]]
  <2>1. DOMAIN vol \ RegsOf(s) = {k \in DOMAIN vol : vol[k].shift # s}
    BY DEF RegsOf
  <2> QED BY <1>1, <2>1
<1>6. PICK j : j = [t \in DOMAIN shift |-> shift[t].joined]
  OBVIOUS
<1>7. s \in DOMAIN j /\ [t \in DOMAIN shift |-> shift[t].joined]'
                          = [t \in DOMAIN j \ {s} |-> j[t]]
  BY <1>1, <1>2, <1>6
<1>8. Lifecycle!Delete(s)
  BY <1>5, <1>6, <1>7 DEF Lifecycle!Delete
<1> QED BY <1>4, <1>8 DEF Lifecycle!Next

\* A step that writes no registration and no participants.
LEMMA StutterRefines ==
    ASSUME RefineInv, UNCHANGED vol, DOMAIN shift' = DOMAIN shift,
           \A s \in DOMAIN shift : shift'[s].joined = shift[s].joined
    PROVE  JoinedCounts' /\ UNCHANGED Lifecycle!vars
<1>1. \A s : Approved(s)' = Approved(s)
  BY DEF Approved, RegsOf
<1>2. JoinedCounts'
  BY <1>1, CountsStay DEF RefineInv
<1>3. [s \in DOMAIN shift |-> shift[s].joined]' = [s \in DOMAIN shift |-> shift[s].joined]
  OBVIOUS
<1> QED BY <1>2, <1>3 DEF Lifecycle!vars

LEMMA RefineStep ==
    ASSUME SameShiftUrls, RefineInv, [Next]_vars
    PROVE  JoinedCounts' /\ [Lifecycle!Next]_(Lifecycle!vars)
<1>0. TypeOK
  BY DEF RefineInv, SubjectInv, ActiveInv
<1>1. ASSUME NEW h \in Handlers, Request(h) \/ Step(h) \/ Abort(h)
      PROVE  JoinedCounts' /\ [Lifecycle!Next]_(Lifecycle!vars)
  <2>1. CASE JoinCommit(h)
    BY <2>1, JoinRefines
  <2>2. CASE CancelCommit(h) \/ RejectCommit(h)
    BY <2>2, CancelRefines
  <2>3. CASE LeaveCommit(h) \/ RemoveCommit(h)
    BY <2>3, LeaveRefines
  <2>4. CASE ApproveCommit(h)
    BY <2>4, ApproveRefines
  <2>5. CASE UpdateCommit(h)
    <3>1. UNCHANGED vol /\ shift' = [shift EXCEPT ![req[h].s] = Edited(@, req[h])]
      BY <2>5 DEF UpdateCommit
    <3>2. \A s \in DOMAIN shift : Edited(shift[s], req[h]).joined = shift[s].joined
      BY <1>0 DEF TypeOK, ShiftRow, Edited
    <3> QED BY <3>1, <3>2, StutterRefines
  <2>6. CASE Request(h) \/ Read(h) \/ Abort(h)
    <3>1. UNCHANGED <<shift, vol>>
      BY <1>0, <2>6, RequestBegins, ReadMoves DEF Abort
    <3> QED BY <3>1, StutterRefines
  <2> QED BY <1>1, <2>1, <2>2, <2>3, <2>4, <2>5, <2>6 DEF Step, Read
<1>2. ASSUME NEW s \in Shifts, RefreshStatus(s)
      PROVE  JoinedCounts' /\ UNCHANGED Lifecycle!vars
  <2>1. PICK w, t : shift' = [shift EXCEPT ![s].status = StatusAt(w, t)]
    BY <1>2 DEF RefreshStatus
  <2>2. UNCHANGED vol /\ DOMAIN shift' = DOMAIN shift
        /\ \A u \in DOMAIN shift : shift'[u].joined = shift[u].joined
    BY <1>0, <1>2, <2>1 DEF RefreshStatus, TypeOK, ShiftRow
  <2> QED BY <2>2, StutterRefines
<1>3. CASE Tick \/ UNCHANGED vars
  BY <1>3, StutterRefines DEF Tick, vars
<1> QED BY <1>1, <1>2, <1>3, DeleteRefines DEF Next

LEMMA RefineInit == Init => RefineInv
<1> SUFFICES ASSUME Init PROVE RefineInv
  OBVIOUS
<1>1. \A s \in DOMAIN shift : shift[s].joined = 0
  BY DEF Init, NewShift
<1>2. \A s : Approved(s) = {}
  BY DEF Init, Approved, RegsOf
<1> QED BY <1>1, <1>2, SubjectInit, FS_EmptySet DEF RefineInv, JoinedCounts

\* The tables implement the lifecycle: every request is an atomic operation of
\* RegistrationLifecycle at its commit, and the participants of a shift are counted,
\* provided that no two requests in flight are about the same account (or there is one
\* at a time), and that the shift in a URL is the shift of the registration in it.
THEOREM TablesImplementLifecycle ==
    ASSUME Isolation = "subject" \/ Sequential, SameShiftUrls
    PROVE  Spec => ImplementsLifecycle
<1>1. Init => Lifecycle!Init
  <2> SUFFICES ASSUME Init PROVE Lifecycle!Init
    OBVIOUS
  <2>1. DOMAIN shift = Shifts /\ \A s \in Shifts : shift[s].joined = 0
    BY DEF Init, NewShift
  <2>2. [s \in DOMAIN shift |-> shift[s].joined] \in [Shifts -> {0}]
    BY <2>1
  <2>3. vol = <<>>
    BY DEF Init
  <2> QED BY <2>2, <2>3 DEF Lifecycle!Init
<1>2. RefineInv /\ [Next]_vars => RefineInv'
  BY SubjectStep, RefineStep DEF RefineInv
<1>3. RefineInv /\ [Next]_vars => [Lifecycle!Next]_(Lifecycle!vars)
  BY RefineStep
<1> QED BY RefineInit, <1>1, <1>2, <1>3, PTL DEF Spec, ImplementsLifecycle, Lifecycle!Spec

-----------------------------------------------------------------------------
(* A limited shift is never shown with fewer free places than its limit leaves, when *)
(* requests do not overlap.  updateShift computes them from the approved rows, so the *)
(* argument needs that the participants count those; and a request that moves the     *)
(* counters must have seen the limit that is in force.                                *)

\* What a request knows of its shift is so: its limit, and for an update the free
\* places that the new limit leaves.
Counted(r) ==
    /\ r.at \in {"rows", "match", "commit"} /\ r.s \in DOMAIN shift
          => r.view.n = shift[r.s].n
    /\ r.op = "update" /\ r.at = "commit" /\ r.s \in DOMAIN shift
          => \/ SameLimit(r.dto.n, r.view.n) /\ r.slots = UNDEF
             \/ r.dto.n \in {NULL, UNDEF} /\ r.slots = NULL
             \/ r.dto.n \in Nat /\ r.slots = FreeSlots(r.dto.n, shift[r.s].joined)

CoverInv == RefineInv /\ SlotsCoverFree /\ \A h \in Handlers : Counted(req[h])

\* The query of an update counts the participants.
LEMMA UpdateCounts ==
    ASSUME TypeOK, JoinedCounts, NEW h \in Handlers, Counted(req[h]), UpdateCount(h)
    PROVE  Counted(req[h])'
<1>1. PICK q : q = req[h]
  OBVIOUS
<1>2. /\ q \in RequestRecord /\ q.op = "update" /\ q.at = "rows"
      /\ q.dto.n \in OrNull(Nat) \cup {UNDEF}
  BY <1>1 DEF TypeOK, UpdateCount, RequestRecord
<1>3. PICK slots :
          /\ req' = [req EXCEPT ![h] = [q EXCEPT !.at = "commit", !.slots = slots]]
          /\ \/ SameLimit(q.dto.n, q.view.n) /\ slots = UNDEF
             \/ ~ SameLimit(q.dto.n, q.view.n) /\ q.dto.n \in {NULL, UNDEF} /\ slots = NULL
             \/ /\ ~ SameLimit(q.dto.n, q.view.n) /\ q.dto.n \notin {NULL, UNDEF}
                /\ slots = FreeSlots(q.dto.n, Cardinality(Approved(q.s)))
  <2> DEFINE e == CASE SameLimit(q.dto.n, q.view.n) -> UNDEF
                    [] ~ SameLimit(q.dto.n, q.view.n) /\ q.dto.n \in {NULL, UNDEF} -> NULL
                    [] OTHER -> FreeSlots(q.dto.n, Cardinality(Approved(q.s)))
  <2>1. req' = [req EXCEPT ![h] = [q EXCEPT !.at = "commit", !.slots = e]]
    BY <1>1 DEF UpdateCount, TypeOK
  <2>2. \/ SameLimit(q.dto.n, q.view.n) /\ e = UNDEF
        \/ ~ SameLimit(q.dto.n, q.view.n) /\ q.dto.n \in {NULL, UNDEF} /\ e = NULL
        \/ /\ ~ SameLimit(q.dto.n, q.view.n) /\ q.dto.n \notin {NULL, UNDEF}
           /\ e = FreeSlots(q.dto.n, Cardinality(Approved(q.s)))
    OBVIOUS
  <2> HIDE DEF e
  <2> QED BY <2>1, <2>2
<1>4. PICK r : r = [q EXCEPT !.at = "commit", !.slots = slots]
  OBVIOUS
<1>5. /\ r.op = "update" /\ r.at = "commit" /\ r.s = q.s /\ r.view = q.view
      /\ r.dto = q.dto /\ r.slots = slots /\ req'[h] = r
  BY <1>2, <1>3, <1>4 DEF RequestRecord, TypeOK
<1>6. q.s \in DOMAIN shift
          => q.view.n = shift[q.s].n /\ Cardinality(Approved(q.s)) = shift[q.s].joined
  BY <1>1, <1>2 DEF Counted, JoinedCounts
<1>7. shift' = shift
  BY DEF UpdateCount
<1>8. Counted(r)'
  BY <1>2, <1>3, <1>5, <1>6, <1>7 DEF Counted, OrNull
<1> QED BY <1>5, <1>8

\* The counters move together, as the limit in force says.
LEMMA CoverMove ==
    ASSUME TypeOK, SlotsCoverFree, NEW s \in DOMAIN shift, NEW k \in Int,
           shift' = [shift EXCEPT ![s] = Move(@, k, shift[s].n # NULL)]
    PROVE  SlotsCoverFree'
<1>1. shift[s] \in ShiftRow
  BY DEF TypeOK
<1>2. /\ DOMAIN shift' = DOMAIN shift
      /\ \A t \in DOMAIN shift : t # s => shift'[t] = shift[t]
      /\ shift'[s].n = shift[s].n /\ shift'[s].joined = shift[s].joined + k
      /\ shift'[s].slots = IF shift[s].n # NULL THEN Plus(shift[s].slots, -k)
                           ELSE shift[s].slots
  BY <1>1 DEF Move, ShiftRow
<1>3. NULL \notin {shift'[s].n, shift'[s].slots}
          => shift'[s].slots >= shift'[s].n - shift'[s].joined
  <2> SUFFICES ASSUME shift[s].n # NULL, shift'[s].slots # NULL
               PROVE  shift'[s].slots >= shift'[s].n - shift'[s].joined
    BY <1>2
  <2>1. shift[s].slots # NULL /\ shift'[s].slots = shift[s].slots + (-k)
    BY <1>2 DEF Plus
  <2>2. shift[s].slots \in Int /\ shift[s].n \in Nat /\ shift[s].joined \in Int
    BY <1>1, <2>1 DEF ShiftRow, OrNull
  <2>3. shift[s].slots >= shift[s].n - shift[s].joined
    BY <2>1 DEF SlotsCoverFree
  <2> QED BY <1>2, <2>1, <2>2, <2>3
<1> QED BY <1>2, <1>3 DEF SlotsCoverFree

\* An update sets the free places along with the limit.
LEMMA CoverUpdate ==
    ASSUME TypeOK, SlotsCoverFree, NEW h \in Handlers, Counted(req[h]), UpdateCommit(h)
    PROVE  SlotsCoverFree'
<1>1. PICK r, s : r = req[h] /\ s = req[h].s
  OBVIOUS
<1>2. /\ r.op = "update" /\ r.at = "commit" /\ s \in DOMAIN shift /\ s = r.s
      /\ shift' = [shift EXCEPT ![s] = Edited(@, r)]
      /\ r \in RequestRecord /\ shift[s] \in ShiftRow
  BY <1>1 DEF UpdateCommit, TypeOK
<1>3. /\ DOMAIN shift' = DOMAIN shift
      /\ \A t \in DOMAIN shift : t # s => shift'[t] = shift[t]
      /\ shift'[s].n = Set(shift[s].n, r.dto.n) /\ shift'[s].joined = shift[s].joined
      /\ shift'[s].slots = Set(shift[s].slots, r.slots)
  BY <1>2 DEF Edited, ShiftRow
<1>4. /\ shift[s].n \in OrNull(Nat) /\ shift[s].joined \in Int
      /\ shift[s].slots \in OrNull(Int)
  BY <1>2 DEF ShiftRow
<1>5. NULL \notin {shift'[s].n, shift'[s].slots}
          => shift'[s].slots >= shift'[s].n - shift'[s].joined
  <2>1. CASE SameLimit(r.dto.n, r.view.n) /\ r.slots = UNDEF
    <3>1. shift'[s].n = shift[s].n /\ shift'[s].slots = shift[s].slots
      BY <1>1, <1>2, <1>3, <1>4, <2>1, NullsAssumption
         DEF Counted, SameLimit, Set, OrNull
    <3> QED BY <1>2, <1>3, <3>1 DEF SlotsCoverFree
  <2>2. CASE r.slots = NULL
    BY <1>3, <2>2, NullsAssumption DEF Set
  <2>3. CASE r.dto.n \in Nat /\ r.slots = FreeSlots(r.dto.n, shift[s].joined)
    <3>1. r.slots \in Int /\ r.slots >= r.dto.n - shift[s].joined
      BY <1>4, <2>3 DEF FreeSlots
    <3>2. shift'[s].n = r.dto.n /\ shift'[s].slots = r.slots
      BY <1>3, <2>3, <3>1, NullsAssumption DEF Set
    <3> QED BY <1>3, <3>1, <3>2
  <2> QED BY <1>1, <1>2, <2>1, <2>2, <2>3 DEF Counted
<1> QED BY <1>3, <1>5 DEF SlotsCoverFree

LEMMA CoverStep ==
    ASSUME Sequential, SameShiftUrls, CoverInv, [Next]_vars
    PROVE  CoverInv'
<1>0. TypeOK /\ JoinedCounts /\ SlotsCoverFree /\ \A h \in Handlers : Counted(req[h])
  BY DEF CoverInv, RefineInv, SubjectInv, ActiveInv
<1>1. RefineInv'
  BY SubjectStep, RefineStep DEF CoverInv, RefineInv
<1>2. ASSUME NEW h \in Handlers, Request(h) \/ Step(h) \/ Abort(h)
      PROVE  SlotsCoverFree' /\ \A g \in Handlers : Counted(req[g])'
  <2>1. CASE Ends(h)
    <3>1. Counted(req[h])'
      BY <1>0, <2>1, MovedIds DEF Counted
    <3>2. SlotsCoverFree'
      <4>1. CASE UpdateCommit(h)
        BY <1>0, <4>1, CoverUpdate
      <4>2. ASSUME NEW k \in Int, req[h].at = "commit", req[h].s \in DOMAIN shift,
                   shift' = [shift EXCEPT ![req[h].s] = Move(@, k, req[h].view.n # NULL)]
            PROVE  SlotsCoverFree'
        <5>1. PICK s \in DOMAIN shift : s = req[h].s
          BY <4>2
        <5>2. shift' = [shift EXCEPT ![s] = Move(@, k, shift[s].n # NULL)]
          BY <1>0, <4>2, <5>1 DEF Counted
        <5> QED BY <1>0, <5>2, CoverMove
      <4>3. CASE ApproveCommit(h)
        <5>1. 1 \in Int
          OBVIOUS
        <5> QED BY <4>2, <4>3, <5>1 DEF ApproveCommit
      <4>4. CASE LeaveCommit(h) \/ RemoveCommit(h)
        <5>1. -1 \in Int
          OBVIOUS
        <5> QED BY <4>2, <4>4, <5>1 DEF LeaveCommit, RemoveCommit, GiveBack
      <4>5. ASSUME UNCHANGED shift PROVE SlotsCoverFree'
        BY <1>0, <4>5 DEF SlotsCoverFree
      <4>6. CASE Request(h) \/ Read(h) \/ Abort(h)
        BY <1>0, <4>5, <4>6, RequestBegins, ReadMoves DEF Abort
      <4>7. CASE JoinCommit(h) \/ CancelCommit(h) \/ RejectCommit(h)
        BY <4>5, <4>7 DEF JoinCommit, CancelCommit, RejectCommit
      <4> QED BY <1>2, <4>1, <4>3, <4>4, <4>6, <4>7 DEF Step, Read
    <3> QED BY <3>1, <3>2 DEF Sequential
  <2>2. CASE ~ Ends(h) /\ UpdateCount(h)
    <3>1. Counted(req[h])' /\ SlotsCoverFree'
      BY <1>0, <2>2, UpdateCounts DEF UpdateCount, SlotsCoverFree
    <3> QED BY <3>1 DEF Sequential
  <2>3. CASE ~ Ends(h) /\ ~ UpdateCount(h)
    <3>1. PICK r \in RequestRecord : /\ req' = [req EXCEPT ![h] = r]
                                     /\ Fresh(r) \/ Reads(req[h], r)
      BY <1>0, <1>2, <2>3, HandlerMoves
    <3>2. req'[h] = r
      BY <1>0, <3>1 DEF TypeOK
    <3>3. Request(h) \/ Read(h)
      BY <1>2, <2>3 DEF Step, Read, Ends, Abort, JoinCommit, CancelCommit, LeaveCommit,
            ApproveCommit, RejectCommit, RemoveCommit, UpdateCommit, GiveBack
    <3>4. UNCHANGED shift
      BY <1>0, <3>3, RequestBegins, ReadMoves
    <3>5. r.at = "commit" => r.op # "update"
      <4>1. CASE Request(h)
        <5>1. PICK f \in RequestRecord : req' = [req EXCEPT ![h] = f] /\ Fresh(f)
          BY <1>0, <4>1, RequestBegins
        <5> QED BY <1>0, <3>2, <5>1 DEF Fresh, Names, TypeOK
      <4>2. CASE Read(h) /\ req[h].op = "update"
        <5>1. ReadShift(h)
          BY <2>3, <4>2 DEF Read, JoinRead, JoinMatch, CancelRead, LeaveRead, ApproveRead,
                            RejectRead, RemoveRead
        <5>2. ~ Finish(h)
          BY <2>3, <5>1 DEF Ends, ReadShift
        <5> QED BY <1>0, <3>2, <5>1, <5>2 DEF ReadShift, TypeOK, RequestRecord
      <4>3. CASE req[h].op # "update"
        BY <3>1, <3>2, <4>1, <4>3 DEF Fresh, Names, Reads
      <4> QED BY <3>3, <4>1, <4>2, <4>3
    <3>6. r.at \in {"rows", "match", "commit"} /\ r.s \in DOMAIN shift
             => r.view.n = shift[r.s].n
      BY <1>0, <3>1 DEF Fresh, Names, Reads, View, Counted
    <3>7. Counted(r)'
      BY <3>4, <3>5, <3>6 DEF Counted
    <3>8. Counted(req[h])' /\ SlotsCoverFree'
      BY <1>0, <3>2, <3>4, <3>7 DEF SlotsCoverFree
    <3> QED BY <3>8 DEF Sequential
  <2> QED BY <2>1, <2>2, <2>3
<1>3. ASSUME UNCHANGED req, DOMAIN shift' \subseteq DOMAIN shift,
             \A s \in DOMAIN shift' : /\ shift'[s].n = shift[s].n
                                      /\ shift'[s].slots = shift[s].slots
                                      /\ shift'[s].joined = shift[s].joined
      PROVE  SlotsCoverFree' /\ \A g \in Handlers : Counted(req[g])'
  <2>1. SlotsCoverFree'
    BY <1>0, <1>3 DEF SlotsCoverFree
  <2>2. ASSUME NEW g \in Handlers PROVE Counted(req[g])'
    <3>1. PICK r : r = req[g]
      OBVIOUS
    <3>2. Counted(r)'
      BY <1>0, <1>3, <3>1 DEF Counted
    <3> QED BY <1>3, <3>1, <3>2
  <2> QED BY <2>1, <2>2
<1>4. ASSUME NEW s \in Shifts, RefreshStatus(s)
      PROVE  SlotsCoverFree' /\ \A g \in Handlers : Counted(req[g])'
  <2>1. PICK w, t : shift' = [shift EXCEPT ![s].status = StatusAt(w, t)]
    BY <1>4 DEF RefreshStatus
  <2>2. /\ UNCHANGED req /\ DOMAIN shift' = DOMAIN shift
        /\ \A u \in DOMAIN shift : /\ shift'[u].n = shift[u].n
                                   /\ shift'[u].slots = shift[u].slots
                                   /\ shift'[u].joined = shift[u].joined
    BY <1>0, <1>4, <2>1 DEF RefreshStatus, TypeOK, ShiftRow
  <2> QED BY <1>3, <2>2
<1>5. ASSUME Tick \/ UNCHANGED vars \/ \E s \in Shifts : DeleteShift(s)
      PROVE  SlotsCoverFree' /\ \A g \in Handlers : Counted(req[g])'
  BY <1>3, <1>5 DEF Tick, vars, DeleteShift
<1> QED BY <1>1, <1>2, <1>4, <1>5 DEF Next, CoverInv

\* While requests do not overlap, nobody is told that a shift is full when its limit
\* leaves places, also after an edit of the limit (updateShift).
THEOREM SlotsCover ==
    ASSUME Sequential, SameShiftUrls
    PROVE  Spec => []SlotsCoverFree
<1>1. Init => CoverInv
  <2> SUFFICES ASSUME Init PROVE CoverInv
    OBVIOUS
  <2>1. RefineInv
    BY RefineInit
  <2>2. SlotsCoverFree
    <3>1. \A s \in DOMAIN shift : /\ shift[s].slots = shift[s].n /\ shift[s].joined = 0
                                  /\ shift[s].n \in Nat \cup {NULL}
      <4> SUFFICES ASSUME NEW s \in DOMAIN shift
                   PROVE  /\ shift[s].slots = shift[s].n /\ shift[s].joined = 0
                          /\ shift[s].n \in Nat \cup {NULL}
        OBVIOUS
      <4>1. PICK n \in Limits, w \in Windows : shift[s] = NewShift(n, w)
        BY DEF Init
      <4> QED BY <4>1, LimitsAssumption DEF NewShift
    <3> QED BY <3>1 DEF SlotsCoverFree
  <2>3. \A h \in Handlers : Counted(req[h])
    BY DEF Init, Idle, Counted
  <2> QED BY <2>1, <2>2, <2>3 DEF CoverInv
<1>2. CoverInv /\ [Next]_vars => CoverInv'
  BY CoverStep
<1>3. CoverInv => SlotsCoverFree
  BY DEF CoverInv
<1> QED BY <1>1, <1>2, <1>3, PTL DEF Spec
=============================================================================
