----------------------------- MODULE Attendance -----------------------------
(***************************************************************************)
(* Who came to a shift: checkIn, checkOut, verifyCheckInMany and           *)
(* verifyCheckInById of ShiftVolunteerService, for one shift and the       *)
(* registrations that have been approved for it; leave and remove take the *)
(* approval away, and approveOrReject gives it back to one that was        *)
(* removed.  The status of the shift, which these three look at, follows   *)
(* the clock late (ShiftTask): it is no guard here.                        *)
(*                                                                         *)
(* A handler looks at the row and at the clock, and writes by the id of    *)
(* the row: what it writes, and the instant it writes, are later than what *)
(* it looked at.                                                           *)
(***************************************************************************)
EXTENDS Requests

CONSTANTS
    Volunteers,           \* their accounts, one registration each
    Staff,                \* accounts that verify and remove
    StartTime, EndTime,
    CheckInMinutesLimit, CheckOutMinutesLimit, \* 0: none
    LastMinute            \* bound: the clock

ASSUME ShiftAssumption ==
    /\ {StartTime, EndTime, CheckInMinutesLimit, CheckOutMinutesLimit} \subseteq Nat
    /\ StartTime <= EndTime

VARIABLES
    minute, \* the clock
    row     \* the registration of each volunteer

attendanceVars == <<minute, row>>

\* isCheckInVerified and isCheckOutVerified are null until somebody says so or not.
Answers == {"null", "true", "false"}
Given == {"true", "false"}
RowStatuses == {"approved", "left", "removed"}

NewRow == [status |-> "approved", checkedIn |-> FALSE, checkInAt |-> 0,
           checkedOut |-> FALSE, checkOutAt |-> 0,
           isCheckInVerified |-> "null", isCheckOutVerified |-> "null"]

AttendanceRequest(h, op, by, v, arg) ==
    /\ Begin(h, [op |-> op, at |-> "write", by |-> by, on |-> {<<"row", v>>},
                 arg |-> arg, seen |-> v])
    /\ UNCHANGED attendanceVars

IsApproved(v) == row[v].status = "approved"

\* The row the request is about, and its update, by its id.
RowOf(h) == row[req[h].seen]
Write(h, op, updated) ==
    /\ At(h, op, "write")
    /\ row' = [row EXCEPT ![req[h].seen] = updated]
    /\ End(h)
    /\ UNCHANGED minute

-----------------------------------------------------------------------------

\* Mutants: checking in before the shift starts; checking in although the staff has
\* settled that; checking out without having checked in.
CanCheckInEarly(v) ==
    /\ row[v].isCheckInVerified = "null"
    /\ ~ row[v].checkedIn
    /\ minute <= EndTime
    /\ CheckInMinutesLimit # 0 => minute <= StartTime + CheckInMinutesLimit
CanCheckInSettled(v) ==
    /\ ~ row[v].checkedIn
    /\ StartTime <= minute /\ minute <= EndTime
    /\ CheckInMinutesLimit # 0 => minute <= StartTime + CheckInMinutesLimit
CanCheckOutUnseen(v) ==
    /\ row[v].isCheckOutVerified = "null"
    /\ ~ row[v].checkedOut
    /\ CheckOutMinutesLimit # 0 => minute <= EndTime + CheckOutMinutesLimit

\* checkCanCheckIn.
CanCheckIn(v) ==
    /\ row[v].isCheckInVerified = "null"
    /\ ~ row[v].checkedIn
    /\ StartTime <= minute /\ minute <= EndTime
    /\ CheckInMinutesLimit # 0 => minute <= StartTime + CheckInMinutesLimit

\* checkCanCheckOut.
CanCheckOut(v) ==
    /\ row[v].isCheckOutVerified = "null"
    /\ row[v].checkedIn /\ ~ row[v].checkedOut
    /\ CheckOutMinutesLimit # 0 => minute <= EndTime + CheckOutMinutesLimit

CheckIn(h) ==
    \/ \E v \in Volunteers :
        IsApproved(v) /\ CanCheckIn(v) /\ AttendanceRequest(h, "checkIn", v, v, 0)
    \/ Write(h, "checkIn", [RowOf(h) EXCEPT !.checkedIn = TRUE, !.checkInAt = minute])

CheckOut(h) ==
    \/ \E v \in Volunteers :
        IsApproved(v) /\ CanCheckOut(v) /\ AttendanceRequest(h, "checkOut", v, v, 0)
    \/ Write(h, "checkOut", [RowOf(h) EXCEPT !.checkedOut = TRUE, !.checkOutAt = minute])

-----------------------------------------------------------------------------

Verified(r, in, out) == [r EXCEPT !.isCheckInVerified = in, !.isCheckOutVerified = out]

\* verifyCheckInMany: each row is looked for and updated by one query, and those that are
\* not there, or not approved, are reported; the transaction commits the others together.
VerifyCheckInMany(h, p) ==
    \E said \in [Volunteers -> [in : Answers, out : Answers]] :
        /\ \A v \in Volunteers : said[v].in = "null" <=> said[v].out = "null"
        /\ \A g \in Handlers : Busy(g) =>
            ~ Waits([Idle EXCEPT !.by = p,
                                 !.on = {<<"row", v>> : v \in Volunteers}], req[g])
        /\ row' = [v \in Volunteers |->
                    IF IsApproved(v) /\ said[v].in # "null"
                    THEN Verified(row[v], said[v].in, said[v].out) ELSE row[v]]
        /\ UNCHANGED <<requestVars, minute>>

VerifyCheckInById(h) ==
    \/ \E p \in Staff, v \in Volunteers, in, out \in Given :
        IsApproved(v) /\ AttendanceRequest(h, "verify", p, v, <<in, out>>)
    \/ Write(h, "verify", Verified(RowOf(h), req[h].arg[1], req[h].arg[2]))

\* leave, remove, and approveOrReject: one who left is not approved again.
ChangeStatus(h) ==
    \/ \E v \in Volunteers :
        \/ IsApproved(v) /\ AttendanceRequest(h, "status", v, v, "left")
        \/ \E p \in Staff :
            \/ IsApproved(v) /\ AttendanceRequest(h, "status", p, v, "removed")
            \/ row[v].status = "removed" /\ AttendanceRequest(h, "status", p, v, "approved")
    \/ Write(h, "status", [RowOf(h) EXCEPT !.status = req[h].arg])

MinutePasses ==
    /\ minute < LastMinute
    /\ minute' = minute + 1
    /\ UNCHANGED <<requestVars, row>>

-----------------------------------------------------------------------------

AttendanceInit ==
    /\ minute = 0
    /\ row = [v \in Volunteers |-> NewRow]

AttendanceNext ==
    \/ \E h \in Handlers :
        \/ CheckIn(h) \/ CheckOut(h)
        \/ \E p \in Staff : VerifyCheckInMany(h, p)
        \/ VerifyCheckInById(h) \/ ChangeStatus(h)
        \/ Abort(h) /\ UNCHANGED attendanceVars
    \/ MinutePasses

allAttendanceVars == <<requestVars, attendanceVars>>
AttendanceSpec == RequestsInit /\ AttendanceInit /\ [][AttendanceNext]_allAttendanceVars

-----------------------------------------------------------------------------
(* Properties. *)

\* Types; and however requests race, nobody has checked in before the shift starts.
AttendanceTypeOK ==
    /\ minute \in Nat
    /\ row \in [Volunteers -> [status : RowStatuses, checkedIn : BOOLEAN, checkInAt : Nat,
                               checkedOut : BOOLEAN, checkOutAt : Nat,
                               isCheckInVerified : Answers, isCheckOutVerified : Answers]]
    /\ \A v \in Volunteers : row[v].checkedIn => row[v].checkInAt >= StartTime

\* A volunteer that waits for the answers has checked in before checking out, whatever
\* the staff does meanwhile.
CheckOutFollowsCheckIn ==
    manner # "any" =>
        \A v \in Volunteers : row[v].checkedOut =>
            row[v].checkedIn /\ row[v].checkInAt <= row[v].checkOutAt

Settled(r, r1) ==
    /\ (r.isCheckInVerified # "null" \/ r.status # "approved") =>
        r1.checkedIn = r.checkedIn /\ r1.checkInAt = r.checkInAt
    /\ (r.isCheckOutVerified # "null" \/ r.status # "approved") =>
        r1.checkedOut = r.checkedOut /\ r1.checkOutAt = r.checkOutAt

\* If requests about a registration keep apart, attendance that the staff has settled, or
\* that of somebody who is no longer approved, is never written again.
SettledStaysSettled ==
    [][(manner \in {"subject", "serial"}) =>
        \A v \in Volunteers : Settled(row[v], row'[v])]_row
=============================================================================
