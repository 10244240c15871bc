--------------------------- MODULE ActivityWindow ---------------------------
(***************************************************************************)
(* The window of one activity, from the first start to the last end of its *)
(* shifts: what createShift, updateShift and deleteShift of ShiftService   *)
(* do to it.  ShiftRegistration has what they do to places and             *)
(* registrations.                                                          *)
(*                                                                         *)
(* Each has a transaction, but createShift and deleteShift write the shift *)
(* on the service's own connection, which commits before the rest of the   *)
(* transaction and stays if the rest fails.                                *)
(***************************************************************************)
EXTENDS Requests, FiniteSetsExt

CONSTANTS
    Instants,  \* when shifts start and end
    MaxShifts  \* bound: shifts that are created

ASSUME InstantsAssumption == Instants \subseteq Nat

VARIABLES
    window,  \* of the shifts, by id
    span,    \* startTime and endTime of the activity
    created, \* shifts that have been created
    missed   \* history: shifts stored by a createShift that failed to widen the window

windowVars == <<window, span, created, missed>>

\* Both instants are null.
NoWindow == [from |-> -1, to |-> -1]

\* A shift may end before it starts: the check of the dates skips one that does.
Windows == [from : Instants, to : Instants]

\* What an update may leave as it is.
Same == -1
Changes == [from : Instants \cup {Same}, to : Instants \cup {Same}]
Moved(w, c) == [from |-> IF c.from = Same THEN w.from ELSE c.from,
                to   |-> IF c.to = Same THEN w.to ELSE c.to]

ShiftIds == DOMAIN window
WindowsOf(S) == {window[s] : s \in S}

\* min and max of the starts and of the ends, or null.
Hull(W) == IF W = {} THEN NoWindow
           ELSE [from |-> Min({w.from : w \in W}), to |-> Max({w.to : w \in W})]

\* Mutant: a window that is null is taken for an early instant.
WidenedFromNull(p, w) == Hull({p, w})

Widened(p, w) == Hull({p, w} \ {NoWindow})

WindowRequest(h, op, at, arg, seen) ==
    /\ Begin(h, [op |-> op, at |-> at, by |-> 0, on |-> {"window"},
                 arg |-> arg, seen |-> seen])
    /\ UNCHANGED windowVars

\* The last query of each comes next; it has a window p to go by, and is about the shifts S.
GotoSpan(h, p, S) == Goto(h, "span", [span |-> p, shifts |-> S])

\* It writes the window of the activity.
WriteSpan(h, op, p) ==
    /\ At(h, op, "span")
    /\ span' = p
    /\ missed' = missed \ req[h].seen.shifts
    /\ End(h)
    /\ UNCHANGED created

-----------------------------------------------------------------------------

\* createShift: the activity is read, the shift stored, the activity written.
CreateShiftRead(h) ==
    /\ created < MaxShifts
    /\ \E w \in Windows : WindowRequest(h, "create", "store", w, span)

CreateShiftStore(h) ==
    /\ At(h, "create", "store")
    /\ created < MaxShifts
    /\ created' = created + 1
    /\ window' = [s \in ShiftIds \cup {created'} |->
                    IF s = created' THEN req[h].arg ELSE window[s]]
    /\ GotoSpan(h, req[h].seen, {created'})
    /\ UNCHANGED <<span, missed>>

CreateShiftSpan(h) ==
    /\ WriteSpan(h, "create", Widened(req[h].seen.span, req[h].arg))
    /\ UNCHANGED window

CreateShift(h) == CreateShiftRead(h) \/ CreateShiftStore(h) \/ CreateShiftSpan(h)

\* updateShift: the shift is looked up; in the transaction it is written, which locks its
\* row, and the activity is read; then the activity is written, and both commit.
UpdateShiftStart(h) ==
    \E s \in ShiftIds, c \in Changes :
        WindowRequest(h, "update", "write", [shift |-> s, change |-> c], 0)

Locked(s) == \E g \in Handlers : At(g, "update", "span") /\ req[g].arg.shift = s

UpdateShiftWrite(h) ==
    /\ At(h, "update", "write")
    /\ ~ Locked(req[h].arg.shift)
    /\ IF req[h].arg.shift \in ShiftIds THEN GotoSpan(h, span, {req[h].arg.shift}) ELSE End(h)
    /\ UNCHANGED windowVars

\* The window of its shift, when h has written it.
WindowAfter(h) == Moved(window[req[h].arg.shift], req[h].arg.change)

\* Mutant: the activity is left alone.
UpdateShiftAlone(h) ==
    /\ At(h, "update", "span")
    /\ window' = [window EXCEPT ![req[h].arg.shift] = WindowAfter(h)]
    /\ End(h)
    /\ UNCHANGED <<span, created, missed>>

UpdateShiftCommit(h) ==
    /\ WriteSpan(h, "update", Widened(req[h].seen.span, WindowAfter(h)))
    /\ window' = [window EXCEPT ![req[h].arg.shift] = WindowAfter(h)]

UpdateShift(h) == UpdateShiftStart(h) \/ UpdateShiftWrite(h) \/ UpdateShiftCommit(h)

\* deleteShift: the shift is deleted, the shifts that remain are read, and the activity is
\* written.
DeleteShiftDelete(h) ==
    \E s \in ShiftIds :
        /\ ~ Locked(s)
        /\ Begin(h, [op |-> "delete", at |-> "read", by |-> 0, on |-> {"window"},
                     arg |-> 0, seen |-> 0])
        /\ window' = [i \in ShiftIds \ {s} |-> window[i]]
        /\ UNCHANGED <<span, created, missed>>

DeleteShiftRead(h) ==
    /\ At(h, "delete", "read")
    /\ GotoSpan(h, Hull(WindowsOf(ShiftIds)), ShiftIds)
    /\ UNCHANGED windowVars

DeleteShiftSpan(h) == WriteSpan(h, "delete", req[h].seen.span) /\ UNCHANGED window

DeleteShift(h) == DeleteShiftDelete(h) \/ DeleteShiftRead(h) \/ DeleteShiftSpan(h)

\* A query rejects, and the transaction is rolled back: but the shift that createShift has
\* stored stays, and the one that deleteShift has deleted is gone.
WindowAbort(h) ==
    /\ Abort(h)
    /\ missed' = IF At(h, "create", "span") THEN missed \cup req[h].seen.shifts ELSE missed
    /\ UNCHANGED <<window, span, created>>

-----------------------------------------------------------------------------

WindowInit ==
    /\ window = <<>>
    /\ span = NoWindow
    /\ created = 0
    /\ missed = {}

WindowNext ==
    \E h \in Handlers : CreateShift(h) \/ UpdateShift(h) \/ DeleteShift(h) \/ WindowAbort(h)

allWindowVars == <<requestVars, windowVars>>
WindowSpec == RequestsInit /\ WindowInit /\ [][WindowNext]_allWindowVars

-----------------------------------------------------------------------------
(* Properties. *)

Within(w, p) == p.from <= w.from /\ w.to <= p.to

\* However requests race and fail, the activity has both of its instants or none, and none
\* before a shift was created.
WindowTypeOK ==
    /\ WindowsOf(ShiftIds) \subseteq Windows
    /\ span \in Windows \cup {NoWindow}
    /\ created = 0 => span = NoWindow
    /\ missed \subseteq 1..created

\* If requests about an activity keep apart, its window covers its shifts, but for those
\* whose createShift failed halfway and that no updateShift of theirs nor deleteShift of
\* another has put right since; if none fails, it is null without shifts.  It may be wider:
\* a shift that is moved, or a deleteShift that fails, leaves it as it was.
WindowCovers ==
    manner \in {"subject", "serial"} /\ Quiet =>
        /\ \A s \in ShiftIds : Within(window[s], span) \/ (failing /\ s \in missed)
        /\ ~ failing /\ ShiftIds = {} => span = NoWindow
=============================================================================
