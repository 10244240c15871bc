------------------------------ MODULE Ratings -------------------------------
(***************************************************************************)
(* Ratings of one activity: rateActivity of ShiftVolunteerService, behind  *)
(* validateCanRateShift, and onShiftVolunteerRated, the listener that      *)
(* averages them over the shift and then over the activity.                *)
(*                                                                         *)
(* The listener goes on after the request has been answered.  A request    *)
(* here lasts until its listener has ended: clients that keep apart wait   *)
(* for that too, which no answer tells them.  Nobody handles what the      *)
(* listener's promise rejects with.                                        *)
(*                                                                         *)
(* An average is kept as what it is the average of, since that is what can *)
(* be lost or stale.  The columns are of whole numbers: prisma refuses any *)
(* other average, and an average of nothing, NaN, it may store as null.    *)
(***************************************************************************)
EXTENDS Requests, Functions, FiniteSetsExt

CONSTANTS
    Raters,     \* accounts with a registration for each shift
    Approved,   \* pairs of an account and a shift: the others were not approved
    Shifts,     \* shifts of the activity
    Scores,     \* what dto.rating may be
    MaxRatings  \* bound: ratings that are sent

ASSUME ScoresAssumption == Scores \subseteq Nat /\ Approved \subseteq Raters \X Shifts

VARIABLES
    done,           \* the shifts that are completed now
    rated,          \* shiftRating of the registrations that have one: by account and shift
    shiftRating,    \* of each shift: the ratings of its average; none is null
    activityRating, \* the shifts whose ratings are in the average, with those
    refused,        \* history: whether the last average of the activity was refused
    sent            \* ratings that have been sent

ratingVars == <<done, rated, shiftRating, activityRating, refused, sent>>

\* The average of nothing: null, or NaN.
None == <<>>

AverageOf(f) == IF DOMAIN f = {} THEN 0
                ELSE FoldFunction(+, 0, f) \div Cardinality(DOMAIN f)

Whole(f) == DOMAIN f # {} => FoldFunction(+, 0, f) % Cardinality(DOMAIN f) = 0

\* What the activity averages: a shift without an average counts as zero.
OfShifts(g) == [s \in DOMAIN g |-> AverageOf(g[s])]

\* The approved registrations for s that have a rating.
Counted(s) == {v \in Raters : <<v, s>> \in DOMAIN rated /\ <<v, s>> \in Approved}
RatingsOf(s) == [v \in Counted(s) |-> rated[<<v, s>>]]

-----------------------------------------------------------------------------

\* validateCanRateShift: a registration, of whatever status, for a completed shift.
RateStart(h) ==
    \E v \in Raters, s \in done, score \in Scores :
        /\ sent < MaxRatings
        /\ sent' = sent + 1
        /\ Begin(h, [op |-> "rate", at |-> "row", by |-> v, on |-> {"activity"},
                     arg |-> [of |-> <<v, s>>, score |-> score], seen |-> 0])
        /\ UNCHANGED <<done, rated, shiftRating, activityRating, refused>>

\* rateActivity.
RateRow(h) ==
    /\ At(h, "rate", "row")
    /\ rated' = [p \in DOMAIN rated \cup {req[h].arg.of} |->
                    IF p = req[h].arg.of THEN req[h].arg.score ELSE rated[p]]
    /\ Goto(h, "ratings", 0)
    /\ UNCHANGED <<done, shiftRating, activityRating, refused, sent>>

\* Mutant: every registration counts, approved or not.
RatingsReadAll(h) ==
    /\ At(h, "rate", "ratings")
    /\ LET s == req[h].arg.of[2]
       IN  Goto(h, "shift", [v \in {v \in Raters : <<v, s>> \in DOMAIN rated} |->
                                rated[<<v, s>>]])
    /\ UNCHANGED ratingVars

\* onShiftVolunteerRated: the ratings of the shift,
RatingsRead(h) ==
    /\ At(h, "rate", "ratings")
    /\ Goto(h, "shift", RatingsOf(req[h].arg.of[2]))
    /\ UNCHANGED ratingVars

\* An average that is no whole number is refused, NaN perhaps: the process ends, with the
\* requests it was at, and starts again.
Refuse(f) ==
    /\ DOMAIN f = {} \/ ~ Whole(f)
    /\ req' = [h \in Handlers |-> Idle]
    /\ UNCHANGED <<manner, failing, aborts>>

\* its average is stored,
ShiftWrite(h) ==
    /\ At(h, "rate", "shift")
    /\ \/ /\ Whole(req[h].seen)
          /\ shiftRating' = [shiftRating EXCEPT ![req[h].arg.of[2]] = req[h].seen]
          /\ Goto(h, "shifts", 0)
       \/ Refuse(req[h].seen) /\ UNCHANGED shiftRating
    /\ UNCHANGED <<done, rated, activityRating, refused, sent>>

\* the averages of the shifts that are completed are read, if any still is,
ShiftsRead(h) ==
    /\ At(h, "rate", "shifts")
    /\ Goto(h, "activity", [s \in done |-> shiftRating[s]])
    /\ UNCHANGED ratingVars

\* and their average is stored.
ActivityWrite(h) ==
    /\ At(h, "rate", "activity")
    /\ \/ /\ Whole(OfShifts(req[h].seen))
          /\ activityRating' = req[h].seen
          /\ refused' = FALSE
          /\ End(h)
       \/ /\ Refuse(OfShifts(req[h].seen))
          /\ refused' = TRUE
          /\ UNCHANGED activityRating
    /\ UNCHANGED <<done, rated, shiftRating, sent>>

\* Mutant: the completed shifts are read before the shift is written.
AverageEarly(h) ==
    \/ /\ At(h, "rate", "shift")
       /\ shiftRating' = [shiftRating EXCEPT ![req[h].arg.of[2]] = req[h].seen]
       /\ Goto(h, "activity", [s \in done |-> shiftRating[s]])
       /\ UNCHANGED <<done, rated, activityRating, refused, sent>>
    \/ ActivityWrite(h)

Average(h) == ShiftWrite(h) \/ ShiftsRead(h) \/ ActivityWrite(h)

\* The status task completes a shift that is over, and puts it back to pending or ongoing
\* when its window has been moved: ratings are not averaged again.
Complete(s) ==
    /\ s \notin done
    /\ done' = done \cup {s}
    /\ UNCHANGED <<requestVars, rated, shiftRating, activityRating, refused, sent>>

Reopen(s) ==
    /\ s \in done
    /\ done' = done \ {s}
    /\ UNCHANGED <<requestVars, rated, shiftRating, activityRating, refused, sent>>

-----------------------------------------------------------------------------

RatingsInit ==
    /\ done = {}
    /\ rated = None
    /\ shiftRating = [s \in Shifts |-> None]
    /\ activityRating = None
    /\ refused = FALSE
    /\ sent = 0

RatingsNext ==
    \/ \E h \in Handlers : \/ RateStart(h) \/ RateRow(h) \/ RatingsRead(h) \/ Average(h)
                           \/ Abort(h) /\ UNCHANGED ratingVars
    \/ \E s \in Shifts : Complete(s) \/ Reopen(s)

allRatingVars == <<requestVars, ratingVars>>
RatingsSpec == RequestsInit /\ RatingsInit /\ [][RatingsNext]_allRatingVars

-----------------------------------------------------------------------------
(* Properties. *)

\* However ratings race and fail, and whatever the task does to the shifts meanwhile: an
\* average is over shifts of the activity, each with ratings that registrations for it
\* have, or had, and that were approved.  A shift that is in it need not be completed now.
RatingsTypeOK ==
    /\ DOMAIN rated \subseteq Raters \X Shifts
    /\ \A s \in Shifts :
        /\ DOMAIN shiftRating[s] \subseteq Counted(s)
        /\ Range(shiftRating[s]) \subseteq Scores
    /\ DOMAIN activityRating \subseteq Shifts
    /\ \A s \in DOMAIN activityRating : DOMAIN activityRating[s] \subseteq Counted(s)

\* If a rating is sent only after the listener of the one before has ended, and no query
\* rejects but for an average that is not whole, the listeners leave the average of all
\* ratings that count on each shift, where that is whole; and on the activity the averages
\* its shifts have, as long as its own last one was not refused.
RatingsSettle ==
    manner \in {"subject", "serial"} /\ ~ failing /\ Quiet =>
        /\ \A s \in Shifts : Whole(RatingsOf(s)) => shiftRating[s] = RatingsOf(s)
        /\ ~ refused => \A s \in DOMAIN activityRating : activityRating[s] = shiftRating[s]
=============================================================================
