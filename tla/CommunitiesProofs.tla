------------------------- MODULE CommunitiesProofs -------------------------
(***************************************************************************)
(* Proofs about Reports and Chats, for any number of accounts, of rows and *)
(* of requests in flight, and about the three services of MCCommunities    *)
(* together.                                                               *)
(***************************************************************************)
EXTENDS MCCommunities, OrganizationProofs

-----------------------------------------------------------------------------
(* Reports. *)


Answered(i) == report[i].answers \cap Admins # {}

\* What is known of a decision on its way: it is about a report an admin has answered.
Deciding(r) ==
    r.op \in {"complete", "reject"} => r.arg \in DOMAIN report /\ Answered(r.arg)

InFlight == DOMAIN req = Handlers /\ \A h \in Handlers : Deciding(req[h])

ReportsInv ==
    ReportsTypeOK /\ DecidedAfterAnswer /\ InFlight /\ IsFiniteSet(DOMAIN report)

-----------------------------------------------------------------------------

LEMMA IdleDecides == Deciding(Idle)
  BY DEF Deciding, Idle

\* Reports only gain rows and answers, and a row is decided only with an answer.
Grows ==
    /\ DOMAIN report \subseteq DOMAIN report'
    /\ \A i \in DOMAIN report : report[i].answers \subseteq report'[i].answers

\* One slot takes another request, while the reports stay or grow.
LEMMA SlotKept ==
    ASSUME InFlight, Grows, NEW h \in Handlers, NEW r,
           req' = [req EXCEPT ![h] = r], Deciding(r)'
    PROVE  InFlight'
<1>1. DOMAIN req' = Handlers
  BY DEF InFlight
<1>2. ASSUME NEW g \in Handlers PROVE Deciding(req[g])'
  <2>1. CASE g = h
    BY <2>1 DEF InFlight
  <2>2. CASE g # h
    <3>1. req'[g] = req[g] /\ Deciding(req[g])
      BY <2>2 DEF InFlight
    <3> QED BY <3>1 DEF Deciding, Answered, Grows
  <2> QED BY <2>1, <2>2
<1> QED BY <1>1, <1>2 DEF InFlight

\* A row is updated: its status, or its answers too.
LEMMA RowUpdate ==
    ASSUME ReportsTypeOK, DecidedAfterAnswer, NEW i \in DOMAIN report, UNCHANGED rejecting,
           NEW row \in ReportRow, report[i].answers \subseteq row.answers,
           row.status \in {"reviewing", "completed", "rejected"} =>
                row.answers \cap Admins # {},
           report' = [report EXCEPT ![i] = row]
    PROVE  ReportsTypeOK' /\ DecidedAfterAnswer' /\ Grows /\ DOMAIN report' = DOMAIN report
<1>1. /\ DOMAIN report' = DOMAIN report
      /\ report'[i] = row
      /\ \A j \in DOMAIN report \ {i} : report'[j] = report[j]
  BY DEF ReportsTypeOK
<1>2. ReportsTypeOK'
  BY <1>1 DEF ReportsTypeOK
<1>3. DecidedAfterAnswer'
  BY <1>1 DEF DecidedAfterAnswer
<1>4. Grows
  BY <1>1 DEF Grows
<1> QED BY <1>1, <1>2, <1>3, <1>4

LEMMA StatusUpdate ==
    ASSUME ReportsTypeOK, DecidedAfterAnswer, NEW i \in DOMAIN report, UNCHANGED rejecting,
           NEW st \in ReportStatus, st = "cancelled" \/ Answered(i),
           report' = [report EXCEPT ![i].status = st]
    PROVE  ReportsTypeOK' /\ DecidedAfterAnswer' /\ Grows /\ DOMAIN report' = DOMAIN report
<1> DEFINE row == [report[i] EXCEPT !.status = st]
<1>1. report[i] \in ReportRow
  BY DEF ReportsTypeOK
<1>2. row \in ReportRow /\ row.answers = report[i].answers /\ row.status = st
  BY <1>1 DEF ReportRow
<1>3. report' = [report EXCEPT ![i] = row]
  OBVIOUS
<1> HIDE DEF row
<1> QED BY <1>2, <1>3, RowUpdate DEF Answered

\* Nothing but a slot changes.
LEMMA SlotOnly ==
    ASSUME ReportsInv, NEW h \in Handlers, NEW r, req' = [req EXCEPT ![h] = r],
           UNCHANGED report, rejecting' \in BOOLEAN, Deciding(r)
    PROVE  ReportsInv'
<1>1. Grows
  BY DEF Grows
<1>2. Deciding(r)'
  BY DEF Deciding, Answered
<1>3. InFlight'
  BY <1>1, <1>2, SlotKept DEF ReportsInv
<1> QED BY <1>3 DEF ReportsInv, ReportsTypeOK, DecidedAfterAnswer

LEMMA ReportsInvInit == RequestsInit /\ ReportsInit => ReportsInv
<1> SUFFICES ASSUME RequestsInit, ReportsInit PROVE ReportsInv
  OBVIOUS
<1>1. DOMAIN report = {} /\ Cardinality({}) = 0 /\ IsFiniteSet({})
  BY FS_EmptySet DEF ReportsInit
<1>2. ReportsTypeOK
  <2>1. report \in [1..0 -> ReportRow]
    BY DEF ReportsInit
  <2>2. DOMAIN report = 1..Cardinality(DOMAIN report)
    BY <1>1
  <2> QED BY <2>1, <2>2 DEF ReportsInit, ReportsTypeOK
<1>3. InFlight
  BY IdleDecides DEF RequestsInit, InFlight
<1> QED BY <1>1, <1>2, <1>3 DEF ReportsInv, DecidedAfterAnswer

\* A decision ends its request.
LEMMA DecideStep ==
    ASSUME ReportsInv, NEW h \in Handlers, NEW i \in DOMAIN report,
           NEW op \in {"cancel", "complete", "reject"},
           NEW st \in {"cancelled", "completed", "rejected"},
           op = "cancel" => st = "cancelled", Decide(h, op, i, st)
    PROVE  ReportsInv'
<1>1. st = "cancelled" \/ Answered(i)
  <2>1. req[h].op = op /\ req[h].arg = i
    BY DEF Decide, At
  <2>2. Deciding(req[h])
    BY DEF ReportsInv, InFlight
  <2> QED BY <2>1, <2>2 DEF Deciding
<1>2. ReportsTypeOK' /\ DecidedAfterAnswer' /\ Grows /\ DOMAIN report' = DOMAIN report
  BY <1>1, StatusUpdate DEF ReportsInv, Decide, ReportStatus
<1>3. Deciding(Idle)'
  BY DEF Deciding, Idle
<1>4. InFlight'
  BY <1>2, <1>3, SlotKept DEF ReportsInv, Decide, End
<1> QED BY <1>2, <1>4 DEF ReportsInv

\* A request about a report that is decided only if it was answered.
LEMMA ReportRequestStep ==
    ASSUME ReportsInv, NEW h \in Handlers, NEW i \in DOMAIN report, NEW a, NEW seen, NEW op,
           op \in {"complete", "reject"} => report[i].status = "reviewing",
           ReportRequest(h, op, a, i, seen), UNCHANGED report, rejecting' \in BOOLEAN
    PROVE  ReportsInv'
<1> DEFINE r == [op |-> op, at |-> "write", by |-> a,
                 on |-> {<<"reporter", report[i].reporter>>}, arg |-> i, seen |-> seen]
<1>1. Deciding(r)
  BY DEF Deciding, Answered, ReportsInv, DecidedAfterAnswer
<1>2. req' = [req EXCEPT ![h] = r]
  BY DEF ReportRequest, Begin
<1> HIDE DEF r
<1> QED BY <1>1, <1>2, SlotOnly

LEMMA FileStep ==
    ASSUME ReportsInv, NEW h \in Handlers, NEW a \in Reporters, NEW t \in Targets,
           CreateReport(h, a, t)
    PROVE  ReportsInv'
<1>1. CASE OpenReports(a, t) = {} /\ AskToReport(h, a, t)
  <2> DEFINE r == [op |-> "create", at |-> "write", by |-> a,
                   on |-> {<<"reporter", a>>}, arg |-> t, seen |-> 0]
  <2>1. Deciding(r)
    BY DEF Deciding
  <2>2. req' = [req EXCEPT ![h] = r] /\ UNCHANGED reportVars
    BY <1>1 DEF AskToReport, Begin
  <2>3. UNCHANGED report /\ rejecting' \in BOOLEAN
    BY <2>2 DEF reportVars, ReportsInv, ReportsTypeOK
  <2> HIDE DEF r
  <2> QED BY <2>1, <2>2, <2>3, SlotOnly
<1>2. CASE CreateReportAs(h, a, t, "pending")
  <2> DEFINE row == [reporter |-> a, target |-> t, status |-> "pending", answers |-> {}]
  <2>1. report' = Insert(report, row) /\ UNCHANGED rejecting /\ req' = [req EXCEPT ![h] = Idle]
    BY <1>2 DEF CreateReportAs, End
  <2>2. row \in ReportRow
    BY DEF ReportRow, ReportStatus
  <2>3. DOMAIN report = 1..Cardinality(DOMAIN report) /\ Cardinality(DOMAIN report) \in Nat
    BY FS_CardinalityType DEF ReportsInv, ReportsTypeOK
  <2> HIDE DEF row
  <2>4. /\ DOMAIN report' = DOMAIN report \cup {NextId(report)}
        /\ DOMAIN report' = 1..Cardinality(DOMAIN report')
        /\ report'[NextId(report)] = row
        /\ \A i \in DOMAIN report : report'[i] = report[i]
    <3> DEFINE t1 == Insert(report, row)
    <3>1. /\ DOMAIN t1 = DOMAIN report \cup {NextId(report)}
          /\ DOMAIN t1 = 1..Cardinality(DOMAIN t1)
          /\ t1[NextId(report)] = row
          /\ \A i \in DOMAIN report : t1[i] = report[i]
      BY <2>3, InsertRow
    <3>2. report' = t1
      BY <2>1
    <3> HIDE DEF t1
    <3> QED BY <3>1, <3>2
  <2>5. report' = [i \in DOMAIN report' |-> report'[i]]
    BY <2>1 DEF Insert
  <2>6. \A i \in DOMAIN report' : report'[i] \in ReportRow
    BY <2>2, <2>4 DEF ReportsInv, ReportsTypeOK
  <2>7. ReportsTypeOK'
    BY <2>1, <2>4, <2>5, <2>6 DEF ReportsTypeOK, ReportsInv
  <2>8. Grows
    BY <2>4 DEF Grows
  <2>9. row.status = "pending"
    BY DEF row
  <2>10. DecidedAfterAnswer'
    BY <2>4, <2>9 DEF DecidedAfterAnswer, ReportsInv
  <2>11. Deciding(Idle)'
    BY DEF Deciding, Idle
  <2>12. InFlight'
    BY <2>1, <2>8, <2>11, SlotKept DEF ReportsInv
  <2>13. IsFiniteSet(DOMAIN report')
    BY <2>4, FS_AddElement DEF ReportsInv
  <2> QED BY <2>7, <2>10, <2>12, <2>13 DEF ReportsInv
<1> QED BY <1>1, <1>2 DEF CreateReport

LEMMA MessageStep ==
    ASSUME ReportsInv, NEW h \in Handlers, NEW a \in Reporters \cup Admins,
           NEW i \in DOMAIN report, CreateReportMessage(h, a, i)
    PROVE  ReportsInv'
<1>1. CASE /\ ReportRequest(h, "message", a, i, report[i].status) /\ UNCHANGED report
           /\ rejecting' = (rejecting \/ SenderRejected(a, i))
  <2>1. rejecting' \in BOOLEAN
    <3>1. SenderRejected(a, i) \in BOOLEAN /\ rejecting \in BOOLEAN
      BY DEF SenderRejected, ReportsInv, ReportsTypeOK
    <3> QED BY <1>1, <3>1
  <2> QED BY <1>1, <2>1, ReportRequestStep
<1>2. CASE /\ report' = [report EXCEPT
                 ![i].answers = @ \cup {a},
                 ![i].status = IF req[h].seen = "pending" /\ a \in Admins
                               THEN "reviewing" ELSE @]
           /\ End(h) /\ UNCHANGED rejecting
  <2> DEFINE st == IF req[h].seen = "pending" /\ a \in Admins
                   THEN "reviewing" ELSE report[i].status
             row == [report[i] EXCEPT !.answers = report[i].answers \cup {a}, !.status = st]
  <2>1. report[i] \in ReportRow
    BY DEF ReportsInv, ReportsTypeOK
  <2>2. st \in ReportStatus
    BY <2>1 DEF ReportRow, ReportStatus
  <2>3. st = report[i].status \/ a \in Admins
    OBVIOUS
  <2>4. report' = [report EXCEPT ![i] = row]
    <3>1. /\ DOMAIN report' = DOMAIN report
          /\ report' = [j \in DOMAIN report |-> IF j = i THEN row ELSE report[j]]
      BY <1>2, <2>1 DEF ReportRow, ReportsInv, ReportsTypeOK
    <3> QED BY <3>1 DEF ReportsInv, ReportsTypeOK
  <2> HIDE DEF st
  <2>5. row \in ReportRow /\ row.answers = report[i].answers \cup {a} /\ row.status = st
    BY <2>1, <2>2 DEF ReportRow
  <2>6. st \in {"reviewing", "completed", "rejected"} =>
            (report[i].answers \cup {a}) \cap Admins # {}
    BY <2>3 DEF ReportsInv, DecidedAfterAnswer
  <2> HIDE DEF row
  <2>7. ReportsTypeOK' /\ DecidedAfterAnswer' /\ Grows /\ DOMAIN report' = DOMAIN report
    BY <1>2, <2>4, <2>5, <2>6, RowUpdate DEF ReportsInv
  <2>8. Deciding(Idle)'
    BY DEF Deciding, Idle
  <2>9. InFlight'
    BY <1>2, <2>7, <2>8, SlotKept DEF ReportsInv, End
  <2> QED BY <2>7, <2>9 DEF ReportsInv
<1> QED BY <1>1, <1>2 DEF CreateReportMessage

LEMMA ReportsInvStep == ReportsInv /\ [ReportsNext]_reportsVars => ReportsInv'
<1> SUFFICES ASSUME ReportsInv, [ReportsNext]_reportsVars PROVE ReportsInv'
  OBVIOUS
<1>0. rejecting \in BOOLEAN
  BY DEF ReportsInv, ReportsTypeOK
<1>1. ASSUME NEW h \in Handlers, NEW i \in DOMAIN report, CancelReport(h, i) PROVE ReportsInv'
  <2>1. CASE ReportRequest(h, "cancel", report[i].reporter, i, 0) /\ UNCHANGED reportVars
    BY <1>0, <2>1, ReportRequestStep DEF reportVars
  <2>2. CASE Decide(h, "cancel", i, "cancelled")
    BY <2>2, DecideStep
  <2> QED BY <1>1, <2>1, <2>2 DEF CancelReport
<1>2. ASSUME NEW h \in Handlers, NEW a \in Admins, NEW i \in DOMAIN report,
             CompleteReport(h, a, i)
      PROVE  ReportsInv'
  <2>1. CASE /\ report[i].status = "reviewing"
             /\ ReportRequest(h, "complete", a, i, 0) /\ UNCHANGED reportVars
    BY <1>0, <2>1, ReportRequestStep DEF reportVars
  <2>2. CASE Decide(h, "complete", i, "completed")
    BY <2>2, DecideStep
  <2> QED BY <1>2, <2>1, <2>2 DEF CompleteReport
<1>3. ASSUME NEW h \in Handlers, NEW a \in Admins, NEW i \in DOMAIN report,
             RejectReport(h, a, i)
      PROVE  ReportsInv'
  <2>1. CASE /\ report[i].status = "reviewing"
             /\ ReportRequest(h, "reject", a, i, 0) /\ UNCHANGED reportVars
    BY <1>0, <2>1, ReportRequestStep DEF reportVars
  <2>2. CASE Decide(h, "reject", i, "rejected")
    BY <2>2, DecideStep
  <2> QED BY <1>3, <2>1, <2>2 DEF RejectReport
<1>4. ASSUME Exit PROVE ReportsInv'
  <2>1. InFlight'
    BY <1>4 DEF Exit, InFlight, Deciding, Idle
  <2> QED BY <1>4, <2>1 DEF Exit, ReportsInv, ReportsTypeOK, DecidedAfterAnswer
<1>5. ASSUME NEW h \in Handlers, Abort(h), UNCHANGED reportVars PROVE ReportsInv'
  BY <1>0, <1>5, SlotOnly, IdleDecides DEF Abort, reportVars
<1>6. CASE UNCHANGED reportsVars
  BY <1>6 DEF reportsVars, requestVars, reportVars, ReportsInv, ReportsTypeOK,
              DecidedAfterAnswer, InFlight, Deciding, Answered
<1> QED
  BY <1>1, <1>2, <1>3, <1>4, <1>5, <1>6, FileStep, MessageStep DEF ReportsNext

\* Whatever requests race and wherever the process ends, reports stay well formed.
THEOREM ReportsTypeCorrect == ReportsSpec => []ReportsTypeOK
<1>1. ReportsInv => ReportsTypeOK
  BY DEF ReportsInv
<1> QED BY <1>1, ReportsInvInit, ReportsInvStep, PTL DEF ReportsSpec

\* A report is under review, completed or rejected only after an admin has written about
\* it: the strengthening says so of every decision that is on its way.
THEOREM DecisionsAreAnswered == ReportsSpec => []DecidedAfterAnswer
<1>1. ReportsInv => DecidedAfterAnswer
  BY DEF ReportsInv
<1> QED BY <1>1, ReportsInvInit, ReportsInvStep, PTL DEF ReportsSpec

-----------------------------------------------------------------------------
(* Open and closed.  What holds only while requests about the reports of one reporter  *)
(* keep apart, and what such a request has read: a second invariant.                   *)

Single(a, t) == \A i, j \in OpenReports(a, t) : i = j

\* A report about to be filed has none beside it, one about to be written is open.
Watching(r) ==
    /\ r.op = "create" => <<"reporter", r.by>> \in r.on /\ OpenReports(r.by, r.arg) = {}
    /\ r.op \in {"message", "cancel", "complete", "reject"} =>
          /\ r.arg \in DOMAIN report /\ report[r.arg].status \in OpenStatus
          /\ <<"reporter", report[r.arg].reporter>> \in r.on

Watched ==
    /\ \A a \in Reporters, t \in Targets : Single(a, t)
    /\ \A h \in Handlers : Watching(req[h])

OpenInv == ReportsInv /\ Exclusive /\ (Apart => Watched)

\* Only reports of a change, or are added.
OnlyReportsOf(a) ==
    /\ DOMAIN report \subseteq DOMAIN report'
    /\ \A i \in DOMAIN report' :
          \/ i \in DOMAIN report /\ report'[i] = report[i]
          \/ report'[i].reporter = a /\ (i \in DOMAIN report => report[i].reporter = a)

LEMMA OthersOpen ==
    ASSUME NEW a, OnlyReportsOf(a), NEW b, NEW t, b # a
    PROVE  OpenReports(b, t)' = OpenReports(b, t)
<1>1. \A i : i \in OpenReports(b, t)' <=> i \in OpenReports(b, t)
  BY DEF OnlyReportsOf, OpenReports
<1> QED BY <1>1

\* A request arrives that has read what is so.
LEMMA OpenArrives ==
    ASSUME OpenInv, ReportsInv', NEW h \in Handlers, NEW r, Begin(h, r), UNCHANGED report,
           Watching(r)
    PROVE  OpenInv'
<1>1. DOMAIN req = Handlers /\ Exclusive /\ req' = [req EXCEPT ![h] = r] /\ manner' = manner
  BY DEF OpenInv, ReportsInv, InFlight, Begin
<1>2. Exclusive'
  BY <1>1, ExclusiveBegin
<1>3. ASSUME Apart, NEW g \in Handlers PROVE Watching(req[g])'
  <2>1. ASSUME NEW q, Watching(q) PROVE Watching(q)'
    BY <2>1 DEF Watching, OpenReports
  <2>2. Watching(req'[g])
    BY <1>1, <1>3 DEF OpenInv, Watched
  <2> QED BY <2>1, <2>2
<1>4. Apart => \A a \in Reporters, t \in Targets : Single(a, t)'
  BY DEF OpenInv, Watched, Single, OpenReports
<1> QED BY <1>1, <1>2, <1>3, <1>4 DEF OpenInv, Watched, Apart

\* One ends that has written about a report of a, or nothing.
LEMMA OpenEnds ==
    ASSUME OpenInv, ReportsInv', NEW h \in Handlers, NEW a, Busy(h),
           req' = [req EXCEPT ![h] = Idle], manner' = manner, OnlyReportsOf(a),
           Apart => /\ <<"reporter", a>> \in req[h].on
                    /\ \A t \in Targets : Single(a, t)'
    PROVE  OpenInv'
<1>1. /\ DOMAIN req = Handlers /\ Exclusive /\ Idle.op = "idle"
      /\ req'[h] = Idle /\ \A g \in Handlers \ {h} : req'[g] = req[g]
  BY DEF OpenInv, ReportsInv, InFlight, Idle
<1> HIDE DEF Idle
<1>2. Exclusive'
  BY <1>1, ExclusiveGoesOn
<1>3. ASSUME Apart, NEW g \in Handlers PROVE Watching(req[g])'
  <2>1. CASE g = h
    BY <1>1, <2>1 DEF Watching
  <2>2. CASE g # h /\ <<"reporter", a>> \in req[g].on
    <3>1. ~ Busy(g)
      BY <1>1, <1>3, <2>2, OneInFlight
    <3> QED BY <1>1, <2>2, <3>1 DEF Busy, Watching
  <2>3. CASE g # h /\ <<"reporter", a>> \notin req[g].on
    <3>1. ASSUME NEW q, Watching(q), <<"reporter", a>> \notin q.on PROVE Watching(q)'
      <4>1. CASE q.op = "create"
        <5>1. q.by # a
          BY <3>1, <4>1 DEF Watching
        <5>2. OpenReports(q.by, q.arg)' = OpenReports(q.by, q.arg)
          BY <5>1, OthersOpen
        <5> QED BY <3>1, <4>1, <5>2 DEF Watching
      <4>2. CASE q.op \in {"message", "cancel", "complete", "reject"}
        <5>1. q.arg \in DOMAIN report /\ report[q.arg].reporter # a
          BY <3>1, <4>2 DEF Watching
        <5>2. q.arg \in DOMAIN report' /\ report'[q.arg] = report[q.arg]
          BY <5>1 DEF OnlyReportsOf
        <5> QED BY <3>1, <4>2, <5>2 DEF Watching
      <4> QED BY <4>1, <4>2 DEF Watching
    <3>2. Watching(req[g]) /\ req'[g] = req[g]
      BY <1>1, <1>3, <2>3 DEF OpenInv, Watched
    <3> QED BY <2>3, <3>1, <3>2
  <2> QED BY <2>1, <2>2, <2>3
<1>4. ASSUME Apart, NEW b \in Reporters, NEW t \in Targets PROVE Single(b, t)'
  <2>1. CASE b # a
    <3>1. OpenReports(b, t)' = OpenReports(b, t)
      BY <2>1, OthersOpen
    <3> QED BY <1>4, <3>1 DEF OpenInv, Watched, Single
  <2> QED BY <1>4, <2>1
<1> QED BY <1>2, <1>3, <1>4 DEF OpenInv, Watched, Apart

\* A report that is open is written: it stays whose it is, and closed ones as they are.
LEMMA OpenWritten ==
    ASSUME OpenInv, ReportsInv', NEW h \in Handlers, NEW i \in DOMAIN report, Busy(h),
           req[h].op \in {"message", "cancel", "complete", "reject"}, req[h].arg = i, End(h),
           \/ \E st : report' = [report EXCEPT ![i].status = st]
           \/ \E st, e : report' = [report EXCEPT ![i].answers = e, ![i].status = st]
    PROVE  OpenInv' /\ \A j \in DOMAIN report : ClosedStays(j)
<1>1. PICK a : a = report[i].reporter
  OBVIOUS
<1>2. report[i] \in ReportRow
  BY DEF OpenInv, ReportsInv, ReportsTypeOK
<1>3. /\ DOMAIN report' = DOMAIN report
      /\ \A j \in DOMAIN report \ {i} : report'[j] = report[j]
      /\ report'[i].reporter = a /\ report'[i].target = report[i].target
  <2>1. CASE \E st : report' = [report EXCEPT ![i].status = st]
    BY <1>1, <1>2, <2>1 DEF ReportRow
  <2>2. ASSUME NEW st, NEW e, report' = [report EXCEPT ![i].answers = e, ![i].status = st]
        PROVE  /\ DOMAIN report' = DOMAIN report
               /\ \A j \in DOMAIN report \ {i} : report'[j] = report[j]
               /\ report'[i].reporter = a /\ report'[i].target = report[i].target
    <3>1. [report EXCEPT ![i].answers = e][i] = [report[i] EXCEPT !.answers = e]
      OBVIOUS
    <3>2. report'[i] = [[report[i] EXCEPT !.answers = e] EXCEPT !.status = st]
      BY <2>2, <3>1
    <3> QED BY <1>1, <1>2, <2>2, <3>2 DEF ReportRow
  <2> QED BY <2>1, <2>2
<1>4. OnlyReportsOf(a)
  BY <1>1, <1>3 DEF OnlyReportsOf
<1>5. ASSUME Apart
      PROVE  /\ <<"reporter", a>> \in req[h].on /\ report[i].status \in OpenStatus
             /\ \A b \in Reporters, t \in Targets : Single(b, t)
  BY <1>1, <1>5 DEF OpenInv, Watched, Watching
<1>6. ASSUME Apart, NEW t \in Targets PROVE Single(a, t)'
  <2>1. a \in Reporters
    BY <1>1, <1>2 DEF ReportRow
  <2>2. OpenReports(a, t)' \subseteq OpenReports(a, t)
    BY <1>1, <1>3, <1>5, <1>6 DEF OpenReports
  <2> QED BY <1>5, <1>6, <2>1, <2>2 DEF Single
<1>7. req' = [req EXCEPT ![h] = Idle] /\ manner' = manner
  BY DEF End
<1>8. OpenInv'
  BY <1>4, <1>5, <1>6, <1>7, OpenEnds
<1>9. \A j \in DOMAIN report : ClosedStays(j)
  BY <1>3, <1>5 DEF ClosedStays, Apart
<1> QED BY <1>8, <1>9

\* A request arrives about a report that is open.
LEMMA OpenAsked ==
    ASSUME OpenInv, ReportsInv', NEW h \in Handlers, NEW i \in DOMAIN report,
           NEW op \in {"message", "cancel", "complete", "reject"}, NEW a, NEW seen,
           report[i].status \in OpenStatus,
           ReportRequest(h, op, a, i, seen), UNCHANGED report
    PROVE  OpenInv' /\ \A j \in DOMAIN report : ClosedStays(j)
<1> DEFINE r == [op |-> op, at |-> "write", by |-> a,
                 on |-> {<<"reporter", report[i].reporter>>}, arg |-> i, seen |-> seen]
<1>1. Watching(r)
  BY DEF Watching
<1>2. Begin(h, r)
  BY DEF ReportRequest
<1> HIDE DEF r
<1> QED BY <1>1, <1>2, OpenArrives DEF ClosedStays

LEMMA OpenDecided ==
    ASSUME OpenInv, ReportsInv', NEW h \in Handlers, NEW i \in DOMAIN report, NEW st,
           NEW op \in {"cancel", "complete", "reject"}, Decide(h, op, i, st)
    PROVE  OpenInv' /\ \A j \in DOMAIN report : ClosedStays(j)
<1>1. /\ Busy(h) /\ req[h].op \in {"message", "cancel", "complete", "reject"}
      /\ req[h].arg = i /\ End(h) /\ report' = [report EXCEPT ![i].status = st]
  BY DEF Decide, At, Busy
<1> QED BY <1>1, OpenWritten

LEMMA OpenMessage ==
    ASSUME OpenInv, ReportsInv', NEW h \in Handlers, NEW i \in DOMAIN report, NEW a,
           CreateReportMessage(h, a, i)
    PROVE  OpenInv' /\ \A j \in DOMAIN report : ClosedStays(j)
<1>1. CASE /\ report[i].status \in OpenStatus /\ UNCHANGED report
           /\ ReportRequest(h, "message", a, i, report[i].status)
  BY <1>1, OpenAsked
<1>2. CASE /\ At(h, "message", "write") /\ req[h].by = a /\ req[h].arg = i
           /\ report' = [report EXCEPT
                 ![i].answers = @ \cup {a},
                 ![i].status = IF req[h].seen = "pending" /\ a \in Admins
                               THEN "reviewing" ELSE @]
           /\ End(h)
  <2>1. Busy(h) /\ req[h].op = "message" /\ req[h].arg = i /\ End(h)
    BY <1>2 DEF At, Busy
  <2>2. \E st, e : report' = [report EXCEPT ![i].answers = e, ![i].status = st]
    <3> DEFINE e == report[i].answers \cup {a}
               st == IF req[h].seen = "pending" /\ a \in Admins
                     THEN "reviewing" ELSE report[i].status
    <3>1. report[i] \in ReportRow
      BY DEF OpenInv, ReportsInv, ReportsTypeOK
    <3>2. report' = [report EXCEPT ![i].answers = e, ![i].status = st]
      <4>1. [report[i] EXCEPT !.answers = e].status = report[i].status
        BY <3>1 DEF ReportRow
      <4> QED BY <1>2, <4>1
    <3> HIDE DEF e, st
    <3> QED BY <3>2
  <2> QED BY <2>1, <2>2, OpenWritten
<1> QED BY <1>1, <1>2 DEF CreateReportMessage

LEMMA OpenFiled ==
    ASSUME OpenInv, ReportsInv', NEW h \in Handlers, NEW a \in Reporters, NEW t \in Targets,
           CreateReport(h, a, t)
    PROVE  OpenInv' /\ \A j \in DOMAIN report : ClosedStays(j)
<1>1. CASE OpenReports(a, t) = {} /\ AskToReport(h, a, t)
  <2> DEFINE r == [op |-> "create", at |-> "write", by |-> a,
                   on |-> {<<"reporter", a>>}, arg |-> t, seen |-> 0]
  <2>1. Watching(r)
    BY <1>1 DEF Watching
  <2>2. Begin(h, r) /\ UNCHANGED report
    BY <1>1 DEF AskToReport, reportVars
  <2> HIDE DEF r
  <2> QED BY <2>1, <2>2, OpenArrives DEF ClosedStays
<1>2. CASE CreateReportAs(h, a, t, "pending")
  <2> DEFINE row == [reporter |-> a, target |-> t, status |-> "pending", answers |-> {}]
             T == Insert(report, row)
  <2>1. /\ report' = T /\ req' = [req EXCEPT ![h] = Idle] /\ manner' = manner
        /\ req[h].op = "create" /\ req[h].by = a /\ req[h].arg = t /\ Busy(h)
    BY <1>2 DEF CreateReportAs, End, At, Busy
  <2>2. row.reporter = a /\ row.target = t
    OBVIOUS
  <2> HIDE DEF row
  <2>3. DOMAIN report = 1..Cardinality(DOMAIN report) /\ Cardinality(DOMAIN report) \in Nat
    BY FS_CardinalityType DEF OpenInv, ReportsInv, ReportsTypeOK
  <2>4. /\ DOMAIN T = DOMAIN report \cup {NextId(report)}
        /\ T[NextId(report)] = row
        /\ \A i \in DOMAIN report : T[i] = report[i]
    BY <2>3, InsertRow
  <2> HIDE DEF T
  <2>5. OnlyReportsOf(a)
    BY <2>1, <2>2, <2>4 DEF OnlyReportsOf
  <2>6. ASSUME Apart PROVE <<"reporter", a>> \in req[h].on /\ OpenReports(a, t) = {}
    BY <2>1, <2>6 DEF OpenInv, Watched, Watching
  <2>7. ASSUME Apart, NEW u \in Targets PROVE Single(a, u)'
    <3>1. CASE u = t
      <4>1. \A i \in OpenReports(a, u)' : i = NextId(report)
        BY <2>1, <2>4, <2>6, <2>7, <3>1 DEF OpenReports
      <4> QED BY <4>1 DEF Single
    <3>2. CASE u # t
      <4>1. OpenReports(a, u)' \subseteq OpenReports(a, u)
        BY <2>1, <2>2, <2>4, <3>2 DEF OpenReports
      <4> QED BY <2>7, <4>1 DEF OpenInv, Watched, Single
    <3> QED BY <3>1, <3>2
  <2>8. OpenInv'
    BY <2>1, <2>5, <2>6, <2>7, OpenEnds
  <2>9. \A j \in DOMAIN report : ClosedStays(j)
    BY <2>1, <2>4 DEF ClosedStays
  <2> QED BY <2>8, <2>9
<1> QED BY <1>1, <1>2 DEF CreateReport

LEMMA OpenInvInit == RequestsInit /\ ReportsInit => OpenInv
<1> SUFFICES ASSUME RequestsInit, ReportsInit PROVE OpenInv
  OBVIOUS
<1>1. \A h \in Handlers : req[h].op = "idle"
  BY DEF RequestsInit, Idle
<1>2. DOMAIN report = {}
  BY DEF ReportsInit
<1>3. Exclusive /\ Watched
  BY <1>1, <1>2 DEF Exclusive, Busy, Watched, Watching, Single, OpenReports
<1> QED BY <1>3, ReportsInvInit DEF OpenInv

LEMMA OpenInvStep ==
    ASSUME OpenInv, [ReportsNext]_reportsVars
    PROVE  OpenInv' /\ \A j \in DOMAIN report : ClosedStays(j)
<1>0. ReportsInv'
  BY ReportsInvStep DEF OpenInv
<1>1. ASSUME NEW h \in Handlers, NEW i \in DOMAIN report, CancelReport(h, i)
      PROVE  OpenInv' /\ \A j \in DOMAIN report : ClosedStays(j)
  BY <1>0, <1>1, OpenAsked, OpenDecided DEF CancelReport, reportVars
<1>2. ASSUME NEW h \in Handlers, NEW i \in DOMAIN report, NEW a, CompleteReport(h, a, i)
      PROVE  OpenInv' /\ \A j \in DOMAIN report : ClosedStays(j)
  BY <1>0, <1>2, OpenAsked, OpenDecided DEF CompleteReport, reportVars, OpenStatus
<1>3. ASSUME NEW h \in Handlers, NEW i \in DOMAIN report, NEW a, RejectReport(h, a, i)
      PROVE  OpenInv' /\ \A j \in DOMAIN report : ClosedStays(j)
  BY <1>0, <1>3, OpenAsked, OpenDecided DEF RejectReport, reportVars, OpenStatus
<1>4. ASSUME Exit PROVE OpenInv' /\ \A j \in DOMAIN report : ClosedStays(j)
  <2>1. \A h \in Handlers : req'[h].op = "idle"
    BY <1>4 DEF Exit, Idle
  <2>2. Exclusive' /\ \A h \in Handlers : Watching(req[h])'
    BY <2>1 DEF Exclusive, Busy, Watching
  <2>3. UNCHANGED <<report, manner>>
    BY <1>4 DEF Exit
  <2> QED BY <1>0, <2>2, <2>3
          DEF OpenInv, Watched, Single, OpenReports, Apart, ClosedStays
<1>5. ASSUME NEW h \in Handlers, Abort(h), UNCHANGED reportVars
      PROVE  OpenInv' /\ \A j \in DOMAIN report : ClosedStays(j)
  <2>1. req' = [req EXCEPT ![h] = Idle] /\ UNCHANGED <<manner, report>>
    BY <1>5 DEF Abort, reportVars
  <2>2. DOMAIN req = Handlers /\ Exclusive /\ Idle.op = "idle"
    BY DEF OpenInv, ReportsInv, InFlight, Idle
  <2>3. req'[h] = Idle /\ \A g \in Handlers \ {h} : req'[g] = req[g]
    BY <2>1, <2>2
  <2> HIDE DEF Idle
  <2>4. Exclusive'
    BY <2>1, <2>2, ExclusiveGoesOn
  <2>5. ASSUME Apart, NEW g \in Handlers PROVE Watching(req[g])'
    <3>1. Watching(req'[g])
      BY <2>2, <2>3, <2>5 DEF OpenInv, Watched, Watching
    <3>2. ASSUME NEW q, Watching(q) PROVE Watching(q)'
      BY <2>1, <3>2 DEF Watching, OpenReports
    <3> QED BY <3>1, <3>2
  <2> QED BY <1>0, <2>1, <2>4, <2>5
          DEF OpenInv, Watched, Single, OpenReports, Apart, ClosedStays
<1>6. CASE UNCHANGED reportsVars
  <2>1. UNCHANGED <<req, manner, report>>
    BY <1>6 DEF reportsVars, requestVars, reportVars
  <2> QED BY <1>0, <2>1 DEF OpenInv, Exclusive, Busy, Waits, Watched, Watching, Single,
                            OpenReports, Apart, ClosedStays
<1> QED
  BY <1>0, <1>1, <1>2, <1>3, <1>4, <1>5, <1>6, OpenFiled, OpenMessage DEF ReportsNext

\* While requests about the reports of a reporter keep apart, nobody has two open reports
\* on one target: the strengthening says that whoever is about to file one has none.
THEOREM OneReportIsOpen == ReportsSpec => []OneOpenReport
<1>1. ASSUME OpenInv PROVE OneOpenReport
  <2> SUFFICES ASSUME Apart, NEW a \in Reporters, NEW t \in Targets
               PROVE  Cardinality(OpenReports(a, t)) <= 1
    BY DEF OneOpenReport, Apart
  <2>1. Single(a, t)
    BY <1>1 DEF OpenInv, Watched
  <2> QED BY <2>1, AtMostOne DEF Single
<1>2. OpenInv /\ [ReportsNext]_reportsVars => OpenInv'
  BY OpenInvStep
<1> QED BY <1>1, <1>2, OpenInvInit, PTL DEF ReportsSpec

\* While they keep apart, what is cancelled, completed or rejected stays so: a report
\* about to be written is still open, whoever has asked for it and when.
THEOREM ClosedReportsStayClosed == ReportsSpec => ClosedStaysClosed
<1>1. OpenInv /\ [ReportsNext]_reportsVars =>
        OpenInv' /\ [\A i \in DOMAIN report : ClosedStays(i)]_reportsVars
  BY OpenInvStep
<1> QED BY <1>1, OpenInvInit, PTL DEF ReportsSpec, ClosedStaysClosed

-----------------------------------------------------------------------------
(* Chats. *)

\* The methods that are about a group, and those about any chat that is there.
GroupOps == {"delete", "makeOwner", "add", "remove", "leave"}
ChatOps == GroupOps \cup {"send", "read", "block", "unblock"}

\* The chat a request is about, and the rows a chat has or had.
ChatOf(r) == r.arg[1]
ChatRows(c) == {p \in DOMAIN part : part[p].chat = c}

\* A chat whose participants do not change between two queries of a request about it.
Fixed(c) == c \in LiveChats /\ (chat[c].group => Apart)

\* What a request has read is about its chat.
ChatKnown(r) ==
    /\ DOMAIN r = Fields
    /\ r.op \in ChatOps => ChatOf(r) \in DOMAIN chat /\ r.on = About(ChatOf(r))
    /\ r.op \in GroupOps /\ ChatOf(r) \in LiveChats => chat[ChatOf(r)].group
    /\ r.op \in {"send", "remove"} => r.seen \subseteq ChatRows(ChatOf(r))
    /\ r.op = "leave" => r.seen.parts \subseteq ChatRows(ChatOf(r))
    /\ r.op = "read" /\ r.at = "write" =>
          r.seen \in ChatRows(ChatOf(r)) /\ part[r.seen].account = r.by
    /\ r.op = "remove" => r.arg[2] # r.by

\* It is still so when a request about such a chat writes.
ChatCurrent(r) ==
    r.op \in ChatOps /\ Fixed(ChatOf(r)) =>
        /\ r.op = "send" => r.seen = PartsOf(ChatOf(r))
        /\ r.op = "remove" => chat[ChatOf(r)].owner = r.by
        /\ r.op = "makeOwner" /\ r.at = "write" => Own(ChatOf(r), r.arg[2]) # {}
        /\ r.op = "leave" => /\ r.seen.owner = chat[ChatOf(r)].owner
                             /\ r.seen.parts = PartsOf(ChatOf(r))

\* r is about to show p its chat.
Shows(r, p) == /\ r.op = "read" /\ r.at = "output" /\ r.by = part[p].account
               /\ r.arg = <<part[p].chat, 0>>

\* p is marked as having read a chat whose latest message it was neither shown nor sent.
Ahead(p) == part[p].live /\ part[p].read /\ part[p].unseen /\ Fixed(part[p].chat)
Catching == \A p \in DOMAIN part : Ahead(p) => \E h \in Handlers : Shows(req[h], p)

Owned(c) == chat[c].owner \in AccountsOf(PartsOf(c))

ChatTables == ChatsTypeOK /\ IsFiniteSet(DOMAIN chat) /\ IsFiniteSet(DOMAIN part)

ChatsInv ==
    /\ ChatTables
    /\ DOMAIN req = Handlers /\ Exclusive
    /\ \A h \in Handlers : ChatKnown(req[h]) /\ ChatCurrent(req[h])
    /\ Apart => \A c \in Groups : Owned(c)
    /\ ~ failing => Catching

-----------------------------------------------------------------------------
(* What a step leaves as it was. *)

\* No row is taken away, none comes to life again, and none is given another account.
ChatsGrow ==
    /\ DOMAIN chat \subseteq DOMAIN chat' /\ DOMAIN part \subseteq DOMAIN part'
    /\ \A c \in DOMAIN chat : chat'[c].live => chat[c].live /\ chat'[c].group = chat[c].group
    /\ \A p \in DOMAIN part : part'[p].chat = part[p].chat /\ part'[p].account = part[p].account

\* The chat c has the owner and the participants it had.
Same(c) == chat'[c].owner = chat[c].owner /\ PartsOf(c)' = PartsOf(c)

LEMMA IdleChats == ChatKnown(Idle) /\ ChatCurrent(Idle) /\ (\A p : ~ Shows(Idle, p))
BY DEF ChatKnown, ChatCurrent, Shows, Idle, Fields, ChatOps, GroupOps

LEMMA ChatIds ==
    ASSUME ChatTables
    PROVE  /\ Cardinality(DOMAIN chat) \in Nat /\ Cardinality(DOMAIN part) \in Nat
           /\ \A p \in DOMAIN part : part[p].chat \in DOMAIN chat /\ part[p].account \in Chatters
BY FS_CardinalityType DEF ChatTables, ChatsTypeOK

\* What a request knows outlives any step.
LEMMA KnownStays ==
    ASSUME ChatsGrow, NEW r, ChatKnown(r)
    PROVE  ChatKnown(r)'
<1>1. \A c : ChatRows(c) \subseteq ChatRows(c)'
  BY DEF ChatRows, ChatsGrow
<1>2. r.op \in ChatOps => ChatOf(r) \in DOMAIN chat' /\ r.on = About(ChatOf(r))
  BY DEF ChatKnown, ChatsGrow
<1>3. r.op \in GroupOps /\ (ChatOf(r) \in LiveChats)' => chat'[ChatOf(r)].group
  BY <1>2 DEF ChatKnown, ChatsGrow, LiveChats, ChatOps
<1>4. r.op = "read" /\ r.at = "write" => (part[r.seen].account = r.by)'
  BY DEF ChatKnown, ChatsGrow, ChatRows
<1> QED BY <1>1, <1>2, <1>3, <1>4 DEF ChatKnown, ChatOf, About

\* What it has read of a chat stays current with the chat.
LEMMA CurrentStays ==
    ASSUME ChatsGrow, manner' = manner, NEW r, ChatKnown(r), ChatCurrent(r),
           Same(ChatOf(r)) \/ ~ Fixed(ChatOf(r))'
    PROVE  ChatCurrent(r)'
<1> SUFFICES ASSUME r.op \in ChatOps, Fixed(ChatOf(r))' PROVE ChatCurrent(r)'
  BY DEF ChatCurrent
<1> DEFINE c == ChatOf(r)
<1>1. c \in DOMAIN chat
  BY DEF ChatKnown
<1>2. ChatOf(r)' = c /\ Same(c)
  BY DEF ChatOf
<1> HIDE DEF c
<1>3. Fixed(c)
  BY <1>1, <1>2 DEF Fixed, ChatsGrow, LiveChats, Apart
<1>4. \A x : Own(c, x)' = Own(c, x)
  BY <1>2 DEF Own, Same, PartsOf, ChatsGrow
<1>5. /\ r.op = "send" => r.seen = PartsOf(c)
      /\ r.op = "remove" => chat[c].owner = r.by
      /\ r.op = "makeOwner" /\ r.at = "write" => Own(c, r.arg[2]) # {}
      /\ r.op = "leave" => r.seen.owner = chat[c].owner /\ r.seen.parts = PartsOf(c)
  BY <1>3 DEF ChatCurrent, c
<1>6. /\ r.op = "send" => r.seen = PartsOf(c)'
      /\ r.op = "remove" => chat'[c].owner = r.by
      /\ r.op = "makeOwner" /\ r.at = "write" => Own(c, r.arg[2])' # {}
      /\ r.op = "leave" => r.seen.owner = chat'[c].owner /\ r.seen.parts = PartsOf(c)'
  BY <1>2, <1>4, <1>5 DEF Same
<1> QED BY <1>6 DEF ChatCurrent, c, ChatOf

\* A step of h that touches at most the chat c, and its participants only with a request
\* about the group c.
LEMMA ChatsKept ==
    ASSUME ChatsInv, NEW h \in Handlers, NEW r, NEW c,
           Takes(h, r), Exclusive', manner' = manner, failing' = failing,
           ChatTables', ChatsGrow,
           \A d \in DOMAIN chat \ {c} : Same(d),
           c \in DOMAIN chat =>
              Same(c) \/ (req[h].op \in GroupOps /\ ChatOf(req[h]) = c) \/ ~ (c \in LiveChats)',
           ChatKnown(r)', ChatCurrent(r)',
           Apart /\ (c \in Groups)' => Owned(c)',
           \A p \in DOMAIN part' : ~ failing /\ Ahead(p)' =>
              \/ Shows(r, p)'
              \/ p \in DOMAIN part /\ Ahead(p) /\ ~ Shows(req[h], p),
           \A d \in DOMAIN chat' \ {c} : d \in DOMAIN chat
    PROVE  ChatsInv'
<1>1. ASSUME NEW g \in Handlers PROVE ChatKnown(req[g])' /\ ChatCurrent(req[g])'
  <2>1. CASE g = h
    BY <2>1 DEF Takes
  <2>2. CASE g # h
    <3>1. PICK q : q = req[g]
      OBVIOUS
    <3>2. req'[g] = q /\ ChatKnown(q) /\ ChatCurrent(q)
      BY <2>2, <3>1 DEF Takes, ChatsInv
    <3>3. ChatKnown(q)'
      BY <3>2, KnownStays
    <3>4. ChatCurrent(q)'
      <4> SUFFICES ASSUME q.op \in ChatOps, Fixed(ChatOf(q))' PROVE ChatCurrent(q)'
        BY DEF ChatCurrent
      <4>1. ChatOf(q) \in DOMAIN chat
        BY <3>2 DEF ChatKnown
      <4>2. SUFFICES ASSUME ~ Same(ChatOf(q)) PROVE FALSE
        BY <3>2, CurrentStays
      <4>3. /\ ChatOf(q) = c /\ ChatOf(req[h]) = c
            /\ req[h].op \in GroupOps /\ (c \in LiveChats)' /\ Fixed(c)'
        BY <4>1, <4>2 DEF Fixed, ChatOf
      <4>4. c \in LiveChats /\ chat[c].group /\ chat'[c].group
        BY <4>1, <4>3 DEF ChatsInv, ChatKnown, ChatsGrow, LiveChats
      <4>5. Apart
        BY <4>3, <4>4 DEF Fixed, Apart
      <4>6. q.on = About(c) /\ req[h].on = About(c)
        BY <3>2, <4>3 DEF ChatsInv, ChatKnown, ChatOps
      <4>7. Busy(g) /\ Busy(h)
        BY <3>1, <4>3 DEF Busy, ChatOps, GroupOps
      <4>8. <<"chat", c>> \in req[g].on /\ <<"chat", c>> \in req[h].on
        BY <3>1, <4>6 DEF About
      <4> QED BY <2>2, <4>5, <4>7, <4>8, OneInFlight DEF ChatsInv
    <3> QED BY <3>2, <3>3, <3>4
  <2> QED BY <2>1, <2>2
<1>2. ASSUME Apart, NEW d, (d \in Groups)' PROVE Owned(d)'
  <2>1. CASE d = c
    BY <1>2, <2>1
  <2>2. CASE d # c
    <3>1. d \in DOMAIN chat /\ Same(d) /\ d \in Groups
      BY <1>2, <2>2 DEF Groups, LiveChats, ChatsGrow
    <3>2. Owned(d)
      BY <1>2, <3>1 DEF ChatsInv
    <3> QED BY <3>1, <3>2 DEF Owned, Same, AccountsOf, ChatsGrow, PartsOf
  <2> QED BY <2>1, <2>2
<1>3. ASSUME ~ failing, NEW p \in DOMAIN part', Ahead(p)'
      PROVE  \E g \in Handlers : Shows(req[g], p)'
  <2>1. CASE Shows(r, p)'
    BY <2>1 DEF Takes, Shows
  <2>2. CASE p \in DOMAIN part /\ Ahead(p) /\ ~ Shows(req[h], p)
    <3>1. PICK g \in Handlers : Shows(req[g], p)
      BY <1>3, <2>2 DEF ChatsInv, Catching
    <3>2. g # h /\ req'[g] = req[g]
      BY <2>2, <3>1 DEF Takes
    <3> QED BY <2>2, <3>1, <3>2 DEF Shows, ChatsGrow
  <2> QED BY <1>3, <2>1, <2>2
<1>4. Apart' = Apart
  BY DEF Apart
<1> QED BY <1>1, <1>2, <1>3, <1>4 DEF ChatsInv, Takes, Catching

-----------------------------------------------------------------------------
(* Steps of a request. *)

\* The tables stay as they are.
LEMMA ChatsAlone ==
    ASSUME ChatsInv, NEW h \in Handlers, NEW r, Takes(h, r), Exclusive',
           manner' = manner, failing' = failing, UNCHANGED chatVars,
           ChatKnown(r), ChatCurrent(r),
           failing \/ ~ (req[h].op = "read" /\ req[h].at = "output")
    PROVE  ChatsInv'
<1>1. ChatTables'
  BY DEF chatVars, ChatsInv, ChatTables, ChatsTypeOK, LiveChats, Groups, PartsOf
<1>2. ChatsGrow /\ \A c : Same(c)
  BY DEF chatVars, ChatsGrow, Same, PartsOf
<1>3. ChatKnown(r)'
  BY <1>2, KnownStays
<1>4. ChatCurrent(r)'
  BY <1>2, CurrentStays
<1>5. Apart /\ (0 \in Groups)' => Owned(0)'
  BY DEF ChatsInv, chatVars, Groups, LiveChats, Owned, AccountsOf, PartsOf
<1>6. ASSUME ~ failing, NEW p \in DOMAIN part', Ahead(p)'
      PROVE  p \in DOMAIN part /\ Ahead(p) /\ ~ Shows(req[h], p)
  BY <1>6 DEF chatVars, Ahead, Fixed, LiveChats, Apart, Shows
<1>7. \A d \in DOMAIN chat' \ {0} : d \in DOMAIN chat
  BY DEF chatVars
<1> QED BY <1>1, <1>2, <1>3, <1>4, <1>5, <1>6, <1>7, ChatsKept

\* A request that comes, goes on or ends without a write.
LEMMA ChatAsked ==
    ASSUME ChatsInv, NEW h \in Handlers, NEW r, Begin(h, r), UNCHANGED chatVars,
           ChatKnown(r), ChatCurrent(r)
    PROVE  ChatsInv'
<1>1. Takes(h, r) /\ Exclusive' /\ req[h].op = "idle"
  BY Begins DEF ChatsInv
<1> QED BY <1>1, ChatsAlone DEF Begin

LEMMA ChatRequested ==
    ASSUME ChatsInv, NEW h \in Handlers, NEW op, NEW at, NEW a, NEW c \in DOMAIN chat,
           NEW arg, NEW seen, ChatRequest(h, op, at, a, c, arg, seen),
           op \in GroupOps /\ c \in LiveChats => chat[c].group,
           op \in {"send", "remove"} => seen = PartsOf(c),
           op = "remove" => arg # a /\ chat[c].owner = a,
           op = "makeOwner" => at = "find",
           op = "leave" => seen = [owner |-> chat[c].owner, parts |-> PartsOf(c)],
           op = "read" => seen \in Own(c, a)
    PROVE  ChatsInv'
<1> DEFINE r == [op |-> op, at |-> at, by |-> a, on |-> About(c), arg |-> <<c, arg>>, seen |-> seen]
<1>1. Begin(h, r) /\ UNCHANGED chatVars
  BY DEF ChatRequest
<1>2. /\ DOMAIN r = Fields /\ r.op = op /\ r.at = at /\ r.by = a /\ r.on = About(c)
      /\ r.seen = seen /\ r.arg = <<c, arg>> /\ r.arg[1] = c /\ r.arg[2] = arg
  BY DEF Fields
<1> HIDE DEF r
<1>3. PartsOf(c) \subseteq ChatRows(c)
  BY DEF PartsOf, ChatRows
<1>4. ChatKnown(r)
  BY <1>2, <1>3 DEF ChatKnown, ChatOf, Own
<1>5. ChatCurrent(r)
  BY <1>2 DEF ChatCurrent, ChatOf
<1> QED BY <1>1, <1>4, <1>5, ChatAsked

LEMMA ChatEnds ==
    ASSUME ChatsInv, NEW h \in Handlers, End(h), UNCHANGED chatVars,
           ~ (req[h].op = "read" /\ req[h].at = "output")
    PROVE  ChatsInv'
<1>1. Takes(h, Idle) /\ Exclusive'
  BY Ends DEF ChatsInv
<1> QED BY <1>1, IdleChats, ChatsAlone DEF End

LEMMA ChatAborts ==
    ASSUME ChatsInv, NEW h \in Handlers, Abort(h), UNCHANGED chatVars
    PROVE  ChatsInv'
<1>1. req' = [req EXCEPT ![h] = Idle] /\ manner' = manner /\ Idle.op = "idle"
      /\ failing' = failing /\ failing
  BY DEF Abort, Idle
<1>2. Takes(h, Idle) /\ Exclusive'
  BY <1>1, ExclusiveGoesOn DEF Takes, ChatsInv
<1> QED BY <1>1, <1>2, IdleChats, ChatsAlone

-----------------------------------------------------------------------------
(* Writes. *)

ChatRow == [live : BOOLEAN, group : BOOLEAN, owner : Chatters, blocked : BOOLEAN,
            sent : 0..MaxMessages]
PartRow == [live : BOOLEAN, chat : DOMAIN chat, account : Chatters, read : BOOLEAN,
            unseen : BOOLEAN]

\* The rows that are there are changed.
LEMMA TablesWritten ==
    ASSUME ChatTables, DOMAIN chat' = DOMAIN chat, DOMAIN part' = DOMAIN part, NEW c,
           chat' \in [DOMAIN chat -> ChatRow], part' \in [DOMAIN part -> PartRow],
           \A d \in DOMAIN chat \ {c} : chat'[d] = chat[d],
           \A p \in DOMAIN part : /\ part'[p].chat = part[p].chat
                                  /\ part'[p].account = part[p].account
                                  /\ part'[p].live => part[p].live /\ chat'[part[p].chat].live
                                  /\ part[p].chat # c => part'[p].live = part[p].live,
           c \in DOMAIN chat => /\ chat'[c].live => chat[c].live
                                /\ chat'[c].live => chat'[c].group = chat[c].group
                                /\ chat'[c].live /\ ~ chat[c].group => PartsOf(c)' = PartsOf(c)
    PROVE  ChatTables' /\ ChatsGrow /\ \A d \in DOMAIN chat \ {c} : Same(d)
<1>1. \A d \in DOMAIN chat \ {c} : Same(d)
  BY DEF Same, PartsOf
<1>2. ChatsGrow
  BY DEF ChatsGrow
<1>3. ASSUME NEW d \in (LiveChats \ Groups)' PROVE (Cardinality(PartsOf(d)) = 2)'
  <2>1. d \in LiveChats \ Groups /\ PartsOf(d)' = PartsOf(d)
    BY <1>1, <1>3 DEF LiveChats, Groups, Same
  <2> QED BY <2>1 DEF ChatTables, ChatsTypeOK
<1>4. ChatsTypeOK'
  BY <1>3 DEF ChatsTypeOK, ChatTables, ChatRow, PartRow
<1> QED BY <1>1, <1>2, <1>4 DEF ChatTables

\* The row of a chat that stays.
LEMMA ChatWritten ==
    ASSUME ChatTables, NEW c \in DOMAIN chat, NEW row \in ChatRow, UNCHANGED part,
           chat' = [chat EXCEPT ![c] = row],
           row.live = chat[c].live, row.group = chat[c].group
    PROVE  /\ ChatTables' /\ ChatsGrow /\ \A d \in DOMAIN chat \ {c} : Same(d)
           /\ DOMAIN chat' = DOMAIN chat /\ chat'[c] = row /\ Groups' = Groups
           /\ \A d : PartsOf(d)' = PartsOf(d)
<1>1. /\ DOMAIN chat' = DOMAIN chat /\ chat'[c] = row
      /\ \A d \in DOMAIN chat \ {c} : chat'[d] = chat[d]
  BY DEF ChatTables, ChatsTypeOK
<1>2. /\ chat' \in [DOMAIN chat -> ChatRow] /\ part' \in [DOMAIN part -> PartRow]
      /\ \A p \in DOMAIN part : part[p].live => chat'[part[p].chat].live
  BY <1>1 DEF ChatTables, ChatsTypeOK, ChatRow, PartRow
<1>3. \A d : PartsOf(d)' = PartsOf(d)
  BY DEF PartsOf
<1>4. Groups' = Groups
  BY <1>1 DEF Groups, LiveChats
<1>5. ChatTables' /\ ChatsGrow /\ \A d \in DOMAIN chat \ {c} : Same(d)
  BY <1>1, <1>2, <1>3, TablesWritten
<1> QED BY <1>1, <1>3, <1>4, <1>5

\* Rows of participants, whose accounts stay.
LEMMA PartsWritten ==
    ASSUME ChatTables, UNCHANGED chat, DOMAIN part' = DOMAIN part,
           part' \in [DOMAIN part -> PartRow], NEW c, c \in LiveChats => chat[c].group,
           \A p \in DOMAIN part : /\ part'[p].chat = part[p].chat
                                  /\ part'[p].account = part[p].account
                                  /\ part'[p].live => part[p].live
                                  /\ part[p].chat # c => part'[p].live = part[p].live
    PROVE  ChatTables' /\ ChatsGrow /\ \A d \in DOMAIN chat \ {c} : Same(d)
<1>1. chat' \in [DOMAIN chat -> ChatRow]
  BY DEF ChatTables, ChatsTypeOK, ChatRow
<1>2. \A p \in DOMAIN part : part'[p].live => part[p].live /\ chat'[part[p].chat].live
  BY DEF ChatTables, ChatsTypeOK
<1>3. c \in DOMAIN chat /\ chat'[c].live => chat[c].group
  BY DEF LiveChats
<1> QED BY <1>1, <1>2, <1>3, TablesWritten DEF LiveChats
\* Rows of participants none of whom comes or goes.
LEMMA PartsMarked ==
    ASSUME ChatsInv, UNCHANGED <<chat, manner, failing>>, NEW h \in Handlers, NEW r,
           Takes(h, r), Exclusive', ChatKnown(r), ChatCurrent(r),
           part' \in [DOMAIN part -> PartRow],
           \A p \in DOMAIN part : /\ part'[p].chat = part[p].chat
                                  /\ part'[p].account = part[p].account
                                  /\ part'[p].live = part[p].live,
           \A p \in DOMAIN part : Ahead(p)' => Shows(r, p) \/ (Ahead(p) /\ ~ Shows(req[h], p))
    PROVE  ChatsInv'
<1>1. 0 \notin LiveChats
  BY ChatIds DEF LiveChats, ChatsInv, ChatTables, ChatsTypeOK
<1>2. DOMAIN part' = DOMAIN part
  OBVIOUS
<1>3. ChatTables' /\ ChatsGrow /\ \A d \in DOMAIN chat \ {0} : Same(d)
  BY <1>1, <1>2, PartsWritten DEF ChatsInv
<1>4. Same(0) /\ \A d : Same(d)
  BY <1>2 DEF Same, PartsOf
<1>5. ChatKnown(r)' /\ ChatCurrent(r)'
  BY <1>3, <1>4, KnownStays, CurrentStays
<1>6. ~ (0 \in Groups)'
  BY <1>1 DEF Groups, LiveChats
<1>7. \A p \in DOMAIN part' : Ahead(p)' =>
         Shows(r, p)' \/ (p \in DOMAIN part /\ Ahead(p) /\ ~ Shows(req[h], p))
  BY <1>2 DEF Shows
<1> HIDE DEF ChatsInv, ChatTables
<1>8. \A d \in DOMAIN chat' \ {0} : d \in DOMAIN chat
  OBVIOUS
<1> QED BY <1>3, <1>4, <1>5, <1>6, <1>7, <1>8, ChatsKept

LEMMA SendStep ==
    ASSUME ChatsInv, NEW h \in Handlers, NEW a \in Chatters, NEW c \in DOMAIN chat,
           SendChatMessage(h, a, c)
    PROVE  ChatsInv'
<1>1. CASE Own(c, a) # {} /\ ~ chat[c].blocked
            /\ ChatRequest(h, "send", "commit", a, c, 0, PartsOf(c))
  BY <1>1, ChatRequested DEF GroupOps
<1>2. CASE Is(h, "send", "commit", a, c, 0) /\ End(h) /\ UNCHANGED chatVars
  BY <1>2, ChatEnds DEF Is, At
<1>3. CASE /\ Is(h, "send", "commit", a, c, 0) /\ End(h)
           /\ chat[c].sent < MaxMessages
           /\ chat' = [chat EXCEPT ![c].sent = @ + 1]
           /\ part' = Deliver(c, a, AccountsOf(req[h].seen) \ {a})
  <2>1. /\ Takes(h, Idle) /\ Exclusive' /\ manner' = manner /\ failing' = failing
    BY <1>3, Ends DEF ChatsInv, End
  <2>2. req[h].op = "send" /\ ChatOf(req[h]) = c
    BY <1>3 DEF Is, At, ChatOf
  <2> DEFINE row == [chat[c] EXCEPT !.sent = @ + 1]
             others == AccountsOf(req[h].seen) \ {a}
  <2>3. row \in ChatRow /\ row.live = chat[c].live /\ row.group = chat[c].group
        /\ row.owner = chat[c].owner
    <3>1. chat[c] \in ChatRow
      BY DEF ChatsInv, ChatTables, ChatsTypeOK, ChatRow
    <3>2. chat[c].sent + 1 \in 0..MaxMessages
      BY <1>3, <3>1, MaxMessagesAssumption DEF ChatRow
    <3> QED BY <3>1, <3>2 DEF ChatRow
  <2>4. chat' = [chat EXCEPT ![c] = row]
    BY <1>3
  <2> HIDE DEF row
  <2>5. /\ DOMAIN chat' = DOMAIN chat /\ chat'[c] = row
        /\ \A d \in DOMAIN chat \ {c} : chat'[d] = chat[d]
        /\ chat' \in [DOMAIN chat -> ChatRow]
    BY <2>3, <2>4 DEF ChatsInv, ChatTables, ChatsTypeOK, ChatRow
  <2>6. /\ DOMAIN part' = DOMAIN part
        /\ \A p \in DOMAIN part : part[p] \in PartRow
    BY <1>3 DEF Deliver, ChatsInv, ChatTables, ChatsTypeOK, PartRow
  <2>7. /\ part' \in [DOMAIN part -> PartRow]
        /\ \A p \in DOMAIN part : /\ part'[p].chat = part[p].chat
                                  /\ part'[p].account = part[p].account
                                  /\ part'[p].live = part[p].live
        /\ \A p \in DOMAIN part : p \notin PartsOf(c) => part'[p] = part[p]
        /\ \A p \in PartsOf(c) : part[p].account = a => ~ part'[p].unseen
        /\ \A p \in PartsOf(c) :
              part[p].account # a => part'[p].read = (part[p].read /\ part[p].account \notin others)
    BY <1>3, <2>6 DEF Deliver, PartRow, PartsOf
  <2> HIDE DEF others
  <2>8. \A p \in DOMAIN part : part'[p].live => part[p].live /\ chat'[part[p].chat].live
    BY <2>3, <2>5, <2>7 DEF ChatsInv, ChatTables, ChatsTypeOK
  <2>9. \A d : PartsOf(d)' = PartsOf(d)
    BY <2>6, <2>7 DEF PartsOf
  <2>10. ChatTables' /\ ChatsGrow /\ \A d \in DOMAIN chat \ {c} : Same(d)
    BY <2>3, <2>5, <2>6, <2>7, <2>8, <2>9, TablesWritten DEF ChatsInv
  <2>11. Same(c)
    BY <2>3, <2>5, <2>9 DEF Same
  <2>12. Apart /\ (c \in Groups)' => Owned(c)'
    <3>1. c \in Groups' => c \in Groups
      BY <2>3, <2>5 DEF Groups, LiveChats
    <3> QED BY <2>7, <2>11, <3>1 DEF Same, Owned, AccountsOf, ChatsInv, PartsOf
  <2>13. ASSUME NEW p \in DOMAIN part', Ahead(p)' PROVE Ahead(p) /\ ~ Shows(req[h], p)
    <3>1. p \in DOMAIN part /\ ~ Shows(req[h], p)
      BY <2>2, <2>6, <2>13 DEF Shows
    <3>2. Fixed(part[p].chat) /\ part[p].live
      BY <2>3, <2>5, <2>7, <2>13, <3>1, <2>1 DEF Ahead, Fixed, LiveChats, Apart
    <3>3. CASE p \in PartsOf(c) /\ part[p].account # a
      <4>1. part[p].chat = c
        BY <3>3 DEF PartsOf
      <4>2. req[h].seen = PartsOf(c)
        BY <2>2, <3>2, <4>1 DEF ChatsInv, ChatCurrent, ChatOps
      <4>3. part[p].account \in others
        BY <3>3, <4>2 DEF AccountsOf, others
      <4> QED BY <2>7, <2>13, <3>3, <4>3 DEF Ahead
    <3>4. CASE p \notin PartsOf(c)
      <4>1. part'[p] = part[p]
        BY <2>7, <3>1, <3>4
      <4> QED BY <2>13, <3>1, <3>2, <4>1 DEF Ahead
    <3>5. CASE p \in PartsOf(c) /\ part[p].account = a
      BY <2>7, <2>13, <3>5 DEF Ahead
    <3> QED BY <3>3, <3>4, <3>5
  <2>14. \A p \in DOMAIN part' : Ahead(p)' => p \in DOMAIN part /\ Ahead(p) /\ ~ Shows(req[h], p)
    BY <2>6, <2>13
  <2>15. ChatKnown(Idle)' /\ ChatCurrent(Idle)'
    BY IdleChats, <2>10, KnownStays DEF ChatCurrent, Idle, ChatOps, GroupOps
  <2>16. \A d \in DOMAIN chat' \ {c} : d \in DOMAIN chat
    BY <2>5
  <2> QED BY <2>1, <2>10, <2>11, <2>12, <2>14, <2>15, <2>16, ChatsKept
<1> QED BY <1>1, <1>2, <1>3 DEF SendChatMessage

\* The row of a group, or of a chat that keeps its owner; the request ends.
LEMMA ChatRowStep ==
    ASSUME ChatsInv, NEW h \in Handlers, NEW c \in LiveChats, NEW row \in ChatRow,
           chat' = [chat EXCEPT ![c] = row], UNCHANGED part, End(h),
           row.live, row.group = chat[c].group, req[h].op # "read",
           \/ row.owner = chat[c].owner
           \/ /\ req[h].op \in GroupOps /\ ChatOf(req[h]) = c
              /\ Apart => Own(c, row.owner) # {}
    PROVE  ChatsInv'
<1>1. Takes(h, Idle) /\ Exclusive' /\ manner' = manner /\ failing' = failing
  BY Ends DEF ChatsInv, End
<1>2. c \in DOMAIN chat /\ chat[c].live
  BY DEF LiveChats
<1>3. row.live = chat[c].live
  BY <1>2 DEF ChatRow, ChatsInv, ChatTables, ChatsTypeOK
<1>4. /\ ChatTables' /\ ChatsGrow /\ \A d \in DOMAIN chat \ {c} : Same(d)
      /\ DOMAIN chat' = DOMAIN chat /\ chat'[c] = row /\ Groups' = Groups
      /\ \A d : PartsOf(d)' = PartsOf(d)
  BY <1>2, <1>3, ChatWritten DEF ChatsInv
<1>5. Same(c) \/ (req[h].op \in GroupOps /\ ChatOf(req[h]) = c)
  BY <1>4 DEF Same
<1>6. ChatKnown(Idle)' /\ ChatCurrent(Idle)'
  BY IdleChats, <1>4, KnownStays DEF ChatCurrent, Idle, ChatOps, GroupOps
<1>7. Apart /\ (c \in Groups)' => Owned(c)'
  <2> SUFFICES ASSUME Apart, c \in Groups PROVE chat'[c].owner \in AccountsOf(PartsOf(c))'
    BY <1>4 DEF Owned
  <2>1. row.owner \in AccountsOf(PartsOf(c))
    <3>1. Own(c, row.owner) # {} => row.owner \in AccountsOf(PartsOf(c))
      BY DEF Own, AccountsOf
    <3> QED BY <3>1 DEF Owned, ChatsInv
  <2> QED BY <1>4, <2>1 DEF AccountsOf
<1>8. ASSUME NEW p \in DOMAIN part', Ahead(p)'
      PROVE  p \in DOMAIN part /\ Ahead(p) /\ ~ Shows(req[h], p)
  <2>1. LiveChats' = LiveChats
    BY <1>2, <1>3, <1>4, <1>1 DEF LiveChats, Same, ChatsGrow, ChatsInv, ChatTables, ChatsTypeOK
  <2>2. Fixed(part[p].chat)
    BY <1>1, <1>3, <1>4, <1>8, <2>1 DEF Ahead, Fixed, Apart, LiveChats, Groups
  <2> QED BY <1>8, <2>2 DEF Ahead, Shows
<1>9. \A d \in DOMAIN chat' \ {c} : d \in DOMAIN chat
  BY <1>4
<1> QED BY <1>1, <1>4, <1>5, <1>6, <1>7, <1>8, <1>9, ChatsKept

LEMMA BlockedStep ==
    ASSUME ChatsInv, NEW h \in Handlers, NEW op \in {"block", "unblock"}, NEW a \in Chatters,
           NEW c \in DOMAIN chat, NEW blocked \in BOOLEAN, SetBlocked(h, op, a, c, blocked)
    PROVE  ChatsInv'
<1>1. CASE Own(c, a) # {} /\ ChatRequest(h, op, "write", a, c, 0, 0)
  BY <1>1, ChatRequested DEF GroupOps
<1>2. CASE Is(h, op, "write", a, c, 0) /\ UNCHANGED chatVars /\ End(h)
  BY <1>2, ChatEnds DEF Is, At
<1>3. CASE /\ Is(h, op, "write", a, c, 0) /\ c \in LiveChats /\ End(h) /\ UNCHANGED part
           /\ chat' = [chat EXCEPT ![c].blocked = blocked]
  <2> DEFINE row == [chat[c] EXCEPT !.blocked = blocked]
  <2>1. chat[c] \in ChatRow /\ chat[c].live
    BY <1>3 DEF ChatsInv, ChatTables, ChatsTypeOK, ChatRow, LiveChats
  <2>2. row \in ChatRow /\ row.live /\ row.group = chat[c].group /\ row.owner = chat[c].owner
    BY <2>1 DEF ChatRow
  <2>3. chat' = [chat EXCEPT ![c] = row] /\ req[h].op # "read"
    BY <1>3 DEF Is, At
  <2> HIDE DEF row
  <2> QED BY <1>3, <2>2, <2>3, ChatRowStep
<1> QED BY <1>1, <1>2, <1>3 DEF SetBlocked, chatVars

LEMMA ReadStep ==
    ASSUME ChatsInv, NEW h \in Handlers, NEW a \in Chatters, NEW c \in DOMAIN chat,
           ReadChat(h, a, c)
    PROVE  ChatsInv'
<1>1. CASE \E p \in Own(c, a) : ChatRequest(h, "read", "write", a, c, 0, p)
  BY <1>1, ChatRequested DEF GroupOps
<1>2. CASE Is(h, "read", "write", a, c, 0) /\ UNCHANGED chatVars /\ End(h)
  BY <1>2, ChatEnds DEF Is, At
<1>3. CASE /\ Is(h, "read", "write", a, c, 0) /\ UNCHANGED chat
           /\ part' = [part EXCEPT ![req[h].seen].read = TRUE]
           /\ Goto(h, "output", 0)
  <2>1. PICK s : s = req[h].seen
    OBVIOUS
  <2>2. /\ req[h].op = "read" /\ req[h].at = "write" /\ req[h].by = a /\ req[h].arg = <<c, 0>>
        /\ ChatOf(req[h]) = c
    BY <1>3 DEF Is, At, ChatOf
  <2>3. ChatKnown(req[h]) /\ DOMAIN req = Handlers /\ Exclusive
    BY DEF ChatsInv
  <2>4. s \in DOMAIN part /\ part[s].chat = c /\ part[s].account = a
    BY <2>1, <2>2, <2>3 DEF ChatKnown, ChatRows
  <2>5. PICK r : /\ Takes(h, r) /\ Exclusive' /\ DOMAIN r = Fields
                 /\ r.op = req[h].op /\ r.by = req[h].by /\ r.on = req[h].on
                 /\ r.arg = req[h].arg /\ r.at = "output" /\ r.seen = 0
    BY <1>3, <2>3, GoesOn DEF ChatKnown
  <2>6. ChatKnown(r)
    BY <2>2, <2>3, <2>5 DEF ChatKnown, ChatOf, GroupOps
  <2>7. ChatCurrent(r)
    BY <2>2, <2>5 DEF ChatCurrent
  <2>8. \A p \in DOMAIN part : part[p] \in PartRow
    BY DEF ChatsInv, ChatTables, ChatsTypeOK, PartRow
  <2>9. /\ part' \in [DOMAIN part -> PartRow]
        /\ \A p \in DOMAIN part : /\ part'[p].chat = part[p].chat
                                  /\ part'[p].account = part[p].account
                                  /\ part'[p].live = part[p].live
                                  /\ p # s => part'[p] = part[p]
    <3>1. part' = [part EXCEPT ![s] = [part[s] EXCEPT !.read = TRUE]]
      BY <1>3, <2>1
    <3>2. [part[s] EXCEPT !.read = TRUE] \in PartRow
      BY <2>4, <2>8 DEF PartRow
    <3>3. part' \in [DOMAIN part -> PartRow]
      BY <2>8, <3>1, <3>2 DEF ChatsInv, ChatTables, ChatsTypeOK
    <3> QED BY <2>4, <2>8, <3>1, <3>3 DEF PartRow
  <2>10. ASSUME NEW p \in DOMAIN part, Ahead(p)'
         PROVE  Shows(r, p) \/ (Ahead(p) /\ ~ Shows(req[h], p))
    <3>1. CASE p = s
      BY <2>2, <2>4, <2>5, <3>1 DEF Shows
    <3>2. CASE p # s
      BY <1>3, <2>2, <2>9, <2>10, <3>2 DEF Ahead, Shows, Fixed, LiveChats, Apart, Goto
    <3> QED BY <3>1, <3>2
  <2> QED BY <1>3, <2>5, <2>6, <2>7, <2>9, <2>10, PartsMarked DEF Goto
<1>4. CASE /\ Is(h, "read", "output", a, c, 0) /\ UNCHANGED chat
           /\ part' = Show(c, a)
           /\ End(h)
  <2>1. req[h].by = a /\ req[h].arg = <<c, 0>>
    BY <1>4 DEF Is
  <2>2. Takes(h, Idle) /\ Exclusive' /\ manner' = manner /\ failing' = failing
    BY <1>4, Ends DEF ChatsInv, End
  <2>3. \A p \in DOMAIN part : part[p] \in PartRow
    BY DEF ChatsInv, ChatTables, ChatsTypeOK, PartRow
  <2>4. /\ part' \in [DOMAIN part -> PartRow]
        /\ \A p \in DOMAIN part : /\ part'[p].chat = part[p].chat
                                  /\ part'[p].account = part[p].account
                                  /\ part'[p].live = part[p].live
                                  /\ part'[p].read = part[p].read
                                  /\ part'[p].unseen = (part[p].unseen /\ p \notin Own(c, a))
    BY <1>4, <2>3 DEF Show, PartRow
  <2>5. ASSUME NEW p \in DOMAIN part, Ahead(p)' PROVE Ahead(p) /\ ~ Shows(req[h], p)
    <3>1. p \notin Own(c, a) /\ Ahead(p)
      BY <1>4, <2>2, <2>4, <2>5 DEF Ahead, Fixed, LiveChats, Apart
    <3> QED BY <2>1, <3>1 DEF Shows, Own, PartsOf, Ahead
  <2> QED BY <1>4, <2>2, <2>4, <2>5, IdleChats, PartsMarked
<1> QED BY <1>1, <1>2, <1>3, <1>4 DEF ReadChat, chatVars

-----------------------------------------------------------------------------
(* Participants come and go. *)

\* A participant of a group goes, which may get another owner.
LEMMA PartGoneStep ==
    ASSUME ChatsInv, NEW h \in Handlers, NEW c \in LiveChats, NEW p \in PartsOf(c),
           NEW q \in Chatters, part' = [part EXCEPT ![p] = Gone(p)],
           \/ chat' = [chat EXCEPT ![c].owner = q]
           \/ chat' = chat /\ q = chat[c].owner,
           req[h].op \in GroupOps, ChatOf(req[h]) = c, End(h),
           Apart => \E m \in PartsOf(c) \ {p} : part[m].account = q
    PROVE  ChatsInv'
<1>1. Takes(h, Idle) /\ Exclusive' /\ manner' = manner /\ failing' = failing
  BY Ends DEF ChatsInv, End
<1>2. c \in DOMAIN chat /\ chat[c].live /\ p \in DOMAIN part /\ part[p].chat = c
  BY DEF LiveChats, PartsOf
<1>3. chat[c].group
  BY DEF ChatsInv, ChatKnown
<1>4. /\ \A d \in DOMAIN chat : chat[d] \in ChatRow
      /\ \A m \in DOMAIN part : part[m] \in PartRow
  BY DEF ChatsInv, ChatTables, ChatsTypeOK, ChatRow, PartRow
<1>5. /\ DOMAIN chat' = DOMAIN chat
      /\ chat' \in [DOMAIN chat -> ChatRow]
      /\ chat'[c].live /\ chat'[c].group = chat[c].group /\ chat'[c].owner = q
      /\ \A d \in DOMAIN chat \ {c} : chat'[d] = chat[d]
  <2>1. CASE chat' = chat /\ q = chat[c].owner
    BY <1>2, <1>4, <2>1 DEF ChatsInv, ChatTables, ChatsTypeOK
  <2>2. CASE chat' = [chat EXCEPT ![c].owner = q]
    <3>1. chat' = [chat EXCEPT ![c] = [chat[c] EXCEPT !.owner = q]]
      BY <2>2
    <3>2. /\ [chat[c] EXCEPT !.owner = q] \in ChatRow
          /\ [chat[c] EXCEPT !.owner = q].live /\ [chat[c] EXCEPT !.owner = q].owner = q
          /\ [chat[c] EXCEPT !.owner = q].group = chat[c].group
      BY <1>2, <1>4 DEF ChatRow
    <3> QED BY <1>2, <1>4, <3>1, <3>2
  <2> QED BY <2>1, <2>2
<1>6. /\ DOMAIN part' = DOMAIN part /\ part' \in [DOMAIN part -> PartRow]
      /\ part'[p] = Gone(p)
      /\ \A m \in DOMAIN part \ {p} : part'[m] = part[m]
  BY <1>2, <1>4 DEF Gone, PartRow
<1>7. \A m \in DOMAIN part :
         /\ part'[m].chat = part[m].chat /\ part'[m].account = part[m].account
         /\ part'[m].live => part[m].live /\ m # p /\ chat'[part[m].chat].live
         /\ part[m].chat # c => part'[m].live = part[m].live
  BY <1>2, <1>5, <1>6 DEF Gone, ChatsInv, ChatTables, ChatsTypeOK
<1>8. ChatTables' /\ ChatsGrow /\ \A d \in DOMAIN chat \ {c} : Same(d)
  BY <1>2, <1>3, <1>5, <1>6, <1>7, TablesWritten DEF ChatsInv
<1>9. ChatKnown(Idle)' /\ ChatCurrent(Idle)'
  BY IdleChats, <1>8, KnownStays DEF ChatCurrent, Idle, ChatOps, GroupOps
<1>10. Apart => Owned(c)'
  <2> SUFFICES ASSUME Apart PROVE \E m \in PartsOf(c)' : part'[m].account = chat'[c].owner
    BY DEF Owned, AccountsOf
  <2>1. PICK m \in PartsOf(c) \ {p} : part[m].account = q
    OBVIOUS
  <2> QED BY <1>5, <1>6, <2>1 DEF PartsOf
<1>11. ASSUME NEW m \in DOMAIN part', Ahead(m)'
       PROVE  m \in DOMAIN part /\ Ahead(m) /\ ~ Shows(req[h], m)
  <2>1. LiveChats' = LiveChats
    BY <1>2, <1>5 DEF LiveChats
  <2>2. m # p /\ m \in DOMAIN part
    BY <1>6, <1>11 DEF Ahead, Gone
  <2>3. req[h].op # "read"
    BY DEF GroupOps
  <2>4. part'[m] = part[m]
    BY <1>6, <2>2
  <2>5. PICK d : d = part[m].chat
    OBVIOUS
  <2>6. d \in DOMAIN chat /\ chat'[d].group = chat[d].group
    BY <1>3, <1>4, <1>5, <2>2, <2>5 DEF PartRow
  <2>7. Fixed(d)
    BY <1>1, <1>11, <2>1, <2>4, <2>5, <2>6 DEF Ahead, Fixed, Apart
  <2> QED BY <1>11, <2>2, <2>3, <2>4, <2>5, <2>7 DEF Ahead, Shows
<1>12. \A d \in DOMAIN chat' \ {c} : d \in DOMAIN chat
  BY <1>5
<1> QED BY <1>1, <1>8, <1>9, <1>10, <1>11, <1>12, ChatsKept

\* A group goes, and with it its participants.
LEMMA ChatGoneStep ==
    ASSUME ChatsInv, NEW h \in Handlers, NEW c \in LiveChats, DeleteChat(c),
           req[h].op \in GroupOps, End(h)
    PROVE  ChatsInv'
<1>1. Takes(h, Idle) /\ Exclusive' /\ manner' = manner /\ failing' = failing
  BY Ends DEF ChatsInv, End
<1> DEFINE row == [Chat(chat[c].owner, FALSE) EXCEPT !.live = FALSE]
<1>2. c \in DOMAIN chat
  BY DEF LiveChats
<1>3. /\ \A d \in DOMAIN chat : chat[d] \in ChatRow
      /\ \A m \in DOMAIN part : part[m] \in PartRow
  BY DEF ChatsInv, ChatTables, ChatsTypeOK, ChatRow, PartRow
<1>4. row \in ChatRow /\ ~ row.live
  <2>1. chat[c].owner \in Chatters /\ 0 \in 0..MaxMessages
    BY <1>2, <1>3, MaxMessagesAssumption DEF ChatRow
  <2>2. PICK new : new = Chat(chat[c].owner, FALSE)
    OBVIOUS
  <2>3. new \in ChatRow
    BY <2>1, <2>2 DEF Chat, ChatRow
  <2>4. row = [new EXCEPT !.live = FALSE]
    BY <2>2
  <2> QED BY <2>3, <2>4 DEF ChatRow
<1>5. chat' = [chat EXCEPT ![c] = row]
  BY DEF DeleteChat
<1> HIDE DEF row
<1>6. /\ DOMAIN chat' = DOMAIN chat /\ chat' \in [DOMAIN chat -> ChatRow]
      /\ ~ chat'[c].live /\ \A d \in DOMAIN chat \ {c} : chat'[d] = chat[d]
  BY <1>2, <1>3, <1>4, <1>5 DEF ChatsInv, ChatTables, ChatsTypeOK
<1>7. /\ DOMAIN part' = DOMAIN part /\ part' \in [DOMAIN part -> PartRow]
      /\ \A m \in DOMAIN part : /\ part[m].chat # c => part'[m] = part[m]
                                /\ part[m].chat = c => part'[m] = Gone(m)
  <2>1. part' = [p \in DOMAIN part |-> IF part[p].chat = c THEN Gone(p) ELSE part[p]]
    BY DEF DeleteChat
  <2>2. \A m \in DOMAIN part : Gone(m) \in PartRow
    BY <1>3 DEF Gone, PartRow
  <2> QED BY <1>3, <2>1, <2>2
<1>8. \A m \in DOMAIN part :
         /\ part'[m].chat = part[m].chat /\ part'[m].account = part[m].account
         /\ part'[m].live => part[m].live /\ part[m].chat # c /\ chat'[part[m].chat].live
         /\ part[m].chat # c => part'[m].live = part[m].live
  BY <1>6, <1>7 DEF Gone, ChatsInv, ChatTables, ChatsTypeOK
<1>9. ChatTables' /\ ChatsGrow /\ \A d \in DOMAIN chat \ {c} : Same(d)
  BY <1>2, <1>6, <1>7, <1>8, TablesWritten DEF ChatsInv
<1>10. ChatKnown(Idle)' /\ ChatCurrent(Idle)'
  BY IdleChats, <1>9, KnownStays DEF ChatCurrent, Idle, ChatOps, GroupOps
<1>11. ~ (c \in LiveChats)' /\ ~ (c \in Groups)'
  BY <1>6 DEF LiveChats, Groups
<1>12. ASSUME NEW m \in DOMAIN part', Ahead(m)'
       PROVE  m \in DOMAIN part /\ Ahead(m) /\ ~ Shows(req[h], m)
  <2>1. m \in DOMAIN part /\ part[m].chat # c /\ part'[m] = part[m]
    BY <1>7, <1>8, <1>12 DEF Ahead
  <2>2. PICK d : d = part[m].chat
    OBVIOUS
  <2>3. d # c /\ Fixed(d)
    BY <1>1, <1>6, <1>12, <2>1, <2>2 DEF Ahead, Fixed, Apart, LiveChats
  <2>4. req[h].op # "read"
    BY DEF GroupOps
  <2> QED BY <1>12, <2>1, <2>2, <2>3, <2>4 DEF Ahead, Shows
<1>13. \A d \in DOMAIN chat' \ {c} : d \in DOMAIN chat
  BY <1>6
<1> QED BY <1>1, <1>9, <1>10, <1>11, <1>12, <1>13, ChatsKept

\* A chat is opened with its participants, the first of whom owns it.
LEMMA OpenStep ==
    ASSUME ChatsInv, NEW h \in Handlers, NEW r, Takes(h, r), Exclusive',
           manner' = manner, failing' = failing,
           r.op = "idle", DOMAIN r = Fields, req[h].op # "read",
           NEW a \in Chatters, NEW b \in SUBSET Chatters, NEW group \in BOOLEAN,
           ~ group => Cardinality(b) = 1, Open(a, b, group)
    PROVE  ChatsInv'
<1>1. PICK c, n, k : c = NextId(chat) /\ n = NextId(part) /\ k = Cardinality(b)
  OBVIOUS
<1>2. k \in Nat
  BY <1>1, ChattersAssumption, FS_Subset, FS_CardinalityType
<1>3. PICK ids \in [n..(n + k) -> b \cup {a}] :
         /\ ids[n] = a
         /\ part' = [p \in DOMAIN part \cup DOMAIN ids |->
                        IF p \in DOMAIN part THEN part[p] ELSE Part(c, ids[p])]
  BY <1>1 DEF Open
<1> DEFINE row == Chat(a, group)
           T == Insert(chat, row)
<1>4. chat' = T
  BY DEF Open
<1>5. row \in ChatRow /\ row.live /\ row.group = group /\ row.owner = a
  <2>1. 0 \in 0..MaxMessages
    BY MaxMessagesAssumption
  <2> QED BY <2>1 DEF Chat, ChatRow
<1> HIDE DEF row
<1>6. /\ DOMAIN chat = 1..Cardinality(DOMAIN chat) /\ Cardinality(DOMAIN chat) \in Nat
      /\ DOMAIN part = 1..Cardinality(DOMAIN part) /\ Cardinality(DOMAIN part) \in Nat
  BY ChatIds DEF ChatsInv, ChatTables, ChatsTypeOK
<1>7. /\ DOMAIN T = DOMAIN chat \cup {c} /\ DOMAIN T = 1..Cardinality(DOMAIN T)
      /\ IsFiniteSet(DOMAIN T) /\ c \notin DOMAIN chat
      /\ T[c] = row /\ \A d \in DOMAIN chat : T[d] = chat[d]
  BY <1>1, <1>6, InsertRow
<1>8. T \in [DOMAIN T -> ChatRow]
  <2>1. \A d \in DOMAIN chat : chat[d] \in ChatRow
    BY DEF ChatsInv, ChatTables, ChatsTypeOK, ChatRow
  <2>2. \A d \in DOMAIN T : T[d] \in ChatRow
    BY <1>5, <1>7, <2>1
  <2> QED BY <2>2 DEF Insert
<1> HIDE DEF T
<1>9. n \in Nat \ {0} /\ DOMAIN part = 1..(n - 1)
  BY <1>1, <1>6 DEF NextId
<1>10. /\ DOMAIN part' = 1..(n + k) /\ DOMAIN part \subseteq DOMAIN part'
       /\ \A p \in DOMAIN part : part'[p] = part[p]
       /\ \A p \in n..(n + k) : p \notin DOMAIN part /\ part'[p] = Part(c, ids[p])
  <2>1. DOMAIN ids = n..(n + k)
    BY <1>3
  <2>2. DOMAIN part \cup DOMAIN ids = 1..(n + k)
    BY <1>2, <1>9, <2>1
  <2>3. \A p \in n..(n + k) : p \notin DOMAIN part
    BY <1>2, <1>9
  <2> QED BY <1>3, <2>1, <2>2, <2>3
<1>11. DOMAIN part' = 1..Cardinality(DOMAIN part') /\ IsFiniteSet(DOMAIN part')
  <2>1. n + k \in Nat /\ n + k >= 1
    BY <1>2, <1>9
  <2>2. Cardinality(1..(n + k)) = n + k /\ IsFiniteSet(1..(n + k))
    BY <2>1, FS_Interval
  <2> QED BY <1>10, <2>2
<1>12. \A p \in DOMAIN part' : p \in DOMAIN part \/ p \in n..(n + k)
  BY <1>2, <1>9, <1>10
<1>13. /\ n..(n + k) \subseteq DOMAIN part' /\ n \in n..(n + k)
       /\ \A p \in n..(n + k) :
             /\ part'[p].live /\ part'[p].chat = c /\ part'[p].account = ids[p]
             /\ ~ part'[p].read /\ ids[p] \in Chatters
             /\ part'[p] \in [live : BOOLEAN, chat : DOMAIN T, account : Chatters,
                              read : BOOLEAN, unseen : BOOLEAN]
  <2>1. n..(n + k) \subseteq DOMAIN part' /\ n \in n..(n + k)
    BY <1>2, <1>9, <1>10
  <2>2. ASSUME NEW p \in n..(n + k)
        PROVE  /\ part'[p].live /\ part'[p].chat = c /\ part'[p].account = ids[p]
               /\ ~ part'[p].read /\ ids[p] \in Chatters
               /\ part'[p] \in [live : BOOLEAN, chat : DOMAIN T, account : Chatters,
                                read : BOOLEAN, unseen : BOOLEAN]
    <3>1. ids[p] \in Chatters /\ c \in DOMAIN T
      BY <1>3, <1>7
    <3>2. part'[p] = [live |-> TRUE, chat |-> c, account |-> ids[p], read |-> FALSE,
                      unseen |-> FALSE]
      BY <1>10 DEF Part
    <3> QED BY <3>1, <3>2
  <2> QED BY <2>1, <2>2
<1>14. \A p \in DOMAIN part : part[p].chat \in DOMAIN chat /\ part[p].chat # c
  BY <1>7, ChatIds DEF ChatsInv
<1>15. PartsOf(c)' = n..(n + k)
  BY <1>10, <1>12, <1>13, <1>14 DEF PartsOf
<1>16. \A d \in DOMAIN chat : PartsOf(d)' = PartsOf(d)
  BY <1>7, <1>10, <1>12, <1>13, <1>14 DEF PartsOf
<1>17. ChatsGrow /\ \A d \in DOMAIN chat \ {c} : Same(d)
  BY <1>4, <1>7, <1>10, <1>16 DEF ChatsGrow, Same
<1>18. ChatTables'
  <2>1. part' \in [DOMAIN part' -> [live : BOOLEAN, chat : DOMAIN T, account : Chatters,
                                    read : BOOLEAN, unseen : BOOLEAN]]
    <3>1. \A p \in DOMAIN part : part[p] \in [live : BOOLEAN, chat : DOMAIN T,
                                             account : Chatters, read : BOOLEAN,
                                             unseen : BOOLEAN]
      <4>1. \A p \in DOMAIN part : part[p] \in PartRow
        BY DEF ChatsInv, ChatTables, ChatsTypeOK, PartRow
      <4> QED BY <1>7, <4>1 DEF PartRow
    <3> QED BY <1>3, <1>10, <1>12, <1>13, <3>1
  <2>2. \A p \in DOMAIN part' : part'[p].live => T[part'[p].chat].live
    BY <1>5, <1>7, <1>10, <1>12, <1>13, <1>14 DEF ChatsInv, ChatTables, ChatsTypeOK
  <2>3. ASSUME NEW d \in (LiveChats \ Groups)' PROVE (Cardinality(PartsOf(d)) = 2)'
    <3>1. CASE d = c
      <4>1. ~ group
        BY <1>4, <1>5, <1>7, <2>3, <3>1 DEF LiveChats, Groups
      <4>2. k = 1
        BY <1>1, <4>1
      <4>3. Cardinality(n..(n + 1)) = 2
        BY <1>9, FS_Interval
      <4> QED BY <1>15, <3>1, <4>2, <4>3
    <3>2. CASE d # c
      <4>1. d \in LiveChats \ Groups
        BY <1>4, <1>7, <2>3, <3>2 DEF LiveChats, Groups
      <4>2. d \in DOMAIN chat
        BY <4>1 DEF LiveChats
      <4> QED BY <1>16, <4>1, <4>2 DEF ChatsInv, ChatTables, ChatsTypeOK
    <3> QED BY <3>1, <3>2
  <2> QED BY <1>4, <1>7, <1>8, <1>11, <2>1, <2>2, <2>3 DEF ChatTables, ChatsTypeOK, ChatRow
<1>19. Apart /\ (c \in Groups)' => Owned(c)'
  <2>1. n \in PartsOf(c)' /\ part'[n].account = a /\ chat'[c].owner = a
    BY <1>3, <1>4, <1>5, <1>7, <1>13, <1>15
  <2> QED BY <2>1 DEF Owned, AccountsOf
<1>20. ASSUME NEW p \in DOMAIN part', Ahead(p)'
       PROVE  p \in DOMAIN part /\ Ahead(p) /\ ~ Shows(req[h], p)
  <2>1. p \in DOMAIN part /\ part'[p] = part[p]
    BY <1>10, <1>12, <1>13, <1>20 DEF Ahead
  <2>2. PICK d : d = part[p].chat
    OBVIOUS
  <2>3. d \in DOMAIN chat /\ chat'[d] = chat[d]
    BY <1>4, <1>7, <1>14, <2>1, <2>2
  <2>4. Fixed(d)
    BY <1>20, <2>1, <2>2, <2>3 DEF Ahead, Fixed, LiveChats, Apart
  <2> QED BY <1>20, <2>1, <2>2, <2>4 DEF Ahead, Shows
<1>21. ChatKnown(r)' /\ ChatCurrent(r)'
  BY DEF ChatKnown, ChatCurrent, ChatOps, GroupOps
<1>22. /\ \A d \in DOMAIN chat' \ {c} : d \in DOMAIN chat
       /\ c \notin DOMAIN chat
  BY <1>4, <1>7
<1> QED BY <1>17, <1>18, <1>19, <1>20, <1>21, <1>22, ChatsKept

LEMMA CreateChatStep ==
    ASSUME ChatsInv, NEW h \in Handlers, NEW a \in Chatters, NEW b \in Chatters,
           CreateChat(h, a, b)
    PROVE  ChatsInv'
<1>1. CASE /\ Begin(h, [op |-> "chat", at |-> "create", by |-> a, on |-> {<<"pair", {a, b}>>},
                        arg |-> b, seen |-> 0])
           /\ UNCHANGED chatVars
  <2> DEFINE r == [op |-> "chat", at |-> "create", by |-> a, on |-> {<<"pair", {a, b}>>},
                   arg |-> b, seen |-> 0]
  <2>1. ChatKnown(r) /\ ChatCurrent(r)
    BY DEF ChatKnown, ChatCurrent, ChatOps, GroupOps, Fields
  <2> HIDE DEF r
  <2>2. Begin(h, r)
    BY <1>1 DEF r
  <2> QED BY <1>1, <2>1, <2>2, ChatAsked
<1>2. CASE At(h, "chat", "create") /\ Open(a, {b}, FALSE) /\ End(h)
  <2>1. Takes(h, Idle) /\ Exclusive' /\ manner' = manner /\ failing' = failing
    BY <1>2, Ends DEF ChatsInv, End
  <2>2. Idle.op = "idle" /\ DOMAIN Idle = Fields /\ req[h].op # "read"
    BY <1>2 DEF Idle, Fields, At
  <2>3. {b} \in SUBSET Chatters /\ Cardinality({b}) = 1
    BY FS_Singleton
  <2> QED BY <1>2, <2>1, <2>2, <2>3, OpenStep
<1> QED BY <1>1, <1>2 DEF CreateChat

LEMMA CreateGroupStep ==
    ASSUME ChatsInv, NEW h \in Handlers, NEW a \in Chatters, NEW to \in SUBSET Chatters,
           CreateChatGroup(h, a, to)
    PROVE  ChatsInv'
<1>1. PICK r : r = req[h]
  OBVIOUS
<1>2. /\ r.op = "idle" /\ DOMAIN r = Fields /\ req[h].op # "read"
      /\ Open(a, to, TRUE) /\ UNCHANGED requestVars
  BY <1>1 DEF CreateChatGroup, Busy, ChatsInv, ChatKnown
<1>3. Takes(h, r) /\ Exclusive' /\ manner' = manner /\ failing' = failing
  BY <1>1, <1>2 DEF requestVars, Takes, Exclusive, ChatsInv, Busy, Waits
<1> QED BY <1>2, <1>3, OpenStep

-----------------------------------------------------------------------------
(* Methods of a group. *)

LEMMA OwnerAsks ==
    ASSUME ChatsInv, NEW h \in Handlers, NEW op \in GroupOps \ {"leave"}, NEW at, NEW a \in Chatters,
           NEW c \in DOMAIN chat, NEW x, AsOwner(h, op, at, a, c, x),
           op = "makeOwner" => at = "find", op = "remove" => x # a
    PROVE  ChatsInv'
<1>1. /\ c \in Groups /\ chat[c].owner = a
      /\ ChatRequest(h, op, at, a, c, x, PartsOf(c))
  BY DEF AsOwner
<1>2. chat[c].group /\ op \notin {"send", "read", "leave"}
  BY <1>1 DEF Groups, GroupOps
<1> QED BY <1>1, <1>2, ChatRequested

LEMMA DeleteGroupStep ==
    ASSUME ChatsInv, NEW h \in Handlers, NEW a \in Chatters, NEW c \in DOMAIN chat,
           DeleteChatGroup(h, a, c)
    PROVE  ChatsInv'
<1>1. CASE AsOwner(h, "delete", "write", a, c, 0)
  BY <1>1, OwnerAsks DEF GroupOps
<1>2. CASE Is(h, "delete", "write", a, c, 0) /\ c \in LiveChats /\ DeleteChat(c) /\ End(h)
  BY <1>2, ChatGoneStep DEF Is, At, GroupOps
<1>3. CASE Is(h, "delete", "write", a, c, 0) /\ UNCHANGED chatVars /\ End(h)
  BY <1>3, ChatEnds DEF Is, At
<1> QED BY <1>1, <1>2, <1>3 DEF DeleteChatGroup

LEMMA MakeOwnerStep ==
    ASSUME ChatsInv, NEW h \in Handlers, NEW a \in Chatters, NEW c \in DOMAIN chat,
           NEW x \in Chatters, MakeParticipantChatGroupOwner(h, a, c, x)
    PROVE  ChatsInv'
<1>1. CASE AsOwner(h, "makeOwner", "find", a, c, x)
  BY <1>1, OwnerAsks DEF GroupOps
<1>2. CASE /\ Is(h, "makeOwner", "find", a, c, x) /\ Own(c, x) # {}
           /\ Goto(h, "write", 0) /\ UNCHANGED chatVars
  <2>1. /\ req[h].op = "makeOwner" /\ req[h].at = "find" /\ req[h].arg = <<c, x>>
        /\ req[h].arg[1] = c /\ req[h].arg[2] = x
    BY <1>2 DEF Is, At
  <2>2. ChatKnown(req[h]) /\ DOMAIN req = Handlers /\ Exclusive
    BY DEF ChatsInv
  <2>3. PICK r : /\ Takes(h, r) /\ Exclusive' /\ DOMAIN r = Fields
                 /\ r.op = req[h].op /\ r.by = req[h].by /\ r.on = req[h].on
                 /\ r.arg = req[h].arg /\ r.at = "write" /\ r.seen = 0
    BY <1>2, <2>2, GoesOn DEF ChatKnown
  <2>4. ChatKnown(r) /\ ChatCurrent(r)
    BY <1>2, <2>1, <2>2, <2>3 DEF ChatKnown, ChatCurrent, ChatOf
  <2> QED BY <1>2, <2>1, <2>3, <2>4, ChatsAlone DEF Goto
<1>3. CASE Is(h, "makeOwner", "find", a, c, x) /\ End(h) /\ UNCHANGED chatVars
  BY <1>3, ChatEnds DEF Is, At
<1>4. CASE /\ Is(h, "makeOwner", "write", a, c, x) /\ c \in LiveChats
           /\ chat' = [chat EXCEPT ![c].owner = x] /\ UNCHANGED part /\ End(h)
  <2> DEFINE row == [chat[c] EXCEPT !.owner = x]
  <2>1. chat[c] \in ChatRow /\ chat[c].live
    BY <1>4 DEF ChatsInv, ChatTables, ChatsTypeOK, ChatRow, LiveChats
  <2>2. row \in ChatRow /\ row.live /\ row.group = chat[c].group /\ row.owner = x
    BY <2>1 DEF ChatRow
  <2>3. chat' = [chat EXCEPT ![c] = row]
    BY <1>4
  <2> HIDE DEF row
  <2>4. req[h].op = "makeOwner" /\ req[h].at = "write" /\ ChatOf(req[h]) = c /\ req[h].arg[2] = x
    BY <1>4 DEF Is, At, ChatOf
  <2>5. Apart => Own(c, x) # {}
    BY <1>4, <2>4 DEF ChatsInv, ChatCurrent, Fixed, ChatOps, GroupOps
  <2>6. req[h].op \in GroupOps /\ req[h].op # "read"
    BY <2>4 DEF GroupOps
  <2> QED BY <1>4, <2>2, <2>3, <2>4, <2>5, <2>6, ChatRowStep
<1>5. CASE Is(h, "makeOwner", "write", a, c, x) /\ UNCHANGED chatVars /\ End(h)
  BY <1>5, ChatEnds DEF Is, At
<1> QED BY <1>1, <1>2, <1>3, <1>4, <1>5 DEF MakeParticipantChatGroupOwner, chatVars

LEMMA AddStep ==
    ASSUME ChatsInv, NEW h \in Handlers, NEW a \in Chatters, NEW c \in DOMAIN chat,
           NEW x \in Chatters, AddParticipantToChatGroup(h, a, c, x)
    PROVE  ChatsInv'
<1>1. CASE AsOwner(h, "add", "find", a, c, x)
  BY <1>1, OwnerAsks DEF GroupOps
<1>2. CASE Is(h, "add", "find", a, c, x) /\ Goto(h, "write", 0) /\ UNCHANGED chatVars
  <2>1. req[h].op = "add"
    BY <1>2 DEF Is, At
  <2>2. ChatKnown(req[h]) /\ DOMAIN req = Handlers /\ Exclusive
    BY DEF ChatsInv
  <2>3. PICK r : /\ Takes(h, r) /\ Exclusive' /\ DOMAIN r = Fields
                 /\ r.op = req[h].op /\ r.by = req[h].by /\ r.on = req[h].on
                 /\ r.arg = req[h].arg /\ r.at = "write" /\ r.seen = 0
    BY <1>2, <2>2, GoesOn DEF ChatKnown
  <2>4. ChatKnown(r) /\ ChatCurrent(r)
    BY <2>1, <2>2, <2>3 DEF ChatKnown, ChatCurrent, ChatOf
  <2> QED BY <1>2, <2>1, <2>3, <2>4, ChatsAlone DEF Goto
<1>3. CASE Is(h, "add", "find", a, c, x) /\ End(h) /\ UNCHANGED chatVars
  BY <1>3, ChatEnds DEF Is, At
<1>4. CASE Is(h, "add", "write", a, c, x) /\ UNCHANGED chatVars /\ End(h)
  BY <1>4, ChatEnds DEF Is, At
<1>5. ASSUME NEW last \in {NextId(part), NextId(part) + 1},
             Is(h, "add", "write", a, c, x), c \in LiveChats,
             part' = [p \in DOMAIN part \cup NextId(part)..last |->
                         IF p \in DOMAIN part THEN part[p] ELSE Part(c, x)],
             UNCHANGED chat, End(h)
      PROVE  ChatsInv'
  <2>1. Takes(h, Idle) /\ Exclusive' /\ manner' = manner /\ failing' = failing
    BY <1>5, Ends DEF ChatsInv, End
  <2>2. req[h].op = "add" /\ req[h].op \in GroupOps /\ ChatOf(req[h]) = c
    BY <1>5 DEF Is, At, ChatOf, GroupOps
  <2>3. chat[c].group /\ chat[c].live
    BY <1>5, <2>2 DEF ChatsInv, ChatKnown, LiveChats
  <2>4. PICK n : n = NextId(part)
    OBVIOUS
  <2> DEFINE row == Part(c, x)
             T == [p \in DOMAIN part \cup n..last |->
                      IF p \in DOMAIN part THEN part[p] ELSE row]
  <2>5. row \in PartRow /\ row.chat = c /\ ~ row.read /\ row.live
    BY DEF Part, PartRow
  <2>6. part' = T
    BY <1>5, <2>4
  <2> HIDE DEF row
  <2>7. /\ DOMAIN T = DOMAIN part \cup n..last /\ DOMAIN T = 1..Cardinality(DOMAIN T)
        /\ IsFiniteSet(DOMAIN T) /\ \A p \in n..last : p \notin DOMAIN part
        /\ \A p \in n..last : T[p] = row
        /\ \A p \in DOMAIN part : T[p] = part[p]
    <3>1. DOMAIN part = 1..Cardinality(DOMAIN part) /\ Cardinality(DOMAIN part) \in Nat
      BY ChatIds DEF ChatsInv, ChatTables, ChatsTypeOK
    <3>2. n \in Nat \ {0} /\ DOMAIN part = 1..(n - 1) /\ last \in {n, n + 1}
      BY <1>5, <2>4, <3>1 DEF NextId
    <3>3. last \in Nat /\ last >= n
      BY <3>2
    <3>4. DOMAIN part \cup n..last = 1..last /\ \A p \in n..last : p \notin DOMAIN part
      BY <3>2, <3>3
    <3>5. Cardinality(1..last) = last /\ IsFiniteSet(1..last)
      <4>1. last >= 1
        BY <3>2, <3>3
      <4> QED BY <3>3, <4>1, FS_Interval
    <3> QED BY <3>4, <3>5
  <2>8. T \in [DOMAIN T -> PartRow]
    <3>1. \A p \in DOMAIN part : part[p] \in PartRow
      BY DEF ChatsInv, ChatTables, ChatsTypeOK, PartRow
    <3>2. \A p \in DOMAIN T : T[p] \in PartRow
      BY <2>5, <2>7, <3>1
    <3> QED BY <3>2
  <2>9. \A p \in DOMAIN T : p \in DOMAIN part \/ (T[p].chat = c /\ ~ T[p].read)
    BY <2>5, <2>7
  <2> HIDE DEF T
  <2>10. \A d \in DOMAIN chat \ {c} : PartsOf(d)' = PartsOf(d)
    BY <2>6, <2>7, <2>9 DEF PartsOf
  <2>11. ChatsGrow /\ \A d \in DOMAIN chat \ {c} : Same(d)
    BY <1>5, <2>6, <2>7, <2>10 DEF ChatsGrow, Same
  <2>12. ChatTables'
    <3>1. ASSUME NEW d \in (LiveChats \ Groups)' PROVE (Cardinality(PartsOf(d)) = 2)'
      <4>1. d \in LiveChats \ Groups /\ d \in DOMAIN chat /\ d # c
        BY <1>5, <2>3, <3>1 DEF LiveChats, Groups
      <4> QED BY <2>10, <4>1 DEF ChatsInv, ChatTables, ChatsTypeOK
    <3>2. \A p \in DOMAIN part' : part'[p].live => chat[part'[p].chat].live
      BY <2>3, <2>6, <2>7, <2>9 DEF ChatsInv, ChatTables, ChatsTypeOK
    <3> QED BY <1>5, <2>6, <2>7, <2>8, <3>1, <3>2
        DEF ChatsInv, ChatTables, ChatsTypeOK, PartRow
  <2>13. ChatKnown(Idle)' /\ ChatCurrent(Idle)'
    BY IdleChats, <2>11, KnownStays DEF ChatCurrent, Idle, ChatOps, GroupOps
  <2>14. Apart /\ (c \in Groups)' => Owned(c)'
    <3>1. PartsOf(c) \subseteq PartsOf(c)' /\ \A p \in PartsOf(c) : part'[p] = part[p]
      BY <2>6, <2>7 DEF PartsOf
    <3>2. (c \in Groups)' => c \in Groups
      BY <1>5 DEF Groups, LiveChats
    <3> QED BY <1>5, <3>1, <3>2 DEF ChatsInv, Owned, AccountsOf
  <2>15. ASSUME NEW p \in DOMAIN part', Ahead(p)'
         PROVE  p \in DOMAIN part /\ Ahead(p) /\ ~ Shows(req[h], p)
    BY <1>5, <2>1, <2>2, <2>6, <2>7, <2>9, <2>15 DEF Ahead, Fixed, LiveChats, Apart, Shows
  <2>16. \A d \in DOMAIN chat' \ {c} : d \in DOMAIN chat
    BY <1>5
  <2> QED BY <2>1, <2>2, <2>11, <2>12, <2>13, <2>14, <2>15, <2>16, ChatsKept
<1> QED BY <1>1, <1>2, <1>3, <1>4, <1>5 DEF AddParticipantToChatGroup, chatVars

LEMMA RemoveStep ==
    ASSUME ChatsInv, NEW h \in Handlers, NEW a \in Chatters, NEW c \in DOMAIN chat,
           NEW x \in Chatters, RemoveParticipantFromChatGroup(h, a, c, x)
    PROVE  ChatsInv'
<1>1. CASE x # a /\ AsOwner(h, "remove", "write", a, c, x)
  BY <1>1, OwnerAsks DEF GroupOps
<1>2. CASE Is(h, "remove", "write", a, c, x) /\ UNCHANGED chatVars /\ End(h)
  BY <1>2, ChatEnds DEF Is, At
<1>3. ASSUME NEW p \in req[h].seen, Is(h, "remove", "write", a, c, x), part[p].account = x,
             part[p].live, Delete(p), UNCHANGED chat, End(h)
      PROVE  ChatsInv'
  <2>1. /\ req[h].op = "remove" /\ ChatOf(req[h]) = c /\ req[h].by = a /\ req[h].arg[2] = x
    BY <1>3 DEF Is, At, ChatOf
  <2>2. p \in DOMAIN part /\ part[p].chat = c /\ x # a
    BY <1>3, <2>1 DEF ChatsInv, ChatKnown, ChatRows
  <2>3. c \in LiveChats /\ p \in PartsOf(c)
    BY <1>3, <2>2 DEF LiveChats, PartsOf, ChatsInv, ChatTables, ChatsTypeOK
  <2>4. PICK q : q = chat[c].owner
    OBVIOUS
  <2>5. q \in Chatters
    BY <2>4 DEF ChatsInv, ChatTables, ChatsTypeOK
  <2>6. ASSUME Apart PROVE \E m \in PartsOf(c) \ {p} : part[m].account = q
    <3>1. q = a
      BY <2>1, <2>3, <2>4, <2>6 DEF ChatsInv, ChatCurrent, Fixed, ChatOps, GroupOps
    <3>2. c \in Groups
      BY <2>1, <2>3 DEF ChatsInv, ChatKnown, Groups, GroupOps
    <3>3. PICK m \in PartsOf(c) : part[m].account = q
      BY <2>4, <2>6, <3>2 DEF ChatsInv, Owned, AccountsOf
    <3> QED BY <1>3, <2>2, <3>1, <3>3
  <2>7. req[h].op \in GroupOps
    BY <2>1 DEF GroupOps
  <2>8. part' = [part EXCEPT ![p] = Gone(p)]
    BY <1>3 DEF Delete
  <2> QED BY <1>3, <2>1, <2>3, <2>4, <2>5, <2>6, <2>7, <2>8, PartGoneStep
<1> QED BY <1>1, <1>2, <1>3 DEF RemoveParticipantFromChatGroup, chatVars

LEMMA LeaveGroupStep ==
    ASSUME ChatsInv, NEW h \in Handlers, NEW a \in Chatters, NEW c \in DOMAIN chat,
           LeaveChatGroup(h, a, c)
    PROVE  ChatsInv'
<1>1. CASE LeaveRead(h, a, c)
  <2>1. /\ c \in Groups
        /\ ChatRequest(h, "leave", "write", a, c, 0,
                       [owner |-> chat[c].owner, parts |-> PartsOf(c)])
    BY <1>1 DEF LeaveRead
  <2>2. chat[c].group
    BY <2>1 DEF Groups
  <2> QED BY <2>1, <2>2, ChatRequested
<1>2. CASE Is(h, "leave", "write", a, c, 0) /\ UNCHANGED chatVars /\ End(h)
  BY <1>2, ChatEnds DEF Is, At
<1>3. CASE Is(h, "leave", "write", a, c, 0) /\ c \in LiveChats /\ DeleteChat(c) /\ End(h)
  BY <1>3, ChatGoneStep DEF Is, At, GroupOps
<1>4. ASSUME NEW p \in req[h].seen.parts, Is(h, "leave", "write", a, c, 0),
             part[p].account = a, part[p].live, Delete(p), End(h),
             IF req[h].seen.owner = a
             THEN \E q \in AccountsOf(req[h].seen.parts) \ {a} :
                     chat' = [chat EXCEPT ![c].owner = q]
             ELSE UNCHANGED chat
      PROVE  ChatsInv'
  <2>1. req[h].op = "leave" /\ req[h].op \in GroupOps /\ ChatOf(req[h]) = c
    BY <1>4 DEF Is, At, ChatOf, GroupOps
  <2>2. \A m \in req[h].seen.parts : m \in DOMAIN part /\ part[m].chat = c
    BY <2>1 DEF ChatsInv, ChatKnown, ChatRows
  <2>3. c \in LiveChats /\ p \in PartsOf(c)
    BY <1>4, <2>2 DEF LiveChats, PartsOf, ChatsInv, ChatTables, ChatsTypeOK
  <2>4. part' = [part EXCEPT ![p] = Gone(p)]
    BY <1>4 DEF Delete
  <2>5. Apart => /\ req[h].seen.owner = chat[c].owner
                 /\ req[h].seen.parts = PartsOf(c)
    BY <2>1, <2>3 DEF ChatsInv, ChatCurrent, Fixed, ChatOps
  <2>6. c \in Groups
    BY <2>1, <2>3 DEF ChatsInv, ChatKnown, Groups
  <2>7. CASE req[h].seen.owner = a
    <3>1. PICK q \in AccountsOf(req[h].seen.parts) \ {a} : chat' = [chat EXCEPT ![c].owner = q]
      BY <1>4, <2>7
    <3>2. q \in Chatters
      BY <2>2, <3>1, ChatIds DEF AccountsOf, ChatsInv
    <3>3. ASSUME Apart PROVE \E m \in PartsOf(c) \ {p} : part[m].account = q
      BY <1>4, <2>5, <3>1, <3>3 DEF AccountsOf
    <3> QED BY <1>4, <2>1, <2>3, <2>4, <3>1, <3>2, <3>3, PartGoneStep
  <2>8. CASE req[h].seen.owner # a
    <3>1. PICK q : q = chat[c].owner
      OBVIOUS
    <3>2. q \in Chatters
      BY <3>1 DEF ChatsInv, ChatTables, ChatsTypeOK
    <3>3. ASSUME Apart PROVE \E m \in PartsOf(c) \ {p} : part[m].account = q
      <4>1. PICK m \in PartsOf(c) : part[m].account = q
        BY <2>6, <3>1, <3>3 DEF ChatsInv, Owned, AccountsOf
      <4> QED BY <1>4, <2>5, <2>8, <3>1, <3>3, <4>1
    <3> QED BY <1>4, <2>1, <2>3, <2>4, <2>8, <3>1, <3>2, <3>3, PartGoneStep
  <2> QED BY <2>7, <2>8
<1> QED BY <1>1, <1>2, <1>3, <1>4 DEF LeaveChatGroup, chatVars

-----------------------------------------------------------------------------

LEMMA ChatsInvInit == RequestsInit /\ ChatsInit => ChatsInv
<1> SUFFICES ASSUME RequestsInit, ChatsInit PROVE ChatsInv
  OBVIOUS
<1>1. chat = <<>> /\ part = <<>> /\ req = [h \in Handlers |-> Idle] /\ Idle.op = "idle"
  BY DEF RequestsInit, ChatsInit, Idle
<1>2. DOMAIN chat = {} /\ DOMAIN part = {} /\ Cardinality({}) = 0 /\ IsFiniteSet({})
  BY <1>1, FS_EmptySet
<1>3. LiveChats = {} /\ Groups = {}
  BY <1>2 DEF LiveChats, Groups
<1>4. ChatTables
  <2>1. chat \in [DOMAIN chat -> ChatRow] /\ part \in [DOMAIN part -> PartRow]
    BY <1>1, <1>2
  <2> QED BY <1>2, <1>3, <2>1 DEF ChatTables, ChatsTypeOK, ChatRow, PartRow
<1>5. \A h \in Handlers : ChatKnown(req[h]) /\ ChatCurrent(req[h])
  BY <1>1, IdleChats
<1>6. DOMAIN req = Handlers /\ Exclusive
  BY <1>1 DEF Exclusive, Busy
<1> QED BY <1>2, <1>3, <1>4, <1>5, <1>6 DEF ChatsInv, Catching

LEMMA ChatsInvStep == ChatsInv /\ [ChatsNext]_chatsVars => ChatsInv'
<1> SUFFICES ASSUME ChatsInv, [ChatsNext]_chatsVars PROVE ChatsInv'
  OBVIOUS
<1>1. ASSUME NEW h \in Handlers, NEW a \in Chatters, NEW b \in Chatters, CreateChat(h, a, b)
      PROVE  ChatsInv'
  BY <1>1, CreateChatStep
<1>2. ASSUME NEW h \in Handlers, NEW a \in Chatters, NEW to \in SUBSET Chatters,
             CreateChatGroup(h, a, to)
      PROVE  ChatsInv'
  BY <1>2, CreateGroupStep
<1>3. ASSUME NEW h \in Handlers, NEW a \in Chatters, NEW c \in DOMAIN chat,
             \/ SendChatMessage(h, a, c) \/ ReadChat(h, a, c)
             \/ BlockChat(h, a, c) \/ UnblockChat(h, a, c)
      PROVE  ChatsInv'
  BY <1>3, SendStep, ReadStep, BlockedStep DEF BlockChat, UnblockChat
<1>4. ASSUME NEW h \in Handlers, NEW a \in Chatters, NEW c \in DOMAIN chat, OfGroup(h, a, c)
      PROVE  ChatsInv'
  BY <1>4, DeleteGroupStep, LeaveGroupStep, MakeOwnerStep, AddStep, RemoveStep DEF OfGroup
<1>5. ASSUME NEW h \in Handlers, Abort(h) /\ UNCHANGED chatVars PROVE ChatsInv'
  BY <1>5, ChatAborts
<1>6. CASE UNCHANGED chatsVars
  <2>1. ChatTables'
    BY <1>6 DEF chatsVars, chatVars, ChatsInv, ChatTables, ChatsTypeOK, LiveChats, Groups, PartsOf
  <2>2. \A h \in Handlers : ChatKnown(req[h])' /\ ChatCurrent(req[h])'
    <3>1. ASSUME NEW q, ChatKnown(q), ChatCurrent(q) PROVE ChatKnown(q)' /\ ChatCurrent(q)'
      <4>1. ChatsGrow /\ Same(ChatOf(q)) /\ manner' = manner
        BY <1>6 DEF chatsVars, chatVars, requestVars, ChatsGrow, Same, PartsOf
      <4> QED BY <3>1, <4>1, KnownStays, CurrentStays
    <3> QED BY <1>6, <3>1 DEF ChatsInv, chatsVars, requestVars
  <2>3. Catching' = Catching
    BY <1>6 DEF chatsVars, chatVars, requestVars, Catching, Ahead, Fixed, LiveChats, Apart, Shows
  <2>4. Exclusive' = Exclusive /\ Apart' = Apart
    BY <1>6 DEF chatsVars, requestVars, Exclusive, Busy, Waits, Apart
  <2>5. (\A c \in Groups : Owned(c))' = (\A c \in Groups : Owned(c))
    BY <1>6 DEF chatsVars, chatVars, Groups, LiveChats, Owned, AccountsOf, PartsOf
  <2> QED BY <1>6, <2>1, <2>2, <2>3, <2>4, <2>5 DEF ChatsInv, chatsVars, requestVars
<1> QED BY <1>1, <1>2, <1>3, <1>4, <1>5, <1>6 DEF ChatsNext

\* No row is left of a chat that is deleted, and a chat of two keeps its two rows: the
\* group operations, which only the first query of their requests refuses, never reach it.
THEOREM ChatsTypeCorrect == ChatsSpec => []ChatsTypeOK
<1>1. ChatsInv => ChatsTypeOK
  BY DEF ChatsInv, ChatTables
<1> QED BY <1>1, ChatsInvInit, ChatsInvStep, PTL DEF ChatsSpec

\* A group is owned by one who takes part in it, while requests about a chat keep apart:
\* what leaveChatGroup and removeParticipantFromChatGroup have read is still so when they
\* write, and makeParticipantChatGroupOwner finds the participant it hands the group to.
THEOREM OwnersTakePart == ChatsSpec => []GroupOwnerTakesPart
<1>1. ChatsInv => GroupOwnerTakesPart
  BY DEF ChatsInv, GroupOwnerTakesPart, Apart, Owned
<1> QED BY <1>1, ChatsInvInit, ChatsInvStep, PTL DEF ChatsSpec

\* A participant that is marked as having read a chat was shown its latest message, or sent
\* it, or is about to be shown it: sendChatMessage takes the mark from all those it has
\* read, who are all there are in a chat of two, and in a group while requests about it
\* keep apart.
THEOREM ReadersHaveSeen == ChatsSpec => []ReadSeesLatest
<1>1. ASSUME ChatsInv PROVE ReadSeesLatest
  <2> SUFFICES ASSUME ~ failing, NEW p \in DOMAIN part, part[p].live, part[p].read,
                      ~ Reading(part[p].chat, part[p].account),
                      chat[part[p].chat].group => Apart, part[p].unseen
               PROVE  FALSE
    BY DEF ReadSeesLatest, Apart
  <2>1. part[p].chat \in LiveChats
    BY <1>1, ChatIds DEF ChatsInv, ChatTables, ChatsTypeOK, LiveChats
  <2>2. Ahead(p)
    BY <2>1 DEF Ahead, Fixed
  <2>3. PICK h \in Handlers : Shows(req[h], p)
    BY <1>1, <2>2 DEF ChatsInv, Catching
  <2> QED BY <2>3 DEF Shows, Reading
<1> QED BY <1>1, ChatsInvInit, ChatsInvStep, PTL DEF ChatsSpec

-----------------------------------------------------------------------------
(* The three services together. *)

CommunitiesInv ==
    /\ CommunitiesTypeOK
    /\ service \in {"organization", "ownership"} => OrganizationInv
    /\ service = "chat" => ChatsInv
    /\ service = "report" => ReportsInv

LEMMA TypesFollow ==
    /\ OrganizationInv => OrganizationTypeOK
    /\ ChatsInv => ChatsTypeOK
    /\ ReportsInv => ReportsTypeOK
BY DEF OrganizationInv, Tables, ChatsInv, ChatTables, ReportsInv

LEMMA TypesFollowNext ==
    /\ OrganizationInv' => OrganizationTypeOK'
    /\ ChatsInv' => ChatsTypeOK'
    /\ ReportsInv' => ReportsTypeOK'
BY TypesFollow, PTL

\* Each service keeps its own tables, and no step is of two services.
LEMMA TablesUntouched ==
    /\ OrganizationTypeOK /\ UNCHANGED organizationVars => OrganizationTypeOK'
    /\ ChatsTypeOK /\ UNCHANGED chatVars => ChatsTypeOK'
    /\ ReportsTypeOK /\ UNCHANGED reportVars => ReportsTypeOK'
<1>1. OrganizationTypeOK /\ UNCHANGED organizationVars => OrganizationTypeOK'
  BY DEF organizationVars, OrganizationTypeOK, OrgRow, MemberRow
<1>2. ChatsTypeOK /\ UNCHANGED chatVars => ChatsTypeOK'
  BY DEF chatVars, ChatsTypeOK, LiveChats, Groups, PartsOf
<1>3. ReportsTypeOK /\ UNCHANGED reportVars => ReportsTypeOK'
  BY DEF reportVars, ReportsTypeOK, ReportRow
<1> QED BY <1>1, <1>2, <1>3

\* The methods checked with more accounts are among those of the service.
LEMMA OwnershipSteps == OwnershipNext => OrganizationNext
<1> SUFFICES ASSUME OwnershipNext PROVE OrganizationNext
  OBVIOUS
<1>1. ASSUME NEW h \in Handlers, NEW a \in Accounts, NEW o \in DOMAIN org,
             NEW m \in DOMAIN member, Join(h, a, o) \/ TransferOwnership(h, a, o, m)
      PROVE  OrganizationNext
  BY <1>1 DEF OrganizationNext, OfAccount
<1>2. ASSUME NEW h \in Handlers, NEW a \in Accounts, NEW o \in DOMAIN org,
             NEW m \in DOMAIN member,
             Approve(h, o, m) \/ \E r \in Granted : GrantRole(h, a, m, r)
      PROVE  OrganizationNext
  BY <1>2 DEF OrganizationNext, OfMember
<1>3. ASSUME NEW h \in Handlers, NEW o \in DOMAIN org, UpdateStatus(h, o, "verified")
      PROVE  OrganizationNext
  BY <1>3 DEF OrganizationNext, OrganizationStatus
<1>4. ASSUME NEW h \in Handlers, NEW a \in Accounts, Create(h, a) PROVE OrganizationNext
  BY <1>4 DEF OrganizationNext
<1> QED BY <1>1, <1>2, <1>3, <1>4 DEF OwnershipNext

LEMMA CommunitiesInvStep == CommunitiesInv /\ [CommunitiesNext]_allVars => CommunitiesInv'
<1> SUFFICES ASSUME CommunitiesInv, [CommunitiesNext]_allVars PROVE CommunitiesInv'
  OBVIOUS
<1>1. CASE service \in {"organization", "ownership"} /\ OrganizationNext
           /\ UNCHANGED <<chatVars, reportVars>> /\ UNCHANGED service
  <2>1. OrganizationInv'
    BY <1>1, OrganizationInvStep DEF CommunitiesInv
  <2>2. UNCHANGED chatVars /\ UNCHANGED reportVars /\ service' = service
    BY <1>1
  <2>3. CommunitiesTypeOK'
    BY <2>1, <2>2, TypesFollowNext, TablesUntouched DEF CommunitiesInv, CommunitiesTypeOK
  <2> QED BY <1>1, <2>1, <2>2, <2>3 DEF CommunitiesInv
<1>2. CASE service = "chat" /\ ChatsNext
           /\ UNCHANGED <<organizationVars, reportVars>> /\ UNCHANGED service
  <2>1. ChatsInv'
    BY <1>2, ChatsInvStep DEF CommunitiesInv
  <2>2. UNCHANGED organizationVars /\ UNCHANGED reportVars /\ service' = service
    BY <1>2
  <2>3. CommunitiesTypeOK'
    BY <2>1, <2>2, TypesFollowNext, TablesUntouched DEF CommunitiesInv, CommunitiesTypeOK
  <2> QED BY <1>2, <2>1, <2>2, <2>3 DEF CommunitiesInv
<1>3. CASE service = "report" /\ ReportsNext
           /\ UNCHANGED <<organizationVars, chatVars>> /\ UNCHANGED service
  <2>1. ReportsInv'
    BY <1>3, ReportsInvStep DEF CommunitiesInv
  <2>2. UNCHANGED organizationVars /\ UNCHANGED chatVars /\ service' = service
    BY <1>3
  <2>3. CommunitiesTypeOK'
    BY <2>1, <2>2, TypesFollowNext, TablesUntouched DEF CommunitiesInv, CommunitiesTypeOK
  <2> QED BY <1>3, <2>1, <2>2, <2>3 DEF CommunitiesInv
<1>4. CASE UNCHANGED allVars
  <2>1. /\ UNCHANGED requestVars /\ UNCHANGED organizationVars /\ UNCHANGED chatVars
        /\ UNCHANGED reportVars /\ service' = service
    BY <1>4 DEF allVars
  <2>2. OrganizationInv => OrganizationInv'
    BY <2>1, OrganizationInvStep DEF organizationAllVars
  <2>3. ChatsInv => ChatsInv'
    BY <2>1, ChatsInvStep DEF chatsVars
  <2>4. ReportsInv => ReportsInv'
    BY <2>1, ReportsInvStep DEF reportsVars
  <2> QED BY <2>1, <2>2, <2>3, <2>4, TablesUntouched DEF CommunitiesInv, CommunitiesTypeOK
<1> QED BY <1>1, <1>2, <1>3, <1>4, OwnershipSteps DEF CommunitiesNext

\* The tables of organizations, chats and reports stay well formed, however the requests of
\* each service are interleaved.
THEOREM CommunitiesTypeCorrect == CommunitiesSpec => []CommunitiesTypeOK
<1>1. CommunitiesInit => CommunitiesInv
  BY OrganizationInvInit, ChatsInvInit, ReportsInvInit, TypesFollow
     DEF CommunitiesInit, CommunitiesInv, CommunitiesTypeOK
<1>2. CommunitiesInv => CommunitiesTypeOK
  BY DEF CommunitiesInv
<1> QED BY <1>1, <1>2, CommunitiesInvStep, PTL DEF CommunitiesSpec
=============================================================================
