------------------------------- MODULE Reports -------------------------------
(***************************************************************************)
(* Reports of accounts, organizations, activities and news, the module     *)
(* report: a user files one, the reporter and the admins exchange          *)
(* messages, an admin decides.  ReportService reads the report, and then   *)
(* writes it by id.                                                        *)
(*                                                                         *)
(* createReportMessage does not wait for the check of the sender it        *)
(* starts.  The check rejects every sender who is no admin; nobody handles *)
(* that rejection, and Node ends the process, with whatever it is doing.   *)
(***************************************************************************)
EXTENDS Requests

CONSTANTS
    Reporters,  \* accounts that report
    Admins,     \* accounts with the role admin
    Targets,    \* what is reported
    MaxReports  \* bound: reports filed

VARIABLES
    report,
    rejecting  \* a check that will reject is in flight

reportVars == <<report, rejecting>>

ReportStatus == {"pending", "cancelled", "reviewing", "completed", "rejected"}
OpenStatus == {"pending", "reviewing"}

OpenReports(a, t) ==
    {i \in DOMAIN report : /\ report[i].reporter = a /\ report[i].target = t
                           /\ report[i].status \in OpenStatus}

ReportRequest(h, op, a, i, seen) ==
    Begin(h, [op |-> op, at |-> "write", by |-> a,
              on |-> {<<"reporter", report[i].reporter>>}, arg |-> i, seen |-> seen])

\* The update by id that ends a decision.
Decide(h, op, i, st) ==
    /\ At(h, op, "write") /\ req[h].arg = i
    /\ report' = [report EXCEPT ![i].status = st]
    /\ End(h)
    /\ UNCHANGED rejecting

-----------------------------------------------------------------------------

CreateReportAs(h, a, t, st) ==
    /\ At(h, "create", "write") /\ req[h].by = a /\ req[h].arg = t
    /\ NextId(report) <= MaxReports
    /\ report' = Insert(report, [reporter |-> a, target |-> t, status |-> st, answers |-> {}])
    /\ End(h)
    /\ UNCHANGED rejecting

AskToReport(h, a, t) ==
    /\ Begin(h, [op |-> "create", at |-> "write", by |-> a,
                 on |-> {<<"reporter", a>>}, arg |-> t, seen |-> 0])
    /\ UNCHANGED reportVars

\* Mutant: the default of the column is none of the statuses.
CreateReportDraft(h, a, t) ==
    \/ OpenReports(a, t) = {} /\ AskToReport(h, a, t)
    \/ CreateReportAs(h, a, t, "draft")

\* Mutant: only a report under review counts.
CreateReportAgain(h, a, t) ==
    \/ /\ \A i \in OpenReports(a, t) : report[i].status = "pending"
       /\ AskToReport(h, a, t)
    \/ CreateReportAs(h, a, t, "pending")

\* createReport: no open report of the reporter on the same target, then create.
CreateReport(h, a, t) ==
    \/ OpenReports(a, t) = {} /\ AskToReport(h, a, t)
    \/ CreateReportAs(h, a, t, "pending")

\* validateReportMessage, which takes the id of the report for that of the reporter.
SenderRejected(a, i) == a # i /\ a \notin Admins

\* createReportMessage: the first message of an admin opens the review.
CreateReportMessage(h, a, i) ==
    \/ /\ a \in Admins \/ report[i].reporter = a
       /\ report[i].status \in OpenStatus
       /\ ReportRequest(h, "message", a, i, report[i].status)
       /\ rejecting' = (rejecting \/ SenderRejected(a, i))
       /\ UNCHANGED report
    \/ /\ At(h, "message", "write") /\ req[h].by = a /\ req[h].arg = i
       /\ report' = [report EXCEPT
             ![i].answers = @ \cup {a},
             ![i].status = IF req[h].seen = "pending" /\ a \in Admins
                           THEN "reviewing" ELSE @]
       /\ End(h)
       /\ UNCHANGED rejecting

\* The process ends, and starts again.
Exit ==
    /\ rejecting
    /\ rejecting' = FALSE
    /\ req' = [h \in Handlers |-> Idle]
    /\ UNCHANGED <<manner, failing, aborts, report>>

\* Mutant: the status is not looked at.
CancelAlways(h, i) ==
    \/ /\ ReportRequest(h, "cancel", report[i].reporter, i, 0)
       /\ UNCHANGED reportVars
    \/ Decide(h, "cancel", i, "cancelled")

\* cancelReport, by the reporter.
CancelReport(h, i) ==
    \/ /\ report[i].status \in OpenStatus
       /\ ReportRequest(h, "cancel", report[i].reporter, i, 0)
       /\ UNCHANGED reportVars
    \/ Decide(h, "cancel", i, "cancelled")

\* Mutant: a report nobody has answered can be completed.
CompleteUnanswered(h, a, i) ==
    \/ /\ report[i].status \in OpenStatus
       /\ ReportRequest(h, "complete", a, i, 0)
       /\ UNCHANGED reportVars
    \/ Decide(h, "complete", i, "completed")

CompleteReport(h, a, i) ==
    \/ /\ report[i].status = "reviewing"
       /\ ReportRequest(h, "complete", a, i, 0)
       /\ UNCHANGED reportVars
    \/ Decide(h, "complete", i, "completed")

RejectReport(h, a, i) ==
    \/ /\ report[i].status = "reviewing"
       /\ ReportRequest(h, "reject", a, i, 0)
       /\ UNCHANGED reportVars
    \/ Decide(h, "reject", i, "rejected")

-----------------------------------------------------------------------------

ReportsInit == report = <<>> /\ rejecting = FALSE

ReportsNext ==
    \E h \in Handlers :
        \/ \E a \in Reporters, t \in Targets : CreateReport(h, a, t)
        \/ \E i \in DOMAIN report :
              \/ \E a \in Reporters \cup Admins : CreateReportMessage(h, a, i)
              \/ CancelReport(h, i)
              \/ \E a \in Admins : CompleteReport(h, a, i) \/ RejectReport(h, a, i)
        \/ Exit
        \/ Abort(h) /\ UNCHANGED reportVars

reportsVars == <<requestVars, reportVars>>
ReportsSpec == RequestsInit /\ ReportsInit /\ [][ReportsNext]_reportsVars

-----------------------------------------------------------------------------

ReportRow == [reporter : Reporters, target : Targets, status : ReportStatus,
              answers : SUBSET (Reporters \cup Admins)]

\* Reports are well formed.
ReportsTypeOK ==
    /\ report \in [DOMAIN report -> ReportRow]
    /\ DOMAIN report = 1..Cardinality(DOMAIN report)
    /\ rejecting \in BOOLEAN

\* A report is under review, completed or rejected only after an admin has written a
\* message about it, whatever requests race.
DecidedAfterAnswer ==
    \A i \in DOMAIN report :
        report[i].status \in {"reviewing", "completed", "rejected"}
            => report[i].answers \cap Admins # {}

\* While requests about the reports of one reporter keep apart, nobody has two open
\* reports on one target (ReportIsInReviewingException).
OneOpenReport ==
    manner \in {"subject", "serial"} =>
        \A a \in Reporters, t \in Targets : Cardinality(OpenReports(a, t)) <= 1

\* While they keep apart, what has been cancelled, completed or rejected stays so.
ClosedStays(i) ==
    manner \in {"subject", "serial"} /\ report[i].status \notin OpenStatus
        => report'[i].status = report[i].status
ClosedStaysClosed == [][\A i \in DOMAIN report : ClosedStays(i)]_reportsVars
=============================================================================
