-------------------------------- MODULE Site ---------------------------------
(***************************************************************************)
(* The parts of the application that a company's people use side by side:  *)
(* job assignments, the labour board, the call-forward programme, the      *)
(* diary with its live events, the reads of the dashboard and the reports, *)
(* the logo, the weather, the notifications, the tasks, links and progress *)
(* records of jobs and their extras to order; and, beside all of them, the *)
(* companies that register.  No step of one disturbs or enables a step of  *)
(* another, so a behaviour of all of them is a shuffle of a behaviour of   *)
(* each.  One part moves in each behaviour here while the others stay      *)
(* where they start.  The reports read the lines and the clocks of the     *)
(* dashboard's part, over jobs of their own.                               *)
(***************************************************************************)
EXTENDS Assignments, Scheduler, CallForward, Diary, Reports, Branding, Weather, Notifications,
        Registration, JobRecords, ExtrasToOrder

CONSTANTS Parts         \* the parts that may move in this instance

VARIABLES focus         \* the part that moves in this behaviour

siteVars == <<focus, assignmentVars, schedulerVars, callForwardVars, diaryVars, reportsVars,
              brandingVars, weatherVars, notifyVars, registrationVars, recordVars, etoVars>>

SiteParts == {"assignments", "scheduler", "callforward", "diary", "reporting", "reports",
              "branding", "weather", "notifications", "registration", "records", "extras"}

ASSUME PartsAreParts == Parts \subseteq SiteParts

ASSUME AnEmptyBook == \E b \in Books : b.entries = <<>>

(* What was there first goes by the first names, to which its part is        *)
(* indifferent.                                                              *)
First(S) == CHOOSE x \in S : TRUE

Rank == CHOOSE f \in [Supervisors -> 1 .. Cardinality(Supervisors)] :
           \A u, v \in Supervisors : f[u] = f[v] => u = v

RowsAreNamed ==
    /\ \A u \in AssignedIn(assigned) : assigned[u].at = Rank[u]
    /\ \A u \in AssignedIn(assigned), v \in Supervisors :
          Rank[v] < Rank[u] => v \in AssignedIn(assigned)
    /\ AssignedIn(assigned) = {} => job.supervisor \in {First(Supervisors), None}
    /\ \A a \in Absences : Away(a) => a = First(Absences) /\ absence[a].worker = First(Workers)
    /\ \A n \in Earlier : note[n].entry = First(Entries) /\ ~note[n].archived
    /\ \A i \in Records : Exists(i) => record[i].job = First(RecordJobs)

(* A part that will not move starts with nothing in it. *)
AssignmentsAtRest == focus # "assignments" => AssignedIn(assigned) = {} /\ job.supervisor = None

SchedulerAtRest == focus # "scheduler" =>
    /\ \A a \in Absences : ~Away(a)
    /\ \A x \in Allocations : allocation[x] = NoRow

CallForwardAtRest == focus # "callforward" => born = 0

DiaryAtRest == focus # "diary" =>
    /\ sees = {}
    /\ \A r \in Authors : edit[r].entry = First(Entries)

RegistrationAtRest == focus # "registration" =>
    \A r \in Registrants : signup[r] = [pc |-> "idle", setup |-> FALSE, name |-> First(CompanyNames),
        email |-> First(Emails), overlapped |-> FALSE, answer |-> NoAnswer]

RecordsAtRest == focus # "records" =>
    /\ lastRecord = 0
    /\ onJobs = [q \in RecordEditors |-> {}]

NewLine == [type |-> "TASK", status |-> "not_started", est_start |-> NoDate,
            est_finish |-> NoDate, actual_start |-> NoDate, actual_finish |-> NoDate]

NoReports == book = CHOOSE b \in Books : b.entries = <<>>

ReportsOrReporting ==
    \/ focus = "reports" /\ ReportsInit
    \/ /\ focus = "reporting" /\ NoReports
       /\ \E edited \in Line : line = [l \in Lines |-> IF l \in Edited THEN edited ELSE NewLine]
       /\ ReportingInit
    \/ /\ focus \notin {"reports", "reporting"} /\ NoReports
       /\ line = [l \in Lines |-> [NewLine EXCEPT !.type = "HEADER"]]
       /\ ReportingInit

SiteInit ==
    /\ focus \in Parts
    /\ AssignmentsInit /\ AssignmentsAtRest
    /\ SchedulerInit /\ SchedulerAtRest
    /\ CallForwardInit /\ CallForwardAtRest
    /\ DiaryInit /\ DiaryAtRest
    /\ BrandingInit /\ WeatherInit /\ NotificationsInit
    /\ RegistrationInit /\ RegistrationAtRest
    /\ JobRecordsInit /\ RecordsAtRest
    /\ EtosInit
    /\ RowsAreNamed
    /\ ReportsOrReporting

Others(part) ==
    /\ UNCHANGED focus
    /\ part # "assignments" => UNCHANGED assignmentVars
    /\ part # "scheduler" => UNCHANGED schedulerVars
    /\ part # "callforward" => UNCHANGED callForwardVars
    /\ part # "diary" => UNCHANGED diaryVars
    /\ part \notin {"reporting", "reports"} => UNCHANGED reportVars
    /\ part # "reports" => UNCHANGED book
    /\ part # "branding" => UNCHANGED brandingVars
    /\ part # "weather" => UNCHANGED weatherVars
    /\ part # "notifications" => UNCHANGED notifyVars
    /\ part # "registration" => UNCHANGED registrationVars
    /\ part # "records" => UNCHANGED recordVars
    /\ part # "extras" => UNCHANGED etoVars

SiteNext ==
    \/ focus = "assignments" /\ AssignmentsNext /\ Others("assignments")
    \/ focus = "scheduler" /\ SchedulerNext /\ Others("scheduler")
    \/ focus = "callforward" /\ CallForwardNext /\ Others("callforward")
    \/ focus = "diary" /\ DiaryNext /\ Others("diary")
    \/ focus = "reporting" /\ ReportingNext /\ Others("reporting")
    \/ focus = "reports" /\ ReportsNext /\ Others("reports")
    \/ focus = "branding" /\ BrandingNext /\ Others("branding")
    \/ focus = "weather" /\ WeatherNext /\ Others("weather")
    \/ focus = "notifications" /\ NotificationsNext /\ Others("notifications")
    \/ focus = "registration" /\ RegistrationNext /\ Others("registration")
    \/ focus = "records" /\ JobRecordsNext /\ Others("records")
    \/ focus = "extras" /\ EtosNext /\ Others("extras")

Spec == SiteInit /\ [][SiteNext]_siteVars

-----------------------------------------------------------------------------
(* Every variable of every part holds what its table, its column, its local  *)
(* or its channel can.                                                       *)
SiteTypeOK ==
    /\ AssignmentsTypeOK /\ SchedulerTypeOK /\ CallForwardTypeOK /\ DiaryTypeOK
    /\ ReportingTypeOK /\ ReportsTypeOK /\ BrandingTypeOK /\ WeatherTypeOK /\ NotificationsTypeOK
    /\ RegistrationTypeOK /\ JobRecordsTypeOK /\ EtosTypeOK

(* The reports of the jobs agree, in the behaviours where they move: in the  *)
(* others they are of a table at rest.                                       *)
SiteReportsAgree == focus = "reports" => ReportsAgree

(* The reports of the diary agree, likewise.                                 *)
SiteDiaryReportsAgree == focus = "reports" => DiaryReportsAgree

(* A supervisor's grade follows the days and the entries, likewise.          *)
SiteScoresFollowTheDays == [][focus = "reports" => ScoreMove]_siteVars

=============================================================================
