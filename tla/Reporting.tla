----------------------------- MODULE Reporting ------------------------------
(***************************************************************************)
(* What the screens say of a call-forward line as days go by: the delay    *)
(* engine, and the queries behind the dashboard, the reports and the       *)
(* calendar, each of which decides for itself, in SQL or in Rust, whether  *)
(* the line is late, open, coming up or drawn.  A line changes by          *)
(* validated edits, the company's date at its own midnight and the         *)
(* database's CURRENT_DATE at another.                                     *)
(***************************************************************************)
EXTENDS Integers

CONSTANTS
    Lines,          \* call-forward items
    Edited,         \* the ones edited in this instance
    PlanDates,      \* the days dates are set to
    LastDay,        \* the clocks stop there
    Months,         \* calendar windows, [first |-> , last |-> ]
    Horizon,        \* days ahead the upcoming lists look
    NoDate          \* a date that is not set

ASSUME DatesAreDays == /\ LastDay \in Nat \ {0} /\ PlanDates \subseteq 1 .. LastDay
                       /\ Horizon \in Nat
ASSUME EditedAreLines == Edited \subseteq Lines
ASSUME NoDateIsNone == NoDate \notin PlanDates
ASSUME MonthsAreWindows == Months \subseteq [first : 1 .. LastDay, last : 1 .. LastDay]

VARIABLES
    line,           \* call_forward, the columns the reads look at
    today,          \* the company's Clock
    dbToday         \* CURRENT_DATE, in the session's time zone

reportVars == <<line, today, dbToday>>

Dates == PlanDates \cup {NoDate}

(* The database admits no other (call_forward_status_check). *)
CfStatus == {"not_started", "in_progress", "completed", "on_hold"}

Line == [type : {"HEADER", "TASK", "STAGE_CLAIM"}, status : CfStatus, est_start : Dates,
         est_finish : Dates, actual_start : Dates, actual_finish : Dates]

IsSet(date) == date # NoDate

Ordered(start, finish) == IsSet(start) /\ IsSet(finish) => start <= finish

(* Actual dates are put in order, estimates are taken as typed. *)
ValidateActualsOnly(item) == Ordered(item.actual_start, item.actual_finish)

(* CallForwardInput::validate. *)
Validate(item) == /\ Ordered(item.est_start, item.est_finish)
                  /\ Ordered(item.actual_start, item.actual_finish)

-----------------------------------------------------------------------------
(* The delay engine (R1). *)
Plain(status) == [delay_status |-> status, delay_days |-> 0]

DelayedBy(days) == [delay_status |-> "delayed", delay_days |-> days]

(* Late from the day it is due. *)
DueOrPast(item, day) == IsSet(item.est_finish) /\ item.est_finish <= day

PastFinish(item, day) == IsSet(item.est_finish) /\ item.est_finish < day

(* On hold before anything, done before late, late before what is stored.    *)
(* The inference from est_start is for statuses the database does not admit. *)
ComputeDelayInfo(item, day) ==
    IF item.status = "on_hold" THEN Plain("on_hold")
    ELSE IF item.status = "completed" \/ IsSet(item.actual_finish) THEN Plain("completed")
    ELSE IF PastFinish(item, day) THEN DelayedBy(day - item.est_finish)
    ELSE IF IsSet(item.actual_start) \/ item.status = "in_progress" THEN Plain("in_progress")
    ELSE Plain("not_started")

DelayOf(l) == ComputeDelayInfo(line[l], today)

(* Severity::of: the reports' grades. *)
Severity(days) == IF days > 14 THEN 4 ELSE IF days > 7 THEN 3 ELSE IF days > 3 THEN 2 ELSE 1

(* DelayBucket::of: the dashboard's, inclusive at the top. *)
DelayBucket(days) ==
    IF days <= 7 THEN 1 ELSE IF days <= 14 THEN 2 ELSE IF days <= 28 THEN 3 ELSE 4

-----------------------------------------------------------------------------
(* The reads, each from its own query. *)
IsWork(l) == line[l].type # "HEADER"

Closed(l) == line[l].status \in {"completed", "on_hold"}

Finished(l) == IsSet(line[l].actual_finish)

(* The status column alone says what is over. *)
OverdueByStatus == {l \in Lines : IsWork(l) /\ ~Closed(l) /\ PastFinish(line[l], today)}

(* dashboard: the overdue list, and how late each of them is. *)
OverdueCallForwards ==
    {l \in Lines : IsWork(l) /\ ~Finished(l) /\ ~Closed(l) /\ PastFinish(line[l], today)}

OverdueDays == [l \in {k \in Lines : /\ IsWork(k) /\ ~Finished(k) /\ ~Closed(k)
                                     /\ PastFinish(line[k], today)}
                    |-> today - line[l].est_finish]

(* dashboard: the headline counters.  The date is the database's. *)
StatsOverdue ==
    {l \in Lines : ~Closed(l) /\ IsWork(l) /\ PastFinish(line[l], dbToday) /\ ~Finished(l)}

OpenCallForwards == {l \in Lines : IsWork(l) /\ line[l].status \in {"not_started", "in_progress"}}

(* dashboard: the stage claims due by the end of next month, and those overdue. *)
UpcomingClaims ==
    {l \in Lines : /\ line[l].type = "STAGE_CLAIM" /\ line[l].status # "completed"
                   /\ ~Finished(l) /\ PastFinish(line[l], today + Horizon + 1)}

(* reports: active delays. *)
Delays ==
    {l \in Lines : IsWork(l) /\ PastFinish(line[l], today) /\ ~Finished(l) /\ ~Closed(l)}

(* reports: the delayed count of the job progress lines. *)
JobProgressDelayed ==
    {l \in Lines : IsWork(l) /\ ~Closed(l) /\ PastFinish(line[l], today)}

(* reports: the day's report, filtered in the service. *)
DailyDelayed == {l \in Lines : IsWork(l) /\ ~Closed(l) /\ PastFinish(line[l], today)}

(* reports: a supervisor's delayed tasks. *)
SupervisorDelayed ==
    {l \in Lines : IsWork(l) /\ ~Finished(l) /\ ~Closed(l) /\ PastFinish(line[l], today)}

DueFrom(date) == IsSet(date) /\ date >= today

(* reports: upcoming tasks. *)
UpcomingTasks ==
    {l \in Lines : /\ IsWork(l) /\ ~Closed(l) /\ ~Finished(l)
                   /\ DueFrom(line[l].est_start) \/ DueFrom(line[l].est_finish)}

(* call-forward: what finishes within so many days, headers and holds too. *)
Upcoming ==
    {l \in Lines : /\ line[l].status # "completed" /\ ~Finished(l)
                   /\ DueFrom(line[l].est_finish) /\ line[l].est_finish <= today + Horizon}

-----------------------------------------------------------------------------
(* The calendar: where a bar is drawn, and the query that finds it. *)
Coalesce(a, b, c, d) ==
    IF IsSet(a) THEN a ELSE IF IsSet(b) THEN b ELSE IF IsSet(c) THEN c ELSE d

EffectiveRange(item) ==
    [start  |-> Coalesce(item.actual_start, item.est_start, item.actual_finish, item.est_finish),
     finish |-> Coalesce(item.actual_finish, item.est_finish, item.actual_start, item.est_start)]

EffectiveStart(item) ==
    Coalesce(item.actual_start, item.est_start, item.actual_finish, item.est_finish)

(* The finish falls back to a start before it falls back to an estimate. *)
EffectiveFinishOfActuals(item) ==
    Coalesce(item.actual_finish, item.actual_start, item.est_finish, item.est_start)

EffectiveFinish(item) ==
    Coalesce(item.actual_finish, item.est_finish, item.actual_start, item.est_start)

ItemsInWindow(month) ==
    {l \in Lines : /\ IsWork(l)
                   /\ IsSet(EffectiveStart(line[l])) /\ EffectiveStart(line[l]) <= month.last
                   /\ IsSet(EffectiveFinish(line[l])) /\ EffectiveFinish(line[l]) >= month.first}

(* item_event: no date, no bar. *)
Drawn(l) == IsWork(l) /\ IsSet(EffectiveRange(line[l]).start)

-----------------------------------------------------------------------------
ReportingInit ==
    /\ line \in [Lines -> Line] /\ \A l \in Lines : Validate(line[l])
    /\ today = 1 /\ dbToday = 1

(* A PATCH of one field: merged, validated as a whole, written back. *)
EditLine(l) ==
    /\ \E field \in DOMAIN line[l] :
       \E value \in IF field = "status" THEN CfStatus
                    ELSE IF field = "type" THEN {"HEADER", "TASK", "STAGE_CLAIM"} ELSE Dates :
          /\ line' = [line EXCEPT ![l][field] = value]
          /\ Validate(line'[l])
    /\ UNCHANGED <<today, dbToday>>

(* Midnight where the company is. *)
Tomorrow ==
    /\ today < LastDay /\ today <= dbToday
    /\ today' = today + 1
    /\ UNCHANGED <<line, dbToday>>

(* Midnight where the database is: before the company's or after it. *)
DatabaseMidnight ==
    /\ dbToday < LastDay /\ dbToday <= today
    /\ dbToday' = dbToday + 1
    /\ UNCHANGED <<line, today>>

ReportingNext == \/ \E l \in Edited : EditLine(l)
                 \/ Tomorrow
                 \/ DatabaseMidnight

ReportingSpec == ReportingInit /\ [][ReportingNext]_reportVars

-----------------------------------------------------------------------------
ReportingTypeOK ==
    /\ line \in [Lines -> Line]
    /\ today \in 1 .. LastDay
    /\ dbToday \in 1 .. LastDay

(* Every screen that lists late work lists the same work: the dashboard's    *)
(* list, the delay report, a supervisor's count and the delay engine agree   *)
(* on which lines and by how many days, and so does the headline counter     *)
(* while the database is on the same day.  None of it is also listed as      *)
(* coming up, all of it is on the open list, and late claims stay in sight.  *)
OverdueReadsAgree ==
    LET late == {l \in Lines : IsWork(l) /\ DelayOf(l).delay_status = "delayed"}
    IN  /\ OverdueCallForwards = late /\ Delays = late /\ SupervisorDelayed = late
        /\ dbToday = today => StatsOverdue = late
        /\ \A l \in late : l \in DOMAIN OverdueDays /\ OverdueDays[l] = DelayOf(l).delay_days
        /\ late \cap (Upcoming \cup UpcomingTasks) = {}
        /\ late \subseteq OpenCallForwards
        /\ {l \in late : line[l].type = "STAGE_CLAIM"} \subseteq UpcomingClaims

(* Left alone, a line only gets later: it becomes delayed the day after it   *)
(* was due, by one day, and gains a day every midnight, without its grade    *)
(* or its bucket ever improving; nothing else about it moves.                *)
DelayGrows(l, day) ==
    LET now  == ComputeDelayInfo(line[l], day)
        next == ComputeDelayInfo(line[l], day + 1)
    IN  \/ next = now /\ now.delay_status # "delayed"
        \/ /\ next.delay_status = "delayed"
           /\ now.delay_status \in {"not_started", "in_progress", "delayed"}
           /\ next.delay_days = now.delay_days + 1
           /\ Severity(next.delay_days) >= Severity(now.delay_days)
           /\ DelayBucket(next.delay_days) >= DelayBucket(now.delay_days)

DelaysOnlyGrow == [][today' # today => \A l \in Lines : DelayGrows(l, today)]_reportVars

(* The query behind a calendar month finds exactly the bars that touch it,   *)
(* as long as a bar ends after it starts; and it does, unless work started   *)
(* after it should have finished, or finished before it should have started. *)
BarsAreFound ==
    \A l \in Lines :
        LET item == line[l]
            bar  == EffectiveRange(item)
        IN  Drawn(l) =>
              \/ /\ bar.start <= bar.finish
                 /\ \A m \in Months :
                       l \in ItemsInWindow(m) <=> bar.start <= m.last /\ m.first <= bar.finish
              \/ /\ IsSet(item.actual_start) /\ ~Finished(l)
                 /\ PastFinish(item, item.actual_start)
              \/ /\ Finished(l) /\ ~IsSet(item.actual_start)
                 /\ IsSet(item.est_start) /\ item.actual_finish < item.est_start

=============================================================================
