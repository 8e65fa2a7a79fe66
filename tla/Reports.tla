------------------------------- MODULE Reports -------------------------------
(***************************************************************************)
(* The reports, the dashboard and the calendar of a company's jobs: who    *)
(* may ask about which job, what each report lists under which filter, how *)
(* it grades a job, a diary entry or a supervisor, and how the clock and a *)
(* diary entry move the grades.  Every report is its own query; the lines  *)
(* are those of Reporting, here each on a job.                             *)
(***************************************************************************)
EXTENDS Reporting, Sequences, FiniteSetsExt

CONSTANTS
    Projects,       \* jobs
    Crew,           \* supervisors
    ProjectOf,      \* the job of each line
    Books,          \* what the tables may hold at first
    Office,         \* a caller who sees every job of the company
    Blank,          \* a filter left out, a column that is NULL
    RecentDays,     \* RECENT_DIARY_DAYS, 7 in the code
    FirstSaturday,  \* which day of the week day 1 is
    Filings,        \* bound: diary entries of all jobs
    LastReportDay   \* bound: the clock stops there

VARIABLES book      \* jobs, site_diary, and the supervisors who are active

reportsVars == <<line, today, dbToday, book>>

(* A note's text, as far as the reports tell texts apart. *)
Text == [safety : BOOLEAN, issues : {"", "other", "weather"}]

Entry == [project : Projects, date : 1 .. LastDay, author : Crew \cup {Blank},
          notes : Text, columns : Text, condition : {"", "fine", "rain", "storm"},
          rain : 0 .. 20]

Project == [status : {"active", "completed", "archived", "on_hold"}, start : Dates,
            finish : Dates, supervisor : Crew \cup {Blank}, assigned : SUBSET Crew]

Tables == [project : [Projects -> Project], entries : Seq(Entry), active : SUBSET Crew,
         line : [Lines -> Line]]

(* jobs_date_order_check, and the validation of the lines. *)
IsBook(b) ==
    /\ \A j \in Projects : Ordered(b.project[j].start, b.project[j].finish)
    /\ \A l \in Lines : Validate(b.line[l])

ASSUME BooksAreBooks == \A b \in Books : b \in Tables /\ IsBook(b) /\ Len(b.entries) <= Filings
ASSUME TablesAreFinite == IsFiniteSet(Lines) /\ IsFiniteSet(Projects) /\ IsFiniteSet(Crew)
ASSUME LinesHaveJobs == ProjectOf \in [Lines -> Projects]
ASSUME ReportDays == /\ {RecentDays, FirstSaturday, Filings} \subseteq Nat
                     /\ LastReportDay \in 1 .. LastDay
ASSUME NamesAreNames == Blank \notin Crew \cup Projects /\ Office \notin Crew
ASSUME NullIsNoValue == /\ Blank \notin Int \cup {"rainfall", "condition", "issues"}
                        /\ NoDate \notin Int
ASSUME MonthsAreInOrder == \A m \in Months : m.first <= m.last

-----------------------------------------------------------------------------
(* The grades. *)
JobHealth(delayed) == IF delayed > 0 THEN "delayed" ELSE "on_track"

(* Rounded to the nearest, a half up. *)
RoundedDiv(a, b) == (2 * a + b) \div (2 * b)

(* No items is nothing done. *)
CompletionPct(completed, total) ==
    IF total <= 0 THEN 0 ELSE (completed * 200 + total) \div (total * 2)

Percentage(part, whole) == IF whole <= 0 THEN 0 ELSE RoundedDiv(100 * part, whole)

MeanDays(total, count) == IF count > 0 THEN RoundedDiv(total, count) ELSE Blank

(* Nothing expected is no data; two entries on a day do not make 140%. *)
DiaryCompliance(actual, expected) ==
    IF expected <= 0 THEN Blank ELSE Min({Percentage(actual, expected), 100})

(* No data scores as average, no tasks as all on track.  In hundredths, before  *)
(* the code rounds it: its doubles can hold a half as a little less.            *)
PerformanceScore(completion, start, diary, total, delayed) ==
    LET Score(rate) == IF rate = Blank THEN 50 ELSE rate
        onTrack     == IF total > 0 THEN Percentage(total - delayed, total) ELSE 100
    IN  35 * Score(completion) + 25 * Score(start) + 25 * Score(diary) + 15 * onTrack

Weekend(day) == (day - FirstSaturday) % 7 \in {0, 1}

(* A remainder counted from the wrong end. *)
WorkingDaysFromStart(first, last) ==
    IF first > last THEN 0
    ELSE LET weeks == (last - first + 1) \div 7
         IN  5 * weeks + Cardinality({d \in first .. last - 7 * weeks - 1 : ~Weekend(d)})

(* Five days a week, and the days of the last week counted one by one. *)
WorkingDays(first, last) ==
    IF first > last THEN 0
    ELSE LET weeks == (last - first + 1) \div 7
         IN  5 * weeks + Cardinality({d \in first + 7 * weeks .. last : ~Weekend(d)})

(* The evidence that a day's weather stopped work, the most objective first. *)
WeatherImpact(condition, rain, issues) ==
    IF rain > 10 THEN "rainfall"
    ELSE IF condition \in {"rain", "storm"} THEN "condition"
    ELSE IF issues = "weather" THEN "issues" ELSE Blank

WasRainy(condition, rain) == condition = "rain" \/ rain > 0

(* Issues outrank safety notes. *)
InspectionStatus(text) ==
    IF text.issues # "" THEN "issues_found" ELSE IF text.safety THEN "clear" ELSE "pending"

-----------------------------------------------------------------------------
(* Who may ask about what. *)
Responsible(u, j) == u = book.project[j].supervisor \/ u \in book.project[j].assigned

JobScope(s) == IF s = Office THEN Projects ELSE {j \in Projects : Responsible(s, j)}

Query == [job : Projects \cup {Blank}, supervisor : Crew \cup {Blank},
          author : Crew \cup {Blank}, from : Dates, to : Dates]

AnyQuery == [job |-> Blank, supervisor |-> Blank, author |-> Blank,
             from |-> NoDate, to |-> NoDate]

Prepare(s, q) ==
    IF ~Ordered(q.from, q.to) THEN "invalid"
    ELSE IF q.job # Blank /\ q.job \notin JobScope(s) THEN "forbidden" ELSE "ok"

(* The jobs a query may read; one that is refused reads none. *)
ReportScope(s, q) ==
    {j \in JobScope(s) : Prepare(s, q) = "ok" /\ q.job \in {Blank, j}}

(* Only those they lead. *)
SupervisorPrimaryJobs(s, q) ==
    {j \in ReportScope(s, q) : q.supervisor \in {Blank, book.project[j].supervisor}}

(* Jobs of the supervisor filtered by, who need not be the caller. *)
SupervisorJobs(s, q) ==
    {j \in ReportScope(s, q) : q.supervisor = Blank \/ Responsible(q.supervisor, j)}

(* A NULL date is in no range but the unbounded one. *)
Within(date, q) == /\ IsSet(q.from) => IsSet(date) /\ q.from <= date
                   /\ IsSet(q.to) => IsSet(date) /\ date <= q.to

LinesOf(jobs) == {l \in Lines : ProjectOf[l] \in jobs}

OrElse(a, b) == IF IsSet(a) THEN a ELSE b

-----------------------------------------------------------------------------
(* The reports on lines. *)
DelayReport(s, q) ==
    {l \in Delays \cap LinesOf(SupervisorJobs(s, q)) : Within(line[l].est_finish, q)}

UpcomingReport(s, q) ==
    {l \in UpcomingTasks \cap LinesOf(SupervisorJobs(s, q)) :
        Within(OrElse(line[l].est_start, line[l].est_finish), q)}

StageClaims(s, q) ==
    {l \in LinesOf(SupervisorJobs(s, q)) :
        line[l].type = "STAGE_CLAIM" /\ Within(line[l].est_finish, q)}

(* An active job stays whatever its forecast; a job asked for is shown. *)
JobsReported(s, q) ==
    {j \in SupervisorJobs(s, q) :
        \/ q.job # Blank
        \/ book.project[j].status = "active"
        \/ /\ IsSet(book.project[j].start)
           /\ IsSet(q.to) => book.project[j].start <= q.to
           /\ IsSet(q.from) /\ IsSet(book.project[j].finish) => q.from <= book.project[j].finish}

WorkIn(j, statuses) ==
    {l \in LinesOf({j}) : IsWork(l) /\ line[l].status \in statuses}

JobProgress(s, q) ==
    [j \in JobsReported(s, q) |->
        LET delayed == Cardinality(JobProgressDelayed \cap LinesOf({j}))
        IN  [delayed |-> delayed, health |-> JobHealth(delayed),
             counts  |-> [status \in CfStatus |-> Cardinality(WorkIn(j, {status}))],
             pct     |-> CompletionPct(Cardinality(WorkIn(j, {"completed"})),
                                       Cardinality(WorkIn(j, CfStatus)))]]

(* The programme is as late as its latest piece. *)
DaysBehind(lines) == Max({0} \cup {today - line[l].est_finish : l \in lines})

PlannedOn(l, day) ==
    LET item == line[l]
    IN  /\ IsWork(l)
        /\ IsSet(item.est_start) \/ IsSet(item.est_finish)
        /\ IsSet(item.est_start) => item.est_start <= day
        /\ IsSet(item.est_finish) => day <= item.est_finish

(* The day's diary: the last entry of that date. *)
DailyEntry(j, day) ==
    Max({0} \cup {i \in DOMAIN book.entries : /\ book.entries[i].project = j
                                              /\ book.entries[i].date = day})

DailyProgress(j, day) ==
    LET delayed == DailyDelayed \cap LinesOf({j})
    IN  [delayed |-> Cardinality(delayed), behind |-> DaysBehind(delayed),
         health  |-> JobHealth(Cardinality(delayed)),
         counts  |-> [status \in {"completed", "in_progress", "not_started"} |->
                         Cardinality(WorkIn(j, {status}))],
         pct     |-> CompletionPct(Cardinality(WorkIn(j, {"completed"})),
                                   Cardinality(WorkIn(j, CfStatus))),
         planned |-> {l \in LinesOf({j}) : PlannedOn(l, day)}, entry |-> DailyEntry(j, day)]

(* Nobody is told of a job they cannot see. *)
DailyReport(s, j, day) == IF j \in JobScope(s) THEN <<DailyProgress(j, day)>> ELSE <<>>

-----------------------------------------------------------------------------
(* The reports on the diary.  Notes before the columns they replaced. *)
Rolled(e) == [safety |-> e.notes.safety \/ e.columns.safety,
              issues |-> IF e.notes.issues # "" THEN e.notes.issues ELSE e.columns.issues]

EntriesAsked(s, q) ==
    {i \in DOMAIN book.entries : /\ book.entries[i].project \in ReportScope(s, q)
                                 /\ Within(book.entries[i].date, q)}

DiarySummary(s, q) ==
    {i \in EntriesAsked(s, q) : q.author \in {Blank, book.entries[i].author}}

(* The supervisor filtered by is the entry's author here. *)
InspectionRows(s, q) ==
    {i \in EntriesAsked(s, q) : q.supervisor \in {Blank, book.entries[i].author}}

Inspections(s, q, status) ==
    {i \in InspectionRows(s, q) : InspectionStatus(Rolled(book.entries[i])) = status}

(* The weather report reads the column alone. *)
WeatherRow(e) == [condition |-> e.condition, rain |-> e.rain, issues |-> e.columns.issues]

WeatherReport(s, q) ==
    LET Row(i) == WeatherRow(book.entries[i])
        rows   == EntriesAsked(s, q)
    IN  [rows   |-> rows,
         impact |-> {i \in rows :
                        WeatherImpact(Row(i).condition, Row(i).rain, Row(i).issues) # Blank},
         rainy  |-> {i \in rows : WasRainy(Row(i).condition, Row(i).rain)},
         total  |-> MapThenSumSet(LAMBDA i : Row(i).rain, rows)]

-----------------------------------------------------------------------------
(* The report on the supervisors. *)
SupervisorsReported(q) ==
    {u \in book.active : Ordered(q.from, q.to) /\ q.supervisor \in {Blank, u}}

ProjectsOf(u) == {j \in Projects : Responsible(u, j)}

(* Started, or finished, with a plan to be held to. *)
Measured(u, actual, estimate) ==
    {l \in LinesOf(ProjectsOf(u)) :
        IsWork(l) /\ IsSet(line[l][actual]) /\ IsSet(line[l][estimate])}

OnTime(u, actual, estimate) ==
    {l \in Measured(u, actual, estimate) : line[l][actual] <= line[l][estimate]}

(* The entries on a supervisor's jobs, whoever wrote them. *)
EntriesCounted(u, q) ==
    {i \in DOMAIN book.entries : /\ book.entries[i].project \in ProjectsOf(u)
                                 /\ Within(book.entries[i].date, q)}

(* One day on one job is one day, however many entries it has. *)
DiaryDays(u, q) ==
    {<<book.entries[i].project, book.entries[i].date>> : i \in EntriesCounted(u, q)}

SupervisorCounts(u, q) ==
    LET delayed == SupervisorDelayed \cap LinesOf(ProjectsOf(u))
        In(status) == Cardinality({j \in ProjectsOf(u) : book.project[j].status = status})
    IN  [jobs       |-> Cardinality(ProjectsOf(u)),
         active     |-> In("active"),
         completed  |-> In("completed"),
         started    |-> Cardinality(Measured(u, "actual_start", "est_start")),
         started_on_time  |-> Cardinality(OnTime(u, "actual_start", "est_start")),
         finished   |-> Cardinality(Measured(u, "actual_finish", "est_finish")),
         finished_on_time |-> Cardinality(OnTime(u, "actual_finish", "est_finish")),
         tasks      |-> Cardinality({l \in LinesOf(ProjectsOf(u)) : IsWork(l)}),
         delayed    |-> Cardinality(delayed),
         delay_days |-> MapThenSumSet(LAMBDA l : today - line[l].est_finish, delayed),
         diary_days |-> Cardinality(DiaryDays(u, q))]

(* From the start of a job to its end, today at the latest, within the range. *)
JobWindow(j, q) ==
    LET p    == book.project[j]
        last == Min({today, OrElse(p.finish, today)})
    IN  [first |-> IF IsSet(q.from) THEN Max({p.start, q.from}) ELSE p.start,
         last  |-> IF IsSet(q.to) THEN Min({last, q.to}) ELSE last]

HasWindow(j) == /\ book.project[j].status \in {"active", "completed"}
                /\ IsSet(book.project[j].start)

DaysExpected(u, q) ==
    MapThenSumSet(LAMBDA j : WorkingDays(JobWindow(j, q).first, JobWindow(j, q).last),
                  {j \in ProjectsOf(u) : HasWindow(j)})

Rate(part, whole) == IF whole > 0 THEN Percentage(part, whole) ELSE Blank

Graded(counts, expected) ==
    LET diary == DiaryCompliance(counts.diary_days, expected)
    IN  [counts    |-> counts,
         expected  |-> expected,
         diary     |-> diary,
         avg_delay |-> MeanDays(counts.delay_days, counts.delayed),
         score     |-> PerformanceScore(Rate(counts.finished_on_time, counts.finished),
                                        Rate(counts.started_on_time, counts.started),
                                        diary, counts.tasks, counts.delayed)]

SupervisorPerformance(q) ==
    [u \in SupervisorsReported(q) |-> Graded(SupervisorCounts(u, q), DaysExpected(u, q))]

-----------------------------------------------------------------------------
(* The dashboard. *)
JobsInStatus(s, statuses) == {j \in JobScope(s) : book.project[j].status \in statuses}

RecentDiary(s) == {i \in DOMAIN book.entries : /\ book.entries[i].project \in JobScope(s)
                                               /\ today - RecentDays <= book.entries[i].date}

DashboardStats(s) ==
    [active    |-> Cardinality(JobsInStatus(s, {"active"})),
     completed |-> Cardinality(JobsInStatus(s, {"completed"})),
     open      |-> Cardinality(OpenCallForwards \cap LinesOf(JobScope(s))),
     overdue   |-> Cardinality(StatsOverdue \cap LinesOf(JobScope(s))),
     recent    |-> Cardinality(RecentDiary(s))]

(* How many, how late on average and at most, in each bucket. *)
DelaySeverity(s) ==
    LET late == OverdueCallForwards \cap LinesOf(JobScope(s))
    IN  [b \in 1 .. 4 |->
            LET In == {l \in late : DelayBucket(OverdueDays[l]) = b}
            IN  [count |-> Cardinality(In),
                 avg   |-> IF In = {} THEN 0
                           ELSE RoundedDiv(MapThenSumSet(LAMBDA l : OverdueDays[l], In),
                                           Cardinality(In)),
                 max   |-> Max({0} \cup {OverdueDays[l] : l \in In})]]

(* Who the filters of the reports offer: those still here. *)
ReportMeta(s) == {u \in book.active : \E j \in JobScope(s) : Responsible(u, j)}

-----------------------------------------------------------------------------
(* The calendar: jobs, and the lines of Reporting, in a window. *)
JobsInWindow(month) ==
    {j \in Projects : LET p == book.project[j]
                      IN  /\ IsSet(p.start) /\ p.start <= month.last
                          /\ IsSet(p.finish) => month.first <= p.finish}

(* What is shown of a job with no start or no end. *)
JobBar(j, month) == [start  |-> OrElse(book.project[j].start, month.first),
                     finish |-> OrElse(book.project[j].finish, month.last)]

(* The calendar filters by the job's own supervisor alone. *)
CalendarJobs(s, q) ==
    {j \in ReportScope(s, [q EXCEPT !.from = NoDate, !.to = NoDate]) :
        q.supervisor \in {Blank, book.project[j].supervisor}}

EventKind(l) == IF line[l].type = "STAGE_CLAIM" THEN "claim" ELSE "task"

Calendar(s, q, kind, month) ==
    [jobs  |-> {j \in JobsInWindow(month) \cap CalendarJobs(s, q) : kind \in {"all", "job"}},
     lines |-> {l \in ItemsInWindow(month) \cap LinesOf(CalendarJobs(s, q)) :
                   Drawn(l) /\ kind \in {"all", EventKind(l)}}]

CalendarFilters(s) == {u \in Crew : \E j \in JobScope(s) : Responsible(u, j)}

-----------------------------------------------------------------------------
ReportsInit ==
    /\ book \in Books
    /\ line = book.line
    /\ today = 1 /\ dbToday = 1

(* A supervisor's entry on a job of theirs, for the day they name, past or to *)
(* come, or else for today: nothing but the facts.                            *)
FileEntry(u, j, date) ==
    /\ Len(book.entries) < Filings
    /\ u \in book.active /\ Responsible(u, j)
    /\ book' = [book EXCEPT !.entries = Append(@,
                    [project |-> j, date |-> OrElse(date, today), author |-> u,
                     notes |-> [safety |-> FALSE, issues |-> ""],
                     columns |-> [safety |-> TRUE, issues |-> ""],
                     condition |-> "fine", rain |-> 0])]
    /\ UNCHANGED <<line, today, dbToday>>

NextDay == /\ today < LastReportDay /\ Tomorrow
           /\ UNCHANGED book

NextDatabaseDay == /\ dbToday < LastReportDay /\ DatabaseMidnight
                   /\ UNCHANGED book

ReportsNext == \/ \E u \in Crew, j \in Projects, date \in Dates : FileEntry(u, j, date)
               \/ NextDay
               \/ NextDatabaseDay

ReportsSpec == ReportsInit /\ [][ReportsNext]_reportsVars

-----------------------------------------------------------------------------
ReportsTypeOK == /\ book \in Tables /\ IsBook(book)
                 /\ Len(book.entries) <= Filings

(* What is late is late on every report: a supervisor's own delay report is  *)
(* the office's report filtered by them, their grade counts those delays and *)
(* their days, and a job's progress counts them and the lines that were      *)
(* finished without being closed, on the day's report as on the overall one. *)
DelaysAgree ==
    /\ \A u \in Crew :
          LET filtered == [AnyQuery EXCEPT !.supervisor = u]
              late     == DelayReport(Office, filtered)
          IN  /\ DelayReport(u, AnyQuery) = late
              /\ UpcomingReport(u, AnyQuery) = UpcomingReport(Office, filtered)
              /\ StageClaims(u, AnyQuery) = StageClaims(Office, filtered)
              /\ u \in book.active =>
                    LET c == SupervisorCounts(u, filtered)
                    IN  /\ c.delayed = Cardinality(late)
                        /\ c.delay_days = MapThenSumSet(LAMBDA l : DelayOf(l).delay_days, late)
    /\ \A j \in Projects :
          LET late  == DelayReport(Office, [AnyQuery EXCEPT !.job = j])
              row   == JobProgress(Office, [AnyQuery EXCEPT !.job = j])[j]
              day   == DailyReport(Office, j, today)[1]
          IN  /\ row.delayed = Cardinality(late)
                   + Cardinality({l \in OverdueByStatus \cap LinesOf({j}) : Finished(l)})
              /\ <<day.delayed, day.health, day.pct>> = <<row.delayed, row.health, row.pct>>
              /\ \A status \in DOMAIN day.counts : day.counts[status] = row.counts[status]
              /\ \A l \in late : DelayOf(l).delay_days <= day.behind
              /\ day.planned \cap late = {}

(* No range hides a delay for good: it is on the report up to a day or on    *)
(* the one from the next, and on one of them.  And nothing open with a       *)
(* finish planned falls between the late and the upcoming.                   *)
NothingFallsBetween ==
    \A s \in Crew \cup {Office} :
        /\ \A d \in PlanDates :
              LET before == DelayReport(s, [AnyQuery EXCEPT !.to = d])
                  after  == DelayReport(s, [AnyQuery EXCEPT !.from = d + 1])
              IN  before \cup after = DelayReport(s, AnyQuery) /\ before \cap after = {}
        /\ \A l \in LinesOf(JobScope(s)) :
              IsWork(l) /\ ~Closed(l) /\ ~Finished(l) /\ IsSet(line[l].est_finish) =>
                  (l \in DelayReport(s, AnyQuery)) # (l \in UpcomingReport(s, AnyQuery))

(* The dashboard's counters are the lengths of its lists and of the reports, *)
(* the buckets hold every late line, and the supervisors a report offers to  *)
(* filter by are those who are graded on some job and whom the calendar      *)
(* offers too.                                                               *)
DashboardAddsUp ==
    /\ \A s \in Crew \cup {Office} :
          LET stats    == DashboardStats(s)
              severity == DelaySeverity(s)
              counts   == [b \in 1 .. 4 |-> severity[b].count]
          IN  /\ dbToday = today => stats.overdue = Cardinality(DelayReport(s, AnyQuery))
              /\ MapThenSumSet(LAMBDA b : counts[b], 1 .. 4) = Cardinality(DelayReport(s, AnyQuery))
              /\ \A b \in 1 .. 4 : severity[b].avg <= severity[b].max
              /\ stats.open = Cardinality({l \in LinesOf(JobScope(s)) : IsWork(l) /\ ~Closed(l)})
              /\ JobsInStatus(s, {"active"}) \subseteq DOMAIN JobProgress(s, AnyQuery)
              /\ ReportMeta(s) \subseteq CalendarFilters(s)
    /\ ReportMeta(Office) =
          {u \in book.active : SupervisorPerformance(AnyQuery)[u].counts.jobs > 0}

(* A calendar month draws a job on its own days of that month, and the kinds *)
(* it can be filtered by share out what it draws.                            *)
JobBarsFit ==
    \A m \in Months :
        LET drawn(kind) == Calendar(Office, AnyQuery, kind, m)
        IN  /\ drawn("all").jobs = drawn("job").jobs /\ drawn("job").lines = {}
            /\ drawn("all").lines = drawn("claim").lines \cup drawn("task").lines
            /\ \A j \in drawn("all").jobs :
                  LET bar == JobBar(j, m)
                  IN  bar.start <= bar.finish /\ bar.start <= m.last /\ m.first <= bar.finish

(* The reports, the dashboard and the calendar never tell two stories: all of *)
(* the above, in every state of the jobs and on every day.                    *)
ReportsAgree == DelaysAgree /\ NothingFallsBetween /\ DashboardAddsUp /\ JobBarsFit

(* The working days of any span are its weekdays. *)
WorkingDaysAreWeekdays ==
    \A first, last \in 1 .. LastDay :
        WorkingDays(first, last) = Cardinality({d \in first .. last : ~Weekend(d)})

(* A weekday of a job under way or done, from its start to its end. *)
DiaryDue(j, d) ==
    /\ HasWindow(j) /\ book.project[j].start <= d /\ ~Weekend(d)
    /\ IsSet(book.project[j].finish) => d <= book.project[j].finish

DayRange(first, last) == [AnyQuery EXCEPT !.from = first, !.to = last]

DayRanges == {DayRange(first, last) : first \in Dates, last \in Dates}

(* On any range of days: the inspection statuses share out an author's        *)
(* summary, and the weather report tells of all the rain in it.               *)
RangesAgree ==
    \A q \in DayRanges :
        /\ \A u \in Crew :
              LET by(status) == Inspections(Office, [q EXCEPT !.supervisor = u], status)
                  all == {by("issues_found"), by("clear"), by("pending")}
              IN  /\ UNION all = DiarySummary(Office, [q EXCEPT !.author = u])
                  /\ \A A, B \in all : A = B \/ A \cap B = {}
        /\ LET weather == WeatherReport(Office, q)
           IN  /\ weather.rows = DiarySummary(Office, q)
               /\ \A i \in weather.rows : book.entries[i].rain > 10 =>
                     i \in weather.impact \cap weather.rainy
               /\ weather.total > 10 * Cardinality(weather.rows) => weather.impact # {}

(* Expected is every day that is due, and no grade is beyond its scale. *)
GradesAreFair ==
    \A u \in book.active :
        LET grade == SupervisorPerformance(AnyQuery)[u]
        IN  /\ grade.expected =
                  Cardinality({day \in ProjectsOf(u) \X (1 .. today) : DiaryDue(day[1], day[2])})
            /\ grade.diary \in 0 .. 100 \cup {Blank}
            /\ 0 <= grade.score /\ grade.score <= 10000

(* The reports on the diary count the same entries: the three inspection     *)
(* statuses share out an author's summary, the weather report has the rows   *)
(* of the summary and every day of heavy rain is a rainy day that cost time, *)
(* and the dashboard's recent list is the summary from its first day on,     *)
(* entries for days to come included.  What a supervisor is held to is every *)
(* weekday, up to today, of every job of theirs with a start; nobody is      *)
(* credited with more.                                                       *)
DiaryReportsAgree ==
    /\ WorkingDaysAreWeekdays
    /\ RangesAgree
    /\ \A s \in Crew \cup {Office} :
          RecentDiary(s) = DiarySummary(s, [AnyQuery EXCEPT !.from = today - RecentDays])
    /\ GradesAreFair

SecondOfItsDay(i) ==
    \E k \in 1 .. i - 1 :
        /\ book.entries[k].project = book.entries[i].project
        /\ book.entries[k].date = book.entries[i].date

GradeMoves(was, is) ==
    /\ today' # today =>
          /\ is.score <= was.score \/ was.diary = Blank
          /\ Weekend(today') => is.expected = was.expected
    /\ book'.entries # book.entries =>
          /\ is.score >= was.score
          /\ SecondOfItsDay(Len(book.entries))' => is = was

(* From the grade of each supervisor to that of the next state's counts and days. *)
ScoreMove ==
    today' # today \/ book' # book =>
        \A u \in book.active :
            \A counts \in {SupervisorCounts(u, AnyQuery)'}, expected \in {DaysExpected(u, AnyQuery)'} :
                GradeMoves(SupervisorPerformance(AnyQuery)[u], Graded(counts, expected))

(* How a supervisor's grade moves.  Midnight alone never raises it, except   *)
(* from the average that stands for no data, and expects nothing of them for *)
(* a Saturday or a Sunday.  An entry never lowers it, and a second entry on  *)
(* a day of a job changes nobody's grade.                                    *)
ScoresFollowTheDays == [][ScoreMove]_reportsVars

-----------------------------------------------------------------------------
(* The comment where the calendar draws a job: "A job with no dates still    *)
(* occupies the window it was asked about, rather than vanishing from the    *)
(* calendar."  The query has already left it out.                            *)
DatelessJobIsDrawn ==
    \A m \in Months, j \in Projects :
        ~IsSet(book.project[j].start) /\ ~IsSet(book.project[j].finish)
            => j \in Calendar(Office, AnyQuery, "all", m).jobs

=============================================================================
