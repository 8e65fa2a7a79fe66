------------------------------ MODULE Scheduler ------------------------------
(***************************************************************************)
(* The labour board of one company: workers, the periods they are away and *)
(* the days they are booked.  SchedulerService over PgSchedulerRepository. *)
(* Absences exclude one another in the database, under a trigger and an    *)
(* advisory lock; a booking looks for absences once, in an earlier call.   *)
(***************************************************************************)
EXTENDS Integers, FiniteSets

CONSTANTS
    Workers,        \* worker ids
    Days,           \* the days of the window, in order
    Absences,       \* ids of absences; a deleted one's is as good as new
    Allocations,    \* ids of allocations, likewise
    Bookers,        \* requests on the board; each is made at most once
    NoRow           \* no row under this id

ASSUME DaysAreInOrder == Days \subseteq Nat

ASSUME NoRowIsNone == NoRow \notin Absences \cup Allocations

VARIABLES
    worker,         \* scheduler_workers: not there, active, or inactive
    absence,        \* scheduler_worker_absences
    allocation,     \* scheduler_allocations
    targets,        \* the job and the maintenance job that exist
    booking,        \* each request: where it stands and what it means to write
    later           \* <<allocation, absence>>: the absence was saved after the
                    \* allocation's look at the absences

schedulerVars == <<worker, absence, allocation, targets, booking, later>>

Target == {"job", "maintenance"}

(* A period is inclusive at both ends. *)
Absence == [worker : Workers, from : Days, to : Days]

Allocation == [worker : Workers, day : Days, target : Target]

Periods == {a \in Absence : a.from <= a.to}

Booking == [pc : {"idle", "absent", "commit", "target", "available", "book", "done"},
            absence : Periods \cup {NoRow}, allocation : Allocation \cup {NoRow},
            id : Absences \cup Allocations \cup {NoRow}, missed : SUBSET Absences]

NotBooking == [pc |-> "idle", absence |-> NoRow, allocation |-> NoRow, id |-> NoRow,
               missed |-> {}]

Booked == [NotBooking EXCEPT !.pc = "done"]

Away(a) == absence[a] # NoRow

(* The trigger's dateranges are closed: a shared day is an overlap. *)
Overlaps(p, q) == p.from <= q.to /\ q.from <= p.to

(* absence_covering *)
Covers(p, w, day) == p.worker = w /\ p.from <= day /\ day <= p.to

WorkerLockedNever(w) == FALSE

(* The advisory lock on (company, worker), held until the commit. *)
WorkerLocked(w) == \E r \in Bookers :
                      booking[r].pc = "commit" /\ booking[r].absence.worker = w

(* The row of an absence under a pending update. *)
RowLocked(a) == \E r \in Bookers : booking[r].pc = "commit" /\ booking[r].id = a

EndBooking(r) == booking' = [booking EXCEPT ![r] = Booked]

-----------------------------------------------------------------------------
(* Somebody may be booked and somebody away, by whatever happened before.    *)
(* Nothing asks whether a worker is active, so all are.                      *)
SchedulerInit ==
    /\ worker = [w \in Workers |-> "active"]
    /\ absence \in [Absences -> Periods \cup {NoRow}]
    /\ \A a, b \in Absences : Away(a) /\ Away(b) => a = b
    /\ allocation \in [Allocations -> Allocation \cup {NoRow}]
    /\ \A x, y \in Allocations : allocation[x] # NoRow /\ allocation[y] # NoRow => x = y
    /\ targets = Target
    /\ booking = [r \in Bookers |-> NotBooking]
    /\ later = Allocations \X Absences

(* create_absence and update_absence, valid input. *)
AbsenceBegin(r) ==
    /\ booking[r].pc = "idle"
    /\ \E p \in Periods, id \in {a \in Absences : Away(a)} \cup {NoRow} :
          booking' = [booking EXCEPT ![r].pc = "absent", ![r].absence = p, ![r].id = id]
    /\ UNCHANGED <<worker, absence, allocation, targets, later>>

(* The statement: the row to update, then the trigger's lock and its look at *)
(* the worker's other absences, then the foreign key.                        *)
AbsenceStatement(r) ==
    LET p == booking[r].absence
        id == booking[r].id
        clash == \E a \in Absences \ {id} :
                    Away(a) /\ absence[a].worker = p.worker /\ Overlaps(absence[a], p)
    IN  /\ booking[r].pc = "absent"
        /\ ~WorkerLocked(p.worker)
        /\ id # NoRow => ~RowLocked(id)
        /\ IF \/ id # NoRow /\ ~Away(id)
              \/ clash
              \/ worker[p.worker] = "none"
           THEN EndBooking(r)
           ELSE IF id # NoRow THEN booking' = [booking EXCEPT ![r].pc = "commit"]
           ELSE \E a \in Absences :
                   /\ ~Away(a) /\ ~RowLocked(a)
                   /\ booking' = [booking EXCEPT ![r].pc = "commit", ![r].id = a]
        /\ UNCHANGED <<worker, absence, allocation, targets, later>>

(* Committed, the absence is news to every allocation made or under way. *)
AbsenceCommit(r) ==
    LET a == booking[r].id
    IN  /\ booking[r].pc = "commit"
        /\ absence' = [absence EXCEPT ![a] = booking[r].absence]
        /\ later' = later \cup (Allocations \X {a})
        /\ booking' = [q \in Bookers |->
              IF q = r THEN Booked
              ELSE IF booking[q].pc = "book"
              THEN [booking[q] EXCEPT !.missed = @ \cup {a}] ELSE booking[q]]
        /\ UNCHANGED <<worker, allocation, targets>>

DeleteAbsence(r) ==
    /\ booking[r].pc = "idle"
    /\ \E a \in Absences :
          /\ Away(a) /\ ~RowLocked(a)
          /\ absence' = [absence EXCEPT ![a] = NoRow]
    /\ EndBooking(r)
    /\ UNCHANGED <<worker, allocation, targets, later>>

-----------------------------------------------------------------------------
(* create_allocation and update_allocation name exactly one target. *)
AllocationBegin(r) ==
    /\ booking[r].pc = "idle"
    /\ \E row \in Allocation, id \in {x \in Allocations : allocation[x] # NoRow} \cup {NoRow} :
          booking' = [booking EXCEPT ![r].pc = "target", ![r].allocation = row, ![r].id = id]
    /\ UNCHANGED <<worker, absence, allocation, targets, later>>

(* assert_target_visible asks for a job only. *)
AssertTargetVisible(r) ==
    /\ booking[r].pc = "target"
    /\ IF booking[r].allocation.target = "job" /\ "job" \notin targets
       THEN EndBooking(r)
       ELSE booking' = [booking EXCEPT ![r].pc = "available"]
    /\ UNCHANGED <<worker, absence, allocation, targets, later>>

AssertWorkerAvailableOnCreate(r) ==
    LET row == booking[r].allocation
    IN  /\ booking[r].pc = "available"
        /\ IF /\ booking[r].id = NoRow
              /\ \E a \in Absences : Away(a) /\ Covers(absence[a], row.worker, row.day)
           THEN EndBooking(r)
           ELSE booking' = [booking EXCEPT ![r].pc = "book"]
        /\ UNCHANGED <<worker, absence, allocation, targets, later>>

(* assert_worker_available; whether the worker is active is not asked. *)
AssertWorkerAvailable(r) ==
    LET row == booking[r].allocation
    IN  /\ booking[r].pc = "available"
        /\ IF \E a \in Absences : Away(a) /\ Covers(absence[a], row.worker, row.day)
           THEN EndBooking(r)
           ELSE booking' = [booking EXCEPT ![r].pc = "book"]
        /\ UNCHANGED <<worker, absence, allocation, targets, later>>

(* A second booking of the worker's day, or a missing worker or target, is   *)
(* refused by the database.                                                  *)
Book(r) ==
    LET row == booking[r].allocation
        id == booking[r].id
        taken == \E x \in Allocations \ {id} : /\ allocation[x] # NoRow
                                               /\ allocation[x].worker = row.worker
                                               /\ allocation[x].day = row.day
    IN  /\ booking[r].pc = "book"
        /\ IF \/ id # NoRow /\ allocation[id] = NoRow
              \/ taken \/ worker[row.worker] = "none" \/ row.target \notin targets
           THEN UNCHANGED <<allocation, later>>
           ELSE \E x \in Allocations :
                   /\ IF id = NoRow THEN allocation[x] = NoRow ELSE x = id
                   /\ allocation' = [allocation EXCEPT ![x] = row]
                   /\ later' = {pair \in later : pair[1] # x} \cup ({x} \X booking[r].missed)
        /\ EndBooking(r)
        /\ UNCHANGED <<worker, absence, targets>>

DeleteAllocation(r) ==
    /\ booking[r].pc = "idle"
    /\ \E x \in Allocations :
          /\ allocation[x] # NoRow
          /\ allocation' = [allocation EXCEPT ![x] = NoRow]
    /\ EndBooking(r)
    /\ UNCHANGED <<worker, absence, targets, later>>

-----------------------------------------------------------------------------
(* Workers are created, deactivated, reactivated by an update, and purged    *)
(* with their rows.                                                          *)
SetActive(r) ==
    /\ booking[r].pc = "idle"
    /\ \E w \in Workers, state \in {"active", "inactive"} :
          /\ worker[w] # "none" \/ state = "active"
          /\ worker' = [worker EXCEPT ![w] = state]
    /\ EndBooking(r)
    /\ UNCHANGED <<absence, allocation, targets, later>>

PurgeWorker(r) ==
    /\ booking[r].pc = "idle"
    /\ \E w \in Workers :
          /\ worker[w] # "none" /\ ~WorkerLocked(w)
          /\ \A a \in Absences : Away(a) /\ absence[a].worker = w => ~RowLocked(a)
          /\ worker' = [worker EXCEPT ![w] = "none"]
          /\ absence' = [a \in Absences |->
                IF Away(a) /\ absence[a].worker = w THEN NoRow ELSE absence[a]]
          /\ allocation' = [x \in Allocations |->
                IF allocation[x] # NoRow /\ allocation[x].worker = w THEN NoRow
                ELSE allocation[x]]
    /\ EndBooking(r)
    /\ UNCHANGED <<targets, later>>

(* A job is purged or a maintenance job deleted: its allocations go with it. *)
DeleteTarget(r) ==
    /\ booking[r].pc = "idle"
    /\ \E t \in targets :
          /\ targets' = targets \ {t}
          /\ allocation' = [x \in Allocations |->
                IF allocation[x] # NoRow /\ allocation[x].target = t THEN NoRow
                ELSE allocation[x]]
    /\ EndBooking(r)
    /\ UNCHANGED <<worker, absence, later>>

CreateTarget(r) ==
    /\ booking[r].pc = "idle"
    /\ \E t \in Target : targets' = targets \cup {t}
    /\ EndBooking(r)
    /\ UNCHANGED <<worker, absence, allocation, later>>

FailBooking(r) ==
    /\ booking[r].pc \notin {"idle", "done"}
    /\ EndBooking(r)
    /\ UNCHANGED <<worker, absence, allocation, targets, later>>

SchedulerNext ==
    \E r \in Bookers :
        \/ AbsenceBegin(r) \/ AbsenceStatement(r) \/ AbsenceCommit(r) \/ DeleteAbsence(r)
        \/ AllocationBegin(r) \/ AssertTargetVisible(r) \/ AssertWorkerAvailable(r)
        \/ Book(r) \/ DeleteAllocation(r)
        \/ SetActive(r) \/ PurgeWorker(r) \/ DeleteTarget(r) \/ CreateTarget(r)
        \/ FailBooking(r)

SchedulerSpec == SchedulerInit /\ [][SchedulerNext]_schedulerVars

-----------------------------------------------------------------------------
SchedulerTypeOK ==
    /\ worker \in [Workers -> {"none", "active", "inactive"}]
    /\ absence \in [Absences -> Periods \cup {NoRow}]
    /\ allocation \in [Allocations -> Allocation \cup {NoRow}]
    /\ targets \subseteq Target
    /\ booking \in [Bookers -> Booking]
    /\ later \subseteq Allocations \X Absences

(* A worker's absences never overlap, whoever saves them at once and however *)
(* an update moves one from worker to worker.                                *)
AbsencesNeverOverlap ==
    \A a, b \in Absences :
        a # b /\ Away(a) /\ Away(b) /\ absence[a].worker = absence[b].worker
            => ~Overlaps(absence[a], absence[b])

(* A worker is booked for a day they are away only when the absence was      *)
(* saved after the booking had looked for one: nothing in the database links *)
(* the two, and saving an absence looks for no bookings.                     *)
BookedWhileAwayByRacersOnly ==
    \A x \in Allocations, a \in Absences :
        allocation[x] # NoRow /\ Away(a)
            /\ Covers(absence[a], allocation[x].worker, allocation[x].day)
            => <<x, a>> \in later

=============================================================================
