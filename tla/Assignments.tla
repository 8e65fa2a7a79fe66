----------------------------- MODULE Assignments -----------------------------
(***************************************************************************)
(* Who supervises a job: the rows of job_assignments, the column           *)
(* jobs.supervisor_id that mirrors them, and the requests that change      *)
(* either.  JobService over PgJobRepository.                               *)
(*                                                                         *)
(* An assignment edit is one transaction of several statements at READ     *)
(* COMMITTED: each statement is a step, sees what is committed when it     *)
(* starts and its own writes, and waits for rows another has written.      *)
(***************************************************************************)
EXTENDS Integers, FiniteSets

CONSTANTS
    Supervisors,    \* users that can be assigned
    Edits,          \* requests on the job; each is made at most once
    EditKinds,      \* the operations they perform in this instance
    None            \* SQL NULL

ASSUME SupervisorsAssumption == IsFiniteSet(Supervisors) /\ None \notin Supervisors

ASSUME EditsAreOperations ==
    EditKinds \subseteq {"add", "remove", "primary", "patch", "archive", "purge", "account"}

VARIABLES
    assigned,       \* job_assignments, committed
    job,            \* the job's row, committed
    gone,           \* supervisors whose account was deleted
    editing,        \* each request: where it stands, what it has written
    tick,           \* transactions begun, the clock of assigned_at
    disputed,       \* the last write of supervisor_id was a racer's or direct
    wanted,         \* the status last asked for
    overwritten     \* a status was written from an outdated copy

assignmentVars == <<assigned, job, gone, editing, tick, disputed, wanted, overwritten>>

JobStatus == {"active", "archived"}

JobAssignment == [held : BOOLEAN, primary : BOOLEAN, at : Nat]

ASSUME NoneIsNoRow == None \notin JobAssignment

NoAssignment == [held |-> FALSE, primary |-> FALSE, at |-> 0]

Job == [held : BOOLEAN, supervisor : Supervisors \cup {None}, status : JobStatus]

(* "write" is what the transaction has written and not committed; "stale":  *)
(* another edit committed after this one took its assignments.              *)
Editing == [pc : {"idle", "count", "clear", "clearing", "insert", "delete", "lock", "set",
                  "sync", "store", "read", "find", "write", "done"},
            op : EditKinds \cup {"none"}, user : Supervisors \cup {None},
            primary : BOOLEAN, began : Nat, targets : SUBSET Supervisors,
            write : [Supervisors -> JobAssignment \cup {None}],
            promoted : Supervisors \cup {None},
            names : SUBSET {"supervisor", "status"}, status : JobStatus, stale : BOOLEAN]

Unwritten == [u \in Supervisors |-> None]

NotEditing == [pc |-> "idle", op |-> "none", user |-> None, primary |-> FALSE, began |-> 0,
               targets |-> {}, write |-> Unwritten, promoted |-> None, names |-> {},
               status |-> "active", stale |-> FALSE]

Over == [NotEditing EXCEPT !.pc = "done"]

AtEdit(r, op, pc) == editing[r].op = op /\ editing[r].pc = pc

(* The rows as transaction r sees them. *)
View(r) == [u \in Supervisors |->
               IF editing[r].write[u] = None THEN assigned[u] ELSE editing[r].write[u]]

AssignedIn(rows) == {u \in Supervisors : rows[u].held}

Earliest(rows) ==
    IF AssignedIn(rows) = {} THEN None
    ELSE CHOOSE u \in AssignedIn(rows) :
            \A v \in AssignedIn(rows) : rows[u].at <= rows[v].at

(* primary_supervisor: the primary assignment, else the earliest, else none. *)
PrimarySupervisor(rows) ==
    IF \E u \in Supervisors : rows[u].held /\ rows[u].primary
    THEN CHOOSE u \in Supervisors : rows[u].held /\ rows[u].primary
    ELSE Earliest(rows)

(* Rows that a transaction other than r has written hold r up. *)
Locked(r, u) == \E q \in Edits \ {r} : editing[q].write[u] # None

(* SELECT ... FOR UPDATE on the job, from set_primary's start to its end. *)
HasJobLock(q) == /\ editing[q].op = "primary"
                 /\ editing[q].pc \in {"clear", "clearing", "set", "sync", "store"}

JobLocked(r) == \E q \in Edits \ {r} : HasJobLock(q)

(* An insert holds the job's row against deletion and FOR UPDATE. *)
HasKeyShare(q) == editing[q].op = "add" /\ editing[q].pc \in {"sync", "store"}

(* uq_job_assignments_single_primary: undecided while another transaction   *)
(* has written the primary row or means to make one.                        *)
PrimaryUndecided(r) ==
    \E q \in Edits \ {r}, u \in Supervisors :
        /\ editing[q].write[u] # None
        /\ editing[q].write[u].primary \/ (assigned[u].primary /\ editing[r].write[u] = None)

SecondPrimary(r, user) ==
    \E u \in Supervisors \ {user} : View(r)[u].held /\ View(r)[u].primary

GoTo(r, pc) == editing' = [editing EXCEPT ![r].pc = pc]

EndEdit(r) == editing' = [editing EXCEPT ![r] = Over]

NothingCommitted == UNCHANGED <<assigned, job, gone, disputed, wanted, overwritten>>

-----------------------------------------------------------------------------
(* A job with any legal assignments.  Creation writes the supervisor of the *)
(* request directly and assigns nobody.                                     *)
AssignmentsInit ==
    /\ \E staff \in SUBSET Supervisors :
       \E order \in [staff -> 1..Cardinality(Supervisors)], first \in staff \cup {None} :
          /\ \A u, v \in staff : order[u] = order[v] => u = v
          /\ assigned = [u \in Supervisors |->
                IF u \in staff THEN [held |-> TRUE, primary |-> u = first, at |-> order[u]]
                ELSE NoAssignment]
    /\ \E created \in Supervisors \cup {None} :
          /\ created = PrimarySupervisor(assigned) \/ AssignedIn(assigned) = {}
          /\ job = [held |-> TRUE, supervisor |-> created, status |-> "active"]
          /\ disputed = (created # PrimarySupervisor(assigned))
    /\ gone = {}
    /\ editing = [r \in Edits |-> NotEditing]
    /\ tick = Cardinality(Supervisors)
    /\ wanted = "active"
    /\ overwritten = FALSE

FirstStep == [add |-> "count", remove |-> "delete", primary |-> "lock", patch |-> "read",
              archive |-> "write", purge |-> "write", account |-> "write"]

(* The service looks for the job; its answer is not used again.  Deleting an *)
(* account ("account") is no request on the job.                             *)
FindJob(r) ==
    /\ editing[r].pc = "idle"
    /\ \E op \in EditKinds, u \in Supervisors, primary \in BOOLEAN :
          /\ job.held \/ op = "account"
          /\ primary => op = "add"
          /\ editing' = [editing EXCEPT ![r].op = op, ![r].pc = FirstStep[op],
                           ![r].user = IF op \in {"add", "remove", "primary", "account"} THEN u ELSE None,
                           ![r].primary = primary]
    /\ UNCHANGED tick /\ NothingCommitted

(* add_assignment: the first assignment becomes primary. *)
AddCount(r) ==
    /\ AtEdit(r, "add", "count")
    /\ LET primary == editing[r].primary \/ AssignedIn(assigned) = {}
       IN editing' = [editing EXCEPT ![r].primary = primary, ![r].began = tick + 1,
                         ![r].pc = IF primary THEN "clear" ELSE "insert"]
    /\ tick' = tick + 1
    /\ NothingCommitted

(* UPDATE ... SET is_primary = FALSE: of the rows it sees when it starts ... *)
ClearStart(r) ==
    /\ editing[r].pc = "clear"
    /\ editing' = [editing EXCEPT ![r].pc = "clearing", ![r].targets = AssignedIn(View(r))]
    /\ UNCHANGED tick /\ NothingCommitted

(* ... those still there once no other transaction holds them. *)
ClearRows(r) ==
    /\ editing[r].pc = "clearing"
    /\ \A u \in editing[r].targets : ~Locked(r, u)
    /\ editing' = [editing EXCEPT ![r].targets = {},
          ![r].pc = IF editing[r].op = "add" THEN "insert" ELSE "set",
          ![r].write = [u \in Supervisors |->
              IF u \in editing[r].targets /\ View(r)[u].held
              THEN [View(r)[u] EXCEPT !.primary = FALSE] ELSE @[u]]]
    /\ UNCHANGED tick /\ NothingCommitted

(* INSERT: refused by either unique index or a missing job or user, after    *)
(* waiting for whoever could still decide that.                              *)
Insert(r) ==
    LET u == editing[r].user
        p == editing[r].primary
        row == [held |-> TRUE, primary |-> p, at |-> editing[r].began]
    IN  /\ AtEdit(r, "add", "insert")
        /\ ~Locked(r, u) /\ ~JobLocked(r)
        /\ p => ~PrimaryUndecided(r)
        /\ IF ~job.held \/ u \in gone \/ View(r)[u].held \/ (p /\ SecondPrimary(r, u))
           THEN EndEdit(r)
           ELSE editing' = [editing EXCEPT ![r].pc = "sync", ![r].write[u] = row]
        /\ UNCHANGED tick /\ NothingCommitted

(* remove_assignment: removing nobody is not an error. *)
DeleteAssignment(r) ==
    LET u == editing[r].user
    IN  /\ AtEdit(r, "remove", "delete")
        /\ assigned[u].held => ~Locked(r, u)
        /\ editing' = [editing EXCEPT ![r].pc = "sync",
                          ![r].write[u] = IF assigned[u].held THEN NoAssignment ELSE @]
        /\ UNCHANGED tick /\ NothingCommitted

(* set_primary_assignment locks the job first, so that two calls serialise. *)
LockJob(r) ==
    /\ AtEdit(r, "primary", "lock")
    /\ ~JobLocked(r) /\ \A q \in Edits \ {r} : ~HasKeyShare(q)
    /\ GoTo(r, "clear")
    /\ UNCHANGED tick /\ NothingCommitted

SetPrimary(r) ==
    LET u == editing[r].user
    IN  /\ AtEdit(r, "primary", "set")
        /\ ~Locked(r, u) /\ ~PrimaryUndecided(r)
        /\ IF ~View(r)[u].held \/ SecondPrimary(r, u)
           THEN EndEdit(r)
           ELSE editing' = [editing EXCEPT ![r].pc = "sync",
                               ![r].write[u] = [View(r)[u] EXCEPT !.primary = TRUE]]
        /\ UNCHANGED tick /\ NothingCommitted

SyncCommittedOnly(r) ==
    /\ editing[r].pc = "sync"
    /\ editing' = [editing EXCEPT ![r].pc = "store", ![r].promoted = PrimarySupervisor(assigned)]
    /\ UNCHANGED tick /\ NothingCommitted

(* sync_primary_supervisor takes the assignments, its own change among them, *)
Sync(r) ==
    /\ editing[r].pc = "sync"
    /\ editing' = [editing EXCEPT ![r].pc = "store", ![r].promoted = PrimarySupervisor(View(r))]
    /\ UNCHANGED tick /\ NothingCommitted

(* and writes their choice to the job; the commit follows at once.  Only     *)
(* add and remove take no lock that keeps another edit from committing       *)
(* between the two.                                                          *)
Store(r) ==
    /\ editing[r].pc = "store" /\ ~JobLocked(r)
    /\ IF job.held /\ editing[r].promoted \notin gone
       THEN /\ assigned' = View(r)
            /\ job' = [job EXCEPT !.supervisor = editing[r].promoted]
            /\ disputed' = (editing[r].op # "primary" /\ editing[r].stale)
            /\ editing' = [q \in Edits |->
                  IF q = r THEN Over
                  ELSE IF editing[q].pc = "store" THEN [editing[q] EXCEPT !.stale = TRUE]
                  ELSE editing[q]]
       ELSE EndEdit(r) /\ UNCHANGED <<assigned, job, disputed>>
    /\ UNCHANGED <<gone, tick, wanted, overwritten>>

-----------------------------------------------------------------------------
PatchedStatusDefaulting(names, given) == IF "status" \in names THEN given ELSE "active"

(* The patch laid over the copy: an absent status is the job's own. *)
PatchedStatus(names, given) == IF "status" \in names THEN given ELSE job.status

(* PUT /jobs: the fields the body does not name are those of the copy read   *)
(* first; the service then looks for the job again.                          *)
PatchRead(r) ==
    /\ AtEdit(r, "patch", "read") /\ job.held
    /\ \E names \in SUBSET {"supervisor", "status"}, u \in (Supervisors \ gone) \cup {None},
          status \in JobStatus :
          editing' = [editing EXCEPT ![r].pc = "find", ![r].names = names,
                         ![r].user = IF "supervisor" \in names THEN u ELSE job.supervisor,
                         ![r].status = PatchedStatus(names, status)]
    /\ UNCHANGED tick /\ NothingCommitted

PatchFind(r) ==
    /\ AtEdit(r, "patch", "find")
    /\ IF job.held THEN GoTo(r, "write") ELSE EndEdit(r)
    /\ UNCHANGED tick /\ NothingCommitted

(* Every column is written, supervisor_id among them. *)
PatchWrite(r) ==
    LET e == editing[r]
    IN  /\ AtEdit(r, "patch", "write") /\ ~JobLocked(r)
        /\ IF job.held /\ e.user \notin gone
           THEN /\ job' = [job EXCEPT !.supervisor = e.user, !.status = e.status]
                /\ disputed' = (disputed \/ e.user # job.supervisor)
                /\ wanted' = IF "status" \in e.names THEN e.status ELSE wanted
                /\ overwritten' = IF "status" \in e.names THEN FALSE
                                  ELSE overwritten \/ e.stale
                /\ editing' = [q \in Edits |->
                      IF q = r THEN Over
                      ELSE IF editing[q].op = "patch" /\ editing[q].pc \in {"find", "write"}
                      THEN [editing[q] EXCEPT !.stale = TRUE]
                      ELSE editing[q]]
           ELSE EndEdit(r) /\ UNCHANGED <<job, disputed, wanted, overwritten>>
        /\ UNCHANGED <<assigned, gone, tick>>

(* DELETE /jobs archives; the job and all its rows stay. *)
Archive(r) ==
    /\ AtEdit(r, "archive", "write") /\ ~JobLocked(r)
    /\ job' = IF job.held THEN [job EXCEPT !.status = "archived"] ELSE job
    /\ wanted' = "archived"
    /\ overwritten' = FALSE
    /\ editing' = [q \in Edits |->
          IF q = r THEN Over
          ELSE IF editing[q].op = "patch" /\ editing[q].pc \in {"find", "write"}
          THEN [editing[q] EXCEPT !.stale = TRUE]
          ELSE editing[q]]
    /\ UNCHANGED <<assigned, gone, tick, disputed>>

(* ?purge=true deletes; the cascade takes the assignments. *)
Purge(r) ==
    /\ AtEdit(r, "purge", "write")
    /\ ~JobLocked(r) /\ \A q \in Edits \ {r} : ~HasKeyShare(q)
    /\ \A u \in Supervisors : ~Locked(r, u)
    /\ job' = [job EXCEPT !.held = FALSE]
    /\ assigned' = [u \in Supervisors |-> NoAssignment]
    /\ EndEdit(r)
    /\ UNCHANGED <<gone, tick, disputed, wanted, overwritten>>

(* Deleting an account cascades to its assignment and sets supervisor_id to  *)
(* NULL; nobody is promoted.                                                 *)
DeleteSupervisor(r) ==
    LET u == editing[r].user
    IN  /\ AtEdit(r, "account", "write")
        /\ ~Locked(r, u) /\ (job.supervisor = u => ~JobLocked(r))
        /\ gone' = gone \cup {u}
        /\ assigned' = [assigned EXCEPT ![u] = NoAssignment]
        /\ job' = IF job.supervisor = u THEN [job EXCEPT !.supervisor = None] ELSE job
        /\ disputed' = (disputed \/ job.supervisor = u)
        /\ EndEdit(r)
        /\ UNCHANGED <<tick, wanted, overwritten>>

(* The request fails or dies, or the database breaks a deadlock with it; an  *)
(* open transaction is rolled back.                                          *)
FailAssignment(r) ==
    /\ editing[r].pc \notin {"idle", "done"}
    /\ EndEdit(r)
    /\ UNCHANGED tick /\ NothingCommitted

AssignmentsNext ==
    \E r \in Edits :
        \/ FindJob(r) \/ AddCount(r) \/ ClearStart(r) \/ ClearRows(r) \/ Insert(r)
        \/ DeleteAssignment(r) \/ LockJob(r) \/ SetPrimary(r) \/ Sync(r) \/ Store(r)
        \/ PatchRead(r) \/ PatchFind(r) \/ PatchWrite(r) \/ Archive(r) \/ Purge(r)
        \/ DeleteSupervisor(r) \/ FailAssignment(r)

AssignmentsSpec == AssignmentsInit /\ [][AssignmentsNext]_assignmentVars

-----------------------------------------------------------------------------
AssignmentsTypeOK ==
    /\ assigned \in [Supervisors -> JobAssignment]
    /\ job \in Job
    /\ gone \subseteq Supervisors
    /\ editing \in [Edits -> Editing]
    /\ tick \in Nat
    /\ disputed \in BOOLEAN /\ overwritten \in BOOLEAN
    /\ wanted \in JobStatus

(* The column mirrors the assignments, unless it was last written by an add  *)
(* or a remove that another edit overtook, by a partial update, or by the    *)
(* deletion of the account it named.  Setting the primary needs no excuse.   *)
SupervisorDisputedByRacersOnly ==
    job.held /\ ~disputed => job.supervisor = PrimarySupervisor(assigned)

(* A job is archived, or not, as last asked, unless a partial update that    *)
(* did not name the status wrote back one it had read before.                *)
StatusUndoneByRacersOnly ==
    job.held /\ ~overwritten => job.status = wanted

=============================================================================
