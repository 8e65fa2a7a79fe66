----------------------------- MODULE JobRecords ------------------------------
(***************************************************************************)
(* What hangs on a job besides its diary and its programme: tasks, links   *)
(* to shared folders and progress records, each a row of a table of its    *)
(* own.  Every request is a few transactions: it looks for what it needs   *)
(* and then writes with one statement, and between two of them the job can *)
(* be purged, the user taken off it and the row written by somebody else.  *)
(*                                                                         *)
(* A row has two columns here: "lead" stands for what names it (title;     *)
(* label and address; date and percentage), "rest" for the others (status, *)
(* notes and order; order; milestone, description and photos).  A column   *)
(* holds the request that gave it its value.                               *)
(***************************************************************************)
EXTENDS Naturals, FiniteSets

CONSTANTS
    RecordJobs,     \* job ids
    Records,        \* row ids 1..N, given out in order and once
    RecordEditors,  \* requests, each made once and by a user of its own
    Original,       \* who wrote what was there first
    NoRecord        \* no row under this id; no job

ASSUME RecordsAreOrdered ==
    IsFiniteSet(Records) /\ Records # {} /\ Records = 1 .. Cardinality(Records)
ASSUME OriginalIsNoEditor == Original \notin RecordEditors

VARIABLES
    recordJobs,     \* the jobs that exist
    record,         \* job_tasks, job_dropbox_folders and progress
    lastRecord,     \* the last id given out
    onJobs,         \* the jobs each user may see
    change,         \* each request: where it stands and what it means to write
    reached,        \* the jobs its user could see at some moment of each request
    meant,          \* what each row was last asked to be, column by column
    reverted     \* columns a partial update wrote back from an outdated copy

recordVars == <<recordJobs, record, lastRecord, onJobs, change, reached, meant, reverted>>

RecordKinds == {"task", "link", "progress"}

Columns == {"lead", "rest"}

Makers == RecordEditors \cup {Original}

Record == [kind : RecordKinds, job : RecordJobs, by : [Columns -> Makers]]

ASSUME NoRecordIsNoRow == NoRecord \notin Record \cup RecordJobs

Exists(i) == record[i] # NoRecord

OfKind(i, kind) == Exists(i) /\ record[i].kind = kind

WrittenBy(q) == [c \in Columns |-> q]

(* "job" is the one the path or the payload names, and for a record found    *)
(* the record's; "touched" that of the progress record it wrote or deleted;  *)
(* "outdated": the row it copied was written.                                *)
NoChange == [pc |-> "idle", op |-> "none", kind |-> "task", job |-> NoRecord, id |-> 1,
             sent |-> {}, copy |-> WrittenBy(Original), outdated |-> FALSE, touched |-> NoRecord]

Ended(job) == [NoChange EXCEPT !.pc = "done", !.touched = job]

AtChange(q, op, kind, pc) == change[q].op = op /\ change[q].kind = kind /\ change[q].pc = pc

ChangeTo(q, pc) == change' = [change EXCEPT ![q].pc = pc]

(* It lays what was sent over a copy it has read. *)
Copies(q) == change[q].op = "update" /\ change[q].kind # "link"

UnderWay(q) == change[q].pc \notin {"idle", "done"}

RecordsUnchanged == UNCHANGED <<recordJobs, record, lastRecord, onJobs, meant, reverted>>

JobRecordsInit ==
    /\ recordJobs = RecordJobs
    /\ \E first \in {NoRecord} \cup [kind : RecordKinds, job : RecordJobs, by : {WrittenBy(Original)}] :
          /\ record = [i \in Records |-> IF i = 1 THEN first ELSE NoRecord]
          /\ lastRecord = IF first = NoRecord THEN 0 ELSE 1
    /\ onJobs \in [RecordEditors -> SUBSET RecordJobs]
    /\ change = [q \in RecordEditors |-> NoChange]
    /\ reached = [q \in RecordEditors |-> {}]
    /\ meant = [i \in Records |-> WrittenBy(Original)]
    /\ reverted = {}

(* The job is there, of the caller's company, whoever they are. *)
JobInCompany(q, j) == j \in recordJobs

(* find: the job is there and the caller may see it. *)
JobFound(q, j) == j \in recordJobs \cap onJobs[q]

-----------------------------------------------------------------------------
(* The request begins, and ends: with nothing found or nothing of its        *)
(* caller's, or with its commit, after which a copy taken before is outdated.*)
Starts(q, new) ==
    /\ change[q].pc = "idle"
    /\ change' = [change EXCEPT ![q] = new]
    /\ reached' = [reached EXCEPT ![q] = onJobs[q]]
    /\ RecordsUnchanged

Missed(q) == change' = [change EXCEPT ![q] = Ended(NoRecord)] /\ RecordsUnchanged

Committed(q, i, job) ==
    change' = [p \in RecordEditors |->
        IF p = q THEN Ended(job)
        ELSE [change[p] EXCEPT !.outdated = @ \/ (Copies(p) /\ change[p].id = i)]]

(* One UPDATE of the row that is there. *)
Wrote(q, by, sent, job) ==
    LET i == change[q].id
    IN  IF Exists(i)
        THEN /\ record' = [record EXCEPT ![i].by = by]
             /\ meant' = [meant EXCEPT ![i] = [c \in Columns |-> IF c \in sent THEN q ELSE @[c]]]
             /\ reverted' = (reverted \ ({i} \X sent))
                               \cup IF change[q].outdated THEN {i} \X (Columns \ sent) ELSE {}
             /\ Committed(q, i, job)
             /\ UNCHANGED <<recordJobs, lastRecord, onJobs, reached>>
        ELSE Missed(q) /\ UNCHANGED reached

(* One DELETE of it. *)
Deleted(q, job) ==
    LET i == change[q].id
    IN  IF Exists(i)
        THEN /\ record' = [record EXCEPT ![i] = NoRecord]
             /\ Committed(q, i, job)
             /\ UNCHANGED <<recordJobs, lastRecord, onJobs, reached, meant, reverted>>
        ELSE Missed(q) /\ UNCHANGED reached

(* One INSERT; without its job it is refused by the foreign key, and a link, *)
(* selected from the job, finds none.                                        *)
RowInserted(q, kind, job) ==
    LET i == lastRecord + 1
    IN  IF change[q].job \in recordJobs
        THEN /\ i \in Records
             /\ record' = [record EXCEPT ![i] = [kind |-> kind, job |-> change[q].job,
                                                 by |-> WrittenBy(q)]]
             /\ meant' = [meant EXCEPT ![i] = WrittenBy(q)]
             /\ lastRecord' = i
             /\ Committed(q, i, job)
             /\ UNCHANGED <<recordJobs, onJobs, reached, reverted>>
        ELSE Missed(q) /\ UNCHANGED reached

-----------------------------------------------------------------------------
(* create_task, add_link and the create of a progress record: the job is     *)
(* looked for, and the row inserted in another transaction.                  *)
CreateFind(q) ==
    \E kind \in RecordKinds, j \in RecordJobs :
       /\ JobFound(q, j)
       /\ Starts(q, [NoChange EXCEPT !.op = "create", !.kind = kind, !.pc = "write", !.job = j])

InsertTask(q) == AtChange(q, "create", "task", "write") /\ RowInserted(q, "task", NoRecord)

InsertLink(q) == AtChange(q, "create", "link", "write") /\ RowInserted(q, "link", NoRecord)

InsertProgress(q) ==
    AtChange(q, "create", "progress", "write") /\ RowInserted(q, "progress", change[q].job)

-----------------------------------------------------------------------------
(* What was sent, laid over the copy. *)
Patched(q) == [c \in Columns |-> IF c \in change[q].sent THEN q ELSE change[q].copy[c]]

(* Tasks: the row is looked for by its id, and no job is.  The notes have a  *)
(* statement of their own.                                                   *)
ReadTask(q) ==
    \E i \in Records, op \in {"update", "notes", "delete"}, sent \in SUBSET Columns :
       /\ OfKind(i, "task")
       /\ op # "update" => sent = {}
       /\ Starts(q, [NoChange EXCEPT !.op = op, !.kind = "task", !.pc = "write", !.id = i,
                        !.sent = sent, !.copy = record[i].by])

UpdateTask(q) ==
    AtChange(q, "update", "task", "write") /\ Wrote(q, Patched(q), change[q].sent, NoRecord)

UpdateNotes(q) ==
    /\ AtChange(q, "notes", "task", "write")
    /\ Wrote(q, [record[change[q].id].by EXCEPT !["rest"] = q], {"rest"}, NoRecord)

DeleteTask(q) == AtChange(q, "delete", "task", "write") /\ Deleted(q, NoRecord)

-----------------------------------------------------------------------------
(* Links: the job of the path is looked for, the link by its id alone.  Its  *)
(* label and address come with every update, and COALESCE keeps the order.   *)
FindLink(q) ==
    \E i \in Records, j \in RecordJobs, op \in {"update", "delete"}, sent \in SUBSET Columns :
       /\ OfKind(i, "link") /\ JobFound(q, j)
       /\ "lead" \in sent \/ (op = "delete" /\ sent = {})
       /\ Starts(q, [NoChange EXCEPT !.op = op, !.kind = "link", !.pc = "write", !.id = i,
                        !.job = j, !.sent = sent])

UpdateLink(q) ==
    /\ AtChange(q, "update", "link", "write")
    /\ Wrote(q, [c \in Columns |-> IF c \in change[q].sent THEN q ELSE record[change[q].id].by[c]],
             change[q].sent, NoRecord)

DeleteLink(q) == AtChange(q, "delete", "link", "write") /\ Deleted(q, NoRecord)

-----------------------------------------------------------------------------
(* Progress records: the record is found, then its job; an update does so    *)
(* twice, for its copy and for its write.                                    *)
FindProgress(q) ==
    \E i \in Records, op \in {"update", "delete"}, sent \in SUBSET Columns :
       /\ OfKind(i, "progress")
       /\ op = "delete" => sent = {}
       /\ Starts(q, [NoChange EXCEPT !.op = op, !.kind = "progress", !.id = i,
                        !.pc = IF op = "update" THEN "copied" ELSE "found",
                        !.job = record[i].job, !.sent = sent, !.copy = record[i].by])

AssertJobAccess(q) ==
    /\ change[q].pc \in {"copied", "found"}
    /\ IF JobFound(q, change[q].job)
       THEN ChangeTo(q, IF change[q].pc = "copied" THEN "again" ELSE "write") /\ RecordsUnchanged
       ELSE Missed(q)
    /\ UNCHANGED reached

FindAgain(q) ==
    /\ change[q].pc = "again"
    /\ IF Exists(change[q].id) THEN ChangeTo(q, "found") /\ RecordsUnchanged ELSE Missed(q)
    /\ UNCHANGED reached

UpdateProgress(q) ==
    /\ AtChange(q, "update", "progress", "write")
    /\ Wrote(q, Patched(q), change[q].sent, record[change[q].id].job)

DeleteProgress(q) ==
    AtChange(q, "delete", "progress", "write") /\ Deleted(q, record[change[q].id].job)

-----------------------------------------------------------------------------
(* A title, status, label, address, percentage or list of photos that will  *)
(* not do ends a request before it writes; so does a failure.                *)
Refused(q) == UnderWay(q) /\ Missed(q) /\ UNCHANGED reached

RefuseTaskOrLink(q) == change[q].kind \in {"task", "link"} /\ Refused(q)

RefuseProgress(q) == change[q].kind = "progress" /\ Refused(q)

(* A user is put on the job a request is about, or taken off it: at other    *)
(* times and of other jobs that changes nothing here.                        *)
PutOnJob(q) ==
    LET j == change[q].job
    IN  /\ UnderWay(q) /\ j # NoRecord
        /\ onJobs' = [onJobs EXCEPT ![q] = (@ \ {j}) \cup ({j} \ @)]
        /\ reached' = [reached EXCEPT ![q] = @ \cup onJobs'[q]]
        /\ UNCHANGED <<recordJobs, record, lastRecord, change, meant, reverted>>

(* The purge of a job cascades. *)
PurgeRecords(j) ==
    /\ j \in recordJobs
    /\ recordJobs' = recordJobs \ {j}
    /\ record' = [i \in Records |-> IF Exists(i) /\ record[i].job = j THEN NoRecord ELSE record[i]]
    /\ UNCHANGED <<lastRecord, onJobs, change, reached, meant, reverted>>

TaskOrLink(q) ==
    \/ InsertTask(q) \/ ReadTask(q) \/ UpdateTask(q) \/ UpdateNotes(q) \/ DeleteTask(q)
    \/ InsertLink(q) \/ FindLink(q) \/ UpdateLink(q) \/ DeleteLink(q)
    \/ RefuseTaskOrLink(q)

Progress(q) ==
    \/ InsertProgress(q) \/ FindProgress(q) \/ AssertJobAccess(q) \/ FindAgain(q)
    \/ UpdateProgress(q) \/ DeleteProgress(q) \/ RefuseProgress(q)

JobRecordsNext ==
    \/ \E q \in RecordEditors :
          CreateFind(q) \/ TaskOrLink(q) \/ Progress(q) \/ PutOnJob(q)
    \/ \E j \in RecordJobs : PurgeRecords(j)

JobRecordsSpec == JobRecordsInit /\ [][JobRecordsNext]_recordVars

-----------------------------------------------------------------------------
Change == [pc : {"idle", "copied", "again", "found", "write", "done"},
           op : {"none", "create", "update", "notes", "delete"}, kind : RecordKinds,
           job : RecordJobs \cup {NoRecord}, id : Records, sent : SUBSET Columns,
           copy : [Columns -> Makers], outdated : BOOLEAN, touched : RecordJobs \cup {NoRecord}]

JobRecordsTypeOK ==
    /\ recordJobs \subseteq RecordJobs
    /\ record \in [Records -> Record \cup {NoRecord}]
    /\ lastRecord \in {0} \cup Records
    /\ onJobs \in [RecordEditors -> SUBSET RecordJobs]
    /\ change \in [RecordEditors -> Change]
    /\ reached \in [RecordEditors -> SUBSET RecordJobs]
    /\ meant \in [Records -> [Columns -> Makers]]
    /\ reverted \subseteq Records \X Columns

(* A progress record is created, changed and deleted only by somebody who    *)
(* could see its job while asking, though its job, its copy and its job's    *)
(* users are each read in a transaction of their own.                        *)
ProgressWithinReach ==
    \A q \in RecordEditors : change[q].touched # NoRecord => change[q].touched \in reached[q]

(* A row is, column by column, what it was last asked to be, unless a        *)
(* partial update that overlapped another wrote back its copy of the column. *)
RecordsUndoneByRacersOnly ==
    \A i \in Records : \A c \in Columns :
        Exists(i) => record[i].by[c] = meant[i][c] \/ <<i, c>> \in reverted

=============================================================================
