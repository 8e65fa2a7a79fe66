------------------------------ MODULE FieldProofs ------------------------------
(***************************************************************************)
(* What those in the field rely on: Assignments, of a job's supervisor and *)
(* status; Scheduler, of the workers' absences and bookings; Diary, of     *)
(* notes, events and open screens; for every set of supervisors, workers,  *)
(* rows, requests, entries, clients and instances, however many events are *)
(* sent, lost or late.                                                     *)
(***************************************************************************)
EXTENDS Assignments, Scheduler, Diary, FiniteSetTheorems, WellFoundedInduction, TLAPS

-----------------------------------------------------------------------------
(* The status of a job: the inductive invariant. *)

EditFields == {"pc", "op", "names", "status", "stale"}

\* A request and the job have their fields; what a partial update needs.
JobShape ==
    /\ editing = [r \in Edits |-> editing[r]]
    /\ \A r \in Edits : EditFields \subseteq DOMAIN editing[r]
    /\ {"held", "supervisor", "status"} \subseteq DOMAIN job

\* A partial update that holds a copy of the job.
Copying(r) == editing[r].op = "patch" /\ editing[r].pc \in {"find", "write"}

\* A copy that is not known to be outdated has the job's status.
CopiesAreCurrent ==
    \A r \in Edits :
        Copying(r) /\ "status" \notin editing[r].names /\ ~editing[r].stale /\ job.held
            => editing[r].status = job.status

StatusInv == JobShape /\ CopiesAreCurrent /\ StatusUndoneByRacersOnly

-----------------------------------------------------------------------------
(* The invariant step by step. *)

LEMMA OverShape == EditFields \subseteq DOMAIN Over /\ Over.pc = "done"
  BY DEF Over, NotEditing, EditFields

LEMMA StatusInvInit == AssignmentsInit => StatusInv
  <1> SUFFICES ASSUME AssignmentsInit PROVE StatusInv
    OBVIOUS
  <1>1. EditFields \subseteq DOMAIN NotEditing /\ NotEditing.pc = "idle"
    BY DEF NotEditing, EditFields
  <1>2. editing = [r \in Edits |-> NotEditing]
    BY DEF AssignmentsInit
  <1>3. /\ {"held", "supervisor", "status"} \subseteq DOMAIN job
        /\ job.status = "active" /\ wanted = "active"
    BY DEF AssignmentsInit
  <1> HIDE DEF NotEditing
  <1> QED  BY <1>1, <1>2, <1>3 DEF StatusInv, JobShape, CopiesAreCurrent, Copying,
              StatusUndoneByRacersOnly

\* A step that keeps the status, and starts no copy.
LEMMA StatusHarmless ==
    ASSUME StatusInv, editing' = [q \in Edits |-> editing'[q]],
           \A q \in Edits : /\ EditFields \subseteq DOMAIN editing'[q]
                            /\ Copying(q)' => /\ Copying(q)
                                              /\ editing'[q].names = editing[q].names
                                              /\ editing'[q].status = editing[q].status
                                              /\ editing[q].stale => editing'[q].stale,
           {"held", "supervisor", "status"} \subseteq DOMAIN job',
           job'.held => job.held /\ job'.status = job.status,
           UNCHANGED <<wanted, overwritten>>
    PROVE  StatusInv'
  BY DEF StatusInv, JobShape, CopiesAreCurrent, Copying, StatusUndoneByRacersOnly

\* The request r moves to e, which is no copy, and nothing else of this happens.
LEMMA StatusMoves ==
    ASSUME StatusInv, NEW r \in Edits, NEW e,
           editing' = [editing EXCEPT ![r] = e],
           EditFields \subseteq DOMAIN e,
           ~(e.op = "patch" /\ e.pc \in {"find", "write"}),
           {"held", "supervisor", "status"} \subseteq DOMAIN job',
           job'.held => job.held /\ job'.status = job.status,
           UNCHANGED <<wanted, overwritten>>
    PROVE  StatusInv'
  <1>1. editing' = [q \in Edits |-> IF q = r THEN e ELSE editing[q]]
    BY DEF StatusInv, JobShape
  <1>2. \A q \in Edits : /\ EditFields \subseteq DOMAIN editing'[q]
                         /\ Copying(q)' => q # r
    BY <1>1 DEF StatusInv, JobShape, Copying
  <1>3. \A q \in Edits \ {r} : editing'[q] = editing[q]
    BY <1>1
  <1>4. \A q \in Edits : Copying(q)' => Copying(q) /\ editing'[q] = editing[q]
    BY <1>2, <1>3 DEF Copying
  <1> QED  BY <1>1, <1>2, <1>4, StatusHarmless

LEMMA StatusEnded ==
    ASSUME StatusInv, NEW r \in Edits, EndEdit(r),
           {"held", "supervisor", "status"} \subseteq DOMAIN job',
           job'.held => job.held /\ job'.status = job.status,
           UNCHANGED <<wanted, overwritten>>
    PROVE  StatusInv'
  BY OverShape, StatusMoves DEF EndEdit

\* The steps of the assignment edits, and of those that only end or move on.
LEMMA StatusInvEdits ==
    ASSUME StatusInv, NEW r \in Edits,
           \/ AddCount(r) \/ ClearStart(r) \/ ClearRows(r) \/ Insert(r)
           \/ DeleteAssignment(r) \/ LockJob(r) \/ SetPrimary(r) \/ Sync(r)
    PROVE  StatusInv'
  <1> DEFINE e == editing'[r]
  <1>1. NothingCommitted
    BY DEF AddCount, ClearStart, ClearRows, Insert, DeleteAssignment, LockJob, SetPrimary, Sync
  <1>2. /\ editing' = [editing EXCEPT ![r] = e]
        /\ EditFields \subseteq DOMAIN e
        /\ e.pc \notin {"find", "write"}
    <2>1. CASE EndEdit(r)
      BY <2>1, OverShape DEF EndEdit, StatusInv, JobShape
    <2>2. CASE AddCount(r)
      BY <2>2 DEF AddCount, StatusInv, JobShape, EditFields
    <2>3. CASE ClearStart(r)
      BY <2>3 DEF ClearStart, StatusInv, JobShape, EditFields
    <2>4. CASE ClearRows(r)
      <3> DEFINE pc == IF editing[r].op = "add" THEN "insert" ELSE "set"
                 write == [u \in Supervisors |->
                             IF u \in editing[r].targets /\ View(r)[u].held
                             THEN [View(r)[u] EXCEPT !.primary = FALSE]
                             ELSE editing[r].write[u]]
      <3>1. editing' = [editing EXCEPT ![r].targets = {}, ![r].pc = pc, ![r].write = write]
        BY <2>4 DEF ClearRows
      <3>2. pc \in {"insert", "set"}  OBVIOUS
      <3> HIDE DEF pc, write
      <3> QED  BY <3>1, <3>2 DEF StatusInv, JobShape, EditFields
    <2>5. CASE Insert(r) /\ ~EndEdit(r)
      BY <2>5 DEF Insert, StatusInv, JobShape, EditFields
    <2>6. CASE DeleteAssignment(r)
      <3> DEFINE write == [editing[r].write EXCEPT ![editing[r].user] =
                             IF assigned[editing[r].user].held THEN NoAssignment ELSE @]
      <3>1. editing' = [editing EXCEPT ![r].pc = "sync", ![r].write = write]
        BY <2>6 DEF DeleteAssignment
      <3> HIDE DEF write
      <3> QED  BY <3>1 DEF StatusInv, JobShape, EditFields
    <2>7. CASE LockJob(r)
      BY <2>7 DEF LockJob, GoTo, StatusInv, JobShape, EditFields
    <2>8. CASE SetPrimary(r) /\ ~EndEdit(r)
      BY <2>8 DEF SetPrimary, StatusInv, JobShape, EditFields
    <2>9. CASE Sync(r)
      BY <2>9 DEF Sync, StatusInv, JobShape, EditFields
    <2> QED  BY <2>1, <2>2, <2>3, <2>4, <2>5, <2>6, <2>7, <2>8, <2>9
  <1>3. /\ {"held", "supervisor", "status"} \subseteq DOMAIN job'
        /\ job' = job /\ UNCHANGED <<wanted, overwritten>>
    BY <1>1 DEF NothingCommitted, StatusInv, JobShape
  <1> HIDE DEF e
  <1> QED  BY <1>2, <1>3, StatusMoves

LEMMA StatusInvFindJob ==
    ASSUME StatusInv, NEW r \in Edits, FindJob(r)
    PROVE  StatusInv'
  <1>1. PICK op \in EditKinds, u \in Supervisors, primary \in BOOLEAN :
           editing' = [editing EXCEPT ![r].op = op, ![r].pc = FirstStep[op],
              ![r].user = IF op \in {"add", "remove", "primary", "account"} THEN u ELSE None,
              ![r].primary = primary]
    BY DEF FindJob
  <1> DEFINE user == IF op \in {"add", "remove", "primary", "account"} THEN u ELSE None
             e == [editing[r] EXCEPT !.op = op, !.pc = FirstStep[op], !.user = user,
                                     !.primary = primary]
  <1>2. editing' = [editing EXCEPT ![r] = e]
    BY <1>1 DEF StatusInv, JobShape
  <1>3. EditFields \subseteq DOMAIN e /\ e.op = op /\ e.pc = FirstStep[op]
    BY DEF StatusInv, JobShape, EditFields
  <1>4. op = "patch" => FirstStep[op] = "read"
    BY DEF FirstStep
  <1>5. UNCHANGED <<job, wanted, overwritten>>
        /\ {"held", "supervisor", "status"} \subseteq DOMAIN job'
    BY DEF FindJob, NothingCommitted, StatusInv, JobShape
  <1> HIDE DEF e
  <1> QED  BY <1>2, <1>3, <1>4, <1>5, StatusMoves

LEMMA StatusInvStore ==
    ASSUME StatusInv, NEW r \in Edits, Store(r)
    PROVE  StatusInv'
  <1>1. UNCHANGED <<wanted, overwritten>>  BY DEF Store
  <1>2. CASE EndEdit(r) /\ job' = job
    BY <1>1, <1>2, StatusEnded DEF StatusInv, JobShape
  <1>3. CASE /\ job' = [job EXCEPT !.supervisor = editing[r].promoted]
             /\ editing' = [q \in Edits |->
                   IF q = r THEN Over
                   ELSE IF editing[q].pc = "store" THEN [editing[q] EXCEPT !.stale = TRUE]
                   ELSE editing[q]]
    <2>1. /\ {"held", "supervisor", "status"} \subseteq DOMAIN job'
          /\ job'.held = job.held /\ job'.status = job.status
      BY <1>3 DEF StatusInv, JobShape
    <2>2. ASSUME NEW q \in Edits
          PROVE  /\ EditFields \subseteq DOMAIN editing'[q]
                 /\ Copying(q)' => Copying(q) /\ editing'[q] = editing[q]
      <3>1. CASE q = r
        BY <1>3, <3>1, OverShape DEF Copying
      <3>2. CASE q # r /\ editing[q].pc = "store"
        <4>1. editing'[q] = [editing[q] EXCEPT !.stale = TRUE]
          BY <1>3, <3>2
        <4>2. EditFields \subseteq DOMAIN editing'[q] /\ editing'[q].pc = "store"
          BY <3>2, <4>1 DEF StatusInv, JobShape, EditFields
        <4> QED  BY <4>2 DEF Copying
      <3>3. CASE q # r /\ editing[q].pc # "store"
        BY <1>3, <3>3 DEF StatusInv, JobShape, Copying
      <3> QED  BY <3>1, <3>2, <3>3
    <2>3. editing' = [q \in Edits |-> editing'[q]]  BY <1>3
    <2> QED  BY <1>1, <2>1, <2>2, <2>3, StatusHarmless
  <1> QED  BY <1>2, <1>3 DEF Store

-----------------------------------------------------------------------------
(* The steps that copy or set the status. *)

LEMMA StatusInvPatchRead ==
    ASSUME StatusInv, NEW r \in Edits, PatchRead(r)
    PROVE  StatusInv'
  <1>1. PICK names, status, user :
           editing' = [editing EXCEPT ![r].pc = "find", ![r].names = names, ![r].user = user,
                                      ![r].status = PatchedStatus(names, status)]
    BY DEF PatchRead
  <1>2. UNCHANGED <<job, wanted, overwritten>>
    BY DEF PatchRead, NothingCommitted
  <1>3. /\ EditFields \subseteq DOMAIN editing'[r] /\ editing'[r].names = names
        /\ editing'[r].status = PatchedStatus(names, status)
        /\ \A q \in Edits \ {r} : editing'[q] = editing[q]
        /\ editing' = [q \in Edits |-> editing'[q]]
    BY <1>1 DEF StatusInv, JobShape, EditFields
  <1>4. JobShape'
    BY <1>2, <1>3 DEF StatusInv, JobShape
  <1>5. CopiesAreCurrent'
    BY <1>2, <1>3 DEF StatusInv, CopiesAreCurrent, Copying, PatchedStatus
  <1> QED  BY <1>2, <1>4, <1>5 DEF StatusInv, StatusUndoneByRacersOnly

LEMMA StatusInvPatchFind ==
    ASSUME StatusInv, NEW r \in Edits, PatchFind(r)
    PROVE  StatusInv'
  <1>1. UNCHANGED <<job, wanted, overwritten>>
    BY DEF PatchFind, NothingCommitted
  <1>2. CASE EndEdit(r)
    BY <1>1, <1>2, StatusEnded DEF StatusInv, JobShape
  <1>3. CASE editing' = [editing EXCEPT ![r].pc = "write"]
    <2>1. /\ EditFields \subseteq DOMAIN editing'[r]
          /\ editing'[r].names = editing[r].names /\ editing'[r].status = editing[r].status
          /\ editing'[r].stale = editing[r].stale
          /\ \A q \in Edits \ {r} : editing'[q] = editing[q]
          /\ editing' = [q \in Edits |-> editing'[q]]
      BY <1>3 DEF StatusInv, JobShape, EditFields
    <2>2. Copying(r)  BY DEF PatchFind, AtEdit, Copying
    <2>3. \A q \in Edits : /\ EditFields \subseteq DOMAIN editing'[q]
                           /\ Copying(q)' => /\ Copying(q)
                                             /\ editing'[q].names = editing[q].names
                                             /\ editing'[q].status = editing[q].status
                                             /\ editing[q].stale => editing'[q].stale
      BY <2>1, <2>2 DEF StatusInv, JobShape, Copying
    <2> QED  BY <1>1, <2>1, <2>3, StatusHarmless DEF StatusInv, JobShape
  <1> QED  BY <1>2, <1>3 DEF PatchFind, GoTo

\* Who writes the status outdates every copy.
LEMMA StatusOutdates ==
    ASSUME StatusInv, NEW r \in Edits,
           editing' = [q \in Edits |->
              IF q = r THEN Over
              ELSE IF editing[q].op = "patch" /\ editing[q].pc \in {"find", "write"}
              THEN [editing[q] EXCEPT !.stale = TRUE]
              ELSE editing[q]],
           {"held", "supervisor", "status"} \subseteq DOMAIN job',
           StatusUndoneByRacersOnly'
    PROVE  StatusInv'
  <1>1. ASSUME NEW q \in Edits
        PROVE  /\ EditFields \subseteq DOMAIN editing'[q]
               /\ Copying(q)' => editing'[q].stale
    <2>1. CASE q = r
      BY <2>1, OverShape DEF Copying
    <2>2. CASE q # r /\ Copying(q)
      <3>1. editing'[q] = [editing[q] EXCEPT !.stale = TRUE]
        BY <2>2 DEF Copying
      <3> QED  BY <3>1 DEF StatusInv, JobShape, EditFields
    <2>3. CASE q # r /\ ~Copying(q)
      BY <2>3 DEF StatusInv, JobShape, Copying
    <2> QED  BY <2>1, <2>2, <2>3
  <1>2. JobShape'  BY <1>1 DEF JobShape
  <1>3. CopiesAreCurrent'  BY <1>1 DEF CopiesAreCurrent, Copying
  <1> QED  BY <1>2, <1>3 DEF StatusInv

LEMMA StatusInvPatchWrite ==
    ASSUME StatusInv, NEW r \in Edits, PatchWrite(r)
    PROVE  StatusInv'
  <1> DEFINE e == editing[r]
  <1>1. Copying(r)  BY DEF PatchWrite, AtEdit, Copying
  <1>2. CASE job.held /\ e.user \notin gone
    <2>1. /\ job' = [job EXCEPT !.supervisor = e.user, !.status = e.status]
          /\ wanted' = IF "status" \in e.names THEN e.status ELSE wanted
          /\ overwritten' = IF "status" \in e.names THEN FALSE ELSE overwritten \/ e.stale
          /\ editing' = [q \in Edits |->
                IF q = r THEN Over
                ELSE IF editing[q].op = "patch" /\ editing[q].pc \in {"find", "write"}
                THEN [editing[q] EXCEPT !.stale = TRUE]
                ELSE editing[q]]
      BY <1>2 DEF PatchWrite
    <2>2. /\ {"held", "supervisor", "status"} \subseteq DOMAIN job'
          /\ job'.status = e.status
      BY <2>1 DEF StatusInv, JobShape
    <2>3. ASSUME ~overwritten' PROVE job'.status = wanted'
      <3>1. CASE "status" \in e.names
        BY <2>1, <2>2, <3>1
      <3>2. CASE "status" \notin e.names
        <4>1. ~overwritten /\ ~e.stale /\ wanted' = wanted
          BY <2>1, <2>3, <3>2
        <4>2. job.status = wanted /\ e.status = job.status
          BY <1>1, <1>2, <3>2, <4>1 DEF StatusInv, CopiesAreCurrent, StatusUndoneByRacersOnly
        <4> QED  BY <2>2, <4>1, <4>2
      <3> QED  BY <3>1, <3>2
    <2>4. StatusUndoneByRacersOnly'  BY <2>3 DEF StatusUndoneByRacersOnly
    <2> QED  BY <2>1, <2>2, <2>4, StatusOutdates
  <1>3. CASE ~(job.held /\ e.user \notin gone)
    <2>1. EndEdit(r) /\ UNCHANGED <<job, wanted, overwritten>>
      BY <1>3 DEF PatchWrite
    <2> QED  BY <2>1, StatusEnded DEF StatusInv, JobShape
  <1> QED  BY <1>2, <1>3

LEMMA StatusInvArchive ==
    ASSUME StatusInv, NEW r \in Edits, Archive(r)
    PROVE  StatusInv'
  <1>1. /\ job' = IF job.held THEN [job EXCEPT !.status = "archived"] ELSE job
        /\ wanted' = "archived"
        /\ editing' = [q \in Edits |->
              IF q = r THEN Over
              ELSE IF editing[q].op = "patch" /\ editing[q].pc \in {"find", "write"}
              THEN [editing[q] EXCEPT !.stale = TRUE]
              ELSE editing[q]]
    BY DEF Archive
  <1>2. /\ {"held", "supervisor", "status"} \subseteq DOMAIN job'
        /\ job'.held => job'.status = "archived"
    BY <1>1 DEF StatusInv, JobShape
  <1>3. StatusUndoneByRacersOnly'  BY <1>1, <1>2 DEF StatusUndoneByRacersOnly
  <1> QED  BY <1>1, <1>2, <1>3, StatusOutdates

\* The job's end, the account's end, the request's end.
LEMMA StatusInvEnds ==
    ASSUME StatusInv, NEW r \in Edits, Purge(r) \/ DeleteSupervisor(r) \/ FailAssignment(r)
    PROVE  StatusInv'
  <1>1. EndEdit(r) /\ UNCHANGED <<wanted, overwritten>>
    BY DEF Purge, DeleteSupervisor, FailAssignment, NothingCommitted
  <1>2. /\ {"held", "supervisor", "status"} \subseteq DOMAIN job'
        /\ job'.held => job.held /\ job'.status = job.status
    <2>1. CASE Purge(r)
      BY <2>1 DEF Purge, StatusInv, JobShape
    <2>2. CASE DeleteSupervisor(r)
      BY <2>2 DEF DeleteSupervisor, StatusInv, JobShape
    <2>3. CASE FailAssignment(r)
      BY <2>3 DEF FailAssignment, NothingCommitted, StatusInv, JobShape
    <2> QED  BY <2>1, <2>2, <2>3
  <1> QED  BY <1>1, <1>2, StatusEnded

LEMMA StatusInvStep == StatusInv /\ [AssignmentsNext]_assignmentVars => StatusInv'
  <1> SUFFICES ASSUME StatusInv, [AssignmentsNext]_assignmentVars PROVE StatusInv'
    OBVIOUS
  <1>1. CASE UNCHANGED assignmentVars
    BY <1>1 DEF assignmentVars, StatusInv, JobShape, CopiesAreCurrent, Copying,
       StatusUndoneByRacersOnly
  <1>2. ASSUME NEW r \in Edits,
               \/ FindJob(r) \/ AddCount(r) \/ ClearStart(r) \/ ClearRows(r) \/ Insert(r)
               \/ DeleteAssignment(r) \/ LockJob(r) \/ SetPrimary(r) \/ Sync(r) \/ Store(r)
               \/ PatchRead(r) \/ PatchFind(r) \/ PatchWrite(r) \/ Archive(r) \/ Purge(r)
               \/ DeleteSupervisor(r) \/ FailAssignment(r)
        PROVE  StatusInv'
    BY <1>2, StatusInvFindJob, StatusInvEdits, StatusInvStore, StatusInvPatchRead,
       StatusInvPatchFind, StatusInvPatchWrite, StatusInvArchive, StatusInvEnds
  <1> QED  BY <1>1, <1>2 DEF AssignmentsNext

-----------------------------------------------------------------------------
(* A job is archived, or not, as last asked, whoever archives, patches,      *)
(* assigns and purges at once: unless a partial update that did not name the *)
(* status wrote an outdated one back.                                        *)
THEOREM StatusStandsAsAsked == AssignmentsSpec => []StatusUndoneByRacersOnly
  <1>1. StatusInv => StatusUndoneByRacersOnly  BY DEF StatusInv
  <1> QED  BY StatusInvInit, StatusInvStep, <1>1, PTL DEF AssignmentsSpec

-----------------------------------------------------------------------------
(* The column that mirrors the assignments: its inductive invariant.        *)

Written(r, u) == editing[r].write[u] # None

\* The rows a transaction would leave behind with the writes w.
Overlay(w) == [u \in Supervisors |-> IF w[u] = None THEN assigned[u] ELSE w[u]]

NamesItsUser == {"add", "remove", "primary", "account"}

\* An operation is at a statement of its own, and of the user it names.
Named ==
    \A r \in Edits :
        /\ editing[r].op \in NamesItsUser => editing[r].user \in Supervisors
        /\ editing[r].pc \in {"count", "insert"} => editing[r].op = "add"
        /\ editing[r].pc \in {"clear", "clearing"} => editing[r].op \in {"add", "primary"}
        /\ editing[r].pc \in {"lock", "set"} => editing[r].op = "primary"

HeldIfPrimary(rows) == \A u \in Supervisors : rows[u].primary => rows[u].held

OnePrimary(rows) ==
    \A u, v \in Supervisors : rows[u].primary /\ rows[v].primary => u = v

TimesDiffer(rows) ==
    \A u, v \in Supervisors :
        rows[u].held /\ rows[v].held /\ rows[u].at = rows[v].at => u = v

\* What is committed keeps both unique indexes, and no two rows have a time.
RowsSound ==
    /\ HeldIfPrimary(assigned) /\ OnePrimary(assigned) /\ TimesDiffer(assigned)
    /\ \A u \in Supervisors : assigned[u].held => assigned[u].at <= tick

\* So does what any open transaction would leave behind.
ViewsSound ==
    \A r \in Edits :
        HeldIfPrimary(Overlay(editing[r].write)) /\ OnePrimary(Overlay(editing[r].write))

\* The row locks: no row is written by two transactions.
RowsApart ==
    \A q, r \in Edits, u \in Supervisors : Written(q, u) /\ Written(r, u) => q = r

Promotes(r, u) == Written(r, u) /\ editing[r].write[u].primary

\* The index on the primary: two transactions do not write one each.
OnePromoter ==
    \A q, r \in Edits, u, v \in Supervisors : Promotes(q, u) /\ Promotes(r, v) => q = r

\* The assignment that e means to add, or has added, has its time.
DatedAs(e) ==
    e.op = "add" /\ e.pc \in {"clear", "clearing", "insert", "sync", "store"}

Dated(r) == DatedAs(editing[r])

InsertedAs(e, u) ==
    DatedAs(e) /\ e.pc \in {"sync", "store"} /\ e.user = u /\ e.write[u].at = e.began

RowWritten(r, u) == InsertedAs(editing[r], u)

\* What a transaction writes is a committed row's, or the one it adds.
WritesDated ==
    \A r \in Edits, u \in Supervisors :
        Written(r, u) /\ editing[r].write[u].held
            => \/ assigned[u].held /\ editing[r].write[u].at = assigned[u].at
               \/ RowWritten(r, u)

\* No two adds have a time, and no committed row has that of one.
ClocksDiffer ==
    \A r \in Edits : Dated(r) =>
        /\ editing[r].began <= tick
        /\ \A u \in Supervisors : assigned[u].held => assigned[u].at # editing[r].began
        /\ \A q \in Edits : Dated(q) /\ editing[q].began = editing[r].began => q = r

\* Nobody overtook the request, or nobody can: it holds the job's lock.
Unovertaken(r) == ~editing[r].stale \/ editing[r].op = "primary"

\* What such a request is about to store is what it would still choose.
PromotedIsFirst ==
    \A r \in Edits :
        editing[r].pc = "store" /\ job.held /\ editing[r].promoted \notin gone /\ Unovertaken(r)
            => editing[r].promoted = PrimarySupervisor(View(r))

MirrorInv ==
    /\ AssignmentsTypeOK
    /\ Named
    /\ RowsSound /\ ViewsSound /\ RowsApart /\ OnePromoter
    /\ WritesDated /\ ClocksDiffer
    /\ PromotedIsFirst
    /\ SupervisorDisputedByRacersOnly

-----------------------------------------------------------------------------
\* The first supervisor of the rows, and one row's end.

LEMMA LeastElement ==
    ASSUME NEW S, S # {}, S \subseteq Nat
    PROVE  \E m \in S : \A n \in S : m <= n
  <1>1. IsWellFoundedOn(OpToRel(<, Nat), Nat)
    BY NatLessThanWellFounded
  <1>2. PICK m \in S : \A n \in S : ~(<<n, m>> \in OpToRel(<, Nat))
    BY <1>1, WFMin
  <1>3. \A n \in S : ~(n < m)
    BY <1>2 DEF OpToRel
  <1> QED  BY <1>3

LEMMA EarliestIsLeast ==
    ASSUME NEW rows \in [Supervisors -> JobAssignment], AssignedIn(rows) # {}
    PROVE  /\ Earliest(rows) \in AssignedIn(rows)
           /\ \A v \in AssignedIn(rows) : rows[Earliest(rows)].at <= rows[v].at
  <1> DEFINE S == {rows[u].at : u \in AssignedIn(rows)}
  <1>1. S # {} /\ S \subseteq Nat
    BY DEF AssignedIn, JobAssignment
  <1>2. PICK m \in S : \A n \in S : m <= n
    BY <1>1, LeastElement
  <1>3. PICK u \in AssignedIn(rows) : rows[u].at = m
    OBVIOUS
  <1>4. \A v \in AssignedIn(rows) : rows[u].at <= rows[v].at
    BY <1>2, <1>3
  <1> HIDE DEF S
  <1> QED  BY <1>4 DEF Earliest

\* Who is not first leaves the first in place.
LEMMA OthersLeaveTheFirst ==
    ASSUME NEW rows \in [Supervisors -> JobAssignment],
           HeldIfPrimary(rows), OnePrimary(rows), TimesDiffer(rows),
           NEW u \in Supervisors, PrimarySupervisor(rows) # u,
           NEW left, left = [rows EXCEPT ![u] = NoAssignment]
    PROVE  PrimarySupervisor(left) = PrimarySupervisor(rows)
  <1> DEFINE p == PrimarySupervisor(rows)
  <1>1. /\ left \in [Supervisors -> JobAssignment]
        /\ ~left[u].held /\ ~left[u].primary
        /\ \A v \in Supervisors \ {u} : left[v] = rows[v]
    BY DEF NoAssignment, JobAssignment
  <1>2. CASE \E v \in Supervisors : rows[v].held /\ rows[v].primary
    <2>1. p \in Supervisors /\ rows[p].held /\ rows[p].primary
      BY <1>2 DEF PrimarySupervisor
    <2>2. left[p].held /\ left[p].primary
      BY <1>1, <2>1
    <2>3. \A v \in Supervisors : left[v].held /\ left[v].primary => v = p
      BY <1>1, <2>1 DEF OnePrimary
    <2> HIDE DEF p
    <2>4. PrimarySupervisor(left) = p
      BY <2>1, <2>2, <2>3 DEF PrimarySupervisor
    <2> QED  BY <2>4 DEF p
  <1>3. CASE ~\E v \in Supervisors : rows[v].held /\ rows[v].primary
    <2>1. ~\E v \in Supervisors : left[v].held /\ left[v].primary
      BY <1>1, <1>3
    <2>2. p = Earliest(rows) /\ PrimarySupervisor(left) = Earliest(left)
      BY <1>3, <2>1 DEF PrimarySupervisor
    <2>3. AssignedIn(left) = AssignedIn(rows) \ {u}
      BY <1>1 DEF AssignedIn
    <2>4. CASE AssignedIn(rows) = {}
      BY <2>2, <2>3, <2>4 DEF Earliest
    <2>5. CASE AssignedIn(rows) # {}
      <3>1. /\ p \in AssignedIn(rows)
            /\ \A v \in AssignedIn(rows) : rows[p].at <= rows[v].at
        BY <2>2, <2>5, EarliestIsLeast
      <3>2. p \in AssignedIn(left)
        BY <2>3, <3>1
      <3>3. /\ Earliest(left) \in AssignedIn(left)
            /\ \A v \in AssignedIn(left) : left[Earliest(left)].at <= left[v].at
        BY <1>1, <3>2, EarliestIsLeast
      <3> DEFINE q == Earliest(left)
      <3> HIDE DEF p, q
      <3>4. q \in Supervisors /\ p \in Supervisors /\ rows[q].held /\ rows[p].held /\ p # u /\ q # u
        BY <2>3, <3>1, <3>2, <3>3 DEF AssignedIn, q, p
      <3>5. rows[q].at <= rows[p].at /\ rows[p].at <= rows[q].at
        BY <1>1, <2>3, <3>1, <3>2, <3>3, <3>4 DEF q
      <3>6. rows[q].at \in Nat /\ rows[p].at \in Nat
        BY <3>4 DEF JobAssignment
      <3>7. q = p
        BY <3>4, <3>5, <3>6 DEF TimesDiffer
      <3> QED  BY <2>2, <3>7 DEF p, q
    <2> QED  BY <2>4, <2>5
  <1> QED  BY <1>2, <1>3

-----------------------------------------------------------------------------
\* Sharing an invariant out: one request's step, one commit.

NamedAs(e) ==
    /\ e.op \in NamesItsUser => e.user \in Supervisors
    /\ e.pc \in {"count", "insert"} => e.op = "add"
    /\ e.pc \in {"clear", "clearing"} => e.op \in {"add", "primary"}
    /\ e.pc \in {"lock", "set"} => e.op = "primary"

\* The request r moves to e and nothing is committed.
LEMMA MirrorMoves ==
    ASSUME MirrorInv, NEW r \in Edits, NEW e \in Editing,
           editing' = [editing EXCEPT ![r] = e],
           NothingCommitted, tick' \in Nat, tick <= tick',
           NamedAs(e),
           \A u \in Supervisors : e.write[u] # None => Written(r, u) \/ ~Locked(r, u),
           HeldIfPrimary(Overlay(e.write)), OnePrimary(Overlay(e.write)),
           \/ ~\E u \in Supervisors : e.write[u] # None /\ e.write[u].primary
           \/ \E u \in Supervisors : Promotes(r, u)
           \/ \A q \in Edits \ {r}, u \in Supervisors : ~Promotes(q, u),
           \A u \in Supervisors :
              e.write[u] # None /\ e.write[u].held
                 => (assigned[u].held /\ e.write[u].at = assigned[u].at) \/ InsertedAs(e, u),
           DatedAs(e) => \/ Dated(r) /\ e.began = editing[r].began
                         \/ tick' = tick + 1 /\ e.began = tick + 1,
           e.pc = "store" => e.promoted = PrimarySupervisor(Overlay(e.write))
    PROVE  MirrorInv'
  <1>1. /\ editing' \in [Edits -> Editing] /\ editing'[r] = e
        /\ \A q \in Edits \ {r} : editing'[q] = editing[q]
    BY DEF MirrorInv, AssignmentsTypeOK
  <1>2. UNCHANGED <<assigned, job, gone, disputed, wanted, overwritten>>
    BY DEF NothingCommitted
  <1>3. AssignmentsTypeOK'
    BY <1>1, <1>2 DEF MirrorInv, AssignmentsTypeOK
  <1>4. Named'
    BY <1>1 DEF MirrorInv, Named, NamedAs
  <1>5. RowsSound'
    <2>1. \A u \in Supervisors : assigned[u].held => assigned[u].at \in Nat /\ assigned[u].at <= tick
      BY DEF MirrorInv, RowsSound, AssignmentsTypeOK, JobAssignment
    <2>2. tick \in Nat
      BY DEF MirrorInv, AssignmentsTypeOK
    <2> QED  BY <1>2, <2>1, <2>2 DEF MirrorInv, RowsSound, HeldIfPrimary, OnePrimary, TimesDiffer
  <1>6. \A w : Overlay(w)' = Overlay(w)
    BY <1>2 DEF Overlay
  <1>7. ViewsSound'
    <2> SUFFICES ASSUME NEW q \in Edits
                 PROVE  HeldIfPrimary(Overlay(editing'[q].write)) /\ OnePrimary(Overlay(editing'[q].write))
      BY <1>2 DEF ViewsSound, Overlay, HeldIfPrimary, OnePrimary
    <2> QED  BY <1>1 DEF MirrorInv, ViewsSound
  <1>8. RowsApart'
    BY <1>1 DEF MirrorInv, RowsApart, Written, Locked
  <1>9. OnePromoter'
    BY <1>1 DEF MirrorInv, OnePromoter, Promotes, Written
  <1>10. WritesDated'
    BY <1>1, <1>2 DEF MirrorInv, WritesDated, Written, RowWritten, InsertedAs, Dated, DatedAs
  <1>11. ClocksDiffer'
    <2>1. /\ \A q \in Edits : Dated(q) => editing[q].began \in Nat /\ editing[q].began <= tick
          /\ \A u \in Supervisors : assigned[u].held => assigned[u].at \in Nat /\ assigned[u].at <= tick
          /\ tick \in Nat
      BY DEF MirrorInv, RowsSound, ClocksDiffer, AssignmentsTypeOK, JobAssignment, Editing
    <2>2. \A q \in Edits \ {r} : Dated(q)' <=> Dated(q)
      BY <1>1 DEF Dated, DatedAs
    <2>3. Dated(r)' <=> DatedAs(e)
      BY <1>1 DEF Dated, DatedAs
    <2>4. CASE Dated(r) /\ e.began = editing[r].began
      BY <1>1, <1>2, <2>1, <2>2, <2>3, <2>4 DEF MirrorInv, ClocksDiffer
    <2>5. CASE ~DatedAs(e)
      BY <1>1, <1>2, <2>1, <2>2, <2>3, <2>5 DEF MirrorInv, ClocksDiffer
    <2>6. CASE tick' = tick + 1 /\ e.began = tick + 1
      BY <1>1, <1>2, <2>1, <2>2, <2>3, <2>6 DEF MirrorInv, ClocksDiffer
    <2> QED  BY <2>4, <2>5, <2>6
  <1>12. \A q \in Edits : View(q) = Overlay(editing[q].write)
    BY DEF View, Overlay
  <1>13. \A q \in Edits : View(q)' = Overlay(editing'[q].write)
    BY <1>2 DEF View, Overlay
  <1>14. PromotedIsFirst'
    BY <1>1, <1>2, <1>12, <1>13 DEF MirrorInv, PromotedIsFirst, Unovertaken
  <1>15. SupervisorDisputedByRacersOnly'
    BY <1>2 DEF MirrorInv, SupervisorDisputedByRacersOnly, PrimarySupervisor, Earliest, AssignedIn
  <1> QED
    BY <1>3, <1>4, <1>5, <1>7, <1>8, <1>9, <1>10, <1>11, <1>14, <1>15 DEF MirrorInv

LEMMA OverIs == /\ Over \in Editing /\ Over.pc = "done" /\ Over.op = "none"
                /\ \A u \in Supervisors : Over.write[u] = None
                /\ Overlay(Over.write) = [u \in Supervisors |-> assigned[u]]
  <1>1. NotEditing \in Editing
    BY DEF NotEditing, Editing, Unwritten, JobStatus
  <1>2. Over \in Editing
    BY <1>1 DEF Over, Editing
  <1>3. Over.pc = "done" /\ Over.op = "none" /\ Over.write = Unwritten
    BY DEF Over, NotEditing
  <1> QED  BY <1>2, <1>3 DEF Unwritten, Overlay

LEMMA MirrorEnds ==
    ASSUME MirrorInv, NEW r \in Edits, EndEdit(r), NothingCommitted, tick' = tick
    PROVE  MirrorInv'
  <1>1. editing' = [editing EXCEPT ![r] = Over]
    BY DEF EndEdit
  <1>2. NamedAs(Over) /\ ~DatedAs(Over)
    BY OverIs DEF NamedAs, DatedAs, NamesItsUser
  <1>3. HeldIfPrimary(Overlay(Over.write)) /\ OnePrimary(Overlay(Over.write))
    BY OverIs DEF MirrorInv, RowsSound, HeldIfPrimary, OnePrimary
  <1>4. tick' \in Nat /\ tick <= tick'
    BY DEF MirrorInv, AssignmentsTypeOK
  <1> QED  BY <1>1, <1>2, <1>3, <1>4, OverIs, MirrorMoves

\* The request r moves on and writes nothing.
LEMMA MirrorKeeps ==
    ASSUME MirrorInv, NEW r \in Edits, NEW e \in Editing,
           editing' = [editing EXCEPT ![r] = e],
           NothingCommitted, tick' \in Nat, tick <= tick',
           NamedAs(e), e.write = editing[r].write, editing[r].pc \notin {"sync", "store"},
           DatedAs(e) => \/ Dated(r) /\ e.began = editing[r].began
                         \/ tick' = tick + 1 /\ e.began = tick + 1,
           e.pc # "store"
    PROVE  MirrorInv'
  <1>1. HeldIfPrimary(Overlay(e.write)) /\ OnePrimary(Overlay(e.write))
    BY DEF MirrorInv, ViewsSound
  <1>2. \A u \in Supervisors : e.write[u] # None => Written(r, u)
    BY DEF Written
  <1>3. \/ ~\E u \in Supervisors : e.write[u] # None /\ e.write[u].primary
        \/ \E u \in Supervisors : Promotes(r, u)
    BY DEF Promotes, Written
  <1>4. \A u \in Supervisors :
           e.write[u] # None /\ e.write[u].held => assigned[u].held /\ e.write[u].at = assigned[u].at
    BY DEF MirrorInv, WritesDated, RowWritten, InsertedAs, Written
  <1> QED  BY <1>1, <1>2, <1>3, <1>4, MirrorMoves

-----------------------------------------------------------------------------
\* The steps of one request.

LEMMA MirrorFindJob ==
    ASSUME MirrorInv, NEW r \in Edits, FindJob(r)
    PROVE  MirrorInv'
  <1>1. PICK op \in EditKinds, u \in Supervisors, primary \in BOOLEAN :
           editing' = [editing EXCEPT ![r].op = op, ![r].pc = FirstStep[op],
              ![r].user = IF op \in {"add", "remove", "primary", "account"} THEN u ELSE None,
              ![r].primary = primary]
    BY DEF FindJob
  <1> DEFINE user == IF op \in {"add", "remove", "primary", "account"} THEN u ELSE None
             pc == FirstStep[op]
             e == [editing[r] EXCEPT !.op = op, !.pc = pc, !.user = user, !.primary = primary]
  <1>2. /\ pc \in {"count", "delete", "lock", "read", "write"}
        /\ pc = "count" => op = "add"
        /\ pc = "lock" => op = "primary"
    BY EditsAreOperations DEF FirstStep
  <1>3. user \in Supervisors \cup {None} /\ (op \in NamesItsUser => user \in Supervisors)
    BY DEF NamesItsUser
  <1>4. editing[r] \in Editing /\ editing \in [Edits -> Editing]
    BY DEF MirrorInv, AssignmentsTypeOK
  <1>5. editing' = [editing EXCEPT ![r] = e]
    BY <1>1, <1>4
  <1> HIDE DEF user, pc
  <1>6. e \in Editing /\ e.op = op /\ e.pc = pc /\ e.user = user /\ e.write = editing[r].write
    BY <1>2, <1>3, <1>4 DEF Editing
  <1> HIDE DEF e
  <1>7. NamedAs(e) /\ ~DatedAs(e) /\ e.pc # "store"
    BY <1>2, <1>3, <1>6 DEF NamedAs, DatedAs
  <1>8. NothingCommitted /\ tick' \in Nat /\ tick <= tick' /\ editing[r].pc = "idle"
    BY DEF FindJob, MirrorInv, AssignmentsTypeOK
  <1> QED  BY <1>5, <1>6, <1>7, <1>8, MirrorKeeps

LEMMA MirrorAddCount ==
    ASSUME MirrorInv, NEW r \in Edits, AddCount(r)
    PROVE  MirrorInv'
  <1> DEFINE primary == editing[r].primary \/ AssignedIn(assigned) = {}
             pc == IF primary THEN "clear" ELSE "insert"
             began == tick + 1
             e == [editing[r] EXCEPT !.primary = primary, !.began = began, !.pc = pc]
  <1>1. editing' = [editing EXCEPT ![r].primary = primary, ![r].began = began, ![r].pc = pc]
    BY DEF AddCount
  <1>2. /\ editing[r] \in Editing /\ editing \in [Edits -> Editing]
        /\ tick \in Nat /\ tick' = began /\ began \in Nat
    <2>1. editing[r] \in Editing /\ editing \in [Edits -> Editing] /\ tick \in Nat
      BY DEF MirrorInv, AssignmentsTypeOK
    <2>2. tick' = tick + 1
      BY DEF AddCount
    <2> QED  BY <2>1, <2>2
  <1>3. pc \in {"clear", "insert"} /\ primary \in BOOLEAN
    BY <1>2 DEF Editing
  <1>4. editing' = [editing EXCEPT ![r] = e]
    BY <1>1, <1>2
  <1> HIDE DEF primary, pc
  <1>5. tick <= tick' /\ tick' \in Nat /\ tick' = tick + 1 /\ began = tick + 1
    BY <1>2
  <1> HIDE DEF began
  <1>6. /\ e \in Editing /\ e.op = editing[r].op /\ e.pc = pc /\ e.user = editing[r].user
        /\ e.write = editing[r].write /\ e.began = began
    BY <1>2, <1>3 DEF Editing
  <1> HIDE DEF e
  <1>7. NamedAs(e) /\ e.pc # "store"
    BY <1>3, <1>6 DEF NamedAs, AddCount, AtEdit, MirrorInv, Named
  <1>8. NothingCommitted /\ editing[r].pc = "count"
    BY DEF AddCount, AtEdit
  <1> QED  BY <1>4, <1>5, <1>6, <1>7, <1>8, MirrorKeeps

LEMMA MirrorClearStart ==
    ASSUME MirrorInv, NEW r \in Edits, ClearStart(r)
    PROVE  MirrorInv'
  <1> DEFINE rows == AssignedIn(View(r))
             e == [editing[r] EXCEPT !.pc = "clearing", !.targets = rows]
  <1>1. editing' = [editing EXCEPT ![r].pc = "clearing", ![r].targets = rows]
    BY DEF ClearStart
  <1>2. editing[r] \in Editing /\ editing \in [Edits -> Editing] /\ rows \subseteq Supervisors
    BY DEF MirrorInv, AssignmentsTypeOK, AssignedIn
  <1>3. editing' = [editing EXCEPT ![r] = e]
    BY <1>1, <1>2
  <1> HIDE DEF rows
  <1>4. /\ e \in Editing /\ e.op = editing[r].op /\ e.pc = "clearing" /\ e.user = editing[r].user
        /\ e.write = editing[r].write /\ e.began = editing[r].began
    BY <1>2 DEF Editing
  <1> HIDE DEF e
  <1>5. NothingCommitted /\ editing[r].pc = "clear" /\ tick' \in Nat /\ tick <= tick'
    BY DEF ClearStart, MirrorInv, AssignmentsTypeOK
  <1>6. NamedAs(e) /\ e.pc # "store" /\ (DatedAs(e) => Dated(r))
    BY <1>4, <1>5 DEF NamedAs, MirrorInv, Named, Dated, DatedAs
  <1> QED  BY <1>3, <1>4, <1>5, <1>6, MirrorKeeps

LEMMA MirrorGoesOn ==
    ASSUME MirrorInv, NEW r \in Edits, NEW pc \in {"clear", "write"}, GoTo(r, pc),
           NothingCommitted, tick' = tick,
           pc = "clear" => AtEdit(r, "primary", "lock"),
           pc = "write" => AtEdit(r, "patch", "find")
    PROVE  MirrorInv'
  <1> DEFINE e == [editing[r] EXCEPT !.pc = pc]
  <1>1. editing[r] \in Editing /\ editing \in [Edits -> Editing]
    BY DEF MirrorInv, AssignmentsTypeOK
  <1>2. editing' = [editing EXCEPT ![r] = e]
    BY <1>1 DEF GoTo
  <1>3. /\ e \in Editing /\ e.op = editing[r].op /\ e.pc = pc /\ e.user = editing[r].user
        /\ e.write = editing[r].write
    BY <1>1 DEF Editing
  <1> HIDE DEF e
  <1>4. tick' \in Nat /\ tick <= tick' /\ editing[r].pc \notin {"sync", "store"}
    BY DEF MirrorInv, AssignmentsTypeOK, AtEdit
  <1>5. NamedAs(e) /\ ~DatedAs(e) /\ e.pc # "store"
    BY <1>3 DEF NamedAs, DatedAs, AtEdit, NamesItsUser, MirrorInv, Named
  <1> QED  BY <1>2, <1>3, <1>4, <1>5, MirrorKeeps

LEMMA MirrorPatchRead ==
    ASSUME MirrorInv, NEW r \in Edits, PatchRead(r)
    PROVE  MirrorInv'
  <1>1. PICK names \in SUBSET {"supervisor", "status"}, u \in (Supervisors \ gone) \cup {None},
             status \in JobStatus :
          editing' = [editing EXCEPT ![r].pc = "find", ![r].names = names,
                         ![r].user = IF "supervisor" \in names THEN u ELSE job.supervisor,
                         ![r].status = PatchedStatus(names, status)]
    BY DEF PatchRead
  <1> DEFINE user == IF "supervisor" \in names THEN u ELSE job.supervisor
             asked == PatchedStatus(names, status)
             e == [editing[r] EXCEPT !.pc = "find", !.names = names, !.user = user, !.status = asked]
  <1>2. editing[r] \in Editing /\ editing \in [Edits -> Editing]
    BY DEF MirrorInv, AssignmentsTypeOK
  <1>3. user \in Supervisors \cup {None} /\ asked \in JobStatus
    BY DEF PatchedStatus, MirrorInv, AssignmentsTypeOK, Job
  <1>4. editing' = [editing EXCEPT ![r] = e]
    BY <1>1, <1>2
  <1> HIDE DEF user, asked
  <1>5. e \in Editing /\ e.op = editing[r].op /\ e.pc = "find" /\ e.write = editing[r].write
    BY <1>2, <1>3 DEF Editing
  <1> HIDE DEF e
  <1>6. /\ NothingCommitted /\ editing[r].pc = "read" /\ editing[r].op = "patch"
        /\ tick' \in Nat /\ tick <= tick'
    BY DEF PatchRead, AtEdit, MirrorInv, AssignmentsTypeOK
  <1>7. NamedAs(e) /\ ~DatedAs(e) /\ e.pc # "store"
    BY <1>5, <1>6 DEF NamedAs, DatedAs, NamesItsUser
  <1> QED  BY <1>4, <1>5, <1>6, <1>7, MirrorKeeps

LEMMA MirrorClearRows ==
    ASSUME MirrorInv, NEW r \in Edits, ClearRows(r)
    PROVE  MirrorInv'
  <1> DEFINE pc == IF editing[r].op = "add" THEN "insert" ELSE "set"
             write == [u \in Supervisors |->
                         IF u \in editing[r].targets /\ View(r)[u].held
                         THEN [View(r)[u] EXCEPT !.primary = FALSE]
                         ELSE editing[r].write[u]]
             e == [editing[r] EXCEPT !.targets = {}, !.pc = pc, !.write = write]
  <1>1. editing' = [editing EXCEPT ![r].targets = {}, ![r].pc = pc, ![r].write = write]
    BY DEF ClearRows
  <1>2. /\ editing[r] \in Editing /\ editing \in [Edits -> Editing]
        /\ assigned \in [Supervisors -> JobAssignment]
        /\ editing[r].write \in [Supervisors -> JobAssignment \cup {None}]
    BY DEF MirrorInv, AssignmentsTypeOK, Editing
  <1>3. editing' = [editing EXCEPT ![r] = e]
    BY <1>1, <1>2
  <1>4. \A u \in Supervisors : View(r)[u] \in JobAssignment
    BY <1>2 DEF View
  <1>5. write \in [Supervisors -> JobAssignment \cup {None}]
    <2> SUFFICES ASSUME NEW u \in Supervisors PROVE write[u] \in JobAssignment \cup {None}
      OBVIOUS
    <2>1. [View(r)[u] EXCEPT !.primary = FALSE] \in JobAssignment
      BY <1>4 DEF JobAssignment
    <2> QED  BY <1>2, <2>1
  <1>6. pc \in {"insert", "set"}
    OBVIOUS
  <1>7. /\ editing[r].pc = "clearing" /\ NothingCommitted /\ tick' \in Nat /\ tick <= tick'
        /\ \A u \in editing[r].targets : ~Locked(r, u)
    BY DEF ClearRows, MirrorInv, AssignmentsTypeOK
  \* Each row is cleared, or left as the request had it.
  <1>8. \A u \in Supervisors :
           \/ write[u] = editing[r].write[u]
           \/ /\ u \in editing[r].targets /\ View(r)[u].held /\ write[u] # None
              /\ write[u].held /\ ~write[u].primary /\ write[u].at = View(r)[u].at
    <2> SUFFICES ASSUME NEW u \in Supervisors, u \in editing[r].targets, View(r)[u].held
                 PROVE  /\ write[u] # None /\ write[u].held /\ ~write[u].primary
                        /\ write[u].at = View(r)[u].at
      OBVIOUS
    <2>1. View(r)[u] \in JobAssignment /\ write[u] = [View(r)[u] EXCEPT !.primary = FALSE]
      BY <1>4
    <2>2. write[u] \in JobAssignment
      BY <2>1 DEF JobAssignment
    <2> HIDE DEF write
    <2>3. write[u].held /\ ~write[u].primary /\ write[u].at = View(r)[u].at
      BY <2>1 DEF JobAssignment
    <2> QED  BY <2>2, <2>3, NoneIsNoRow
  <1> HIDE DEF pc, write
  <1>9. /\ e \in Editing /\ e.op = editing[r].op /\ e.pc = pc /\ e.user = editing[r].user
        /\ e.write = write /\ e.began = editing[r].began
    BY <1>2, <1>5, <1>6 DEF Editing
  <1> HIDE DEF e
  <1>10. NamedAs(e) /\ e.pc # "store"
    BY <1>6, <1>7, <1>9 DEF NamedAs, MirrorInv, Named, pc
  <1>11. DatedAs(e) => Dated(r)
    BY <1>7, <1>9 DEF Dated, DatedAs
  <1>12. View(r) = Overlay(editing[r].write)
    BY DEF View, Overlay
  <1>13. \A u \in Supervisors :
            \/ Overlay(e.write)[u] = View(r)[u]
            \/ Overlay(e.write)[u].held /\ ~Overlay(e.write)[u].primary
    BY <1>8, <1>9 DEF Overlay, View
  <1>14. HeldIfPrimary(Overlay(e.write)) /\ OnePrimary(Overlay(e.write))
    BY <1>12, <1>13 DEF MirrorInv, ViewsSound, HeldIfPrimary, OnePrimary
  <1>15. \A u \in Supervisors : e.write[u] # None => Written(r, u) \/ ~Locked(r, u)
    BY <1>7, <1>8, <1>9 DEF Written
  <1>16. \/ ~\E u \in Supervisors : e.write[u] # None /\ e.write[u].primary
         \/ \E u \in Supervisors : Promotes(r, u)
    BY <1>8, <1>9 DEF Promotes, Written
  <1>17. \A u \in Supervisors :
            e.write[u] # None /\ e.write[u].held => assigned[u].held /\ e.write[u].at = assigned[u].at
    <2> SUFFICES ASSUME NEW u \in Supervisors, e.write[u] # None, e.write[u].held
                 PROVE  assigned[u].held /\ e.write[u].at = assigned[u].at
      OBVIOUS
    <2>1. ~RowWritten(r, u)
      BY <1>7 DEF RowWritten, InsertedAs
    <2>2. View(r)[u].held => assigned[u].held /\ View(r)[u].at = assigned[u].at
      BY <2>1 DEF MirrorInv, WritesDated, Written, View
    <2>3. write[u] = editing[r].write[u] => assigned[u].held /\ write[u].at = assigned[u].at
      BY <1>9, <2>1 DEF MirrorInv, WritesDated, Written
    <2> QED  BY <1>8, <1>9, <2>2, <2>3
  <1> QED
    BY <1>3, <1>7, <1>9, <1>10, <1>11, <1>14, <1>15, <1>16, <1>17, MirrorMoves

LEMMA MirrorInsert ==
    ASSUME MirrorInv, NEW r \in Edits, Insert(r)
    PROVE  MirrorInv'
  <1> DEFINE u == editing[r].user
             p == editing[r].primary
             row == [held |-> TRUE, primary |-> p, at |-> editing[r].began]
             write == [editing[r].write EXCEPT ![u] = row]
             e == [editing[r] EXCEPT !.pc = "sync", !.write = write]
  <1>1. /\ AtEdit(r, "add", "insert") /\ ~Locked(r, u) /\ NothingCommitted /\ tick' = tick
        /\ p => ~PrimaryUndecided(r)
    BY DEF Insert
  <1>2. CASE EndEdit(r)
    BY <1>1, <1>2, MirrorEnds
  <1>3. ASSUME ~EndEdit(r) PROVE MirrorInv'
    <2>1. /\ editing' = [editing EXCEPT ![r].pc = "sync", ![r].write[u] = row]
          /\ ~View(r)[u].held /\ ~(p /\ SecondPrimary(r, u))
      BY <1>3 DEF Insert
    <2>2. /\ editing[r] \in Editing /\ editing \in [Edits -> Editing]
          /\ assigned \in [Supervisors -> JobAssignment]
          /\ editing[r].write \in [Supervisors -> JobAssignment \cup {None}]
          /\ editing[r].began \in Nat /\ p \in BOOLEAN
      BY DEF MirrorInv, AssignmentsTypeOK, Editing
    <2>3. u \in Supervisors
      BY <1>1 DEF MirrorInv, Named, AtEdit, NamesItsUser
    <2>4. editing' = [editing EXCEPT ![r] = e]
      BY <2>1, <2>2
    <2>5. row \in JobAssignment /\ row # None
      <3> DEFINE at == editing[r].began
      <3>1. at \in Nat /\ p \in BOOLEAN
        BY <2>2
      <3> HIDE DEF at, p
      <3>2. [held |-> TRUE, primary |-> p, at |-> at] \in JobAssignment
        BY <3>1 DEF JobAssignment
      <3> USE DEF at
      <3>3. row \in JobAssignment
        BY <3>2
      <3> HIDE DEF row
      <3> QED  BY <3>3, NoneIsNoRow
    <2>6. row.held /\ row.primary = p /\ row.at = editing[r].began
      OBVIOUS
    <2> HIDE DEF row
    <2>7. /\ write \in [Supervisors -> JobAssignment \cup {None}] /\ write[u] = row
          /\ \A v \in Supervisors \ {u} : write[v] = editing[r].write[v]
      BY <2>2, <2>3, <2>5
    <2> HIDE DEF write
    <2>8. /\ e \in Editing /\ e.op = editing[r].op /\ e.pc = "sync" /\ e.user = u
          /\ e.write = write /\ e.began = editing[r].began
      BY <2>2, <2>7 DEF Editing
    <2> HIDE DEF e, p, u
    <2>9. editing[r].op = "add" /\ editing[r].pc = "insert" /\ Dated(r)
      BY <1>1 DEF AtEdit, Dated, DatedAs
    <2>10. NamedAs(e) /\ e.pc # "store" /\ DatedAs(e) /\ InsertedAs(e, u)
      BY <2>3, <2>6, <2>7, <2>8, <2>9 DEF NamedAs, DatedAs, InsertedAs
    <2>11. /\ Overlay(e.write)[u] = row
           /\ \A v \in Supervisors \ {u} : Overlay(e.write)[v] = View(r)[v]
      BY <2>3, <2>5, <2>7, <2>8 DEF Overlay, View
    <2>12. View(r) = Overlay(editing[r].write)
      BY DEF View, Overlay
    <2>13. HeldIfPrimary(View(r)) /\ OnePrimary(View(r))
      BY <2>12 DEF MirrorInv, ViewsSound
    <2>14. p => \A v \in Supervisors \ {u} : ~View(r)[v].primary
      BY <2>1, <2>13 DEF SecondPrimary, HeldIfPrimary
    <2>15. HeldIfPrimary(Overlay(e.write)) /\ OnePrimary(Overlay(e.write))
      BY <2>3, <2>6, <2>11, <2>13, <2>14 DEF HeldIfPrimary, OnePrimary
    <2>16. \A v \in Supervisors : e.write[v] # None => Written(r, v) \/ ~Locked(r, v)
      BY <1>1, <2>7, <2>8 DEF Written, u
    <2>17. \/ ~\E v \in Supervisors : e.write[v] # None /\ e.write[v].primary
           \/ \E v \in Supervisors : Promotes(r, v)
           \/ \A q \in Edits \ {r}, v \in Supervisors : ~Promotes(q, v)
      <3>1. CASE p
        BY <1>1, <3>1 DEF PrimaryUndecided, Promotes, Written, p
      <3>2. CASE ~p
        BY <2>6, <2>7, <2>8, <3>2 DEF Promotes, Written
      <3> QED  BY <3>1, <3>2
    <2>18. \A v \in Supervisors :
              e.write[v] # None /\ e.write[v].held
                 => (assigned[v].held /\ e.write[v].at = assigned[v].at) \/ InsertedAs(e, v)
      BY <2>7, <2>8, <2>9, <2>10 DEF MirrorInv, WritesDated, Written, RowWritten, InsertedAs
    <2>19. tick' \in Nat /\ tick <= tick'
      BY <1>1 DEF MirrorInv, AssignmentsTypeOK
    <2> QED
      BY <1>1, <2>4, <2>8, <2>9, <2>10, <2>15, <2>16, <2>17, <2>18, <2>19, MirrorMoves
  <1> QED  BY <1>2, <1>3

LEMMA MirrorDeleteAssignment ==
    ASSUME MirrorInv, NEW r \in Edits, DeleteAssignment(r)
    PROVE  MirrorInv'
  <1> DEFINE u == editing[r].user
             row == IF assigned[u].held THEN NoAssignment ELSE editing[r].write[u]
             write == [editing[r].write EXCEPT ![u] = row]
             e == [editing[r] EXCEPT !.pc = "sync", !.write = write]
  <1>1. /\ AtEdit(r, "remove", "delete") /\ NothingCommitted /\ tick' = tick
        /\ assigned[u].held => ~Locked(r, u)
    BY DEF DeleteAssignment
  <1>2. /\ editing[r] \in Editing /\ editing \in [Edits -> Editing]
        /\ editing[r].write \in [Supervisors -> JobAssignment \cup {None}]
    BY DEF MirrorInv, AssignmentsTypeOK, Editing
  <1>3. u \in Supervisors
    BY <1>1 DEF MirrorInv, Named, AtEdit, NamesItsUser
  <1>4. editing' = [editing EXCEPT ![r].pc = "sync", ![r].write = write]
    BY DEF DeleteAssignment
  <1>5. editing' = [editing EXCEPT ![r] = e]
    BY <1>2, <1>4
  <1>6. NoAssignment \in JobAssignment /\ ~NoAssignment.held /\ ~NoAssignment.primary
    BY DEF NoAssignment, JobAssignment
  <1>7. /\ row = editing[r].write[u] \/ (row = NoAssignment /\ ~Locked(r, u))
        /\ row \in JobAssignment \cup {None}
    BY <1>1, <1>2, <1>3, <1>6
  <1> HIDE DEF row
  <1>8. /\ write \in [Supervisors -> JobAssignment \cup {None}] /\ write[u] = row
        /\ \A v \in Supervisors \ {u} : write[v] = editing[r].write[v]
    BY <1>2, <1>3, <1>7
  <1> HIDE DEF write
  <1>9. /\ e \in Editing /\ e.op = editing[r].op /\ e.pc = "sync" /\ e.user = u /\ e.write = write
    BY <1>2, <1>8 DEF Editing
  <1> HIDE DEF e, u
  <1>10. editing[r].op = "remove" /\ editing[r].pc = "delete"
    BY <1>1 DEF AtEdit
  <1>11. NamedAs(e) /\ e.pc # "store" /\ ~DatedAs(e)
    BY <1>3, <1>9, <1>10 DEF NamedAs, DatedAs
  <1>12. \A v \in Supervisors : e.write[v] = editing[r].write[v] \/ e.write[v] = NoAssignment
    BY <1>7, <1>8, <1>9
  <1>13. View(r) = Overlay(editing[r].write)
    BY DEF View, Overlay
  <1>14. \A v \in Supervisors :
            Overlay(e.write)[v] = View(r)[v] \/ Overlay(e.write)[v] = NoAssignment
    BY <1>6, <1>12, NoneIsNoRow DEF Overlay, View
  <1>15. HeldIfPrimary(Overlay(e.write)) /\ OnePrimary(Overlay(e.write))
    BY <1>6, <1>13, <1>14 DEF MirrorInv, ViewsSound, HeldIfPrimary, OnePrimary
  <1>16. \A v \in Supervisors : e.write[v] # None => Written(r, v) \/ ~Locked(r, v)
    BY <1>7, <1>8, <1>9 DEF Written
  <1>17. \/ ~\E v \in Supervisors : e.write[v] # None /\ e.write[v].primary
         \/ \E v \in Supervisors : Promotes(r, v)
    BY <1>6, <1>12 DEF Promotes, Written
  <1>18. \A v \in Supervisors :
            e.write[v] # None /\ e.write[v].held => assigned[v].held /\ e.write[v].at = assigned[v].at
    BY <1>6, <1>10, <1>12 DEF MirrorInv, WritesDated, Written, RowWritten, InsertedAs, Dated, DatedAs
  <1>19. tick' \in Nat /\ tick <= tick'
    BY <1>1 DEF MirrorInv, AssignmentsTypeOK
  <1> QED  BY <1>1, <1>5, <1>9, <1>11, <1>15, <1>16, <1>17, <1>18, <1>19, MirrorMoves

LEMMA MirrorSetPrimary ==
    ASSUME MirrorInv, NEW r \in Edits, SetPrimary(r)
    PROVE  MirrorInv'
  <1> DEFINE u == editing[r].user
             row == [View(r)[u] EXCEPT !.primary = TRUE]
             write == [editing[r].write EXCEPT ![u] = row]
             e == [editing[r] EXCEPT !.pc = "sync", !.write = write]
  <1>1. /\ AtEdit(r, "primary", "set") /\ ~Locked(r, u) /\ ~PrimaryUndecided(r)
        /\ NothingCommitted /\ tick' = tick
    BY DEF SetPrimary
  <1>2. CASE EndEdit(r)
    BY <1>1, <1>2, MirrorEnds
  <1>3. ASSUME ~EndEdit(r) PROVE MirrorInv'
    <2>1. /\ editing' = [editing EXCEPT ![r].pc = "sync", ![r].write[u] = row]
          /\ View(r)[u].held /\ ~SecondPrimary(r, u)
      BY <1>3 DEF SetPrimary
    <2>2. /\ editing[r] \in Editing /\ editing \in [Edits -> Editing]
          /\ assigned \in [Supervisors -> JobAssignment]
          /\ editing[r].write \in [Supervisors -> JobAssignment \cup {None}]
      BY DEF MirrorInv, AssignmentsTypeOK, Editing
    <2>3. u \in Supervisors
      BY <1>1 DEF MirrorInv, Named, AtEdit, NamesItsUser
    <2>4. editing' = [editing EXCEPT ![r] = e]
      BY <2>1, <2>2
    <2>5. View(r)[u] \in JobAssignment
      BY <2>2, <2>3 DEF View
    <2>6. row \in JobAssignment /\ row.held /\ row.primary /\ row.at = View(r)[u].at
      BY <2>1, <2>5 DEF JobAssignment
    <2> HIDE DEF row
    <2>7. row # None
      BY <2>6, NoneIsNoRow
    <2>8. /\ write \in [Supervisors -> JobAssignment \cup {None}] /\ write[u] = row
          /\ \A v \in Supervisors \ {u} : write[v] = editing[r].write[v]
      BY <2>2, <2>3, <2>6
    <2> HIDE DEF write
    <2>9. /\ e \in Editing /\ e.op = editing[r].op /\ e.pc = "sync" /\ e.user = u
          /\ e.write = write
      BY <2>2, <2>8 DEF Editing
    <2> HIDE DEF e, u
    <2>10. editing[r].op = "primary" /\ editing[r].pc = "set"
      BY <1>1 DEF AtEdit
    <2>11. NamedAs(e) /\ e.pc # "store" /\ ~DatedAs(e)
      BY <2>3, <2>9, <2>10 DEF NamedAs, DatedAs
    <2>12. /\ Overlay(e.write)[u] = row
           /\ \A v \in Supervisors \ {u} : Overlay(e.write)[v] = View(r)[v]
      BY <2>3, <2>7, <2>8, <2>9 DEF Overlay, View
    <2>13. View(r) = Overlay(editing[r].write)
      BY DEF View, Overlay
    <2>14. HeldIfPrimary(View(r)) /\ OnePrimary(View(r))
      BY <2>13 DEF MirrorInv, ViewsSound
    <2>15. \A v \in Supervisors \ {u} : ~View(r)[v].primary
      BY <2>1, <2>14 DEF SecondPrimary, HeldIfPrimary
    <2>16. HeldIfPrimary(Overlay(e.write)) /\ OnePrimary(Overlay(e.write))
      BY <2>3, <2>6, <2>12, <2>14, <2>15 DEF HeldIfPrimary, OnePrimary
    <2>17. \A v \in Supervisors : e.write[v] # None => Written(r, v) \/ ~Locked(r, v)
      BY <1>1, <2>8, <2>9 DEF Written, u
    <2>18. \A q \in Edits \ {r}, v \in Supervisors : ~Promotes(q, v)
      BY <1>1 DEF PrimaryUndecided, Promotes, Written
    <2>19. \A v \in Supervisors : ~RowWritten(r, v)
      BY <2>10 DEF RowWritten, InsertedAs, Dated, DatedAs
    <2>20. \A v \in Supervisors :
              e.write[v] # None /\ e.write[v].held
                 => assigned[v].held /\ e.write[v].at = assigned[v].at
      <3>1. assigned[u].held /\ row.at = assigned[u].at
        BY <2>1, <2>3, <2>6, <2>19 DEF MirrorInv, WritesDated, Written, View
      <3> QED  BY <2>8, <2>9, <2>19, <3>1 DEF MirrorInv, WritesDated, Written
    <2>21. tick' \in Nat /\ tick <= tick'
      BY <1>1 DEF MirrorInv, AssignmentsTypeOK
    <2> QED
      BY <1>1, <2>4, <2>9, <2>11, <2>16, <2>17, <2>18, <2>20, <2>21, MirrorMoves
  <1> QED  BY <1>2, <1>3

LEMMA FirstIsASupervisor ==
    ASSUME NEW rows \in [Supervisors -> JobAssignment]
    PROVE  PrimarySupervisor(rows) \in Supervisors \cup {None}
  <1>1. Earliest(rows) \in Supervisors \cup {None}
    BY EarliestIsLeast DEF Earliest, AssignedIn
  <1> QED  BY <1>1 DEF PrimarySupervisor

LEMMA MirrorSync ==
    ASSUME MirrorInv, NEW r \in Edits, Sync(r)
    PROVE  MirrorInv'
  <1> DEFINE promoted == PrimarySupervisor(View(r))
             e == [editing[r] EXCEPT !.pc = "store", !.promoted = promoted]
  <1>1. /\ editing[r] \in Editing /\ editing \in [Edits -> Editing]
        /\ assigned \in [Supervisors -> JobAssignment]
        /\ editing[r].write \in [Supervisors -> JobAssignment \cup {None}]
    BY DEF MirrorInv, AssignmentsTypeOK, Editing
  <1>2. View(r) \in [Supervisors -> JobAssignment]
    BY <1>1 DEF View
  <1>3. promoted \in Supervisors \cup {None}
    BY <1>2, FirstIsASupervisor
  <1>4. editing' = [editing EXCEPT ![r].pc = "store", ![r].promoted = promoted]
    BY DEF Sync
  <1>5. editing' = [editing EXCEPT ![r] = e]
    BY <1>1, <1>4
  <1>6. View(r) = Overlay(editing[r].write)
    BY DEF View, Overlay
  <1>7. promoted = PrimarySupervisor(Overlay(editing[r].write))
    BY <1>6
  <1> HIDE DEF promoted
  <1>8. /\ e \in Editing /\ e.op = editing[r].op /\ e.pc = "store" /\ e.user = editing[r].user
        /\ e.write = editing[r].write /\ e.began = editing[r].began /\ e.promoted = promoted
    BY <1>1, <1>3 DEF Editing
  <1> HIDE DEF e
  <1>9. NothingCommitted /\ editing[r].pc = "sync" /\ tick' \in Nat /\ tick <= tick'
    BY DEF Sync, MirrorInv, AssignmentsTypeOK
  <1>10. NamedAs(e) /\ (DatedAs(e) => Dated(r) /\ e.began = editing[r].began)
    BY <1>8, <1>9 DEF NamedAs, MirrorInv, Named, Dated, DatedAs
  <1>11. HeldIfPrimary(Overlay(e.write)) /\ OnePrimary(Overlay(e.write))
    BY <1>8 DEF MirrorInv, ViewsSound
  <1>12. \A u \in Supervisors : e.write[u] # None => Written(r, u)
    BY <1>8 DEF Written
  <1>13. \/ ~\E u \in Supervisors : e.write[u] # None /\ e.write[u].primary
         \/ \E u \in Supervisors : Promotes(r, u)
    BY <1>8 DEF Promotes, Written
  <1>14. \A u \in Supervisors :
            e.write[u] # None /\ e.write[u].held
               => (assigned[u].held /\ e.write[u].at = assigned[u].at) \/ InsertedAs(e, u)
    BY <1>8, <1>9 DEF MirrorInv, WritesDated, RowWritten, InsertedAs, Dated, DatedAs, Written
  <1>15. e.promoted = PrimarySupervisor(Overlay(e.write))
    BY <1>7, <1>8
  <1> QED
    BY <1>5, <1>8, <1>9, <1>10, <1>11, <1>12, <1>13, <1>14, <1>15, MirrorMoves

-----------------------------------------------------------------------------
\* The steps that commit.

\* What a commit of another leaves of a request: at most, it marks it outdated.
Unmoved(q) ==
    /\ editing'[q] \in Editing
    /\ editing'[q].op = editing[q].op /\ editing'[q].pc = editing[q].pc
    /\ editing'[q].user = editing[q].user /\ editing'[q].began = editing[q].began
    /\ editing'[q].write = editing[q].write /\ editing'[q].promoted = editing[q].promoted
    /\ editing[q].stale => editing'[q].stale

LEMMA MarkedIsUnmoved ==
    ASSUME NEW q, editing[q] \in Editing,
           editing'[q] = [editing[q] EXCEPT !.stale = TRUE]
    PROVE  Unmoved(q) /\ editing'[q].stale
  <1> DEFINE e == editing[q]
  <1>1. e \in Editing /\ editing'[q] = [e EXCEPT !.stale = TRUE]
    OBVIOUS
  <1> HIDE DEF e
  <1>2. LET m == [e EXCEPT !.stale = TRUE]
        IN  /\ m \in Editing /\ m.op = e.op /\ m.pc = e.pc /\ m.user = e.user
            /\ m.began = e.began /\ m.write = e.write /\ m.promoted = e.promoted /\ m.stale
    BY <1>1 DEF Editing
  <1> QED  BY <1>1, <1>2 DEF Unmoved, e

LEMMA MirrorCommits ==
    ASSUME MirrorInv, NEW r \in Edits,
           editing' = [q \in Edits |-> editing'[q]], editing'[r] = Over,
           \A q \in Edits \ {r} : Unmoved(q),
           assigned' \in [Supervisors -> JobAssignment], job' \in Job, gone' \subseteq Supervisors,
           tick' = tick, disputed' \in BOOLEAN, overwritten' \in BOOLEAN, wanted' \in JobStatus,
           \A q \in Edits \ {r}, u \in Supervisors : Written(q, u) => assigned'[u] = assigned[u],
           \A u \in Supervisors :
              assigned'[u].held => \/ assigned[u].held /\ assigned'[u].at = assigned[u].at
                                   \/ Dated(r) /\ assigned'[u].at = editing[r].began,
           \A u \in Supervisors : assigned'[u].primary => assigned[u].primary \/ Promotes(r, u),
           HeldIfPrimary(assigned'), OnePrimary(assigned'), TimesDiffer(assigned'),
           PromotedIsFirst', SupervisorDisputedByRacersOnly'
    PROVE  MirrorInv'
  <1>1. \A q \in Edits : editing'[q] \in Editing
    BY OverIs DEF Unmoved
  <1>2. AssignmentsTypeOK'
    BY <1>1 DEF MirrorInv, AssignmentsTypeOK
  <1>3. \A u \in Supervisors : ~Written(r, u)'
    BY OverIs DEF Written
  <1>4. \A q \in Edits \ {r} : (Dated(q)' <=> Dated(q)) /\ \A u \in Supervisors :
           /\ Written(q, u)' <=> Written(q, u)
           /\ Promotes(q, u)' <=> Promotes(q, u)
           /\ RowWritten(q, u)' <=> RowWritten(q, u)
    BY DEF Unmoved, Written, Promotes, RowWritten, InsertedAs, Dated, DatedAs
  <1>5. Named'
    BY OverIs DEF MirrorInv, Named, Unmoved, NamesItsUser
  <1>6. RowsApart'
    BY <1>3, <1>4 DEF MirrorInv, RowsApart
  <1>7. \A u \in Supervisors : ~Promotes(r, u)'
    BY <1>3 DEF Promotes
  <1>8. OnePromoter'
    BY <1>4, <1>7 DEF MirrorInv, OnePromoter
  <1>9. WritesDated'
    <2> SUFFICES ASSUME NEW q \in Edits, NEW u \in Supervisors,
                        Written(q, u)', editing'[q].write[u].held, ~RowWritten(q, u)'
                 PROVE  assigned'[u].held /\ editing'[q].write[u].at = assigned'[u].at
      BY DEF WritesDated
    <2>1. q # r
      BY <1>3
    <2>2. Written(q, u) /\ editing[q].write[u].held /\ ~RowWritten(q, u)
      BY <1>4, <2>1 DEF Unmoved
    <2>3. assigned[u].held /\ editing[q].write[u].at = assigned[u].at
      BY <2>2 DEF MirrorInv, WritesDated
    <2>4. assigned'[u] = assigned[u] /\ editing'[q].write = editing[q].write
      BY <2>1, <2>2 DEF Unmoved
    <2> QED  BY <2>3, <2>4
  <1>10. ~Dated(r)'
    BY OverIs DEF Dated, DatedAs
  <1>11. ClocksDiffer'
    <2> SUFFICES ASSUME NEW q \in Edits, q # r, Dated(q)
                 PROVE  /\ editing'[q].began <= tick'
                        /\ \A u \in Supervisors : assigned'[u].held => assigned'[u].at # editing'[q].began
                        /\ \A p \in Edits : Dated(p)' /\ editing'[p].began = editing'[q].began => p = q
      BY <1>4, <1>10 DEF ClocksDiffer
    <2>1. editing'[q].began = editing[q].began
      BY DEF Unmoved
    <2>2. editing[q].began <= tick
      BY DEF MirrorInv, ClocksDiffer
    <2>3. \A u \in Supervisors : assigned'[u].held => assigned'[u].at # editing[q].began
      BY DEF MirrorInv, ClocksDiffer
    <2>4. \A p \in Edits \ {r} : Dated(p) /\ editing'[p].began = editing[q].began => p = q
      BY DEF MirrorInv, ClocksDiffer, Unmoved
    <2> QED  BY <1>4, <1>10, <2>1, <2>2, <2>3, <2>4
  <1>12. RowsSound'
    <2>1. \A u \in Supervisors : assigned'[u].held => assigned'[u].at <= tick
      BY DEF MirrorInv, RowsSound, ClocksDiffer
    <2> QED  BY <2>1 DEF RowsSound, HeldIfPrimary, OnePrimary, TimesDiffer
  <1>13. ViewsSound'
    <2> DEFINE V(q) == [u \in Supervisors |->
                          IF editing'[q].write[u] = None THEN assigned'[u] ELSE editing'[q].write[u]]
    <2> SUFFICES ASSUME NEW q \in Edits PROVE HeldIfPrimary(V(q)) /\ OnePrimary(V(q))
      BY DEF ViewsSound, Overlay, HeldIfPrimary, OnePrimary
    <2>1. CASE q = r
      <3>1. \A u \in Supervisors : V(q)[u] = assigned'[u]
        BY <2>1, OverIs
      <3> QED  BY <3>1 DEF HeldIfPrimary, OnePrimary
    <2>2. CASE q # r
      <3>1. editing'[q].write = editing[q].write
        BY <2>2 DEF Unmoved
      <3>2. \A u \in Supervisors : Written(q, u) => V(q)[u] = Overlay(editing[q].write)[u]
        BY <3>1 DEF Written, Overlay
      <3>3. \A u \in Supervisors : ~Written(q, u) => /\ V(q)[u] = assigned'[u]
                                                    /\ Overlay(editing[q].write)[u] = assigned[u]
        BY <3>1 DEF Written, Overlay
      <3>4. \A u \in Supervisors :
               Written(q, u) => (V(q)[u].primary <=> Promotes(q, u))
        BY <3>1 DEF Written, Promotes
      <3> HIDE DEF V
      <3>5. HeldIfPrimary(Overlay(editing[q].write)) /\ OnePrimary(Overlay(editing[q].write))
        BY DEF MirrorInv, ViewsSound
      <3>6. HeldIfPrimary(V(q))
        BY <3>2, <3>3, <3>5 DEF HeldIfPrimary
      <3>7. ASSUME NEW u \in Supervisors, NEW v \in Supervisors, V(q)[u].primary, V(q)[v].primary
            PROVE  u = v
        <4>1. CASE Written(q, u) /\ Written(q, v)
          BY <3>2, <3>5, <3>7, <4>1 DEF OnePrimary
        <4>2. CASE ~Written(q, u) /\ ~Written(q, v)
          BY <3>3, <3>7, <4>2 DEF OnePrimary
        <4>3. CASE Written(q, u) /\ ~Written(q, v)
          <5>1. assigned[v].primary
            BY <2>2, <3>3, <3>4, <3>7, <4>3 DEF MirrorInv, OnePromoter
          <5> QED  BY <3>2, <3>3, <3>5, <3>7, <4>3, <5>1 DEF OnePrimary
        <4>4. CASE ~Written(q, u) /\ Written(q, v)
          <5>1. assigned[u].primary
            BY <2>2, <3>3, <3>4, <3>7, <4>4 DEF MirrorInv, OnePromoter
          <5> QED  BY <3>2, <3>3, <3>5, <3>7, <4>4, <5>1 DEF OnePrimary
        <4> QED  BY <4>1, <4>2, <4>3, <4>4
      <3> QED  BY <3>6, <3>7 DEF OnePrimary
    <2> QED  BY <2>1, <2>2
  <1> QED
    BY <1>2, <1>5, <1>6, <1>8, <1>9, <1>11, <1>12, <1>13 DEF MirrorInv

\* The rows as any request sees them are sound.
LEMMA ViewIsSound ==
    ASSUME MirrorInv, NEW r \in Edits
    PROVE  /\ View(r) \in [Supervisors -> JobAssignment]
           /\ HeldIfPrimary(View(r)) /\ OnePrimary(View(r)) /\ TimesDiffer(View(r))
  <1>1. /\ assigned \in [Supervisors -> JobAssignment]
        /\ editing[r].write \in [Supervisors -> JobAssignment \cup {None}]
    BY DEF MirrorInv, AssignmentsTypeOK, Editing
  <1>2. View(r) \in [Supervisors -> JobAssignment]
    BY <1>1 DEF View
  <1>3. View(r) = Overlay(editing[r].write)
    BY DEF View, Overlay
  <1>4. HeldIfPrimary(View(r)) /\ OnePrimary(View(r))
    BY <1>3 DEF MirrorInv, ViewsSound
  <1>5. \A u \in Supervisors :
           View(r)[u].held => \/ assigned[u].held /\ View(r)[u].at = assigned[u].at
                              \/ Dated(r) /\ editing[r].user = u /\ View(r)[u].at = editing[r].began
    BY DEF MirrorInv, WritesDated, RowWritten, InsertedAs, Dated, DatedAs, Written, View
  <1>6. Dated(r) => \A u \in Supervisors : assigned[u].held => assigned[u].at # editing[r].began
    BY DEF MirrorInv, ClocksDiffer
  <1>7. TimesDiffer(View(r))
    BY <1>5, <1>6 DEF TimesDiffer, MirrorInv, RowsSound
  <1> QED  BY <1>2, <1>4, <1>7

LEMMA MirrorStore ==
    ASSUME MirrorInv, NEW r \in Edits, Store(r)
    PROVE  MirrorInv'
  <1> DEFINE promoted == editing[r].promoted
  <1>1. /\ editing[r].pc = "store" /\ ~JobLocked(r)
        /\ UNCHANGED <<gone, tick, wanted, overwritten>>
    BY DEF Store
  <1>2. CASE EndEdit(r) /\ UNCHANGED <<assigned, job, disputed>>
    BY <1>1, <1>2, MirrorEnds DEF NothingCommitted
  <1>3. ASSUME job.held, promoted \notin gone,
               assigned' = View(r),
               job' = [job EXCEPT !.supervisor = promoted],
               disputed' = (editing[r].op # "primary" /\ editing[r].stale),
               editing' = [q \in Edits |->
                  IF q = r THEN Over
                  ELSE IF editing[q].pc = "store" THEN [editing[q] EXCEPT !.stale = TRUE]
                  ELSE editing[q]]
        PROVE  MirrorInv'
    <2>1. editing' = [q \in Edits |-> editing'[q]] /\ editing'[r] = Over
      BY <1>3
    <2>2. \A q \in Edits : editing[q] \in Editing
      BY DEF MirrorInv, AssignmentsTypeOK
    <2>3. ASSUME NEW q \in Edits \ {r}
          PROVE  Unmoved(q) /\ (editing[q].pc = "store" => editing'[q].stale)
      <3>1. CASE editing[q].pc = "store"
        <4>1. editing'[q] = [editing[q] EXCEPT !.stale = TRUE]
          BY <1>3, <3>1
        <4> QED  BY <2>2, <4>1, MarkedIsUnmoved
      <3>2. CASE editing[q].pc # "store"
        <4>1. editing'[q] = editing[q]
          BY <1>3, <3>2
        <4> QED  BY <2>2, <3>2, <4>1 DEF Unmoved
      <3> QED  BY <3>1, <3>2
    <2>4. /\ job \in Job /\ promoted \in Supervisors \cup {None} /\ tick' = tick
          /\ editing[r].stale \in BOOLEAN
          /\ gone' \subseteq Supervisors /\ overwritten' \in BOOLEAN /\ wanted' \in JobStatus
      BY <1>1 DEF MirrorInv, AssignmentsTypeOK, Editing
    <2>5. /\ assigned' \in [Supervisors -> JobAssignment]
          /\ HeldIfPrimary(assigned') /\ OnePrimary(assigned') /\ TimesDiffer(assigned')
      BY <1>3, ViewIsSound
    <2>6. job' \in Job /\ job'.held = job.held /\ job'.supervisor = promoted
      BY <1>3, <2>4 DEF Job
    <2>7. disputed' \in BOOLEAN
      BY <1>3
    <2>8. \A q \in Edits \ {r}, u \in Supervisors : Written(q, u) => assigned'[u] = assigned[u]
      BY <1>3 DEF MirrorInv, RowsApart, Written, View
    <2>9. \A u \in Supervisors :
             assigned'[u].held => \/ assigned[u].held /\ assigned'[u].at = assigned[u].at
                                  \/ Dated(r) /\ assigned'[u].at = editing[r].began
      BY <1>3 DEF MirrorInv, WritesDated, RowWritten, InsertedAs, Dated, DatedAs, Written, View
    <2>10. \A u \in Supervisors : assigned'[u].primary => assigned[u].primary \/ Promotes(r, u)
      BY <1>3 DEF Promotes, Written, View
    <2>11. PromotedIsFirst'
      <3> SUFFICES ASSUME NEW q \in Edits, editing'[q].pc = "store",
                          Unovertaken(q)'
                   PROVE  FALSE
        BY DEF PromotedIsFirst, Unovertaken
      <3>1. q # r
        BY <2>1, OverIs
      <3>2. editing[q].pc = "store" /\ editing[q].op = "primary"
        BY <2>3, <3>1 DEF Unmoved, Unovertaken
      <3> QED  BY <1>1, <3>1, <3>2 DEF JobLocked, HasJobLock
    <2>12. SupervisorDisputedByRacersOnly'
      <3>1. ~disputed' => promoted = PrimarySupervisor(View(r))
        BY <1>1, <1>3 DEF MirrorInv, PromotedIsFirst, Unovertaken
      <3>2. PrimarySupervisor(View(r)) = PrimarySupervisor(assigned')
        BY <1>3
      <3>3. PrimarySupervisor(assigned)' = PrimarySupervisor(assigned')
        BY DEF PrimarySupervisor, Earliest, AssignedIn
      <3> QED  BY <2>6, <3>1, <3>2, <3>3 DEF SupervisorDisputedByRacersOnly
    <2> QED
      BY <2>1, <2>3, <2>4, <2>5, <2>6, <2>7, <2>8, <2>9, <2>10, <2>11, <2>12, MirrorCommits
  <1> QED  BY <1>1, <1>2, <1>3 DEF Store

\* Who writes the job and no assignment leaves at most outdated copies behind.
LEMMA MirrorWritesJob ==
    ASSUME MirrorInv, NEW r \in Edits,
           editing' = [q \in Edits |->
              IF q = r THEN Over
              ELSE IF editing[q].op = "patch" /\ editing[q].pc \in {"find", "write"}
              THEN [editing[q] EXCEPT !.stale = TRUE]
              ELSE editing[q]],
           UNCHANGED <<assigned, gone, tick>>,
           job' \in Job, job'.held => job.held,
           disputed' \in BOOLEAN, overwritten' \in BOOLEAN, wanted' \in JobStatus,
           SupervisorDisputedByRacersOnly'
    PROVE  MirrorInv'
  <1>1. editing' = [q \in Edits |-> editing'[q]] /\ editing'[r] = Over
    OBVIOUS
  <1>2. \A q \in Edits : editing[q] \in Editing
    BY DEF MirrorInv, AssignmentsTypeOK
  <1>3. ASSUME NEW q \in Edits \ {r}
        PROVE  Unmoved(q)
    <2>1. CASE editing'[q] = [editing[q] EXCEPT !.stale = TRUE]
      BY <1>2, <2>1, MarkedIsUnmoved
    <2>2. CASE editing'[q] = editing[q]
      BY <1>2, <2>2 DEF Unmoved
    <2>3. editing'[q] = IF editing[q].op = "patch" /\ editing[q].pc \in {"find", "write"}
                        THEN [editing[q] EXCEPT !.stale = TRUE] ELSE editing[q]
      OBVIOUS
    <2> QED  BY <2>1, <2>2, <2>3
  <1>4. /\ assigned' \in [Supervisors -> JobAssignment] /\ gone' \subseteq Supervisors
        /\ tick' = tick
    BY DEF MirrorInv, AssignmentsTypeOK
  <1>5. HeldIfPrimary(assigned') /\ OnePrimary(assigned') /\ TimesDiffer(assigned')
    BY DEF MirrorInv, RowsSound, HeldIfPrimary, OnePrimary, TimesDiffer
  <1>6. \A q \in Edits \ {r} : View(q)' = View(q)
    BY <1>3 DEF View, Unmoved
  <1>7. PromotedIsFirst'
    <2> SUFFICES ASSUME NEW q \in Edits, editing'[q].pc = "store", job'.held,
                        editing'[q].promoted \notin gone',
                        Unovertaken(q)'
                 PROVE  editing'[q].promoted = PrimarySupervisor(View(q)')
      BY DEF PromotedIsFirst, Unovertaken, PrimarySupervisor, Earliest, AssignedIn
    <2>1. q # r
      BY <1>1, OverIs
    <2>2. editing'[q].promoted = PrimarySupervisor(View(q))
      BY <1>3, <2>1 DEF MirrorInv, PromotedIsFirst, Unovertaken, Unmoved
    <2> QED  BY <1>6, <2>1, <2>2
  <1>8. /\ \A q \in Edits \ {r}, u \in Supervisors : Written(q, u) => assigned'[u] = assigned[u]
        /\ \A u \in Supervisors :
              assigned'[u].held => \/ assigned[u].held /\ assigned'[u].at = assigned[u].at
                                   \/ Dated(r) /\ assigned'[u].at = editing[r].began
        /\ \A u \in Supervisors : assigned'[u].primary => assigned[u].primary \/ Promotes(r, u)
    OBVIOUS
  <1> QED  BY <1>1, <1>3, <1>4, <1>5, <1>7, <1>8, MirrorCommits

LEMMA MirrorPatchWrite ==
    ASSUME MirrorInv, NEW r \in Edits, PatchWrite(r)
    PROVE  MirrorInv'
  <1> DEFINE user == editing[r].user
             status == editing[r].status
  <1>1. UNCHANGED <<assigned, gone, tick>>
    BY DEF PatchWrite
  <1>2. CASE EndEdit(r) /\ UNCHANGED <<job, disputed, wanted, overwritten>>
    BY <1>1, <1>2, MirrorEnds DEF NothingCommitted
  <1>3. ASSUME job.held,
               job' = [job EXCEPT !.supervisor = user, !.status = status],
               disputed' = (disputed \/ user # job.supervisor),
               wanted' = IF "status" \in editing[r].names THEN status ELSE wanted,
               overwritten' = IF "status" \in editing[r].names THEN FALSE
                              ELSE overwritten \/ editing[r].stale,
               editing' = [q \in Edits |->
                  IF q = r THEN Over
                  ELSE IF editing[q].op = "patch" /\ editing[q].pc \in {"find", "write"}
                  THEN [editing[q] EXCEPT !.stale = TRUE]
                  ELSE editing[q]]
        PROVE  MirrorInv'
    <2>1. /\ job \in Job /\ user \in Supervisors \cup {None} /\ status \in JobStatus
          /\ editing[r].stale \in BOOLEAN /\ overwritten \in BOOLEAN /\ wanted \in JobStatus
      BY DEF MirrorInv, AssignmentsTypeOK, Editing
    <2> HIDE DEF user, status
    <2>2. job' \in Job /\ job'.held = job.held /\ job'.supervisor = user
      BY <1>3, <2>1 DEF Job
    <2>3. disputed' \in BOOLEAN /\ overwritten' \in BOOLEAN /\ wanted' \in JobStatus
      BY <1>3, <2>1
    <2>4. ~disputed' => ~disputed /\ user = job.supervisor
      BY <1>3
    <2>5. PrimarySupervisor(assigned)' = PrimarySupervisor(assigned)
      BY <1>1 DEF PrimarySupervisor, Earliest, AssignedIn
    <2>6. SupervisorDisputedByRacersOnly'
      BY <2>2, <2>4, <2>5 DEF MirrorInv, SupervisorDisputedByRacersOnly
    <2> QED  BY <1>1, <1>3, <2>2, <2>3, <2>6, MirrorWritesJob
  <1> QED  BY <1>1, <1>2, <1>3 DEF PatchWrite

LEMMA MirrorArchive ==
    ASSUME MirrorInv, NEW r \in Edits, Archive(r)
    PROVE  MirrorInv'
  <1>1. /\ UNCHANGED <<assigned, gone, tick, disputed>>
        /\ job' = IF job.held THEN [job EXCEPT !.status = "archived"] ELSE job
        /\ wanted' = "archived" /\ overwritten' = FALSE
        /\ editing' = [q \in Edits |->
              IF q = r THEN Over
              ELSE IF editing[q].op = "patch" /\ editing[q].pc \in {"find", "write"}
              THEN [editing[q] EXCEPT !.stale = TRUE]
              ELSE editing[q]]
    BY DEF Archive
  <1>2. job \in Job /\ disputed \in BOOLEAN
    BY DEF MirrorInv, AssignmentsTypeOK
  <1>3. job' \in Job /\ job'.held = job.held /\ job'.supervisor = job.supervisor
    BY <1>1, <1>2 DEF Job, JobStatus
  <1>4. PrimarySupervisor(assigned)' = PrimarySupervisor(assigned)
    BY <1>1 DEF PrimarySupervisor, Earliest, AssignedIn
  <1>5. SupervisorDisputedByRacersOnly'
    BY <1>1, <1>3, <1>4 DEF MirrorInv, SupervisorDisputedByRacersOnly
  <1>6. disputed' \in BOOLEAN /\ overwritten' \in BOOLEAN /\ wanted' \in JobStatus
    BY <1>1, <1>2 DEF JobStatus
  <1> QED  BY <1>1, <1>3, <1>5, <1>6, MirrorWritesJob

\* The end of r marks no other request.
LEMMA OthersUnmoved ==
    ASSUME MirrorInv, NEW r \in Edits, EndEdit(r)
    PROVE  /\ editing' = [q \in Edits |-> editing'[q]] /\ editing'[r] = Over
           /\ \A q \in Edits \ {r} : Unmoved(q) /\ editing'[q] = editing[q]
  <1>1. editing \in [Edits -> Editing]
    BY DEF MirrorInv, AssignmentsTypeOK
  <1>2. /\ editing' = [q \in Edits |-> editing'[q]] /\ editing'[r] = Over
        /\ \A q \in Edits \ {r} : editing'[q] = editing[q]
    BY <1>1 DEF EndEdit
  <1> QED  BY <1>1, <1>2 DEF Unmoved

LEMMA MirrorPurge ==
    ASSUME MirrorInv, NEW r \in Edits, Purge(r)
    PROVE  MirrorInv'
  <1>1. /\ \A u \in Supervisors : ~Locked(r, u)
        /\ job' = [job EXCEPT !.held = FALSE]
        /\ assigned' = [u \in Supervisors |-> NoAssignment]
        /\ EndEdit(r) /\ UNCHANGED <<gone, tick, disputed, wanted, overwritten>>
    BY DEF Purge
  <1>2. /\ job \in Job /\ gone' \subseteq Supervisors /\ tick' = tick /\ disputed' \in BOOLEAN
        /\ overwritten' \in BOOLEAN /\ wanted' \in JobStatus
    BY <1>1 DEF MirrorInv, AssignmentsTypeOK
  <1>3. job' \in Job /\ ~job'.held
    BY <1>1, <1>2 DEF Job
  <1>4. NoAssignment \in JobAssignment /\ ~NoAssignment.held /\ ~NoAssignment.primary
    BY DEF NoAssignment, JobAssignment
  <1>5. /\ assigned' \in [Supervisors -> JobAssignment]
        /\ \A u \in Supervisors : ~assigned'[u].held /\ ~assigned'[u].primary
    BY <1>1, <1>4
  <1>6. HeldIfPrimary(assigned') /\ OnePrimary(assigned') /\ TimesDiffer(assigned')
    BY <1>5 DEF HeldIfPrimary, OnePrimary, TimesDiffer
  <1>7. \A q \in Edits \ {r}, u \in Supervisors : ~Written(q, u)
    BY <1>1 DEF Locked, Written
  <1>8. PromotedIsFirst' /\ SupervisorDisputedByRacersOnly'
    BY <1>3 DEF PromotedIsFirst, SupervisorDisputedByRacersOnly
  <1> QED  BY <1>1, <1>2, <1>3, <1>5, <1>6, <1>7, <1>8, OthersUnmoved, MirrorCommits

LEMMA MirrorDeleteSupervisor ==
    ASSUME MirrorInv, NEW r \in Edits, DeleteSupervisor(r)
    PROVE  MirrorInv'
  <1> DEFINE u == editing[r].user
  <1>1. /\ AtEdit(r, "account", "write") /\ ~Locked(r, u)
        /\ gone' = gone \cup {u}
        /\ assigned' = [assigned EXCEPT ![u] = NoAssignment]
        /\ job' = IF job.supervisor = u THEN [job EXCEPT !.supervisor = None] ELSE job
        /\ disputed' = (disputed \/ job.supervisor = u)
        /\ EndEdit(r) /\ UNCHANGED <<tick, wanted, overwritten>>
    BY DEF DeleteSupervisor
  <1>2. u \in Supervisors
    BY <1>1 DEF MirrorInv, Named, AtEdit, NamesItsUser
  <1> HIDE DEF u
  <1>3. /\ job \in Job /\ gone \subseteq Supervisors /\ assigned \in [Supervisors -> JobAssignment]
        /\ tick' = tick /\ overwritten' \in BOOLEAN /\ wanted' \in JobStatus /\ disputed \in BOOLEAN
    BY <1>1 DEF MirrorInv, AssignmentsTypeOK
  <1>4. /\ gone' \subseteq Supervisors /\ u \in gone' /\ gone \subseteq gone'
        /\ disputed' \in BOOLEAN
    BY <1>1, <1>2, <1>3
  <1>5. job' \in Job /\ job'.held = job.held
    BY <1>1, <1>3 DEF Job
  <1>6. NoAssignment \in JobAssignment /\ ~NoAssignment.held /\ ~NoAssignment.primary
    BY DEF NoAssignment, JobAssignment
  <1>7. /\ assigned' \in [Supervisors -> JobAssignment] /\ assigned'[u] = NoAssignment
        /\ \A v \in Supervisors \ {u} : assigned'[v] = assigned[v]
    BY <1>1, <1>2, <1>3, <1>6
  <1>8. /\ HeldIfPrimary(assigned) /\ OnePrimary(assigned) /\ TimesDiffer(assigned)
        /\ HeldIfPrimary(assigned') /\ OnePrimary(assigned') /\ TimesDiffer(assigned')
    BY <1>6, <1>7 DEF MirrorInv, RowsSound, HeldIfPrimary, OnePrimary, TimesDiffer
  <1>9. \A q \in Edits \ {r} : ~Written(q, u)
    BY <1>1 DEF Locked, Written
  <1>10. /\ \A q \in Edits \ {r}, v \in Supervisors : Written(q, v) => assigned'[v] = assigned[v]
         /\ \A v \in Supervisors :
               assigned'[v].held => assigned[v].held /\ assigned'[v].at = assigned[v].at
         /\ \A v \in Supervisors : assigned'[v].primary => assigned[v].primary
    BY <1>6, <1>7, <1>9
  <1>11. PromotedIsFirst'
    <2> SUFFICES ASSUME NEW q \in Edits, editing'[q].pc = "store", job'.held,
                        editing'[q].promoted \notin gone',
                        Unovertaken(q)'
                 PROVE  editing'[q].promoted = PrimarySupervisor(View(q)')
      BY DEF PromotedIsFirst, Unovertaken, PrimarySupervisor, Earliest, AssignedIn
    <2>1. q # r
      BY <1>1, OthersUnmoved, OverIs
    <2>2. editing'[q] = editing[q]
      BY <1>1, <2>1, OthersUnmoved
    <2>3. editing[q].promoted = PrimarySupervisor(View(q)) /\ editing[q].promoted # u
      BY <1>4, <1>5, <2>2 DEF MirrorInv, PromotedIsFirst, Unovertaken
    <2>4. View(q)' = [View(q) EXCEPT ![u] = NoAssignment]
      <3>1. View(q)' = [v \in Supervisors |-> IF editing[q].write[v] = None THEN assigned'[v]
                                              ELSE editing[q].write[v]]
        BY <2>2 DEF View
      <3>2. editing[q].write[u] = None
        BY <1>9, <2>1 DEF Written
      <3> QED  BY <1>7, <3>1, <3>2 DEF View
    <2>5. PrimarySupervisor(View(q)') = PrimarySupervisor(View(q))
      BY <1>2, <2>3, <2>4, ViewIsSound, OthersLeaveTheFirst
    <2> QED  BY <2>2, <2>3, <2>5
  <1>12. SupervisorDisputedByRacersOnly'
    <2> SUFFICES ASSUME job'.held, ~disputed' PROVE job'.supervisor = PrimarySupervisor(assigned')
      BY DEF SupervisorDisputedByRacersOnly, PrimarySupervisor, Earliest, AssignedIn
    <2>1. ~disputed /\ job.supervisor # u /\ job' = job
      BY <1>1
    <2>2. job.supervisor = PrimarySupervisor(assigned)
      BY <1>5, <2>1 DEF MirrorInv, SupervisorDisputedByRacersOnly
    <2>3. PrimarySupervisor(assigned') = PrimarySupervisor(assigned)
      BY <1>1, <1>2, <1>3, <1>8, <2>1, <2>2, OthersLeaveTheFirst
    <2> QED  BY <2>1, <2>2, <2>3
  <1> QED
    BY <1>1, <1>3, <1>4, <1>5, <1>7, <1>8, <1>10, <1>11, <1>12, OthersUnmoved, MirrorCommits

-----------------------------------------------------------------------------

LEMMA MirrorInit == AssignmentsInit => MirrorInv
  <1> SUFFICES ASSUME AssignmentsInit PROVE MirrorInv
    OBVIOUS
  <1> DEFINE n == Cardinality(Supervisors)
  <1>1. n \in Nat
    BY SupervisorsAssumption, FS_CardinalityType
  <1>2. PICK staff \in SUBSET Supervisors :
           \E order \in [staff -> 1..n], first \in staff \cup {None} :
          /\ \A u, v \in staff : order[u] = order[v] => u = v
          /\ assigned = [u \in Supervisors |->
                IF u \in staff THEN [held |-> TRUE, primary |-> u = first, at |-> order[u]]
                ELSE NoAssignment]
    BY DEF AssignmentsInit
  <1>3. PICK order \in [staff -> 1..n], first \in staff \cup {None} :
          /\ \A u, v \in staff : order[u] = order[v] => u = v
          /\ assigned = [u \in Supervisors |->
                IF u \in staff THEN [held |-> TRUE, primary |-> u = first, at |-> order[u]]
                ELSE NoAssignment]
    BY <1>2
  <1> HIDE DEF n
  <1>4. \A u \in Supervisors :
           IF u \in staff
           THEN /\ assigned[u] \in JobAssignment /\ assigned[u].held
                /\ assigned[u].primary = (u = first)
                /\ assigned[u].at = order[u] /\ order[u] \in Nat /\ order[u] <= n
           ELSE assigned[u] \in JobAssignment /\ ~assigned[u].held /\ ~assigned[u].primary
    BY <1>1, <1>3 DEF JobAssignment, NoAssignment
  <1>5. assigned \in [Supervisors -> JobAssignment]
    BY <1>3, <1>4
  <1>6. PICK created \in Supervisors \cup {None} :
          /\ job = [held |-> TRUE, supervisor |-> created, status |-> "active"]
          /\ disputed = (created # PrimarySupervisor(assigned))
    BY DEF AssignmentsInit
  <1>7. /\ gone = {} /\ editing = [r \in Edits |-> NotEditing] /\ tick = n
        /\ wanted = "active" /\ overwritten = FALSE
    BY DEF AssignmentsInit, n
  <1>8. NotEditing \in Editing
    BY DEF NotEditing, Editing, Unwritten, JobStatus
  <1>9. /\ NotEditing.op = "none" /\ NotEditing.pc = "idle"
        /\ \A u \in Supervisors : NotEditing.write[u] = None
    BY DEF NotEditing, Unwritten
  <1> HIDE DEF NotEditing
  <1>10. AssignmentsTypeOK
    BY <1>1, <1>5, <1>6, <1>7, <1>8 DEF AssignmentsTypeOK, Job, JobStatus
  <1>11. Named
    BY <1>7, <1>9 DEF Named, NamesItsUser
  <1>12. RowsSound
    BY <1>3, <1>4, <1>7 DEF RowsSound, HeldIfPrimary, OnePrimary, TimesDiffer
  <1>13. \A r \in Edits, u \in Supervisors : ~Written(r, u)
    BY <1>7, <1>9 DEF Written
  <1>14. \A r \in Edits, u \in Supervisors : Overlay(editing[r].write)[u] = assigned[u]
    BY <1>13 DEF Overlay, Written
  <1>15. ViewsSound
    BY <1>12, <1>14 DEF ViewsSound, RowsSound, HeldIfPrimary, OnePrimary
  <1>16. RowsApart /\ OnePromoter /\ WritesDated
    BY <1>13 DEF RowsApart, OnePromoter, WritesDated, Promotes
  <1>17. ClocksDiffer /\ PromotedIsFirst
    BY <1>7, <1>9 DEF ClocksDiffer, Dated, DatedAs, PromotedIsFirst, Unovertaken
  <1>18. SupervisorDisputedByRacersOnly
    BY <1>6 DEF SupervisorDisputedByRacersOnly
  <1> QED  BY <1>10, <1>11, <1>12, <1>15, <1>16, <1>17, <1>18 DEF MirrorInv

LEMMA MirrorStep == MirrorInv /\ [AssignmentsNext]_assignmentVars => MirrorInv'
  <1> SUFFICES ASSUME MirrorInv, [AssignmentsNext]_assignmentVars PROVE MirrorInv'
    OBVIOUS
  <1>1. CASE UNCHANGED assignmentVars
    <2>1. UNCHANGED <<assigned, job, gone, editing, tick, disputed, wanted, overwritten>>
      BY <1>1 DEF assignmentVars
    <2>2. AssignmentsTypeOK' /\ Named' /\ RowsApart' /\ OnePromoter'
      BY <2>1 DEF MirrorInv, AssignmentsTypeOK, Named, RowsApart, OnePromoter, Promotes, Written
    <2>3. RowsSound' /\ ViewsSound'
      BY <2>1 DEF MirrorInv, RowsSound, ViewsSound, Overlay, HeldIfPrimary, OnePrimary, TimesDiffer
    <2>4. WritesDated' /\ ClocksDiffer'
      BY <2>1 DEF MirrorInv, WritesDated, ClocksDiffer, Written, RowWritten, InsertedAs, Dated, DatedAs
    <2>5. \A r \in Edits : View(r)' = View(r)
      BY <2>1 DEF View
    <2>6. PromotedIsFirst'
      BY <2>1, <2>5 DEF MirrorInv, PromotedIsFirst, Unovertaken, PrimarySupervisor, Earliest, AssignedIn
    <2>7. SupervisorDisputedByRacersOnly'
      BY <2>1 DEF MirrorInv, SupervisorDisputedByRacersOnly, PrimarySupervisor, Earliest, AssignedIn
    <2> QED  BY <2>2, <2>3, <2>4, <2>6, <2>7 DEF MirrorInv
  <1>2. ASSUME NEW r \in Edits,
               \/ FindJob(r) \/ AddCount(r) \/ ClearStart(r) \/ ClearRows(r) \/ Insert(r)
               \/ DeleteAssignment(r) \/ SetPrimary(r) \/ Sync(r) \/ Store(r)
               \/ PatchRead(r) \/ PatchWrite(r) \/ Archive(r) \/ Purge(r) \/ DeleteSupervisor(r)
        PROVE  MirrorInv'
    BY <1>2, MirrorFindJob, MirrorAddCount, MirrorClearStart, MirrorClearRows, MirrorInsert,
       MirrorDeleteAssignment, MirrorSetPrimary, MirrorSync, MirrorStore, MirrorPatchRead,
       MirrorPatchWrite, MirrorArchive, MirrorPurge, MirrorDeleteSupervisor
  <1>3. ASSUME NEW r \in Edits, LockJob(r) PROVE MirrorInv'
    BY <1>3, MirrorGoesOn DEF LockJob
  <1>4. ASSUME NEW r \in Edits, PatchFind(r) PROVE MirrorInv'
    BY <1>4, MirrorGoesOn, MirrorEnds DEF PatchFind
  <1>5. ASSUME NEW r \in Edits, FailAssignment(r) PROVE MirrorInv'
    BY <1>5, MirrorEnds DEF FailAssignment
  <1> QED  BY <1>1, <1>2, <1>3, <1>4, <1>5 DEF AssignmentsNext

(* The supervisor a job shows is the first of its assignments, however many  *)
(* requests assign, release and promote at once: unless an add or a remove   *)
(* was overtaken between its last two statements, a partial update wrote the *)
(* column itself, or the account it named was deleted.                       *)
THEOREM SupervisorFollowsAssignments ==
    AssignmentsSpec => [](AssignmentsTypeOK /\ SupervisorDisputedByRacersOnly)
  <1>1. MirrorInv => AssignmentsTypeOK /\ SupervisorDisputedByRacersOnly  BY DEF MirrorInv
  <1> QED  BY MirrorInit, MirrorStep, <1>1, PTL DEF AssignmentsSpec

-----------------------------------------------------------------------------
(* The absences of the workers: the inductive invariant. *)

Committing(r) == booking[r].pc = "commit"

\* A saved absence that waits for its commit.
PendingType ==
    \A r \in Bookers :
        /\ booking[r].pc \in {"absent", "commit"} => booking[r].absence \in Periods
        /\ booking[r].pc = "absent" => booking[r].id \in Absences \cup {NoRow}
        /\ Committing(r) => booking[r].id \in Absences

\* The trigger's lock: two uncommitted absences are of two workers and rows.
OnePerWorker ==
    \A r, q \in Bookers :
        Committing(r) /\ Committing(q) /\ r # q =>
            /\ booking[r].absence.worker # booking[q].absence.worker
            /\ booking[r].id # booking[q].id

\* What the trigger looked for is still absent.
PendingFits ==
    \A r \in Bookers, a \in Absences :
        Committing(r) /\ Away(a) /\ a # booking[r].id
            /\ absence[a].worker = booking[r].absence.worker
            => ~Overlaps(absence[a], booking[r].absence)

AwayInv ==
    /\ absence \in [Absences -> Periods \cup {NoRow}]
    /\ booking \in [Bookers -> Booking]
    /\ PendingType
    /\ OnePerWorker
    /\ PendingFits
    /\ AbsencesNeverOverlap

-----------------------------------------------------------------------------
(* The absences' invariant step by step. *)

LEMMA AwayInvInit == SchedulerInit => AwayInv
  <1> SUFFICES ASSUME SchedulerInit PROVE AwayInv
    OBVIOUS
  <1>1. \A r \in Bookers : booking[r] = NotBooking  BY DEF SchedulerInit
  <1>2. NotBooking.pc = "idle" /\ NotBooking \in Booking  BY DEF NotBooking, Booking
  <1>3. booking \in [Bookers -> Booking]  BY <1>2 DEF SchedulerInit
  <1>4. AbsencesNeverOverlap
    BY DEF SchedulerInit, AbsencesNeverOverlap
  <1> HIDE DEF NotBooking
  <1> QED  BY <1>1, <1>2, <1>3, <1>4 DEF SchedulerInit, AwayInv, PendingType, OnePerWorker,
              PendingFits, Committing

\* A step that begins no commit and puts nobody away: absences only go.
LEMMA AwayHarmless ==
    ASSUME AwayInv, NEW r \in Bookers, NEW b \in Booking,
           booking' = [booking EXCEPT ![r] = b], b.pc # "commit",
           b.pc = "absent" => b.absence \in Periods /\ b.id \in Absences \cup {NoRow},
           absence' \in [Absences -> Periods \cup {NoRow}],
           \A a \in Absences : absence'[a] # NoRow => absence'[a] = absence[a]
    PROVE  AwayInv'
  <1>1. booking' \in [Bookers -> Booking]  BY DEF AwayInv
  <1>2. booking'[r] = b /\ \A q \in Bookers \ {r} : booking'[q] = booking[q]
    BY DEF AwayInv
  <1>3. PendingType'  BY <1>2 DEF AwayInv, PendingType, Committing
  <1>4. OnePerWorker'  BY <1>2 DEF AwayInv, OnePerWorker, Committing
  <1>5. PendingFits'  BY <1>2 DEF AwayInv, PendingFits, Committing, Away, Overlaps
  <1>6. AbsencesNeverOverlap'  BY DEF AwayInv, AbsencesNeverOverlap, Away, Overlaps
  <1> QED  BY <1>1, <1>3, <1>4, <1>5, <1>6 DEF AwayInv

LEMMA BookedType == Booked \in Booking /\ Booked.pc = "done"
  BY DEF Booked, NotBooking, Booking

\* Requests that end; absences may have gone.
LEMMA AwayEnded ==
    ASSUME AwayInv, NEW r \in Bookers, EndBooking(r),
           \/ UNCHANGED absence
           \/ \E ended \in SUBSET Absences :
                 absence' = [a \in Absences |-> IF a \in ended THEN NoRow ELSE absence[a]]
    PROVE  AwayInv'
  <1>1. /\ absence' \in [Absences -> Periods \cup {NoRow}]
        /\ \A a \in Absences : absence'[a] # NoRow => absence'[a] = absence[a]
    BY DEF AwayInv
  <1>2. booking' = [booking EXCEPT ![r] = Booked]  BY DEF EndBooking
  <1> QED  BY <1>1, <1>2, BookedType, AwayHarmless

LEMMA AwayInvAbsenceBegin ==
    ASSUME AwayInv, NEW r \in Bookers, AbsenceBegin(r)
    PROVE  AwayInv'
  <1>1. PICK p \in Periods, id \in Absences \cup {NoRow} :
           booking' = [booking EXCEPT ![r].pc = "absent", ![r].absence = p, ![r].id = id]
    BY DEF AbsenceBegin
  <1> DEFINE b == [booking[r] EXCEPT !.pc = "absent", !.absence = p, !.id = id]
  <1>2. booking[r] \in Booking  BY DEF AwayInv
  <1>3. b \in Booking /\ b.pc = "absent" /\ b.absence = p /\ b.id = id
    BY <1>2 DEF Booking
  <1>4. booking' = [booking EXCEPT ![r] = b]  BY <1>1 DEF AwayInv
  <1>5. UNCHANGED absence  BY DEF AbsenceBegin
  <1> HIDE DEF b
  <1> QED  BY <1>1, <1>3, <1>4, <1>5, AwayHarmless DEF AwayInv

\* The statement: nobody else holds the worker's lock, and no other absence
\* of theirs overlaps this one.
LEMMA AwayInvAbsenceStatement ==
    ASSUME AwayInv, NEW r \in Bookers, AbsenceStatement(r)
    PROVE  AwayInv'
  <1> DEFINE p == booking[r].absence
             id == booking[r].id
  <1>1. /\ booking[r].pc = "absent" /\ ~WorkerLocked(p.worker)
        /\ p \in Periods /\ id \in Absences \cup {NoRow} /\ UNCHANGED absence
    BY DEF AwayInv, PendingType, AbsenceStatement
  <1>2. booking[r] \in Booking  BY DEF AwayInv
  <1>3. ASSUME NEW a \in Absences, id # NoRow => a = id, ~RowLocked(a),
               \A x \in Absences \ {id} :
                  Away(x) /\ absence[x].worker = p.worker => ~Overlaps(absence[x], p),
               booking' = [booking EXCEPT ![r].pc = "commit", ![r].id = a]
        PROVE  AwayInv'
    <2>1. booking'[r] = [booking[r] EXCEPT !.pc = "commit", !.id = a]
      BY <1>3 DEF AwayInv
    <2>2. /\ booking'[r] \in Booking /\ booking'[r].pc = "commit" /\ booking'[r].id = a
          /\ booking'[r].absence = p
      BY <1>2, <2>1 DEF Booking
    <2>3. booking' \in [Bookers -> Booking] /\ \A q \in Bookers \ {r} : booking'[q] = booking[q]
      BY <1>3, <2>2 DEF AwayInv
    <2>4. PendingType'  BY <1>1, <2>2, <2>3 DEF AwayInv, PendingType, Committing
    <2>5. \A q \in Bookers \ {r} :
             Committing(q) => booking[q].absence.worker # p.worker /\ booking[q].id # a
      BY <1>1, <1>3 DEF WorkerLocked, RowLocked, Committing
    <2>6. OnePerWorker'  BY <2>2, <2>3, <2>5 DEF AwayInv, OnePerWorker, Committing
    <2>7. PendingFits'
      <3> SUFFICES ASSUME NEW q \in Bookers, NEW x \in Absences,
                          Committing(q)', absence[x] # NoRow, x # booking'[q].id,
                          absence[x].worker = booking'[q].absence.worker
                   PROVE  ~Overlaps(absence[x], booking'[q].absence)
        BY <1>1 DEF PendingFits, Away, Overlaps
      <3>1. CASE q = r
        <4>1. x # id
          BY <1>1, <1>3, <2>2, <3>1, NoRowIsNone
        <4> QED  BY <1>3, <2>2, <3>1, <4>1 DEF Away
      <3>2. CASE q # r  BY <2>3, <3>2 DEF AwayInv, PendingFits, Committing, Away
      <3> QED  BY <3>1, <3>2
    <2>8. AbsencesNeverOverlap'  BY <1>1 DEF AwayInv, AbsencesNeverOverlap, Away, Overlaps
    <2> QED  BY <1>1, <2>3, <2>4, <2>6, <2>7, <2>8 DEF AwayInv
  <1>4. CASE EndBooking(r)
    BY <1>1, <1>4, AwayEnded
  <1>5. CASE /\ ~EndBooking(r)
    <2>1. /\ \A x \in Absences \ {id} :
                Away(x) /\ absence[x].worker = p.worker => ~Overlaps(absence[x], p)
          /\ id # NoRow => ~RowLocked(id)
          /\ \/ id # NoRow /\ booking' = [booking EXCEPT ![r].pc = "commit"]
             \/ id = NoRow /\ \E a \in Absences :
                   /\ ~RowLocked(a)
                   /\ booking' = [booking EXCEPT ![r].pc = "commit", ![r].id = a]
      BY <1>5 DEF AbsenceStatement
    <2>2. CASE id # NoRow /\ booking' = [booking EXCEPT ![r].pc = "commit"]
      <3>1. [booking[r] EXCEPT !.pc = "commit"] = [booking[r] EXCEPT !.pc = "commit", !.id = id]
        BY <1>2 DEF Booking
      <3>2. booking' = [booking EXCEPT ![r].pc = "commit", ![r].id = id]
        BY <2>2, <3>1 DEF AwayInv
      <3> QED  BY <1>1, <1>3, <2>1, <2>2, <3>2
    <2>3. CASE id = NoRow
      BY <1>1, <1>3, <2>1, <2>3
    <2> QED  BY <2>1, <2>2, <2>3
  <1> QED  BY <1>4, <1>5

\* The commit: what waited becomes an absence.
LEMMA AwayInvAbsenceCommit ==
    ASSUME AwayInv, NEW r \in Bookers, AbsenceCommit(r)
    PROVE  AwayInv'
  <1> DEFINE a == booking[r].id
             p == booking[r].absence
  <1>1. /\ Committing(r) /\ a \in Absences /\ p \in Periods
        /\ absence' = [absence EXCEPT ![a] = p]
    BY DEF AwayInv, PendingType, AbsenceCommit, Committing
  <1>2. /\ absence' \in [Absences -> Periods \cup {NoRow}] /\ absence'[a] = p
        /\ \A x \in Absences \ {a} : absence'[x] = absence[x]
    BY <1>1 DEF AwayInv
  <1>3. booking'[r] = Booked /\ booking'[r] \in Booking /\ booking'[r].pc = "done"
    BY BookedType DEF AbsenceCommit
  <1>4. ASSUME NEW q \in Bookers \ {r}
        PROVE  /\ booking'[q] \in Booking /\ booking'[q].pc = booking[q].pc
               /\ booking'[q].absence = booking[q].absence /\ booking'[q].id = booking[q].id
    <2>1. booking[q] \in Booking  BY DEF AwayInv
    <2>2. \/ booking'[q] = booking[q]
          \/ booking'[q] = [booking[q] EXCEPT !.missed = @ \cup {a}]
      BY DEF AbsenceCommit
    <2>3. booking[q].missed \cup {a} \in SUBSET Absences  BY <1>1, <2>1 DEF Booking
    <2> QED  BY <2>1, <2>2, <2>3 DEF Booking
  <1>5. booking' \in [Bookers -> Booking]
    <2>1. booking' = [q \in Bookers |-> booking'[q]]  BY DEF AbsenceCommit
    <2>2. \A q \in Bookers : booking'[q] \in Booking  BY <1>3, <1>4
    <2> QED  BY <2>1, <2>2
  <1>6. PendingType'
    <2> SUFFICES ASSUME NEW q \in Bookers
                 PROVE  /\ booking'[q].pc \in {"absent", "commit"} => booking'[q].absence \in Periods
                        /\ booking'[q].pc = "absent" => booking'[q].id \in Absences \cup {NoRow}
                        /\ booking'[q].pc = "commit" => booking'[q].id \in Absences
      BY DEF PendingType, Committing
    <2>1. CASE q = r  BY <1>3, <2>1
    <2>2. CASE q # r  BY <1>4, <2>2 DEF AwayInv, PendingType, Committing
    <2> QED  BY <2>1, <2>2
  <1>7. OnePerWorker'
    BY <1>3, <1>4 DEF AwayInv, OnePerWorker, Committing
  <1>8. PendingFits'
    <2> SUFFICES ASSUME NEW q \in Bookers, NEW x \in Absences,
                        booking'[q].pc = "commit", absence'[x] # NoRow, x # booking'[q].id,
                        absence'[x].worker = booking'[q].absence.worker
                 PROVE  ~Overlaps(absence'[x], booking'[q].absence)
      BY DEF PendingFits, Away, Overlaps, Committing
    <2>1. q # r  BY <1>3
    <2>2. /\ Committing(q) /\ booking'[q].absence = booking[q].absence
          /\ booking'[q].id = booking[q].id
      BY <1>4, <2>1 DEF Committing
    <2>3. x # a
      BY <1>1, <1>2, <2>1, <2>2 DEF AwayInv, OnePerWorker
    <2> QED  BY <1>2, <2>2, <2>3 DEF AwayInv, PendingFits, Away
  <1>9. AbsencesNeverOverlap'
    <2> SUFFICES ASSUME NEW x \in Absences, NEW y \in Absences, x # y,
                        absence'[x] # NoRow, absence'[y] # NoRow,
                        absence'[x].worker = absence'[y].worker
                 PROVE  ~Overlaps(absence'[x], absence'[y])
      BY DEF AbsencesNeverOverlap, Away, Overlaps
    <2>1. CASE x # a /\ y # a  BY <1>2, <2>1 DEF AwayInv, AbsencesNeverOverlap, Away
    <2>2. CASE x = a
      <3>1. ~Overlaps(absence[y], p)
        BY <1>1, <1>2, <2>2 DEF AwayInv, PendingFits, Away
      <3> QED  BY <1>2, <2>2, <3>1 DEF Overlaps
    <2>3. CASE y = a
      <3>1. ~Overlaps(absence[x], p)
        BY <1>1, <1>2, <2>3 DEF AwayInv, PendingFits, Away
      <3> QED  BY <1>2, <2>3, <3>1
    <2> QED  BY <2>1, <2>2, <2>3
  <1> QED  BY <1>2, <1>5, <1>6, <1>7, <1>8, <1>9 DEF AwayInv

\* An allocation's request moves on; absences stay as they are.
LEMMA AwayInvAllocating ==
    ASSUME AwayInv, NEW r \in Bookers,
           AllocationBegin(r) \/ AssertTargetVisible(r) \/ AssertWorkerAvailable(r)
    PROVE  AwayInv'
  <1>1. booking[r] \in Booking /\ UNCHANGED absence
    BY DEF AwayInv, AllocationBegin, AssertTargetVisible, AssertWorkerAvailable
  <1>2. CASE EndBooking(r)  BY <1>1, <1>2, AwayEnded
  <1>3. ASSUME NEW pc \in {"available", "book"}, booking' = [booking EXCEPT ![r].pc = pc]
        PROVE  AwayInv'
    <2> DEFINE b == [booking[r] EXCEPT !.pc = pc]
    <2>1. b \in Booking /\ b.pc = pc  BY <1>1 DEF Booking
    <2>2. booking' = [booking EXCEPT ![r] = b]  BY <1>3 DEF AwayInv
    <2> HIDE DEF b
    <2> QED  BY <1>1, <2>1, <2>2, AwayHarmless DEF AwayInv
  <1>4. ASSUME NEW row \in Allocation, NEW id \in Allocations \cup {NoRow},
               booking' = [booking EXCEPT ![r].pc = "target", ![r].allocation = row, ![r].id = id]
        PROVE  AwayInv'
    <2> DEFINE b == [booking[r] EXCEPT !.pc = "target", !.allocation = row, !.id = id]
    <2>1. b \in Booking /\ b.pc = "target"  BY <1>1 DEF Booking
    <2>2. booking' = [booking EXCEPT ![r] = b]  BY <1>4 DEF AwayInv
    <2> HIDE DEF b
    <2> QED  BY <1>1, <2>1, <2>2, AwayHarmless DEF AwayInv
  <1>5. \/ EndBooking(r)
        \/ \E pc \in {"available", "book"} : booking' = [booking EXCEPT ![r].pc = pc]
        \/ \E row \in Allocation, id \in Allocations \cup {NoRow} :
              booking' = [booking EXCEPT ![r].pc = "target", ![r].allocation = row, ![r].id = id]
    BY DEF AllocationBegin, AssertTargetVisible, AssertWorkerAvailable
  <1> QED  BY <1>2, <1>3, <1>4, <1>5

LEMMA AwayInvNext == AwayInv /\ [SchedulerNext]_schedulerVars => AwayInv'
  <1> SUFFICES ASSUME AwayInv, [SchedulerNext]_schedulerVars PROVE AwayInv'
    OBVIOUS
  <1>1. CASE UNCHANGED schedulerVars
    BY <1>1 DEF schedulerVars, AwayInv, PendingType, OnePerWorker, PendingFits, AbsencesNeverOverlap,
       Committing, Away, Overlaps
  <1>2. ASSUME NEW r \in Bookers,
               \/ Book(r) \/ DeleteAllocation(r) \/ SetActive(r) \/ DeleteTarget(r)
               \/ CreateTarget(r) \/ FailBooking(r)
        PROVE  AwayInv'
    <2>1. EndBooking(r) /\ UNCHANGED absence
      BY <1>2 DEF Book, DeleteAllocation, SetActive, DeleteTarget, CreateTarget, FailBooking
    <2> QED  BY <2>1, AwayEnded
  <1>3. ASSUME NEW r \in Bookers, DeleteAbsence(r) PROVE AwayInv'
    <2>1. PICK x \in Absences : absence' = [absence EXCEPT ![x] = NoRow]
      BY <1>3 DEF DeleteAbsence
    <2>2. absence' = [a \in Absences |-> IF a \in {x} THEN NoRow ELSE absence[a]]
      BY <2>1 DEF AwayInv
    <2> QED  BY <1>3, <2>2, AwayEnded DEF DeleteAbsence
  <1>4. ASSUME NEW r \in Bookers, PurgeWorker(r) PROVE AwayInv'
    <2>1. PICK w \in Workers : absence' = [a \in Absences |->
             IF Away(a) /\ absence[a].worker = w THEN NoRow ELSE absence[a]]
      BY <1>4 DEF PurgeWorker
    <2> DEFINE ended == {a \in Absences : Away(a) /\ absence[a].worker = w}
    <2>2. absence' = [a \in Absences |-> IF a \in ended THEN NoRow ELSE absence[a]]
      BY <2>1
    <2> HIDE DEF ended
    <2>3. absence' = [a \in Absences |-> IF a \in ended \cap Absences THEN NoRow ELSE absence[a]]
      BY <2>2
    <2> QED  BY <1>4, <2>3, AwayEnded DEF PurgeWorker
  <1> QED  BY <1>1, <1>2, <1>3, <1>4, AwayInvAbsenceBegin,
              AwayInvAbsenceStatement, AwayInvAbsenceCommit,
              AwayInvAllocating DEF SchedulerNext

\* A worker's absences never overlap, whoever saves them at once (the trigger
\* and its advisory lock on the worker).
THEOREM NeverAwayTwice == SchedulerSpec => []AbsencesNeverOverlap
  <1>1. AwayInv => AbsencesNeverOverlap  BY DEF AwayInv
  <1> QED  BY <1>1, AwayInvInit, AwayInvNext, PTL DEF SchedulerSpec

-----------------------------------------------------------------------------
(* The look at the absences, and what is saved after it. *)

\* A request on an allocation knows what it writes, and where.
AllocatingType ==
    \A r \in Bookers : booking[r].pc \in {"target", "available", "book"} =>
        /\ booking[r].allocation \in Allocation
        /\ booking[r].id \in Allocations \cup {NoRow}

\* What assert_worker_available did not find and is there now was missed.
LookedOnce ==
    \A r \in Bookers, a \in Absences :
        booking[r].pc = "book" /\ Away(a)
            /\ Covers(absence[a], booking[r].allocation.worker, booking[r].allocation.day)
            => a \in booking[r].missed

BookInv ==
    /\ SchedulerTypeOK
    /\ PendingType /\ AllocatingType
    /\ LookedOnce
    /\ BookedWhileAwayByRacersOnly

LEMMA BookInvInit == SchedulerInit => BookInv
  <1> SUFFICES ASSUME SchedulerInit PROVE BookInv
    OBVIOUS
  <1>1. NotBooking.pc = "idle" /\ NotBooking \in Booking  BY DEF NotBooking, Booking
  <1>2. \A r \in Bookers : booking[r] = NotBooking  BY DEF SchedulerInit
  <1>3. SchedulerTypeOK
    BY <1>1 DEF SchedulerInit, SchedulerTypeOK, Target
  <1>4. BookedWhileAwayByRacersOnly
    BY DEF SchedulerInit, BookedWhileAwayByRacersOnly
  <1> HIDE DEF NotBooking
  <1> QED  BY <1>1, <1>2, <1>3, <1>4 DEF BookInv, PendingType, AllocatingType, LookedOnce, Committing

\* The request r moves to b, rows only go, and "later" stays.
LEMMA BookHarmless ==
    ASSUME BookInv, NEW r \in Bookers, NEW b \in Booking,
           booking' = [booking EXCEPT ![r] = b],
           b.pc \in {"absent", "commit"} => b.absence \in Periods,
           b.pc = "absent" => b.id \in Absences \cup {NoRow},
           b.pc = "commit" => b.id \in Absences,
           b.pc \in {"target", "available", "book"} =>
               b.allocation \in Allocation /\ b.id \in Allocations \cup {NoRow},
           b.pc = "book" => \A a \in Absences :
               Away(a) => ~Covers(absence[a], b.allocation.worker, b.allocation.day),
           worker' \in [Workers -> {"none", "active", "inactive"}],
           targets' \subseteq Target, later' = later,
           absence' \in [Absences -> Periods \cup {NoRow}],
           allocation' \in [Allocations -> Allocation \cup {NoRow}],
           \A a \in Absences : absence'[a] # NoRow => absence'[a] = absence[a],
           \A x \in Allocations : allocation'[x] # NoRow => allocation'[x] = allocation[x]
    PROVE  BookInv'
  <1>1. /\ booking' \in [Bookers -> Booking]
        /\ booking'[r] = b /\ \A q \in Bookers \ {r} : booking'[q] = booking[q]
    BY DEF BookInv, SchedulerTypeOK
  <1>2. SchedulerTypeOK'  BY <1>1 DEF BookInv, SchedulerTypeOK
  <1>3. PendingType'  BY <1>1 DEF BookInv, PendingType, Committing
  <1>4. AllocatingType'  BY <1>1 DEF BookInv, AllocatingType
  <1>5. LookedOnce'  BY <1>1 DEF BookInv, LookedOnce, Away, Covers
  <1>6. BookedWhileAwayByRacersOnly'
    BY DEF BookInv, BookedWhileAwayByRacersOnly, Away, Covers
  <1> QED  BY <1>2, <1>3, <1>4, <1>5, <1>6 DEF BookInv

LEMMA BookEnded ==
    ASSUME BookInv, NEW r \in Bookers, EndBooking(r),
           worker' \in [Workers -> {"none", "active", "inactive"}],
           targets' \subseteq Target, later' = later,
           absence' \in [Absences -> Periods \cup {NoRow}],
           allocation' \in [Allocations -> Allocation \cup {NoRow}],
           \A a \in Absences : absence'[a] # NoRow => absence'[a] = absence[a],
           \A x \in Allocations : allocation'[x] # NoRow => allocation'[x] = allocation[x]
    PROVE  BookInv'
  <1>1. booking' = [booking EXCEPT ![r] = Booked]  BY DEF EndBooking
  <1> QED  BY <1>1, BookedType, BookHarmless

\* Rows stay: only the request moves.
LEMMA BookMoves ==
    ASSUME BookInv, NEW r \in Bookers, NEW b \in Booking,
           booking' = [booking EXCEPT ![r] = b],
           b.pc \in {"absent", "commit"} => b.absence \in Periods,
           b.pc = "absent" => b.id \in Absences \cup {NoRow},
           b.pc = "commit" => b.id \in Absences,
           b.pc \in {"target", "available", "book"} =>
               b.allocation \in Allocation /\ b.id \in Allocations \cup {NoRow},
           b.pc = "book" => \A a \in Absences :
               Away(a) => ~Covers(absence[a], b.allocation.worker, b.allocation.day),
           UNCHANGED <<worker, absence, allocation, targets, later>>
    PROVE  BookInv'
  <1>1. /\ worker' \in [Workers -> {"none", "active", "inactive"}]
        /\ targets' \subseteq Target /\ later' = later
        /\ absence' \in [Absences -> Periods \cup {NoRow}] /\ absence' = absence
        /\ allocation' \in [Allocations -> Allocation \cup {NoRow}] /\ allocation' = allocation
    BY DEF BookInv, SchedulerTypeOK
  <1> QED  BY <1>1, BookHarmless

LEMMA BookInvAbsenceBegin ==
    ASSUME BookInv, NEW r \in Bookers, AbsenceBegin(r)
    PROVE  BookInv'
  <1>1. PICK p \in Periods, id \in Absences \cup {NoRow} :
           booking' = [booking EXCEPT ![r].pc = "absent", ![r].absence = p, ![r].id = id]
    BY DEF AbsenceBegin
  <1> DEFINE b == [booking[r] EXCEPT !.pc = "absent", !.absence = p, !.id = id]
  <1>2. booking[r] \in Booking  BY DEF BookInv, SchedulerTypeOK
  <1>3. b \in Booking /\ b.pc = "absent" /\ b.absence = p /\ b.id = id
    BY <1>2 DEF Booking
  <1>4. booking' = [booking EXCEPT ![r] = b]  BY <1>1 DEF BookInv, SchedulerTypeOK
  <1>5. UNCHANGED <<worker, absence, allocation, targets, later>>  BY DEF AbsenceBegin
  <1> HIDE DEF b
  <1> QED  BY <1>3, <1>4, <1>5, BookMoves

LEMMA BookInvAbsenceStatement ==
    ASSUME BookInv, NEW r \in Bookers, AbsenceStatement(r)
    PROVE  BookInv'
  <1>1. /\ booking[r] \in Booking /\ booking[r].pc = "absent"
        /\ booking[r].absence \in Periods /\ booking[r].id \in Absences \cup {NoRow}
        /\ UNCHANGED <<worker, absence, allocation, targets, later>>
    BY DEF AbsenceStatement, BookInv, SchedulerTypeOK, PendingType
  <1>2. CASE EndBooking(r)
    BY <1>1, <1>2, BookEnded DEF BookInv, SchedulerTypeOK
  <1>3. ASSUME NEW a \in Absences,
               booking' = [booking EXCEPT ![r].pc = "commit", ![r].id = a]
        PROVE  BookInv'
    <2> DEFINE b == [booking[r] EXCEPT !.pc = "commit", !.id = a]
    <2>1. b \in Booking /\ b.pc = "commit" /\ b.id = a /\ b.absence = booking[r].absence
      BY <1>1 DEF Booking
    <2>2. booking' = [booking EXCEPT ![r] = b]  BY <1>3 DEF BookInv, SchedulerTypeOK
    <2> HIDE DEF b
    <2> QED  BY <1>1, <2>1, <2>2, BookMoves
  <1>4. CASE booking[r].id # NoRow /\ booking' = [booking EXCEPT ![r].pc = "commit"]
    <2> DEFINE b == [booking[r] EXCEPT !.pc = "commit"]
    <2>1. b \in Booking /\ b.pc = "commit" /\ b.id = booking[r].id /\ b.absence = booking[r].absence
      BY <1>1 DEF Booking
    <2>2. booking' = [booking EXCEPT ![r] = b]  BY <1>4 DEF BookInv, SchedulerTypeOK
    <2>3. b.id \in Absences  BY <1>1, <1>4, <2>1
    <2> HIDE DEF b
    <2> QED  BY <1>1, <2>1, <2>2, <2>3, BookMoves
  <1> QED  BY <1>2, <1>3, <1>4 DEF AbsenceStatement

\* The commit tells every request that has looked already.
LEMMA BookInvAbsenceCommit ==
    ASSUME BookInv, NEW r \in Bookers, AbsenceCommit(r)
    PROVE  BookInv'
  <1> DEFINE a == booking[r].id
             p == booking[r].absence
  <1>1. /\ a \in Absences /\ p \in Periods
        /\ absence' = [absence EXCEPT ![a] = p]
        /\ later' = later \cup (Allocations \X {a})
        /\ UNCHANGED <<worker, allocation, targets>>
    BY DEF BookInv, PendingType, AbsenceCommit, Committing
  <1>2. /\ absence' \in [Absences -> Periods \cup {NoRow}] /\ absence'[a] = p
        /\ \A x \in Absences \ {a} : absence'[x] = absence[x]
    BY <1>1 DEF BookInv, SchedulerTypeOK
  <1>3. booking'[r] = Booked /\ booking'[r] \in Booking /\ booking'[r].pc = "done"
    BY BookedType DEF AbsenceCommit
  <1>4. ASSUME NEW q \in Bookers \ {r}
        PROVE  /\ booking'[q] \in Booking /\ booking'[q].pc = booking[q].pc
               /\ booking'[q].absence = booking[q].absence /\ booking'[q].id = booking[q].id
               /\ booking'[q].allocation = booking[q].allocation
               /\ booking[q].missed \subseteq booking'[q].missed
               /\ booking[q].pc = "book" => a \in booking'[q].missed
    <2>1. booking[q] \in Booking  BY DEF BookInv, SchedulerTypeOK
    <2>2. booking'[q] = IF booking[q].pc = "book" THEN [booking[q] EXCEPT !.missed = @ \cup {a}]
                        ELSE booking[q]
      BY DEF AbsenceCommit
    <2>3. booking[q].missed \cup {a} \in SUBSET Absences  BY <1>1, <2>1 DEF Booking
    <2> QED  BY <2>1, <2>2, <2>3 DEF Booking
  <1>5. booking' \in [Bookers -> Booking]
    <2>1. booking' = [q \in Bookers |-> booking'[q]]  BY DEF AbsenceCommit
    <2>2. \A q \in Bookers : booking'[q] \in Booking  BY <1>3, <1>4
    <2> QED  BY <2>1, <2>2
  <1>6. SchedulerTypeOK'
    BY <1>1, <1>2, <1>5 DEF BookInv, SchedulerTypeOK
  <1>7. PendingType'
    <2> SUFFICES ASSUME NEW q \in Bookers
                 PROVE  /\ booking'[q].pc \in {"absent", "commit"} => booking'[q].absence \in Periods
                        /\ booking'[q].pc = "absent" => booking'[q].id \in Absences \cup {NoRow}
                        /\ booking'[q].pc = "commit" => booking'[q].id \in Absences
      BY DEF PendingType, Committing
    <2>1. CASE q = r  BY <1>3, <2>1
    <2>2. CASE q # r  BY <1>4, <2>2 DEF BookInv, PendingType, Committing
    <2> QED  BY <2>1, <2>2
  <1>8. AllocatingType'
    BY <1>3, <1>4 DEF BookInv, AllocatingType
  <1>9. LookedOnce'
    <2> SUFFICES ASSUME NEW q \in Bookers, NEW x \in Absences, booking'[q].pc = "book",
                        absence'[x] # NoRow,
                        Covers(absence'[x], booking'[q].allocation.worker, booking'[q].allocation.day)
                 PROVE  x \in booking'[q].missed
      BY DEF LookedOnce, Away, Covers
    <2>1. q # r  BY <1>3
    <2>2. CASE x = a  BY <1>4, <2>1, <2>2
    <2>3. CASE x # a  BY <1>2, <1>4, <2>1, <2>3 DEF BookInv, LookedOnce, Away
    <2> QED  BY <2>2, <2>3
  <1>10. BookedWhileAwayByRacersOnly'
    <2> SUFFICES ASSUME NEW x \in Allocations, NEW y \in Absences, allocation[x] # NoRow,
                        absence'[y] # NoRow,
                        Covers(absence'[y], allocation[x].worker, allocation[x].day)
                 PROVE  <<x, y>> \in later'
      BY <1>1 DEF BookedWhileAwayByRacersOnly, Away, Covers
    <2>1. CASE y = a  BY <1>1, <2>1
    <2>2. CASE y # a  BY <1>1, <1>2, <2>2 DEF BookInv, BookedWhileAwayByRacersOnly, Away
    <2> QED  BY <2>1, <2>2
  <1> QED  BY <1>6, <1>7, <1>8, <1>9, <1>10 DEF BookInv

LEMMA BookInvAllocating ==
    ASSUME BookInv, NEW r \in Bookers,
           AllocationBegin(r) \/ AssertTargetVisible(r) \/ AssertWorkerAvailable(r)
    PROVE  BookInv'
  <1>1. booking[r] \in Booking /\ UNCHANGED <<worker, absence, allocation, targets, later>>
    BY DEF BookInv, SchedulerTypeOK, AllocationBegin, AssertTargetVisible, AssertWorkerAvailable
  <1>2. CASE EndBooking(r)
    BY <1>1, <1>2, BookEnded DEF BookInv, SchedulerTypeOK
  <1>3. ASSUME AssertTargetVisible(r), ~EndBooking(r) PROVE BookInv'
    <2> DEFINE b == [booking[r] EXCEPT !.pc = "available"]
    <2>1. /\ b \in Booking /\ b.pc = "available"
          /\ b.allocation = booking[r].allocation /\ b.id = booking[r].id
      BY <1>1 DEF Booking
    <2>2. booking' = [booking EXCEPT ![r] = b]
      BY <1>3 DEF AssertTargetVisible, BookInv, SchedulerTypeOK
    <2>3. b.allocation \in Allocation /\ b.id \in Allocations \cup {NoRow}
      BY <1>3, <2>1 DEF AssertTargetVisible, BookInv, AllocatingType
    <2> HIDE DEF b
    <2> QED  BY <1>1, <2>1, <2>2, <2>3, BookMoves
  <1>4. ASSUME AssertWorkerAvailable(r), ~EndBooking(r) PROVE BookInv'
    <2> DEFINE b == [booking[r] EXCEPT !.pc = "book"]
    <2>1. /\ b \in Booking /\ b.pc = "book"
          /\ b.allocation = booking[r].allocation /\ b.id = booking[r].id
      BY <1>1 DEF Booking
    <2>2. booking' = [booking EXCEPT ![r] = b]
      BY <1>4 DEF AssertWorkerAvailable, BookInv, SchedulerTypeOK
    <2>3. b.allocation \in Allocation /\ b.id \in Allocations \cup {NoRow}
      BY <1>4, <2>1 DEF AssertWorkerAvailable, BookInv, AllocatingType
    <2>4. \A a \in Absences :
             Away(a) => ~Covers(absence[a], b.allocation.worker, b.allocation.day)
      BY <1>4, <2>1 DEF AssertWorkerAvailable
    <2> HIDE DEF b
    <2> QED  BY <1>1, <2>1, <2>2, <2>3, <2>4, BookMoves
  <1>5. ASSUME NEW row \in Allocation, NEW id \in Allocations \cup {NoRow},
               booking' = [booking EXCEPT ![r].pc = "target", ![r].allocation = row, ![r].id = id]
        PROVE  BookInv'
    <2> DEFINE b == [booking[r] EXCEPT !.pc = "target", !.allocation = row, !.id = id]
    <2>1. b \in Booking /\ b.pc = "target" /\ b.allocation = row /\ b.id = id
      BY <1>1 DEF Booking
    <2>2. booking' = [booking EXCEPT ![r] = b]  BY <1>5 DEF BookInv, SchedulerTypeOK
    <2> HIDE DEF b
    <2> QED  BY <1>1, <2>1, <2>2, BookMoves
  <1> QED  BY <1>2, <1>3, <1>4, <1>5 DEF AllocationBegin

\* The booking: what it missed is later than it.
LEMMA BookInvBook ==
    ASSUME BookInv, NEW r \in Bookers, Book(r)
    PROVE  BookInv'
  <1> DEFINE row == booking[r].allocation
  <1>1. /\ booking[r] \in Booking /\ booking[r].pc = "book" /\ row \in Allocation
        /\ booking[r].missed \subseteq Absences
        /\ EndBooking(r) /\ UNCHANGED <<worker, absence, targets>>
    BY DEF BookInv, SchedulerTypeOK, AllocatingType, Book, Booking
  <1>2. CASE UNCHANGED <<allocation, later>>
    BY <1>1, <1>2, BookEnded DEF BookInv, SchedulerTypeOK
  <1>3. ASSUME NEW x \in Allocations, allocation' = [allocation EXCEPT ![x] = row],
               later' = {pair \in later : pair[1] # x} \cup ({x} \X booking[r].missed)
        PROVE  BookInv'
    <2>1. booking' = [booking EXCEPT ![r] = Booked]  BY <1>1 DEF EndBooking
    <2>2. /\ booking' \in [Bookers -> Booking]
          /\ booking'[r].pc = "done" /\ \A q \in Bookers \ {r} : booking'[q] = booking[q]
      BY <2>1, BookedType DEF BookInv, SchedulerTypeOK
    <2>3. /\ allocation' \in [Allocations -> Allocation \cup {NoRow}] /\ allocation'[x] = row
          /\ \A y \in Allocations \ {x} : allocation'[y] = allocation[y]
      BY <1>1, <1>3 DEF BookInv, SchedulerTypeOK
    <2>4. later' \subseteq Allocations \X Absences
      BY <1>1, <1>3 DEF BookInv, SchedulerTypeOK
    <2>5. SchedulerTypeOK'
      BY <1>1, <2>2, <2>3, <2>4 DEF BookInv, SchedulerTypeOK
    <2>6. PendingType'  BY <2>2 DEF BookInv, PendingType, Committing
    <2>7. AllocatingType'  BY <2>2 DEF BookInv, AllocatingType
    <2>8. LookedOnce'  BY <1>1, <2>2 DEF BookInv, LookedOnce, Away, Covers
    <2>9. BookedWhileAwayByRacersOnly'
      <3> SUFFICES ASSUME NEW y \in Allocations, NEW a \in Absences, allocation'[y] # NoRow,
                          absence[a] # NoRow,
                          Covers(absence[a], allocation'[y].worker, allocation'[y].day)
                   PROVE  <<y, a>> \in later'
        BY <1>1 DEF BookedWhileAwayByRacersOnly, Away, Covers
      <3>1. CASE y = x
        <4>1. a \in booking[r].missed
          BY <1>1, <2>3, <3>1 DEF BookInv, LookedOnce, Away
        <4> QED  BY <1>3, <3>1, <4>1
      <3>2. CASE y # x
        <4>1. <<y, a>> \in later
          BY <2>3, <3>2 DEF BookInv, BookedWhileAwayByRacersOnly, Away
        <4> QED  BY <1>3, <3>2, <4>1
      <3> QED  BY <3>1, <3>2
    <2> QED  BY <2>5, <2>6, <2>7, <2>8, <2>9 DEF BookInv
  <1> QED  BY <1>2, <1>3 DEF Book

\* The requests of one statement: rows go, and what else changes is typed.
LEMMA BookInvStatements ==
    ASSUME BookInv, NEW r \in Bookers,
           \/ DeleteAbsence(r) \/ DeleteAllocation(r) \/ SetActive(r) \/ PurgeWorker(r)
           \/ DeleteTarget(r) \/ CreateTarget(r) \/ FailBooking(r)
    PROVE  BookInv'
  <1> USE DEF BookInv, SchedulerTypeOK
  <1>1. EndBooking(r) /\ later' = later
    BY DEF DeleteAbsence, DeleteAllocation, SetActive, PurgeWorker, DeleteTarget, CreateTarget,
       FailBooking
  <1>2. worker' \in [Workers -> {"none", "active", "inactive"}]
    BY DEF DeleteAbsence, DeleteAllocation, SetActive, PurgeWorker, DeleteTarget, CreateTarget,
       FailBooking
  <1>3. targets' \subseteq Target
    BY DEF DeleteAbsence, DeleteAllocation, SetActive, PurgeWorker, DeleteTarget, CreateTarget,
       FailBooking
  <1>4. /\ absence' \in [Absences -> Periods \cup {NoRow}]
        /\ \A a \in Absences : absence'[a] # NoRow => absence'[a] = absence[a]
    <2>1. CASE DeleteAbsence(r)  BY <2>1 DEF DeleteAbsence
    <2>2. CASE PurgeWorker(r)  BY <2>2 DEF PurgeWorker
    <2> QED  BY <2>1, <2>2 DEF DeleteAllocation, SetActive, DeleteTarget, CreateTarget, FailBooking
  <1>5. /\ allocation' \in [Allocations -> Allocation \cup {NoRow}]
        /\ \A x \in Allocations : allocation'[x] # NoRow => allocation'[x] = allocation[x]
    <2>1. CASE DeleteAllocation(r)  BY <2>1 DEF DeleteAllocation
    <2>2. CASE PurgeWorker(r)  BY <2>2 DEF PurgeWorker
    <2>3. CASE DeleteTarget(r)  BY <2>3 DEF DeleteTarget
    <2> QED  BY <2>1, <2>2, <2>3 DEF DeleteAbsence, SetActive, CreateTarget, FailBooking
  <1> QED  BY <1>1, <1>2, <1>3, <1>4, <1>5, BookEnded

LEMMA BookInvNext == BookInv /\ [SchedulerNext]_schedulerVars => BookInv'
  <1> SUFFICES ASSUME BookInv, [SchedulerNext]_schedulerVars PROVE BookInv'
    OBVIOUS
  <1>1. CASE UNCHANGED schedulerVars
    BY <1>1 DEF schedulerVars, BookInv, SchedulerTypeOK, PendingType, AllocatingType, LookedOnce,
       BookedWhileAwayByRacersOnly, Committing, Away, Covers
  <1>2. ASSUME NEW r \in Bookers,
               \/ DeleteAbsence(r) \/ DeleteAllocation(r) \/ SetActive(r) \/ PurgeWorker(r)
               \/ DeleteTarget(r) \/ CreateTarget(r) \/ FailBooking(r)
        PROVE  BookInv'
    BY <1>2, BookInvStatements
  <1> QED  BY <1>1, <1>2, BookInvAbsenceBegin, BookInvAbsenceStatement, BookInvAbsenceCommit,
              BookInvAllocating, BookInvBook DEF SchedulerNext

\* A worker is booked for a day they are away only by a booking whose look at
\* the absences (assert_worker_available) came before the absence was saved.
THEOREM OnlyRacersBookTheAway == SchedulerSpec => [](SchedulerTypeOK /\ BookedWhileAwayByRacersOnly)
  <1>1. BookInv => SchedulerTypeOK /\ BookedWhileAwayByRacersOnly  BY DEF BookInv
  <1> QED  BY <1>1, BookInvInit, BookInvNext, PTL DEF SchedulerSpec

-----------------------------------------------------------------------------
(* The greatest element of a bounded set. *)

LEMMA MaxOfBounded ==
    ASSUME NEW S, S \subseteq Nat, S # {}, NEW b \in Nat, \A y \in S : y <= b
    PROVE  MaxOf(S) \in S /\ \A y \in S : y <= MaxOf(S)
  <1> DEFINE Bounds == {x \in Nat : \A y \in S : y <= x}
  <1>1. PICK x \in Bounds : \A y \in Bounds : x <= y
    BY LeastElement
  <1>2. x \in S
    <2> SUFFICES ASSUME x \notin S PROVE FALSE
      OBVIOUS
    <2>1. \A y \in S : y <= x - 1  BY <1>1
    <2>2. PICK y \in S : TRUE  OBVIOUS
    <2>3. x - 1 \in Nat  BY <1>1, <2>1, <2>2
    <2>4. x - 1 \in Bounds  BY <2>1, <2>3
    <2> QED  BY <1>1, <2>4
  <1> QED  BY <1>1, <1>2 DEF MaxOf

-----------------------------------------------------------------------------
(* The types, and what a connection is connected to. *)

\* A note that waits for its commit has its id.
Placed == \A r \in Authors : edit[r].pc = "commit" => edit[r].note \in Notes

\* A client that is not off is at an instance, and has read what was forwarded.
Connected ==
    \A c \in Clients :
        /\ stream[c].pc # "off" => stream[c].at \in Instances
        /\ stream[c].pc = "open" => stream[c].read <= Len(forwarded[stream[c].at])

Shape == DiaryTypeOK /\ Placed /\ Connected

LEMMA ShapeInit == DiaryInit => Shape
  <1> SUFFICES ASSUME DiaryInit PROVE Shape
    OBVIOUS
  <1>1. Off \in Stream /\ Off.pc = "off"  BY DEF Off, Stream
  <1>2. EventsTypeOK
    BY <1>1 DEF DiaryInit, EventsInit, EventsTypeOK
  <1>3. Connected
    BY <1>1 DEF DiaryInit, EventsInit, Connected
  <1>4. edit \in [Authors -> Edit] /\ Placed
    BY DEF DiaryInit, Edit, Placed
  <1>5. note \in [Notes -> Note \cup {NoNote}]
    BY DEF DiaryInit, Note
  <1> QED  BY <1>2, <1>3, <1>4, <1>5 DEF DiaryInit, Shape, DiaryTypeOK

\* The order of the next note, and that it comes after the others.
Bounded == \E b \in Nat : \A n \in Notes : There(n) => note[n].order <= b

LEMMA NextOrderIsNext ==
    ASSUME Shape, Bounded, NEW e \in Entries
    PROVE  NextOrder(e) \in Nat /\ \A n \in NotesOf(e) : note[n].order < NextOrder(e)
  <1> DEFINE S == {note[n].order : n \in NotesOf(e)}
  <1>1. PICK b \in Nat : \A n \in Notes : There(n) => note[n].order <= b
    BY DEF Bounded
  <1>2. S \subseteq Nat /\ \A y \in S : y <= b
    BY <1>1 DEF Shape, DiaryTypeOK, Note, NotesOf, There
  <1>3. CASE NotesOf(e) = {}
    BY <1>3 DEF NextOrder
  <1>4. CASE NotesOf(e) # {}
    <2>1. S # {}  BY <1>4
    <2>2. MaxOf(S) \in S /\ \A y \in S : y <= MaxOf(S)
      BY <1>2, <2>1, MaxOfBounded
    <2>3. NextOrder(e) = 1 + MaxOf(S)  BY <1>4 DEF NextOrder
    <2> HIDE DEF S
    <2>4. MaxOf(S) \in Nat  BY <1>2, <2>2
    <2>5. \A n \in NotesOf(e) : note[n].order \in S  BY DEF S
    <2>6. \A n \in NotesOf(e) : note[n].order <= MaxOf(S) /\ note[n].order \in Nat
      BY <1>2, <2>2, <2>5
    <2> QED  BY <2>3, <2>4, <2>6
  <1> QED  BY <1>3, <1>4

\* The request r moves to another step and perhaps operation.
LEMMA EditMoves ==
    ASSUME Shape, NEW r \in Authors, NEW pc \in {"found", "announce", "done"},
           NEW op \in DiaryOps \cup {NoNote},
           edit' = [edit EXCEPT ![r].pc = pc, ![r].op = op]
    PROVE  /\ edit' \in [Authors -> Edit]
           /\ edit'[r].pc = pc /\ edit'[r].entry = edit[r].entry /\ edit'[r].note = edit[r].note
           /\ \A q \in Authors \ {r} : edit'[q] = edit[q]
           /\ Placed'
  <1>1. edit[r] \in Edit /\ edit \in [Authors -> Edit]
    BY DEF Shape, DiaryTypeOK
  <1> DEFINE e == [edit[r] EXCEPT !.pc = pc, !.op = op]
  <1>2. /\ e \in Edit /\ e.pc = pc
        /\ e.entry = edit[r].entry /\ e.note = edit[r].note
    BY <1>1 DEF Edit
  <1>3. edit' = [edit EXCEPT ![r] = e]
    BY <1>1
  <1> HIDE DEF e
  <1>4. /\ edit' \in [Authors -> Edit] /\ edit'[r] = e
        /\ \A q \in Authors \ {r} : edit'[q] = edit[q]
    BY <1>1, <1>2, <1>3
  <1>5. Placed'  BY <1>2, <1>4 DEF Shape, Placed
  <1> QED  BY <1>2, <1>4, <1>5

LEMMA EditGoesTo ==
    ASSUME Shape, NEW r \in Authors, NEW pc \in {"found", "announce", "done"},
           edit' = [edit EXCEPT ![r].pc = pc]
    PROVE  /\ edit' \in [Authors -> Edit]
           /\ edit'[r].pc = pc /\ edit'[r].entry = edit[r].entry /\ edit'[r].note = edit[r].note
           /\ \A q \in Authors \ {r} : edit'[q] = edit[q]
           /\ Placed'
  <1>1. edit[r] \in Edit /\ edit \in [Authors -> Edit]
    BY DEF Shape, DiaryTypeOK
  <1>2. edit[r].op \in DiaryOps \cup {NoNote}  BY <1>1 DEF Edit
  <1> DEFINE e == [edit[r] EXCEPT !.pc = pc]
  <1>3. e = [edit[r] EXCEPT !.pc = pc, !.op = edit[r].op]
    BY <1>1 DEF Edit
  <1>4. edit' = [edit EXCEPT ![r].pc = pc, ![r].op = edit[r].op]
    BY <1>1, <1>3
  <1> QED  BY <1>2, <1>4, EditMoves

-----------------------------------------------------------------------------
(* What every step on the diary does, told once for the three invariants.    *)

\* The steps of requests other than the placing of a note and its commit:
\* requests keep their entry and note, rows keep their position or it was
\* given, and a changed entry is announced or excused.
EditStep(r) ==
    /\ UNCHANGED <<before, sees, screen, eventVars>>
    /\ entry' \subseteq Entries
    /\ note' \in [Notes -> Note \cup {NoNote}]
    /\ given' \subseteq Notes /\ given \subseteq given'
    /\ \A n \in Notes : note'[n] # NoNote =>
          There(n) /\ (note'[n].order = note[n].order \/ (n \in given' /\ note'[n].order = 0))
    /\ version' \in [Entries -> Nat]
    /\ excused' \subseteq Clients \X Entries /\ excused \subseteq excused'
    /\ edit' \in [Authors -> Edit]
    /\ edit'[r].pc \in {"found", "announce", "done"}
    /\ edit'[r].pc = "found" => edit[r].pc = "idle"
    /\ edit'[r].entry = edit[r].entry /\ edit'[r].note = edit[r].note
    /\ \A q \in Authors \ {r} : edit'[q] = edit[q]
    /\ edit[r].pc = "announce" => Clients \X {edit[r].entry} \subseteq excused'
    /\ \A e \in Entries : \/ version'[e] = version[e]
                          \/ Clients \X {e} \subseteq excused'
                          \/ edit'[r].pc = "announce" /\ edit'[r].entry = e

LEMMA TouchType ==
    ASSUME Shape, NEW e \in Entries, Touch(e)
    PROVE  /\ version' \in [Entries -> Nat]
           /\ \A x \in Entries : x # e => version'[x] = version[x]
  BY DEF Shape, DiaryTypeOK, Touch

\* A note that is written back, gone or moved, and what comes of its request.
LEMMA NoteWritten ==
    ASSUME Shape, NEW r \in Authors, NEW n \in Notes, There(n), WroteNote(r, n),
           edit[r].pc = "found",
           UNCHANGED <<entry, before, sees, screen, eventVars>>,
           note' \in [Notes -> Note \cup {NoNote}],
           given' \subseteq Notes, given \subseteq given',
           \A m \in Notes : note'[m] # NoNote =>
              There(m) /\ (note'[m].order = note[m].order \/ (m \in given' /\ note'[m].order = 0))
    PROVE  EditStep(r)
  <1>1. note[n].entry \in Entries
    BY DEF Shape, DiaryTypeOK, There, Note
  <1>2. /\ version' \in [Entries -> Nat]
        /\ \A x \in Entries : x # note[n].entry => version'[x] = version[x]
    BY <1>1, TouchType DEF WroteNote
  <1>3. entry' \subseteq Entries  BY DEF Shape, DiaryTypeOK
  <1>4. excused' \subseteq Clients \X Entries /\ excused \subseteq excused'
    BY <1>1 DEF WroteNote, Unannounced, Shape, DiaryTypeOK
  <1>5. /\ edit' \in [Authors -> Edit]
        /\ edit'[r].pc \in {"announce", "done"}
        /\ edit'[r].pc = "announce" <=> edit[r].op \in Announced
        /\ edit'[r].entry = edit[r].entry /\ edit'[r].note = edit[r].note
        /\ \A q \in Authors \ {r} : edit'[q] = edit[q]
    BY EditGoesTo DEF WroteNote, Finish
  <1>6. \/ Clients \X {note[n].entry} \subseteq excused'
        \/ edit'[r].pc = "announce" /\ edit'[r].entry = note[n].entry
    BY <1>5 DEF WroteNote, Unannounced
  <1> QED  BY <1>2, <1>3, <1>4, <1>5, <1>6 DEF EditStep

\* A request that ends, or moves on, and leaves the notes alone.
LEMMA NotesKept ==
    ASSUME Shape, NEW r \in Authors, UNCHANGED <<note, given, before, sees, screen, eventVars>>,
           entry' \subseteq Entries, version' \in [Entries -> Nat],
           excused' \subseteq Clients \X Entries, excused \subseteq excused',
           edit' \in [Authors -> Edit], edit'[r].pc \in {"found", "announce", "done"},
           edit'[r].pc = "found" => edit[r].pc = "idle",
           edit'[r].entry = edit[r].entry, edit'[r].note = edit[r].note,
           \A q \in Authors \ {r} : edit'[q] = edit[q],
           edit[r].pc = "announce" => Clients \X {edit[r].entry} \subseteq excused',
           \A e \in Entries : version'[e] = version[e] \/ Clients \X {e} \subseteq excused'
    PROVE  EditStep(r)
  BY DEF Shape, DiaryTypeOK, EditStep, There

LEMMA Ends ==
    ASSUME Shape, NEW r \in Authors, edit[r].pc # "announce", Finish(r),
           UNCHANGED <<entry, note, given, version, before, sees, screen, excused, eventVars>>
    PROVE  EditStep(r)
  <1>1. /\ edit' \in [Authors -> Edit] /\ edit'[r].pc = "done"
        /\ edit'[r].entry = edit[r].entry /\ edit'[r].note = edit[r].note
        /\ \A q \in Authors \ {r} : edit'[q] = edit[q]
    BY EditGoesTo DEF Finish
  <1> QED  BY <1>1, NotesKept DEF Shape, DiaryTypeOK

LEMMA GetStep ==
    ASSUME Shape, NEW r \in Authors, Get(r)
    PROVE  EditStep(r)
  <1>1. PICK op \in DiaryOps : edit' = [edit EXCEPT ![r].pc = "found", ![r].op = op]
    BY DEF Get
  <1>2. /\ edit' \in [Authors -> Edit] /\ edit'[r].pc = "found"
        /\ edit'[r].entry = edit[r].entry /\ edit'[r].note = edit[r].note
        /\ \A q \in Authors \ {r} : edit'[q] = edit[q]
    BY <1>1, EditMoves
  <1> QED  BY <1>2, NotesKept DEF Get, Shape, DiaryTypeOK

LEMMA UpdateNoteStep ==
    ASSUME Shape, NEW r \in Authors, UpdateNote(r)
    PROVE  EditStep(r)
  <1>1. edit[r].pc = "found" /\ UNCHANGED <<entry, before, sees, screen, eventVars>>
    BY DEF UpdateNote
  <1>2. CASE Finish(r) /\ UNCHANGED <<note, given, version, excused>>
    BY <1>1, <1>2, Ends
  <1>3. ASSUME NEW n \in Notes, There(n), WroteNote(r, n), UNCHANGED <<note, given>>
        PROVE  EditStep(r)
    BY <1>1, <1>3, NoteWritten DEF Shape, DiaryTypeOK, There
  <1>4. ASSUME NEW n \in Notes, There(n), WroteNote(r, n),
               note' = [note EXCEPT ![n].order = 0], given' = given \cup {n}
        PROVE  EditStep(r)
    <2>1. note[n] \in Note  BY <1>4 DEF Shape, DiaryTypeOK, There
    <2> DEFINE row == [note[n] EXCEPT !.order = 0]
    <2>2. row \in Note /\ row.order = 0  BY <2>1 DEF Note
    <2>3. note' = [note EXCEPT ![n] = row]  BY <1>4 DEF Shape, DiaryTypeOK
    <2> HIDE DEF row
    <2>4. /\ note' \in [Notes -> Note \cup {NoNote}] /\ note'[n].order = 0
          /\ \A m \in Notes \ {n} : note'[m] = note[m]
      BY <2>2, <2>3 DEF Shape, DiaryTypeOK
    <2>5. given' \subseteq Notes /\ given \subseteq given' /\ n \in given'
      BY <1>4 DEF Shape, DiaryTypeOK
    <2>6. \A m \in Notes : note'[m] # NoNote =>
             There(m) /\ (note'[m].order = note[m].order \/ (m \in given' /\ note'[m].order = 0))
      BY <1>4, <2>4, <2>5 DEF There
    <2> QED  BY <1>1, <1>4, <2>4, <2>5, <2>6, NoteWritten
  <1> QED  BY <1>2, <1>3, <1>4 DEF UpdateNote

LEMMA ArchiveNoteStep ==
    ASSUME Shape, NEW r \in Authors, ArchiveNote(r)
    PROVE  EditStep(r)
  <1>1. edit[r].pc = "found" /\ UNCHANGED <<entry, given, before, sees, screen, eventVars>>
    BY DEF ArchiveNote
  <1>2. CASE Finish(r) /\ UNCHANGED <<note, version, excused>>
    BY <1>1, <1>2, Ends
  <1>3. ASSUME NEW n \in Notes, There(n), WroteNote(r, n), UNCHANGED note
        PROVE  EditStep(r)
    BY <1>1, <1>3, NoteWritten DEF Shape, DiaryTypeOK, There
  <1>4. ASSUME NEW n \in Notes, There(n), WroteNote(r, n), note' = [note EXCEPT ![n].archived = ~@]
        PROVE  EditStep(r)
    <2>1. note[n] \in Note  BY <1>4 DEF Shape, DiaryTypeOK, There
    <2> DEFINE row == [note[n] EXCEPT !.archived = ~@]
    <2>2. row \in Note /\ row.order = note[n].order  BY <2>1 DEF Note
    <2>3. note' = [note EXCEPT ![n] = row]  BY <1>4 DEF Shape, DiaryTypeOK
    <2> HIDE DEF row
    <2>4. /\ note' \in [Notes -> Note \cup {NoNote}] /\ note'[n].order = note[n].order
          /\ \A m \in Notes \ {n} : note'[m] = note[m]
      BY <2>2, <2>3 DEF Shape, DiaryTypeOK
    <2>5. \A m \in Notes : note'[m] # NoNote => There(m) /\ note'[m].order = note[m].order
      BY <1>4, <2>4 DEF There
    <2> QED  BY <1>1, <1>4, <2>4, <2>5, NoteWritten DEF Shape, DiaryTypeOK
  <1> QED  BY <1>2, <1>3, <1>4 DEF ArchiveNote

LEMMA DeleteNoteStep ==
    ASSUME Shape, NEW r \in Authors, DeleteNote(r)
    PROVE  EditStep(r)
  <1>1. edit[r].pc = "found" /\ UNCHANGED <<entry, given, before, sees, screen, eventVars>>
    BY DEF DeleteNote
  <1>2. CASE Finish(r) /\ UNCHANGED <<note, version, excused>>
    BY <1>1, <1>2, Ends
  <1>3. ASSUME NEW n \in Notes, There(n), WroteNote(r, n), note' = [note EXCEPT ![n] = NoNote]
        PROVE  EditStep(r)
    BY <1>1, <1>3, NoteWritten DEF Shape, DiaryTypeOK, There
  <1> QED  BY <1>2, <1>3 DEF DeleteNote

LEMMA UpdateEntryStep ==
    ASSUME Shape, NEW r \in Authors, UpdateEntry(r)
    PROVE  EditStep(r)
  <1>1. /\ edit' \in [Authors -> Edit] /\ edit'[r].pc = "done"
        /\ edit'[r].entry = edit[r].entry /\ edit'[r].note = edit[r].note
        /\ \A q \in Authors \ {r} : edit'[q] = edit[q]
    BY EditGoesTo DEF UpdateEntry, Finish
  <1>2. edit[r].entry \in Entries  BY DEF Shape, DiaryTypeOK, Edit
  <1>3. /\ edit[r].pc = "found"
        /\ UNCHANGED <<entry, note, given, before, sees, screen, eventVars>>
    BY DEF UpdateEntry
  <1>4. CASE Touch(edit[r].entry) /\ Unannounced(edit[r].entry)
    <2>1. /\ version' \in [Entries -> Nat]
          /\ \A x \in Entries : x # edit[r].entry => version'[x] = version[x]
      BY <1>2, <1>4, TouchType
    <2>2. /\ excused' \subseteq Clients \X Entries /\ excused \subseteq excused'
          /\ Clients \X {edit[r].entry} \subseteq excused'
      BY <1>2, <1>4 DEF Unannounced, Shape, DiaryTypeOK
    <2> QED  BY <1>1, <1>3, <2>1, <2>2, NotesKept DEF Shape, DiaryTypeOK
  <1>5. CASE UNCHANGED <<version, excused>>
    BY <1>1, <1>3, <1>5, NotesKept DEF Shape, DiaryTypeOK
  <1> QED  BY <1>4, <1>5 DEF UpdateEntry

LEMMA DeleteEntryStep ==
    ASSUME Shape, NEW r \in Authors, DeleteEntry(r)
    PROVE  EditStep(r)
  <1>1. /\ edit' \in [Authors -> Edit] /\ edit'[r].pc = "done"
        /\ edit'[r].entry = edit[r].entry /\ edit'[r].note = edit[r].note
        /\ \A q \in Authors \ {r} : edit'[q] = edit[q]
    BY EditGoesTo DEF DeleteEntry, Finish
  <1>2. edit[r].entry \in Entries  BY DEF Shape, DiaryTypeOK, Edit
  <1>3. /\ version' \in [Entries -> Nat]
        /\ \A x \in Entries : x # edit[r].entry => version'[x] = version[x]
    BY <1>2, TouchType DEF DeleteEntry
  <1>4. /\ excused' \subseteq Clients \X Entries /\ excused \subseteq excused'
        /\ Clients \X {edit[r].entry} \subseteq excused'
    BY <1>2 DEF DeleteEntry, Unannounced, Shape, DiaryTypeOK
  <1>5. /\ note' \in [Notes -> Note \cup {NoNote}]
        /\ \A n \in Notes : note'[n] # NoNote => There(n) /\ note'[n].order = note[n].order
    BY DEF DeleteEntry, Shape, DiaryTypeOK, There
  <1>6. /\ UNCHANGED <<given, before, sees, screen, eventVars>>
        /\ given' \subseteq Notes /\ given \subseteq given' /\ entry' \subseteq Entries
    BY DEF DeleteEntry, Shape, DiaryTypeOK
  <1> QED  BY <1>1, <1>3, <1>4, <1>5, <1>6 DEF EditStep

LEMMA FailStep ==
    ASSUME Shape, NEW r \in Authors, FailDiaryEdit(r)
    PROVE  EditStep(r)
  <1>1. /\ edit' \in [Authors -> Edit] /\ edit'[r].pc = "done"
        /\ edit'[r].entry = edit[r].entry /\ edit'[r].note = edit[r].note
        /\ \A q \in Authors \ {r} : edit'[q] = edit[q]
    BY EditGoesTo DEF FailDiaryEdit, Finish
  <1>2. edit[r].entry \in Entries  BY DEF Shape, DiaryTypeOK, Edit
  <1>3. /\ excused' \subseteq Clients \X Entries /\ excused \subseteq excused'
        /\ edit[r].pc = "announce" => Clients \X {edit[r].entry} \subseteq excused'
    BY <1>2 DEF FailDiaryEdit, Unannounced, Shape, DiaryTypeOK
  <1> QED  BY <1>1, <1>3, NotesKept DEF FailDiaryEdit, Shape, DiaryTypeOK

-----------------------------------------------------------------------------
(* Types step by step. *)

LEMMA ShapeOfEdit ==
    ASSUME Shape, NEW r \in Authors, EditStep(r)
    PROVE  Shape'
  <1>1. EventsTypeOK' /\ Connected' /\ sees' = sees /\ screen' = screen /\ before' = before
    BY DEF Shape, DiaryTypeOK, EventsTypeOK, Connected, EditStep, eventVars
  <1>2. Placed'  BY DEF Shape, Placed, EditStep
  <1> QED  BY <1>1, <1>2 DEF Shape, DiaryTypeOK, EditStep

\* add_note, up to its commit.
LEMMA PlacingShape ==
    ASSUME Shape, Bounded, NEW r \in Authors, AddNote(r), edit[r].entry \in entry
    PROVE  \E n \in NextNote, chosen \in BOOLEAN :
              /\ given' = IF chosen THEN given \cup {n} ELSE given
              /\ before' = before \cup (NotesOf(edit[r].entry) \X {n})
              /\ edit' \in [Authors -> Edit]
              /\ \A q \in Authors \ {r} : edit'[q] = edit[q]
              /\ edit'[r].pc = "commit" /\ edit'[r].note = n /\ edit'[r].entry = edit[r].entry
              /\ edit'[r].order \in Nat
              /\ edit'[r].order = IF chosen THEN 0 ELSE NextOrder(edit[r].entry)
  <1>1. edit[r] \in Edit /\ edit \in [Authors -> Edit]  BY DEF Shape, DiaryTypeOK
  <1>2. edit[r].entry \in Entries  BY <1>1 DEF Edit
  <1>3. PICK n \in NextNote, chosen \in BOOLEAN :
           /\ edit' = [edit EXCEPT ![r].pc = "commit", ![r].note = n,
                          ![r].order = IF chosen THEN 0 ELSE NextOrder(edit[r].entry)]
           /\ given' = IF chosen THEN given \cup {n} ELSE given
           /\ before' = before \cup (NotesOf(edit[r].entry) \X {n})
    BY DEF AddNote
  <1> DEFINE o == IF chosen THEN 0 ELSE NextOrder(edit[r].entry)
             e == [edit[r] EXCEPT !.pc = "commit", !.note = n, !.order = o]
  <1>4. o \in Nat  BY <1>2, NextOrderIsNext
  <1>5. n \in Notes  BY DEF NextNote
  <1>6. o = IF chosen THEN 0 ELSE NextOrder(edit[r].entry)  OBVIOUS
  <1>7. edit' = [edit EXCEPT ![r] = e]  BY <1>1, <1>3
  <1> HIDE DEF o
  <1>8. /\ e \in Edit /\ e.pc = "commit" /\ e.note = n /\ e.order = o
        /\ e.entry = edit[r].entry
    BY <1>1, <1>4, <1>5 DEF Edit
  <1> HIDE DEF e
  <1>9. /\ edit' \in [Authors -> Edit] /\ edit'[r] = e
        /\ \A q \in Authors \ {r} : edit'[q] = edit[q]
    BY <1>1, <1>7, <1>8
  <1> WITNESS n \in NextNote, chosen \in BOOLEAN
  <1> QED  BY <1>3, <1>4, <1>6, <1>8, <1>9

LEMMA ShapeOfAdd ==
    ASSUME Shape, Bounded, NEW r \in Authors, AddNote(r)
    PROVE  Shape'
  <1>1. /\ EventsTypeOK' /\ Connected'
        /\ UNCHANGED <<entry, note, version, sees, screen, excused>>
    BY DEF Shape, DiaryTypeOK, EventsTypeOK, Connected, AddNote, eventVars
  <1>2. CASE edit[r].entry \notin entry
    <2>1. Finish(r) /\ UNCHANGED <<given, before>>
      BY <1>2 DEF AddNote
    <2>2. edit' \in [Authors -> Edit] /\ Placed'
      BY <2>1, EditGoesTo DEF Finish
    <2> QED  BY <1>1, <2>1, <2>2 DEF Shape, DiaryTypeOK
  <1>3. CASE edit[r].entry \in entry
    <2>1. PICK n \in NextNote, chosen \in BOOLEAN :
              /\ given' = IF chosen THEN given \cup {n} ELSE given
              /\ before' = before \cup (NotesOf(edit[r].entry) \X {n})
              /\ edit' \in [Authors -> Edit]
              /\ \A q \in Authors \ {r} : edit'[q] = edit[q]
              /\ edit'[r].note = n
      BY <1>3, PlacingShape
    <2>2. given' \subseteq Notes /\ before' \subseteq Notes \X Notes
      BY <2>1 DEF Shape, DiaryTypeOK, NotesOf, NextNote
    <2>3. Placed'  BY <2>1 DEF Shape, Placed, NextNote
    <2> QED  BY <1>1, <2>1, <2>2, <2>3 DEF Shape, DiaryTypeOK
  <1> QED  BY <1>2, <1>3

\* The commit of add_note.
LEMMA CommitShape ==
    ASSUME Shape, NEW r \in Authors, CommitNote(r)
    PROVE  /\ Shape'
           /\ edit[r].pc = "commit" /\ edit[r].note \in Notes
           /\ edit'[r].pc = "announce" /\ edit'[r].entry = edit[r].entry
           /\ edit'[r].note = edit[r].note
           /\ \A q \in Authors \ {r} : edit'[q] = edit[q]
           /\ note'[edit[r].note].order = edit[r].order /\ edit[r].order \in Nat
           /\ \A m \in Notes \ {edit[r].note} : note'[m] = note[m]
           /\ \A x \in Entries : x # edit[r].entry => version'[x] = version[x]
  <1>1. /\ edit[r] \in Edit /\ edit[r].pc = "commit" /\ edit[r].note \in Notes
        /\ edit[r].entry \in Entries /\ edit[r].order \in Nat
    BY DEF CommitNote, Shape, DiaryTypeOK, Placed, Edit
  <1>2. /\ edit' \in [Authors -> Edit]
        /\ edit'[r].pc = "announce" /\ edit'[r].entry = edit[r].entry
        /\ edit'[r].note = edit[r].note
        /\ \A q \in Authors \ {r} : edit'[q] = edit[q]
        /\ Placed'
    BY EditGoesTo DEF CommitNote
  <1> DEFINE row == [entry |-> edit[r].entry, order |-> edit[r].order, archived |-> FALSE]
  <1>3. row \in Note /\ row.order = edit[r].order  BY <1>1 DEF Note
  <1>4. note' = [note EXCEPT ![edit[r].note] = row]  BY DEF CommitNote
  <1> HIDE DEF row
  <1>5. /\ note' \in [Notes -> Note \cup {NoNote}]
        /\ note'[edit[r].note].order = edit[r].order
        /\ \A m \in Notes \ {edit[r].note} : note'[m] = note[m]
    BY <1>1, <1>3, <1>4 DEF Shape, DiaryTypeOK
  <1>6. /\ version' \in [Entries -> Nat]
        /\ \A x \in Entries : x # edit[r].entry => version'[x] = version[x]
    BY <1>1, TouchType DEF CommitNote
  <1>7. /\ EventsTypeOK' /\ Connected'
        /\ UNCHANGED <<entry, given, before, sees, screen, excused>>
    BY DEF Shape, DiaryTypeOK, EventsTypeOK, Connected, CommitNote, eventVars
  <1>8. Shape'  BY <1>2, <1>5, <1>6, <1>7 DEF Shape, DiaryTypeOK
  <1> QED  BY <1>1, <1>2, <1>5, <1>6, <1>8

\* The announcement: one more event for everybody, and the request is over.
LEMMA AnnounceShape ==
    ASSUME Shape, NEW r \in Authors, Announce(r)
    PROVE  /\ Shape'
           /\ edit[r].pc = "announce" /\ edit[r].entry \in Entries
           /\ channel' = Append(channel, edit[r].entry)
           /\ edit'[r].pc = "done" /\ edit'[r].entry = edit[r].entry
           /\ edit'[r].note = edit[r].note
           /\ \A q \in Authors \ {r} : edit'[q] = edit[q]
  <1>1. /\ edit[r].pc = "announce" /\ edit[r].entry \in Entries
        /\ channel' = Append(channel, edit[r].entry)
        /\ UNCHANGED <<entry, note, given, version, before, sees, screen, excused,
                       listener, forwarded, stream>>
    BY DEF Announce, Publish, Shape, DiaryTypeOK, Edit
  <1>2. /\ edit' \in [Authors -> Edit]
        /\ edit'[r].pc = "done" /\ edit'[r].entry = edit[r].entry
        /\ edit'[r].note = edit[r].note
        /\ \A q \in Authors \ {r} : edit'[q] = edit[q]
        /\ Placed'
    BY EditGoesTo DEF Announce, Finish
  <1>3. channel' \in Seq(Entries) /\ Len(channel') = Len(channel) + 1
    BY <1>1 DEF Shape, DiaryTypeOK, EventsTypeOK
  <1>4. listener' \in [Instances -> 0 .. Len(channel')]
    <2>1. listener \in [Instances -> 0 .. Len(channel)] /\ Len(channel) \in Nat
      BY DEF Shape, DiaryTypeOK, EventsTypeOK
    <2> QED  BY <1>1, <1>3, <2>1
  <1>5. EventsTypeOK'
    BY <1>1, <1>3, <1>4 DEF Shape, DiaryTypeOK, EventsTypeOK
  <1>6. Connected'  BY <1>1 DEF Shape, Connected
  <1>7. Shape'  BY <1>1, <1>2, <1>5, <1>6 DEF Shape, DiaryTypeOK
  <1> QED  BY <1>1, <1>2, <1>7

\* The steps of clients and instances leave the diary alone.
DiaryKept == UNCHANGED <<entry, note, given, version, edit, before>>

LEMMA ShapeOfTab ==
    ASSUME Shape, DiaryKept, EventsTypeOK', Connected',
           sees' \subseteq Clients \X Jobs, screen' \in [Clients -> [Entries -> Nat]],
           excused' \subseteq Clients \X Entries
    PROVE  Shape'
  BY DEF Shape, DiaryTypeOK, Placed, DiaryKept

\* The connection of c becomes s.
LEMMA StreamBecomes ==
    ASSUME Shape, NEW c \in Clients, NEW s \in Stream,
           stream' = [stream EXCEPT ![c] = s], UNCHANGED <<channel, listener, forwarded>>,
           s.pc # "off" => s.at \in Instances,
           s.pc = "open" => s.read <= Len(forwarded[s.at])
    PROVE  /\ EventsTypeOK' /\ Connected'
           /\ stream'[c] = s /\ \A d \in Clients \ {c} : stream'[d] = stream[d]
  BY DEF Shape, DiaryTypeOK, EventsTypeOK, Connected

LEMMA OffIsOff == Off \in Stream /\ Off.pc = "off" /\ Off.jobs = {}
  BY DEF Off, Stream

LEMMA ReassignShape ==
    ASSUME Shape, NEW c \in Clients, Reassign(c)
    PROVE  Shape'
  <1>1. /\ DiaryKept /\ UNCHANGED <<screen, excused, eventVars>>
        /\ sees' \subseteq Clients \X Jobs
    BY DEF Reassign, DiaryKept, Shape, DiaryTypeOK
  <1>2. EventsTypeOK' /\ Connected'
    BY <1>1 DEF Shape, DiaryTypeOK, EventsTypeOK, Connected, eventVars
  <1> QED  BY <1>1, <1>2, ShapeOfTab DEF Shape, DiaryTypeOK

LEMMA ConnectShape ==
    ASSUME Shape, NEW c \in Clients, Connect(c)
    PROVE  /\ Shape'
           /\ stream'[c].pc = "resolved" /\ \A d \in Clients \ {c} : stream'[d] = stream[d]
  <1>1. PICK i \in Instances : stream' = [stream EXCEPT ![c] =
            [Off EXCEPT !.pc = "resolved", !.at = i, !.jobs = Visible(c)]]
    BY DEF Connect, Resolve
  <1> DEFINE s == [Off EXCEPT !.pc = "resolved", !.at = i, !.jobs = Visible(c)]
  <1>2. Visible(c) \in SUBSET Jobs  BY DEF Visible
  <1>3. s \in Stream /\ s.pc = "resolved" /\ s.at = i
    BY <1>2, OffIsOff DEF Stream
  <1>4. UNCHANGED <<channel, listener, forwarded>>  BY DEF Connect, Resolve
  <1> HIDE DEF s
  <1>5. stream' = [stream EXCEPT ![c] = s]  BY <1>1 DEF s
  <1>6. /\ EventsTypeOK' /\ Connected'
        /\ stream'[c] = s /\ \A d \in Clients \ {c} : stream'[d] = stream[d]
    BY <1>3, <1>4, <1>5, StreamBecomes
  <1>7. Shape'
    BY <1>6, ShapeOfTab DEF Connect, DiaryKept, Shape, DiaryTypeOK
  <1> QED  BY <1>3, <1>6, <1>7

\* A client's connection is read up to k.
LEMMA ReadUpTo ==
    ASSUME Shape, NEW c \in Clients, stream[c].pc \in {"resolved", "open"}, NEW k \in Nat,
           k <= Len(forwarded[stream[c].at]),
           stream' = [stream EXCEPT ![c].pc = "open", ![c].read = k],
           UNCHANGED <<channel, listener, forwarded>>
    PROVE  /\ EventsTypeOK' /\ Connected'
           /\ stream'[c].pc = "open" /\ stream'[c].read = k /\ stream'[c].at = stream[c].at
           /\ stream'[c].jobs = stream[c].jobs
           /\ \A d \in Clients \ {c} : stream'[d] = stream[d]
  <1> DEFINE s == [stream[c] EXCEPT !.pc = "open", !.read = k]
  <1>1. stream[c] \in Stream /\ stream \in [Clients -> Stream] /\ stream[c].at \in Instances
    BY DEF Shape, DiaryTypeOK, EventsTypeOK, Connected
  <1>2. /\ s \in Stream /\ s.pc = "open" /\ s.read = k /\ s.at = stream[c].at
        /\ s.jobs = stream[c].jobs
    BY <1>1 DEF Stream
  <1>3. stream' = [stream EXCEPT ![c] = s]  BY <1>1
  <1> HIDE DEF s
  <1>4. /\ EventsTypeOK' /\ Connected'
        /\ stream'[c] = s /\ \A d \in Clients \ {c} : stream'[d] = stream[d]
    BY <1>1, <1>2, <1>3, StreamBecomes
  <1> QED  BY <1>2, <1>4

\* What the tab refetches: current where it may see, excused where not.
LEMMA Refetched ==
    ASSUME Shape, NEW c \in Clients, NEW asked, asked \subseteq Entries, Refetch(c, asked)
    PROVE  /\ screen' \in [Clients -> [Entries -> Nat]] /\ excused' \subseteq Clients \X Entries
           /\ \A e \in asked : screen'[c][e] = version[e] \/ <<c, e>> \in excused'
           /\ \A e \in Entries : screen'[c][e] = version[e] \/ screen'[c][e] = screen[c][e]
           /\ \A e \in Entries \ asked : screen'[c][e] = screen[c][e]
           /\ \A d \in Clients \ {c} : screen'[d] = screen[d]
           /\ \A d \in Clients, e \in Entries :
                 <<d, e>> \in excused /\ ~(d = c /\ e \in asked) => <<d, e>> \in excused'
  <1> DEFINE shown == {e \in asked : JobOf[e] \in Visible(c)}
             new == [e \in Entries |-> IF e \in shown THEN version[e] ELSE screen[c][e]]
  <1>1. /\ screen' = [screen EXCEPT ![c] = new]
        /\ excused' = (excused \ ({c} \X shown)) \cup ({c} \X (asked \ shown))
    BY DEF Refetch
  <1>2. shown \subseteq asked  OBVIOUS
  <1> HIDE DEF shown
  <1>3. new \in [Entries -> Nat]
    BY DEF Shape, DiaryTypeOK
  <1>4. \A e \in Entries : new[e] = IF e \in shown THEN version[e] ELSE screen[c][e]
    OBVIOUS
  <1> HIDE DEF new
  <1>5. /\ screen' \in [Clients -> [Entries -> Nat]] /\ screen'[c] = new
        /\ \A d \in Clients \ {c} : screen'[d] = screen[d]
    BY <1>1, <1>3 DEF Shape, DiaryTypeOK
  <1>6. /\ excused' \subseteq Clients \X Entries
        /\ \A e \in asked \ shown : <<c, e>> \in excused'
        /\ \A d \in Clients, e \in Entries :
              <<d, e>> \in excused /\ ~(d = c /\ e \in asked) => <<d, e>> \in excused'
    BY <1>1, <1>2 DEF Shape, DiaryTypeOK
  <1> QED  BY <1>2, <1>4, <1>5, <1>6

LEMMA OpenShape ==
    ASSUME Shape, NEW c \in Clients, Open(c)
    PROVE  /\ Shape' /\ DiaryKept
           /\ UNCHANGED <<channel, listener, forwarded>>
           /\ stream'[c].jobs = stream[c].jobs
           /\ \A d \in Clients \ {c} : stream'[d] = stream[d] /\ screen'[d] = screen[d]
           /\ \A e \in Entries : screen'[c][e] = version[e] \/ <<c, e>> \in excused'
           /\ \A d \in Clients \ {c}, e \in Entries : <<d, e>> \in excused => <<d, e>> \in excused'
  <1>1. /\ stream[c].pc = "resolved" /\ UNCHANGED <<channel, listener, forwarded>>
        /\ stream' = [stream EXCEPT ![c].pc = "open", ![c].read = Len(forwarded[stream[c].at])]
        /\ Refetch(c, Entries) /\ DiaryKept /\ UNCHANGED sees
    BY DEF Open, Subscribe, DiaryKept
  <1>2. stream[c].at \in Instances
    BY <1>1 DEF Shape, Connected
  <1> DEFINE k == Len(forwarded[stream[c].at])
  <1>3. k \in Nat /\ k <= Len(forwarded[stream[c].at])
    BY <1>2 DEF Shape, DiaryTypeOK, EventsTypeOK
  <1>0. stream' = [stream EXCEPT ![c].pc = "open", ![c].read = k]
    BY <1>1
  <1> HIDE DEF k
  <1>4. /\ EventsTypeOK' /\ Connected' /\ stream'[c].jobs = stream[c].jobs
        /\ \A d \in Clients \ {c} : stream'[d] = stream[d]
    BY <1>1, <1>3, <1>0, ReadUpTo
  <1>5. /\ screen' \in [Clients -> [Entries -> Nat]] /\ excused' \subseteq Clients \X Entries
        /\ \A e \in Entries : screen'[c][e] = version[e] \/ <<c, e>> \in excused'
        /\ \A d \in Clients \ {c} : screen'[d] = screen[d]
        /\ \A d \in Clients \ {c}, e \in Entries : <<d, e>> \in excused => <<d, e>> \in excused'
    BY <1>1, Refetched
  <1>6. Shape'
    BY <1>1, <1>4, <1>5, ShapeOfTab DEF Shape, DiaryTypeOK
  <1> QED  BY <1>1, <1>4, <1>5, <1>6

LEMMA HearShape ==
    ASSUME Shape, NEW c \in Clients, Hear(c)
    PROVE  /\ Shape' /\ DiaryKept
           /\ UNCHANGED <<channel, listener, forwarded>>
           /\ stream[c].pc = "open" /\ stream[c].at \in Instances
           /\ stream'[c].jobs = stream[c].jobs /\ stream'[c].at = stream[c].at
           /\ stream'[c].read = stream[c].read + 1
           /\ stream[c].read + 1 \in DOMAIN forwarded[stream[c].at]
           /\ NextEvent(c) \in Entries
           /\ \A d \in Clients \ {c} : stream'[d] = stream[d]
  <1>1. stream[c] \in Stream /\ stream[c].pc = "open" /\ stream[c].at \in Instances
    BY DEF Hear, Receive, Ready, Shape, DiaryTypeOK, EventsTypeOK, Connected
  <1>2. forwarded[stream[c].at] \in Seq(Entries) /\ stream[c].read \in Nat
    BY <1>1 DEF Shape, DiaryTypeOK, EventsTypeOK, Stream
  <1>3. Len(forwarded[stream[c].at]) - stream[c].read \in 1 .. Buffer
    BY DEF Hear, Receive, Ready, Unread
  <1>4. stream[c].read + 1 \in 1 .. Len(forwarded[stream[c].at])
    BY <1>2, <1>3, BufferIsPositive
  <1>5. NextEvent(c) \in Entries /\ stream[c].read + 1 \in DOMAIN forwarded[stream[c].at]
    BY <1>2, <1>4 DEF NextEvent
  <1>6. /\ stream' = [stream EXCEPT ![c].read = @ + 1] /\ DiaryKept /\ UNCHANGED sees
        /\ UNCHANGED <<channel, listener, forwarded>>
    BY DEF Hear, Receive, DiaryKept
  <1> DEFINE k == stream[c].read + 1
  <1>7. stream' = [stream EXCEPT ![c].pc = "open", ![c].read = k]
    <2>1. [stream[c] EXCEPT !.read = @ + 1] = [stream[c] EXCEPT !.pc = "open", !.read = stream[c].read + 1]
      BY <1>1 DEF Stream
    <2> QED  BY <1>6, <2>1 DEF Shape, DiaryTypeOK, EventsTypeOK
  <1>0. k \in Nat /\ k <= Len(forwarded[stream[c].at]) /\ k = stream[c].read + 1
    BY <1>2, <1>4
  <1> HIDE DEF k
  <1>8. /\ EventsTypeOK' /\ Connected'
        /\ stream'[c].read = k /\ stream'[c].at = stream[c].at
        /\ stream'[c].jobs = stream[c].jobs
        /\ \A d \in Clients \ {c} : stream'[d] = stream[d]
    BY <1>1, <1>6, <1>7, <1>0, ReadUpTo
  <1>9. screen' \in [Clients -> [Entries -> Nat]] /\ excused' \subseteq Clients \X Entries
    <2>1. CASE Refetch(c, {NextEvent(c)})
      <3>1. {NextEvent(c)} \subseteq Entries  BY <1>5
      <3> QED  BY <2>1, <3>1, Refetched
    <2>2. CASE UNCHANGED <<screen, excused>>
      BY <2>2 DEF Shape, DiaryTypeOK
    <2> QED  BY <2>1, <2>2 DEF Hear
  <1>10. Shape'
    BY <1>6, <1>8, <1>9, ShapeOfTab DEF Shape, DiaryTypeOK
  <1> QED  BY <1>1, <1>5, <1>6, <1>8, <1>10, <1>0

LEMMA FallBehindShape ==
    ASSUME Shape, NEW c \in Clients, FallBehind(c)
    PROVE  /\ Shape' /\ DiaryKept
           /\ UNCHANGED <<channel, listener, forwarded, screen>>
           /\ stream[c].pc = "open" /\ stream[c].at \in Instances
           /\ stream'[c].jobs = stream[c].jobs /\ stream'[c].at = stream[c].at
           /\ stream'[c].read = Len(forwarded[stream[c].at]) - Buffer
           /\ \A d \in Clients \ {c} : stream'[d] = stream[d]
           /\ excused \subseteq excused'
           /\ \A k \in stream[c].read + 1 .. Len(forwarded[stream[c].at]) - Buffer :
                 <<c, forwarded[stream[c].at][k]>> \in excused'
  <1> DEFINE f == forwarded[stream[c].at]
             k == Len(f) - Buffer
  <1>1. stream[c] \in Stream /\ stream[c].pc = "open" /\ stream[c].at \in Instances
    BY DEF FallBehind, Lag, Shape, DiaryTypeOK, EventsTypeOK, Connected
  <1>2. f \in Seq(Entries) /\ stream[c].read \in Nat
    BY <1>1 DEF Shape, DiaryTypeOK, EventsTypeOK, Stream
  <1>3. k \in Nat /\ k <= Len(f)
    BY <1>2, BufferIsPositive DEF FallBehind, Lag, Unread
  <1>4. /\ stream' = [stream EXCEPT ![c].read = k] /\ DiaryKept /\ UNCHANGED <<sees, screen>>
        /\ UNCHANGED <<channel, listener, forwarded>>
        /\ excused' = excused \cup ({c} \X EntriesIn(f, stream[c].read + 1, k))
    BY DEF FallBehind, Lag, DiaryKept
  <1> HIDE DEF k
  <1>5. stream' = [stream EXCEPT ![c].pc = "open", ![c].read = k]
    <2>1. [stream[c] EXCEPT !.read = k] = [stream[c] EXCEPT !.pc = "open", !.read = k]
      BY <1>1 DEF Stream
    <2> QED  BY <1>4, <2>1 DEF Shape, DiaryTypeOK, EventsTypeOK
  <1>6. /\ EventsTypeOK' /\ Connected'
        /\ stream'[c].read = k /\ stream'[c].at = stream[c].at
        /\ stream'[c].jobs = stream[c].jobs
        /\ \A d \in Clients \ {c} : stream'[d] = stream[d]
    BY <1>1, <1>3, <1>4, <1>5, ReadUpTo
  <1>7. /\ \A n \in stream[c].read + 1 .. k : f[n] \in Entries
        /\ \A n \in stream[c].read + 1 .. k : <<c, f[n]>> \in excused'
    BY <1>2, <1>3, <1>4 DEF EntriesIn
  <1>8. excused' \subseteq Clients \X Entries /\ excused \subseteq excused'
    BY <1>4, <1>7 DEF EntriesIn, Shape, DiaryTypeOK
  <1>9. Shape'
    BY <1>4, <1>6, <1>8, ShapeOfTab DEF Shape, DiaryTypeOK
  <1> QED  BY <1>1, <1>4, <1>6, <1>7, <1>8, <1>9 DEF k

LEMMA LeaveShape ==
    ASSUME Shape, NEW c \in Clients, Leave(c)
    PROVE  Shape' /\ stream'[c].pc = "off" /\ \A d \in Clients \ {c} : stream'[d] = stream[d]
  <1>1. /\ stream' = [stream EXCEPT ![c] = Off]
        /\ UNCHANGED <<channel, listener, forwarded>>
    BY DEF Leave, Disconnect
  <1>2. /\ EventsTypeOK' /\ Connected'
        /\ stream'[c] = Off /\ \A d \in Clients \ {c} : stream'[d] = stream[d]
    BY <1>1, OffIsOff, StreamBecomes
  <1>3. Shape'
    BY <1>2, ShapeOfTab DEF Leave, DiaryKept, Shape, DiaryTypeOK
  <1> QED  BY <1>2, <1>3, OffIsOff

\* The listener passes one event on.
LEMMA ForwardShape ==
    ASSUME Shape, NEW i \in Instances, ForwardEvent(i)
    PROVE  /\ Shape' /\ DiaryKept /\ UNCHANGED <<channel, stream, screen, excused>>
           /\ listener'[i] = listener[i] + 1 /\ listener[i] + 1 \in 1 .. Len(channel)
           /\ Len(forwarded'[i]) = Len(forwarded[i]) + 1
           /\ forwarded'[i][Len(forwarded[i]) + 1] = channel[listener[i] + 1]
           /\ \A k \in 1 .. Len(forwarded[i]) : forwarded'[i][k] = forwarded[i][k]
           /\ \A j \in Instances \ {i} : listener'[j] = listener[j] /\ forwarded'[j] = forwarded[j]
  <1>1. /\ listener[i] < Len(channel)
        /\ listener' = [listener EXCEPT ![i] = @ + 1]
        /\ forwarded' = [forwarded EXCEPT ![i] = Append(@, channel[listener[i] + 1])]
        /\ DiaryKept /\ UNCHANGED <<channel, stream, sees, screen, excused>>
    BY DEF ForwardEvent, Forward, DiaryKept
  <1>2. /\ channel \in Seq(Entries) /\ listener \in [Instances -> 0 .. Len(channel)]
        /\ forwarded \in [Instances -> Seq(Entries)]
        /\ \A j \in Instances : Len(forwarded[j]) <= listener[j]
    BY DEF Shape, DiaryTypeOK, EventsTypeOK
  <1>3. listener[i] \in Nat /\ Len(channel) \in Nat /\ listener[i] + 1 \in 1 .. Len(channel)
    BY <1>1, <1>2
  <1>4. channel[listener[i] + 1] \in Entries  BY <1>2, <1>3
  <1> DEFINE f == Append(forwarded[i], channel[listener[i] + 1])
  <1>5. /\ f \in Seq(Entries) /\ Len(f) = Len(forwarded[i]) + 1
        /\ f[Len(forwarded[i]) + 1] = channel[listener[i] + 1]
        /\ \A k \in 1 .. Len(forwarded[i]) : f[k] = forwarded[i][k]
    BY <1>2, <1>4
  <1> HIDE DEF f
  <1>6. /\ forwarded' \in [Instances -> Seq(Entries)] /\ forwarded'[i] = f
        /\ \A j \in Instances \ {i} : forwarded'[j] = forwarded[j]
    BY <1>1, <1>2, <1>5 DEF f
  <1>7. /\ listener' \in [Instances -> 0 .. Len(channel)] /\ listener'[i] = listener[i] + 1
        /\ \A j \in Instances \ {i} : listener'[j] = listener[j]
    BY <1>1, <1>2, <1>3
  <1>8. \A j \in Instances : Len(forwarded'[j]) <= listener'[j]
    <2> SUFFICES ASSUME NEW j \in Instances PROVE Len(forwarded'[j]) <= listener'[j]
      OBVIOUS
    <2>1. Len(forwarded[j]) \in Nat /\ listener[j] \in Nat /\ Len(forwarded[j]) <= listener[j]
      BY <1>2
    <2> QED  BY <1>5, <1>6, <1>7, <2>1
  <1>9. EventsTypeOK'
    BY <1>1, <1>2, <1>6, <1>7, <1>8 DEF Shape, DiaryTypeOK, EventsTypeOK
  <1>10. Connected'
    <2> SUFFICES ASSUME NEW c \in Clients
                 PROVE  /\ stream[c].pc # "off" => stream[c].at \in Instances
                        /\ stream[c].pc = "open" => stream[c].read <= Len(forwarded'[stream[c].at])
      BY <1>1 DEF Connected
    <2>1. CASE stream[c].pc = "open"
      <3>1. /\ stream[c].at \in Instances /\ stream[c].read \in Nat
            /\ stream[c].read <= Len(forwarded[stream[c].at])
        BY <2>1 DEF Shape, DiaryTypeOK, EventsTypeOK, Connected, Stream
      <3>2. Len(forwarded[stream[c].at]) \in Nat  BY <1>2, <3>1
      <3> QED  BY <1>5, <1>6, <2>1, <3>1, <3>2
    <2>2. CASE stream[c].pc # "open"  BY <2>2 DEF Shape, Connected
    <2> QED  BY <2>1, <2>2
  <1>11. Shape'
    BY <1>1, <1>9, <1>10, ShapeOfTab DEF Shape, DiaryTypeOK
  <1> QED  BY <1>1, <1>3, <1>5, <1>6, <1>7, <1>11

\* The listener has lost its connection and starts where the channel resumed.
LEMMA InterruptShape ==
    ASSUME Shape, NEW i \in Instances, Interrupt(i)
    PROVE  /\ Shape' /\ DiaryKept /\ UNCHANGED <<channel, forwarded, stream, screen>>
           /\ listener'[i] \in listener[i] + 1 .. Len(channel)
           /\ \A j \in Instances \ {i} : listener'[j] = listener[j]
           /\ excused \subseteq excused'
           /\ \A c \in Clients, k \in listener[i] + 1 .. listener'[i] :
                 stream[c].at = i => <<c, channel[k]>> \in excused'
  <1>1. PICK resumed \in 1 .. Len(channel) :
           /\ Interrupted(i, resumed)
           /\ excused' = excused \cup ({c \in Clients : stream[c].at = i}
                                         \X EntriesIn(channel, listener[i] + 1, resumed))
    BY DEF Interrupt
  <1>2. /\ channel \in Seq(Entries) /\ listener \in [Instances -> 0 .. Len(channel)]
        /\ forwarded \in [Instances -> Seq(Entries)]
        /\ \A j \in Instances : Len(forwarded[j]) <= listener[j]
    BY DEF Shape, DiaryTypeOK, EventsTypeOK
  <1>3. /\ resumed \in listener[i] + 1 .. Len(channel)
        /\ listener' = [listener EXCEPT ![i] = resumed]
        /\ DiaryKept /\ UNCHANGED <<channel, forwarded, stream, sees, screen>>
    BY <1>1 DEF Interrupt, Interrupted, DiaryKept
  <1>4. listener[i] \in Nat /\ Len(channel) \in Nat  BY <1>2
  <1>5. /\ listener' \in [Instances -> 0 .. Len(channel)] /\ listener'[i] = resumed
        /\ \A j \in Instances \ {i} : listener'[j] = listener[j]
    BY <1>2, <1>3, <1>4
  <1>6. \A j \in Instances : Len(forwarded[j]) <= listener'[j]
    <2> SUFFICES ASSUME NEW j \in Instances PROVE Len(forwarded[j]) <= listener'[j]
      OBVIOUS
    <2>1. Len(forwarded[j]) \in Nat /\ listener[j] \in Nat /\ Len(forwarded[j]) <= listener[j]
      BY <1>2
    <2> QED  BY <1>3, <1>4, <1>5, <2>1
  <1>7. EventsTypeOK' /\ Connected'
    BY <1>2, <1>3, <1>5, <1>6 DEF Shape, DiaryTypeOK, EventsTypeOK, Connected
  <1>8. /\ \A k \in listener[i] + 1 .. resumed : channel[k] \in Entries
        /\ \A c \in Clients, k \in listener[i] + 1 .. resumed :
              stream[c].at = i => <<c, channel[k]>> \in excused'
    BY <1>1, <1>2, <1>3, <1>4 DEF EntriesIn
  <1>9. excused' \subseteq Clients \X Entries /\ excused \subseteq excused'
    BY <1>1, <1>8 DEF EntriesIn, Shape, DiaryTypeOK
  <1>10. Shape'
    BY <1>3, <1>7, <1>9, ShapeOfTab DEF Shape, DiaryTypeOK
  <1> QED  BY <1>3, <1>5, <1>8, <1>9, <1>10

\* An instance comes back with no client and an empty buffer.
LEMMA RestartShape ==
    ASSUME Shape, NEW i \in Instances, RestartInstance(i)
    PROVE  /\ Shape' /\ DiaryKept /\ UNCHANGED <<channel, screen, excused>>
           /\ \A j \in Instances \ {i} : listener'[j] = listener[j] /\ forwarded'[j] = forwarded[j]
           /\ \A c \in Clients : \/ stream'[c].pc = "off"
                                 \/ stream[c].at # i /\ stream'[c] = stream[c]
  <1>1. /\ listener' = [listener EXCEPT ![i] = Len(channel)]
        /\ forwarded' = [forwarded EXCEPT ![i] = <<>>]
        /\ stream' = [c \in Clients |-> IF stream[c].at = i THEN Off ELSE stream[c]]
        /\ DiaryKept /\ UNCHANGED <<channel, sees, screen, excused>>
    BY DEF RestartInstance, Restart, DiaryKept
  <1>2. /\ channel \in Seq(Entries) /\ listener \in [Instances -> 0 .. Len(channel)]
        /\ forwarded \in [Instances -> Seq(Entries)] /\ stream \in [Clients -> Stream]
        /\ \A j \in Instances : Len(forwarded[j]) <= listener[j]
    BY DEF Shape, DiaryTypeOK, EventsTypeOK
  <1>3. /\ listener' \in [Instances -> 0 .. Len(channel)] /\ listener'[i] = Len(channel)
        /\ \A j \in Instances \ {i} : listener'[j] = listener[j]
    BY <1>1, <1>2
  <1>4. /\ forwarded' \in [Instances -> Seq(Entries)] /\ Len(forwarded'[i]) = 0
        /\ \A j \in Instances \ {i} : forwarded'[j] = forwarded[j]
    BY <1>1, <1>2
  <1>5. \A c \in Clients : \/ stream'[c].pc = "off" /\ stream'[c] \in Stream
                           \/ stream[c].at # i /\ stream'[c] = stream[c]
    BY <1>1, OffIsOff
  <1>6. stream' \in [Clients -> Stream]  BY <1>1, <1>2, OffIsOff
  <1>7. \A j \in Instances : Len(forwarded'[j]) <= listener'[j]
    BY <1>2, <1>3, <1>4
  <1>8. EventsTypeOK'
    BY <1>1, <1>2, <1>3, <1>4, <1>6, <1>7 DEF EventsTypeOK
  <1>9. Connected'
    BY <1>4, <1>5 DEF Shape, Connected
  <1>10. Shape'
    BY <1>1, <1>8, <1>9, ShapeOfTab DEF Shape, DiaryTypeOK
  <1> QED  BY <1>1, <1>3, <1>4, <1>5, <1>10

-----------------------------------------------------------------------------
(* The order of the notes. *)

\* An id that is there, or on its way, or was.
Used(n) == n \in Earlier \/ \E r \in Authors : edit[r].note = n

\* A request has no note before it has placed one.
Unplaced == \A r \in Authors : edit[r].pc \in {"idle", "found"} => edit[r].note = NoNote

\* Only used notes are there, or come before or after others.
UsedOnly ==
    /\ \A n \in Notes : There(n) => Used(n)
    /\ \A pair \in before : Used(pair[1]) /\ Used(pair[2])

\* A note that waits for its commit: its id is its request's, it comes before
\* nothing and after everything that was there.
PlacedLast ==
    \A r \in Authors : edit[r].pc = "commit" =>
        /\ \A q \in Authors \ {r} : edit[q].note # edit[r].note
        /\ ~There(edit[r].note)
        /\ \A pair \in before :
              /\ pair[1] # edit[r].note
              /\ pair[2] = edit[r].note /\ There(pair[1]) /\ {pair[1], pair[2]} \cap given = {}
                    => note[pair[1]].order < edit[r].order

OrderInv == Shape /\ Bounded /\ Unplaced /\ UsedOnly /\ PlacedLast /\ NotesInTheOrderWritten

LEMMA OrderInvInit == DiaryInit => OrderInv
  <1> SUFFICES ASSUME DiaryInit PROVE OrderInv
    OBVIOUS
  <1>1. Shape  BY ShapeInit
  <1>2. Bounded
    <2>1. \A n \in Notes : There(n) => note[n].order = 0
      BY DEF DiaryInit, There
    <2>2. \A n \in Notes : There(n) => note[n].order <= 0
      BY <2>1
    <2> QED  BY <2>2 DEF Bounded
  <1>3. Unplaced /\ UsedOnly  BY DEF DiaryInit, Unplaced, UsedOnly, Used
  <1>4. PlacedLast /\ NotesInTheOrderWritten
    <2>1. \A r \in Authors : edit[r].pc = "idle"  BY DEF DiaryInit
    <2> QED  BY <2>1 DEF DiaryInit, PlacedLast, NotesInTheOrderWritten
  <1> QED  BY <1>1, <1>2, <1>3, <1>4 DEF OrderInv

\* Rows that stay keep their position or are given one; requests keep their note.
LEMMA OrderKept ==
    ASSUME OrderInv, Shape', before' = before, given \subseteq given',
           \A q \in Authors : /\ edit'[q].note = edit[q].note
                              /\ edit'[q].pc = "commit" => edit'[q] = edit[q]
                              /\ edit'[q].pc \in {"idle", "found"}
                                    => edit[q].pc \in {"idle", "found"},
           \A n \in Notes : note'[n] # NoNote =>
              There(n) /\ (note'[n].order = note[n].order \/ (n \in given' /\ note'[n].order = 0))
    PROVE  OrderInv'
  <1>1. Bounded'
    <2>1. PICK b \in Nat : \A n \in Notes : There(n) => note[n].order <= b
      BY DEF OrderInv, Bounded
    <2>2. \A n \in Notes : note'[n] # NoNote => note'[n].order <= b
      BY <2>1
    <2> QED  BY <2>1, <2>2 DEF Bounded, There
  <1>2. Unplaced' /\ UsedOnly'  BY DEF OrderInv, Unplaced, UsedOnly, Used, There
  <1>3. before \subseteq Notes \X Notes  BY DEF OrderInv, Shape, DiaryTypeOK
  <1>4. PlacedLast'
    <2> SUFFICES ASSUME NEW r \in Authors, edit'[r].pc = "commit"
                 PROVE  /\ \A q \in Authors \ {r} : edit'[q].note # edit'[r].note
                        /\ note'[edit'[r].note] = NoNote
                        /\ \A pair \in before :
                              /\ pair[1] # edit'[r].note
                              /\ pair[2] = edit'[r].note /\ note'[pair[1]] # NoNote
                                    /\ {pair[1], pair[2]} \cap given' = {}
                                    => note'[pair[1]].order < edit'[r].order
      BY DEF PlacedLast, There
    <2>1. edit'[r] = edit[r] /\ edit[r].pc = "commit" /\ edit[r].note \in Notes
      BY DEF OrderInv, Shape, Placed
    <2> QED  BY <1>3, <2>1 DEF OrderInv, PlacedLast, There
  <1>5. NotesInTheOrderWritten'
    <2> SUFFICES ASSUME NEW pair \in before, note'[pair[1]] # NoNote, note'[pair[2]] # NoNote,
                        {pair[1], pair[2]} \cap given' = {}
                 PROVE  note'[pair[1]].order < note'[pair[2]].order
      BY DEF NotesInTheOrderWritten, There
    <2> QED  BY <1>3 DEF OrderInv, NotesInTheOrderWritten, There
  <1> QED  BY <1>1, <1>2, <1>4, <1>5 DEF OrderInv

LEMMA OrderOfEdit ==
    ASSUME OrderInv, NEW r \in Authors, EditStep(r)
    PROVE  OrderInv'
  <1>1. Shape'  BY ShapeOfEdit DEF OrderInv
  <1>2. \A q \in Authors : /\ edit'[q].note = edit[q].note
                           /\ edit'[q].pc = "commit" => edit'[q] = edit[q]
                           /\ edit'[q].pc \in {"idle", "found"}
                                 => edit[q].pc \in {"idle", "found"}
    BY DEF EditStep
  <1> QED  BY <1>1, <1>2, OrderKept DEF EditStep

\* The diary as it was: the steps of clients and instances.
LEMMA OrderOfTab ==
    ASSUME OrderInv, Shape', DiaryKept
    PROVE  OrderInv'
  <1>1. before' = before /\ given \subseteq given' /\ edit' = edit /\ note' = note
    BY DEF DiaryKept
  <1> QED  BY <1>1, OrderKept DEF There

LEMMA OrderOfAnnounce ==
    ASSUME OrderInv, NEW r \in Authors, Announce(r)
    PROVE  OrderInv'
  <1>1. /\ Shape' /\ edit'[r].pc = "done" /\ edit'[r].note = edit[r].note
        /\ \A q \in Authors \ {r} : edit'[q] = edit[q]
    BY AnnounceShape DEF OrderInv
  <1>2. \A q \in Authors : /\ edit'[q].note = edit[q].note
                           /\ edit'[q].pc = "commit" => edit'[q] = edit[q]
                           /\ edit'[q].pc \in {"idle", "found"}
                                 => edit[q].pc \in {"idle", "found"}
    BY <1>1
  <1>3. before' = before /\ given' = given /\ note' = note
    BY DEF Announce
  <1> QED  BY <1>1, <1>2, <1>3, OrderKept DEF There

\* A note is placed: its id is new and its position after all that are there.
LEMMA OrderOfAdd ==
    ASSUME OrderInv, NEW r \in Authors, AddNote(r)
    PROVE  OrderInv'
  <1>1. Shape' /\ note' = note
    BY ShapeOfAdd DEF OrderInv, AddNote
  <1>2. CASE edit[r].entry \notin entry
    <2>1. Finish(r) /\ UNCHANGED <<given, before>>  BY <1>2 DEF AddNote
    <2>2. /\ edit'[r].pc = "done" /\ edit'[r].note = edit[r].note
          /\ \A q \in Authors \ {r} : edit'[q] = edit[q]
      BY <2>1, EditGoesTo DEF Finish, OrderInv
    <2>3. \A q \in Authors : /\ edit'[q].note = edit[q].note
                             /\ edit'[q].pc = "commit" => edit'[q] = edit[q]
                             /\ edit'[q].pc \in {"idle", "found"}
                                   => edit[q].pc \in {"idle", "found"}
      BY <2>2
    <2> QED  BY <1>1, <2>1, <2>3, OrderKept DEF There
  <1>3. CASE edit[r].entry \in entry
    <2> DEFINE e == edit[r].entry
    <2>1. PICK n \in NextNote, chosen \in BOOLEAN :
              /\ given' = IF chosen THEN given \cup {n} ELSE given
              /\ before' = before \cup (NotesOf(edit[r].entry) \X {n})
              /\ edit' \in [Authors -> Edit]
              /\ \A q \in Authors \ {r} : edit'[q] = edit[q]
              /\ edit'[r].pc = "commit" /\ edit'[r].note = n
              /\ edit'[r].order = IF chosen THEN 0 ELSE NextOrder(edit[r].entry)
      BY <1>3, PlacingShape DEF OrderInv
    <2>2. n \in Notes /\ Unused(n)  BY DEF NextNote
    <2>3. n \notin Earlier /\ \A q \in Authors : edit[q].note # n
      BY <2>2, NotesAreInOrder DEF Unused
    <2>4. ~Used(n)  BY <2>3 DEF Used
    <2>5. ~There(n) /\ \A pair \in before : pair[1] # n /\ pair[2] # n
      BY <2>2, <2>4 DEF OrderInv, UsedOnly
    <2>6. before \subseteq Notes \X Notes /\ NotesOf(e) \subseteq {m \in Notes : There(m)}
      BY DEF OrderInv, Shape, DiaryTypeOK, NotesOf
    <2>7. Bounded'  BY <1>1 DEF OrderInv, Bounded, There
    <2>8. edit[r].note = NoNote
      BY DEF AddNote, OrderInv, Unplaced
    <2>9. Unplaced'
      BY <2>1 DEF OrderInv, Unplaced
    <2>10. \A m \in Notes : Used(m) => Used(m)'
      BY <2>1, <2>8, NoNoteIsNone DEF Used
    <2>11. Used(n)'  BY <2>1 DEF Used
    <2>12. UsedOnly'
      <3>1. \A m \in Notes : There(m)' => Used(m)'
        BY <1>1, <2>10 DEF OrderInv, UsedOnly, There
      <3>2. ASSUME NEW pair \in before' PROVE Used(pair[1])' /\ Used(pair[2])'
        <4>1. CASE pair \in before
          BY <2>6, <2>10, <4>1 DEF OrderInv, UsedOnly
        <4>2. CASE pair \in NotesOf(e) \X {n}
          BY <2>6, <2>10, <2>11, <4>2 DEF OrderInv, UsedOnly
        <4> QED  BY <2>1, <3>2, <4>1, <4>2
      <3> QED  BY <3>1, <3>2 DEF UsedOnly
    <2>13. \A pair \in before' : \/ pair \in before
                                 \/ pair[1] \in NotesOf(e) /\ pair[2] = n
      BY <2>1
    <2>14. PlacedLast'
      <3> SUFFICES ASSUME NEW q \in Authors, edit'[q].pc = "commit"
                   PROVE  /\ \A p \in Authors \ {q} : edit'[p].note # edit'[q].note
                          /\ note[edit'[q].note] = NoNote
                          /\ \A pair \in before' :
                                /\ pair[1] # edit'[q].note
                                /\ pair[2] = edit'[q].note /\ note[pair[1]] # NoNote
                                      /\ {pair[1], pair[2]} \cap given' = {}
                                      => note[pair[1]].order < edit'[q].order
        BY <1>1 DEF PlacedLast, There
      <3>1. CASE q = r
        <4>1. \A p \in Authors \ {q} : edit'[p].note # n
          BY <2>1, <2>3, <3>1
        <4>2. ASSUME NEW pair \in before'
              PROVE  /\ pair[1] # n
                     /\ pair[2] = n /\ {pair[1], pair[2]} \cap given' = {}
                           => note[pair[1]].order < edit'[q].order
          <5>1. CASE pair \in before  BY <2>5, <5>1
          <5>2. ASSUME pair[1] \in NotesOf(e) PROVE pair[1] # n
            BY <2>5, <2>6, <5>2
          <5>3. ASSUME pair[1] \in NotesOf(e), pair[2] = n, {pair[1], pair[2]} \cap given' = {}
                PROVE  note[pair[1]].order < edit'[q].order
            <6>1. ~chosen  BY <2>1, <5>3
            <6>2. e \in Entries
              BY DEF OrderInv, Shape, DiaryTypeOK, Edit
            <6>3. \A m \in NotesOf(e) : note[m].order < NextOrder(e)
              BY <6>2, NextOrderIsNext DEF OrderInv
            <6> QED  BY <2>1, <3>1, <5>3, <6>1, <6>3
          <5> QED  BY <2>13, <4>2, <5>1, <5>2, <5>3
        <4> QED  BY <2>1, <2>5, <3>1, <4>1, <4>2 DEF There
      <3>2. CASE q # r
        <4>1. /\ edit'[q] = edit[q] /\ edit[q].pc = "commit"
              /\ edit[q].note \in Notes /\ edit[q].note # n
          BY <2>1, <2>3, <3>2 DEF OrderInv, Shape, Placed
        <4>2. \A p \in Authors \ {q} : edit'[p].note # edit[q].note
          BY <2>1, <4>1 DEF OrderInv, PlacedLast
        <4>3. ~There(edit[q].note)  BY <4>1 DEF OrderInv, PlacedLast
        <4>4. ASSUME NEW pair \in before'
              PROVE  /\ pair[1] # edit[q].note
                     /\ pair[2] = edit[q].note /\ note[pair[1]] # NoNote
                           /\ {pair[1], pair[2]} \cap given' = {}
                           => note[pair[1]].order < edit[q].order
          <5>1. CASE pair \in before
            BY <2>1, <4>1, <5>1 DEF OrderInv, PlacedLast, There
          <5>2. CASE pair[1] \in NotesOf(e) /\ pair[2] = n
            BY <2>6, <4>1, <4>3, <5>2
          <5> QED  BY <2>13, <4>4, <5>1, <5>2
        <4> QED  BY <4>1, <4>2, <4>3, <4>4 DEF There
      <3> QED  BY <3>1, <3>2
    <2>15. NotesInTheOrderWritten'
      <3> SUFFICES ASSUME NEW pair \in before', note[pair[1]] # NoNote, note[pair[2]] # NoNote,
                          {pair[1], pair[2]} \cap given' = {}
                   PROVE  note[pair[1]].order < note[pair[2]].order
        BY <1>1 DEF NotesInTheOrderWritten, There
      <3>1. pair \in before  BY <2>5, <2>13 DEF There
      <3> QED  BY <2>1, <3>1 DEF OrderInv, NotesInTheOrderWritten, There
    <2> QED  BY <1>1, <2>7, <2>9, <2>12, <2>14, <2>15 DEF OrderInv
  <1> QED  BY <1>2, <1>3

\* The placed note is committed: it comes after what was there when it was
\* placed, and before nothing.
LEMMA OrderOfCommit ==
    ASSUME OrderInv, NEW r \in Authors, CommitNote(r)
    PROVE  OrderInv'
  <1> DEFINE n == edit[r].note
  <1>1. /\ Shape' /\ edit[r].pc = "commit" /\ n \in Notes
        /\ edit'[r].pc = "announce" /\ edit'[r].note = n
        /\ \A q \in Authors \ {r} : edit'[q] = edit[q]
        /\ note'[n].order = edit[r].order /\ edit[r].order \in Nat
        /\ \A m \in Notes \ {n} : note'[m] = note[m]
    BY CommitShape DEF OrderInv
  <1>2. before' = before /\ given' = given /\ before \subseteq Notes \X Notes
    BY DEF CommitNote, OrderInv, Shape, DiaryTypeOK
  <1>3. Bounded'
    <2>1. PICK b \in Nat : \A m \in Notes : There(m) => note[m].order <= b
      BY DEF OrderInv, Bounded
    <2> DEFINE top == IF edit[r].order <= b THEN b ELSE edit[r].order
    <2>2. top \in Nat /\ b <= top /\ edit[r].order <= top  BY <1>1
    <2> HIDE DEF top
    <2>3. ASSUME NEW m \in Notes, note'[m] # NoNote PROVE note'[m].order <= top
      <3>1. CASE m = n  BY <1>1, <2>2, <3>1
      <3>2. CASE m # n
        <4>1. note'[m] = note[m] /\ There(m)  BY <1>1, <2>3, <3>2 DEF There
        <4>2. note[m].order \in Nat /\ note[m].order <= b
          BY <2>1, <4>1 DEF OrderInv, Shape, DiaryTypeOK, Note, There
        <4> QED  BY <2>2, <4>1, <4>2
      <3> QED  BY <3>1, <3>2
    <2> QED  BY <2>2, <2>3 DEF Bounded, There
  <1>4. Unplaced'  BY <1>1 DEF OrderInv, Unplaced
  <1>5. UsedOnly'
    <2>1. \A m \in Notes : Used(m) => Used(m)'  BY <1>1 DEF Used
    <2>2. Used(n)'  BY <1>1 DEF Used
    <2> QED  BY <1>1, <1>2, <2>1, <2>2 DEF OrderInv, UsedOnly, There
  <1>6. \A pair \in before : pair[1] # n
    BY <1>1 DEF OrderInv, PlacedLast
  <1>7. PlacedLast'
    <2> SUFFICES ASSUME NEW q \in Authors, edit'[q].pc = "commit"
                 PROVE  /\ \A p \in Authors \ {q} : edit'[p].note # edit'[q].note
                        /\ note'[edit'[q].note] = NoNote
                        /\ \A pair \in before :
                              /\ pair[1] # edit'[q].note
                              /\ pair[2] = edit'[q].note /\ note'[pair[1]] # NoNote
                                    /\ {pair[1], pair[2]} \cap given = {}
                                    => note'[pair[1]].order < edit'[q].order
      BY <1>2 DEF PlacedLast, There
    <2>1. q # r /\ edit'[q] = edit[q] /\ edit[q].pc = "commit" /\ edit[q].note \in Notes
      BY <1>1 DEF OrderInv, Shape, Placed
    <2>2. edit[q].note # n
      BY <1>1, <2>1 DEF OrderInv, PlacedLast
    <2>3. \A p \in Authors \ {q} : edit'[p].note # edit[q].note
      BY <1>1, <2>1 DEF OrderInv, PlacedLast
    <2>4. note'[edit[q].note] = NoNote
      BY <1>1, <2>1, <2>2 DEF OrderInv, PlacedLast, There
    <2>5. \A pair \in before : note'[pair[1]] = note[pair[1]]
      BY <1>1, <1>2, <1>6
    <2> QED  BY <1>2, <2>1, <2>3, <2>4, <2>5 DEF OrderInv, PlacedLast, There
  <1>8. NotesInTheOrderWritten'
    <2> SUFFICES ASSUME NEW pair \in before, note'[pair[1]] # NoNote, note'[pair[2]] # NoNote,
                        {pair[1], pair[2]} \cap given = {}
                 PROVE  note'[pair[1]].order < note'[pair[2]].order
      BY <1>2 DEF NotesInTheOrderWritten, There
    <2>1. note'[pair[1]] = note[pair[1]] /\ There(pair[1])  BY <1>1, <1>2, <1>6 DEF There
    <2>2. CASE pair[2] = n
      BY <1>1, <2>1, <2>2 DEF OrderInv, PlacedLast
    <2>3. CASE pair[2] # n
      BY <1>1, <1>2, <2>1, <2>3 DEF OrderInv, NotesInTheOrderWritten, There
    <2> QED  BY <2>2, <2>3
  <1> QED  BY <1>1, <1>3, <1>4, <1>5, <1>7, <1>8 DEF OrderInv

-----------------------------------------------------------------------------
(* The screens. *)

\* A change of e will still be told to client c: its request has not announced
\* it, c's instance has not forwarded the event, or c has not read it.
OnItsWay(c, e) ==
    \/ \E r \in Authors : edit[r].pc = "announce" /\ edit[r].entry = e
    \/ \E k \in listener[stream[c].at] + 1 .. Len(channel) : channel[k] = e
    \/ \E k \in stream[c].read + 1 .. Len(forwarded[stream[c].at]) :
          forwarded[stream[c].at][k] = e

CatchesUp(c, e) ==
    stream[c].pc = "open" /\ JobOf[e] \in stream[c].jobs =>
        screen[c][e] = version[e] \/ <<c, e>> \in excused \/ OnItsWay(c, e)

ScreensFollow == \A c \in Clients, e \in Entries : CatchesUp(c, e)

LEMMA ScreensFollowInit == DiaryInit => ScreensFollow
  BY DEF DiaryInit, ScreensFollow, CatchesUp

LEMMA ScreensOfEdit ==
    ASSUME Shape, ScreensFollow, NEW r \in Authors, EditStep(r)
    PROVE  ScreensFollow'
  <1> SUFFICES ASSUME NEW c \in Clients, NEW e \in Entries,
                      stream[c].pc = "open", JobOf[e] \in stream[c].jobs
               PROVE  screen[c][e] = version'[e] \/ <<c, e>> \in excused' \/ OnItsWay(c, e)'
    BY DEF ScreensFollow, CatchesUp, EditStep, eventVars
  <1>1. CASE version'[e] # version[e]
    BY <1>1 DEF EditStep, OnItsWay
  <1>2. CASE version'[e] = version[e]
    <2>1. screen[c][e] = version[e] \/ <<c, e>> \in excused \/ OnItsWay(c, e)
      BY DEF ScreensFollow, CatchesUp
    <2>2. CASE OnItsWay(c, e)
      <3>1. CASE edit[r].pc = "announce" /\ edit[r].entry = e
        BY <3>1 DEF EditStep
      <3>2. CASE ~(edit[r].pc = "announce" /\ edit[r].entry = e)
        BY <2>2, <3>2 DEF EditStep, OnItsWay, eventVars
      <3> QED  BY <3>1, <3>2
    <2> QED  BY <1>2, <2>1, <2>2 DEF EditStep
  <1> QED  BY <1>1, <1>2

LEMMA ScreensOfAdd ==
    ASSUME Shape, Bounded, ScreensFollow, NEW r \in Authors, AddNote(r)
    PROVE  ScreensFollow'
  <1>1. \A q \in Authors : edit[q].pc = "announce" => edit'[q] = edit[q]
    <2>1. CASE edit[r].entry \notin entry
      BY <2>1, EditGoesTo DEF AddNote, Finish
    <2>2. CASE edit[r].entry \in entry
      BY <2>2, PlacingShape DEF AddNote
    <2> QED  BY <2>1, <2>2
  <1>2. UNCHANGED <<version, screen, excused, channel, listener, forwarded, stream>>
    BY DEF AddNote, eventVars
  <1> QED  BY <1>1, <1>2 DEF ScreensFollow, CatchesUp, OnItsWay

LEMMA ScreensOfCommit ==
    ASSUME Shape, ScreensFollow, NEW r \in Authors, CommitNote(r)
    PROVE  ScreensFollow'
  <1>1. /\ edit'[r].pc = "announce" /\ edit'[r].entry = edit[r].entry
        /\ edit[r].pc = "commit" /\ \A q \in Authors \ {r} : edit'[q] = edit[q]
        /\ \A x \in Entries : x # edit[r].entry => version'[x] = version[x]
    BY CommitShape
  <1>2. UNCHANGED <<screen, excused, channel, listener, forwarded, stream>>
    BY DEF CommitNote, eventVars
  <1> QED  BY <1>1, <1>2 DEF ScreensFollow, CatchesUp, OnItsWay

LEMMA ScreensOfAnnounce ==
    ASSUME Shape, ScreensFollow, NEW r \in Authors, Announce(r)
    PROVE  ScreensFollow'
  <1>1. /\ edit'[r].pc = "done" /\ channel' = Append(channel, edit[r].entry)
        /\ edit[r].entry \in Entries
        /\ \A q \in Authors \ {r} : edit'[q] = edit[q]
    BY AnnounceShape
  <1>2. UNCHANGED <<version, screen, excused, listener, forwarded, stream>>
    BY DEF Announce
  <1>3. channel \in Seq(Entries) /\ Len(channel) \in Nat
    BY DEF Shape, DiaryTypeOK, EventsTypeOK
  <1>4. /\ Len(channel') = Len(channel) + 1
        /\ channel'[Len(channel) + 1] = edit[r].entry
        /\ \A k \in 1 .. Len(channel) : channel'[k] = channel[k]
    BY <1>1, <1>3
  <1> SUFFICES ASSUME NEW c \in Clients, NEW e \in Entries,
                      stream[c].pc = "open", JobOf[e] \in stream[c].jobs, OnItsWay(c, e)
               PROVE  OnItsWay(c, e)'
    BY <1>2 DEF ScreensFollow, CatchesUp
  <1>5. stream[c].at \in Instances  BY DEF Shape, Connected
  <1>6. listener[stream[c].at] \in 0 .. Len(channel)
    BY <1>5 DEF Shape, DiaryTypeOK, EventsTypeOK
  <1>7. CASE edit[r].entry = e
    <2>1. Len(channel) + 1 \in listener[stream[c].at] + 1 .. Len(channel')
      BY <1>3, <1>4, <1>6
    <2> QED  BY <1>2, <1>4, <1>7, <2>1 DEF OnItsWay
  <1>8. CASE \E q \in Authors \ {r} : edit[q].pc = "announce" /\ edit[q].entry = e
    BY <1>1, <1>8 DEF OnItsWay
  <1>9. ASSUME NEW k \in listener[stream[c].at] + 1 .. Len(channel), channel[k] = e
        PROVE  OnItsWay(c, e)'
    <2>1. k \in 1 .. Len(channel) /\ k \in listener[stream[c].at] + 1 .. Len(channel')
      BY <1>3, <1>4, <1>6
    <2>2. channel'[k] = e  BY <1>4, <1>9, <2>1
    <2> QED  BY <1>2, <2>1, <2>2 DEF OnItsWay
  <1>10. CASE \E k \in stream[c].read + 1 .. Len(forwarded[stream[c].at]) :
                 forwarded[stream[c].at][k] = e
    BY <1>2, <1>10 DEF OnItsWay
  <1> QED  BY <1>7, <1>8, <1>9, <1>10 DEF OnItsWay

\* Nothing changes for the clients whose connection and screen stay.
LEMMA FollowsKept ==
    ASSUME NEW c \in Clients, NEW e \in Entries, CatchesUp(c, e),
           DiaryKept, UNCHANGED <<channel, listener, forwarded>>,
           stream'[c] = stream[c], screen'[c] = screen[c],
           <<c, e>> \in excused => <<c, e>> \in excused'
    PROVE  CatchesUp(c, e)'
  BY DEF CatchesUp, OnItsWay, DiaryKept

LEMMA ScreensOfConnect ==
    ASSUME Shape, ScreensFollow, NEW c \in Clients, Connect(c) \/ Leave(c) \/ Reassign(c)
    PROVE  ScreensFollow'
  <1>1. /\ stream'[c].pc # "open" \/ stream'[c] = stream[c]
        /\ \A d \in Clients \ {c} : stream'[d] = stream[d]
    BY ConnectShape, LeaveShape DEF Reassign, eventVars
  <1>2. DiaryKept /\ UNCHANGED <<channel, listener, forwarded, screen, excused>>
    BY DEF Connect, Leave, Reassign, Resolve, Disconnect, DiaryKept, eventVars
  <1> SUFFICES ASSUME NEW d \in Clients, NEW e \in Entries PROVE CatchesUp(d, e)'
    BY DEF ScreensFollow
  <1>3. CASE stream'[d] = stream[d]
    BY <1>2, <1>3, FollowsKept DEF ScreensFollow
  <1>4. CASE stream'[d].pc # "open"
    BY <1>4 DEF CatchesUp
  <1> QED  BY <1>1, <1>3, <1>4

LEMMA ScreensOfOpen ==
    ASSUME Shape, ScreensFollow, NEW c \in Clients, Open(c)
    PROVE  ScreensFollow'
  <1>1. /\ DiaryKept /\ UNCHANGED <<channel, listener, forwarded>>
        /\ \A d \in Clients \ {c} : stream'[d] = stream[d] /\ screen'[d] = screen[d]
        /\ \A e \in Entries : screen'[c][e] = version[e] \/ <<c, e>> \in excused'
        /\ \A d \in Clients \ {c}, e \in Entries : <<d, e>> \in excused => <<d, e>> \in excused'
    BY OpenShape
  <1> SUFFICES ASSUME NEW d \in Clients, NEW e \in Entries PROVE CatchesUp(d, e)'
    BY DEF ScreensFollow
  <1>2. CASE d = c
    BY <1>1, <1>2 DEF CatchesUp, DiaryKept
  <1>3. CASE d # c
    BY <1>1, <1>3, FollowsKept DEF ScreensFollow
  <1> QED  BY <1>2, <1>3

LEMMA ScreensOfHear ==
    ASSUME Shape, ScreensFollow, NEW c \in Clients, Hear(c)
    PROVE  ScreensFollow'
  <1> DEFINE f == forwarded[stream[c].at]
             x == NextEvent(c)
  <1>1. /\ DiaryKept /\ UNCHANGED <<channel, listener, forwarded>>
        /\ stream[c].pc = "open" /\ stream[c].at \in Instances
        /\ stream'[c].jobs = stream[c].jobs /\ stream'[c].at = stream[c].at
        /\ stream'[c].read = stream[c].read + 1
        /\ x \in Entries
        /\ \A d \in Clients \ {c} : stream'[d] = stream[d]
    BY HearShape
  <1>2. stream[c].read \in Nat /\ Len(f) \in Nat
    BY <1>1 DEF Shape, DiaryTypeOK, EventsTypeOK, Stream
  <1>3. IF JobOf[x] \in stream[c].jobs THEN Refetch(c, {x}) ELSE UNCHANGED <<screen, excused>>
    BY DEF Hear, Includes
  <1>4. JobOf[x] \in stream[c].jobs =>
           /\ screen'[c][x] = version[x] \/ <<c, x>> \in excused'
           /\ \A e \in Entries \ {x} : screen'[c][e] = screen[c][e]
           /\ \A d \in Clients \ {c} : screen'[d] = screen[d]
           /\ \A d \in Clients, e \in Entries :
                 <<d, e>> \in excused /\ ~(d = c /\ e = x) => <<d, e>> \in excused'
    <2> SUFFICES ASSUME JobOf[x] \in stream[c].jobs
                 PROVE  /\ screen'[c][x] = version[x] \/ <<c, x>> \in excused'
                        /\ \A e \in Entries \ {x} : screen'[c][e] = screen[c][e]
                        /\ \A d \in Clients \ {c} : screen'[d] = screen[d]
                        /\ \A d \in Clients, e \in Entries :
                              <<d, e>> \in excused /\ ~(d = c /\ e = x) => <<d, e>> \in excused'
      OBVIOUS
    <2> DEFINE asked == {x}
    <2>1. asked \subseteq Entries /\ Refetch(c, asked)  BY <1>1, <1>3
    <2>2. x \in asked /\ \A e : e # x => e \notin asked  OBVIOUS
    <2> HIDE DEF asked, x
    <2> QED  BY <2>1, <2>2, Refetched
  <1> SUFFICES ASSUME NEW d \in Clients, NEW e \in Entries PROVE CatchesUp(d, e)'
    BY DEF ScreensFollow
  <1>5. CASE d # c
    BY <1>1, <1>3, <1>4, <1>5, FollowsKept DEF ScreensFollow
  <1>6. CASE d = c /\ e = x
    BY <1>1, <1>4, <1>6 DEF CatchesUp, DiaryKept
  <1>7. CASE d = c /\ e # x
    <2> SUFFICES ASSUME JobOf[e] \in stream[c].jobs
                 PROVE  screen'[c][e] = version[e] \/ <<c, e>> \in excused' \/ OnItsWay(c, e)'
      BY <1>1, <1>7 DEF CatchesUp, DiaryKept
    <2>1. screen'[c][e] = screen[c][e] /\ (<<c, e>> \in excused => <<c, e>> \in excused')
      BY <1>3, <1>4, <1>7
    <2>2. ASSUME OnItsWay(c, e) PROVE OnItsWay(c, e)'
      <3>1. ASSUME NEW k \in stream[c].read + 1 .. Len(f), f[k] = e
            PROVE  k \in stream[c].read + 2 .. Len(f)
        <4>1. f[stream[c].read + 1] = x  BY DEF NextEvent
        <4>2. k # stream[c].read + 1  BY <1>7, <3>1, <4>1
        <4> QED  BY <1>2, <4>2
      <3>2. stream'[c].read + 1 = stream[c].read + 2  BY <1>1, <1>2
      <3>3. edit' = edit  BY <1>1 DEF DiaryKept
      <3>4. CASE \E k \in stream[c].read + 1 .. Len(f) : f[k] = e
        <4>1. PICK k \in stream[c].read + 1 .. Len(f) : f[k] = e  BY <3>4
        <4>2. k \in stream[c].read + 2 .. Len(f)  BY <3>1, <4>1
        <4> QED  BY <1>1, <3>2, <4>1, <4>2 DEF OnItsWay
      <3> QED  BY <1>1, <2>2, <3>3, <3>4 DEF OnItsWay
    <2>3. screen[c][e] = version[e] \/ <<c, e>> \in excused \/ OnItsWay(c, e)
      BY <1>1 DEF ScreensFollow, CatchesUp
    <2> QED  BY <2>1, <2>2, <2>3
  <1> QED  BY <1>5, <1>6, <1>7

LEMMA ScreensOfFallBehind ==
    ASSUME Shape, ScreensFollow, NEW c \in Clients, FallBehind(c)
    PROVE  ScreensFollow'
  <1> DEFINE f == forwarded[stream[c].at]
             to == Len(f) - Buffer
  <1>1. /\ DiaryKept /\ UNCHANGED <<channel, listener, forwarded, screen>>
        /\ stream[c].pc = "open" /\ stream[c].at \in Instances
        /\ stream'[c].jobs = stream[c].jobs /\ stream'[c].at = stream[c].at
        /\ stream'[c].read = to
        /\ \A d \in Clients \ {c} : stream'[d] = stream[d]
        /\ excused \subseteq excused'
        /\ \A k \in stream[c].read + 1 .. to : <<c, f[k]>> \in excused'
    BY FallBehindShape
  <1>2. stream[c].read \in Nat /\ Len(f) \in Nat /\ to \in Int
    BY <1>1, BufferIsPositive DEF Shape, DiaryTypeOK, EventsTypeOK, Stream
  <1> SUFFICES ASSUME NEW d \in Clients, NEW e \in Entries PROVE CatchesUp(d, e)'
    BY DEF ScreensFollow
  <1>3. CASE d # c
    BY <1>1, <1>3, FollowsKept DEF ScreensFollow
  <1>4. CASE d = c
    <2> SUFFICES ASSUME JobOf[e] \in stream[c].jobs
                 PROVE  screen[c][e] = version[e] \/ <<c, e>> \in excused' \/ OnItsWay(c, e)'
      BY <1>1, <1>4 DEF CatchesUp, DiaryKept
    <2>1. ASSUME NEW k \in stream[c].read + 1 .. Len(f), f[k] = e
          PROVE  <<c, e>> \in excused' \/ OnItsWay(c, e)'
      <3>1. CASE k <= to
        <4>1. k \in stream[c].read + 1 .. to  BY <1>2, <3>1
        <4> QED  BY <1>1, <2>1, <4>1
      <3>2. CASE k > to
        <4>1. k \in to + 1 .. Len(f)  BY <1>2, <3>2
        <4> QED  BY <1>1, <2>1, <4>1 DEF OnItsWay
      <3> QED  BY <1>2, <3>1, <3>2
    <2>2. ASSUME OnItsWay(c, e), ~\E k \in stream[c].read + 1 .. Len(f) : f[k] = e
          PROVE  OnItsWay(c, e)'
      BY <1>1, <2>2 DEF OnItsWay, DiaryKept
    <2>3. screen[c][e] = version[e] \/ <<c, e>> \in excused \/ OnItsWay(c, e)
      BY <1>1 DEF ScreensFollow, CatchesUp
    <2> QED  BY <1>1, <2>1, <2>2, <2>3
  <1> QED  BY <1>3, <1>4

LEMMA ScreensOfForward ==
    ASSUME Shape, ScreensFollow, NEW i \in Instances, ForwardEvent(i)
    PROVE  ScreensFollow'
  <1> DEFINE f == forwarded[i]
  <1>1. /\ DiaryKept /\ UNCHANGED <<channel, stream, screen, excused>>
        /\ listener'[i] = listener[i] + 1 /\ listener[i] + 1 \in 1 .. Len(channel)
        /\ Len(forwarded'[i]) = Len(f) + 1
        /\ forwarded'[i][Len(f) + 1] = channel[listener[i] + 1]
        /\ \A k \in 1 .. Len(f) : forwarded'[i][k] = f[k]
        /\ \A j \in Instances \ {i} : listener'[j] = listener[j] /\ forwarded'[j] = forwarded[j]
    BY ForwardShape
  <1>2. Len(f) \in Nat /\ listener[i] \in Nat /\ Len(channel) \in Nat
    BY DEF Shape, DiaryTypeOK, EventsTypeOK
  <1> SUFFICES ASSUME NEW c \in Clients, NEW e \in Entries,
                      stream[c].pc = "open", JobOf[e] \in stream[c].jobs, OnItsWay(c, e)
               PROVE  OnItsWay(c, e)'
    BY <1>1 DEF ScreensFollow, CatchesUp, DiaryKept
  <1>3. /\ stream[c].at \in Instances /\ stream[c].read \in Nat
        /\ stream[c].read <= Len(forwarded[stream[c].at])
    BY DEF Shape, DiaryTypeOK, EventsTypeOK, Connected, Stream
  <1>4. CASE stream[c].at # i
    BY <1>1, <1>3, <1>4 DEF OnItsWay, DiaryKept
  <1>5. CASE stream[c].at = i
    <2>1. CASE \E r \in Authors : edit[r].pc = "announce" /\ edit[r].entry = e
      BY <1>1, <2>1 DEF OnItsWay, DiaryKept
    <2>2. ASSUME NEW k \in listener[i] + 1 .. Len(channel), channel[k] = e
          PROVE  OnItsWay(c, e)'
      <3>1. CASE k = listener[i] + 1
        <4>1. Len(f) + 1 \in stream[c].read + 1 .. Len(forwarded'[i])
          BY <1>1, <1>2, <1>3, <1>5
        <4> QED  BY <1>1, <1>5, <2>2, <3>1, <4>1 DEF OnItsWay
      <3>2. CASE k # listener[i] + 1
        <4>1. k \in listener'[i] + 1 .. Len(channel)  BY <1>1, <1>2, <3>2
        <4> QED  BY <1>1, <1>5, <2>2, <4>1 DEF OnItsWay
      <3> QED  BY <3>1, <3>2
    <2>3. ASSUME NEW k \in stream[c].read + 1 .. Len(f), f[k] = e
          PROVE  OnItsWay(c, e)'
      <3>1. k \in 1 .. Len(f) /\ k \in stream[c].read + 1 .. Len(forwarded'[i])
        BY <1>1, <1>2, <1>3
      <3>2. forwarded'[i][k] = e  BY <1>1, <2>3, <3>1
      <3> QED  BY <1>1, <1>5, <3>1, <3>2 DEF OnItsWay
    <2> QED  BY <1>5, <2>1, <2>2, <2>3 DEF OnItsWay
  <1> QED  BY <1>4, <1>5

LEMMA ScreensOfInterrupt ==
    ASSUME Shape, ScreensFollow, NEW i \in Instances, Interrupt(i)
    PROVE  ScreensFollow'
  <1>1. /\ DiaryKept /\ UNCHANGED <<channel, forwarded, stream, screen>>
        /\ listener'[i] \in listener[i] + 1 .. Len(channel)
        /\ \A j \in Instances \ {i} : listener'[j] = listener[j]
        /\ excused \subseteq excused'
        /\ \A c \in Clients, k \in listener[i] + 1 .. listener'[i] :
              stream[c].at = i => <<c, channel[k]>> \in excused'
    BY InterruptShape
  <1>2. listener[i] \in Nat /\ Len(channel) \in Nat /\ listener'[i] \in Nat
    BY <1>1 DEF Shape, DiaryTypeOK, EventsTypeOK
  <1> SUFFICES ASSUME NEW c \in Clients, NEW e \in Entries,
                      stream[c].pc = "open", JobOf[e] \in stream[c].jobs, OnItsWay(c, e)
               PROVE  <<c, e>> \in excused' \/ OnItsWay(c, e)'
    BY <1>1 DEF ScreensFollow, CatchesUp, DiaryKept
  <1>3. stream[c].at \in Instances  BY DEF Shape, Connected
  <1>4. CASE stream[c].at # i
    BY <1>1, <1>3, <1>4 DEF OnItsWay, DiaryKept
  <1>5. CASE stream[c].at = i
    <2>1. ASSUME NEW k \in listener[i] + 1 .. Len(channel), channel[k] = e
          PROVE  <<c, e>> \in excused' \/ OnItsWay(c, e)'
      <3>1. CASE k <= listener'[i]
        <4>1. k \in listener[i] + 1 .. listener'[i]  BY <1>2, <3>1
        <4> QED  BY <1>1, <1>5, <2>1, <4>1
      <3>2. CASE k > listener'[i]
        <4>1. k \in listener'[i] + 1 .. Len(channel)  BY <1>2, <3>2
        <4> QED  BY <1>1, <1>5, <2>1, <4>1 DEF OnItsWay
      <3> QED  BY <1>2, <3>1, <3>2
    <2>2. ASSUME ~\E k \in listener[i] + 1 .. Len(channel) : channel[k] = e
          PROVE  OnItsWay(c, e)'
      BY <1>1, <1>5, <2>2 DEF OnItsWay, DiaryKept
    <2> QED  BY <2>1, <2>2
  <1> QED  BY <1>4, <1>5

LEMMA ScreensOfRestart ==
    ASSUME Shape, ScreensFollow, NEW i \in Instances, RestartInstance(i)
    PROVE  ScreensFollow'
  <1>1. /\ DiaryKept /\ UNCHANGED <<channel, screen, excused>>
        /\ \A j \in Instances \ {i} : listener'[j] = listener[j] /\ forwarded'[j] = forwarded[j]
        /\ \A c \in Clients : \/ stream'[c].pc = "off"
                              \/ stream[c].at # i /\ stream'[c] = stream[c]
    BY RestartShape
  <1> SUFFICES ASSUME NEW c \in Clients, NEW e \in Entries, stream'[c].pc = "open",
                      JobOf[e] \in stream'[c].jobs
               PROVE  screen'[c][e] = version'[e] \/ <<c, e>> \in excused' \/ OnItsWay(c, e)'
    BY DEF ScreensFollow, CatchesUp
  <1>2. stream[c].at # i /\ stream'[c] = stream[c]  BY <1>1
  <1>3. stream[c].at \in Instances \ {i}  BY <1>2 DEF Shape, Connected
  <1>4. screen[c][e] = version[e] \/ <<c, e>> \in excused \/ OnItsWay(c, e)
    BY <1>2 DEF ScreensFollow, CatchesUp
  <1> QED  BY <1>1, <1>2, <1>3, <1>4 DEF OnItsWay, DiaryKept

-----------------------------------------------------------------------------
(* The steps together, and the theorems. *)

DiaryInv == OrderInv /\ ScreensFollow

LEMMA DiaryInvInit == DiaryInit => DiaryInv
  BY OrderInvInit, ScreensFollowInit DEF DiaryInv

LEMMA EditSteps ==
    ASSUME Shape, NEW r \in Authors,
           \/ Get(r) \/ UpdateNote(r) \/ ArchiveNote(r) \/ DeleteNote(r) \/ UpdateEntry(r)
           \/ DeleteEntry(r) \/ FailDiaryEdit(r)
    PROVE  EditStep(r)
  BY GetStep, UpdateNoteStep, ArchiveNoteStep, DeleteNoteStep, UpdateEntryStep, DeleteEntryStep,
     FailStep

LEMMA DiaryInvOfRequest ==
    ASSUME DiaryInv, NEW r \in Authors,
           \/ Get(r) \/ AddNote(r) \/ CommitNote(r) \/ UpdateNote(r) \/ ArchiveNote(r)
           \/ DeleteNote(r) \/ UpdateEntry(r) \/ DeleteEntry(r) \/ Announce(r) \/ FailDiaryEdit(r)
    PROVE  DiaryInv'
  <1>1. OrderInv /\ ScreensFollow /\ Shape /\ Bounded  BY DEF DiaryInv, OrderInv
  <1>2. CASE EditStep(r)  BY <1>1, <1>2, OrderOfEdit, ScreensOfEdit DEF DiaryInv
  <1>3. CASE AddNote(r)  BY <1>1, <1>3, OrderOfAdd, ScreensOfAdd DEF DiaryInv
  <1>4. CASE CommitNote(r)  BY <1>1, <1>4, OrderOfCommit, ScreensOfCommit DEF DiaryInv
  <1>5. CASE Announce(r)  BY <1>1, <1>5, OrderOfAnnounce, ScreensOfAnnounce DEF DiaryInv
  <1> QED  BY <1>1, <1>2, <1>3, <1>4, <1>5, EditSteps

LEMMA DiaryInvOfTab ==
    ASSUME DiaryInv, NEW c \in Clients,
           Reassign(c) \/ Connect(c) \/ Open(c) \/ Hear(c) \/ FallBehind(c) \/ Leave(c)
    PROVE  DiaryInv'
  <1>1. OrderInv /\ ScreensFollow /\ Shape  BY DEF DiaryInv, OrderInv
  <1>2. DiaryKept
    BY DEF Reassign, Connect, Open, Hear, FallBehind, Leave, DiaryKept
  <1>3. Shape'
    BY <1>1, ReassignShape, ConnectShape, OpenShape, HearShape, FallBehindShape, LeaveShape
  <1>4. ScreensFollow'
    BY <1>1, ScreensOfConnect, ScreensOfOpen, ScreensOfHear, ScreensOfFallBehind
  <1> QED  BY <1>1, <1>2, <1>3, <1>4, OrderOfTab DEF DiaryInv

LEMMA DiaryInvOfInstance ==
    ASSUME DiaryInv, NEW i \in Instances, ForwardEvent(i) \/ Interrupt(i) \/ RestartInstance(i)
    PROVE  DiaryInv'
  <1>1. OrderInv /\ ScreensFollow /\ Shape  BY DEF DiaryInv, OrderInv
  <1>2. DiaryKept /\ Shape'
    BY <1>1, ForwardShape, InterruptShape, RestartShape
  <1>3. ScreensFollow'
    BY <1>1, ScreensOfForward, ScreensOfInterrupt, ScreensOfRestart
  <1> QED  BY <1>1, <1>2, <1>3, OrderOfTab DEF DiaryInv

LEMMA DiaryInvNext == DiaryInv /\ [DiaryNext]_diaryVars => DiaryInv'
  <1> SUFFICES ASSUME DiaryInv, [DiaryNext]_diaryVars PROVE DiaryInv'
    OBVIOUS
  <1>1. CASE UNCHANGED diaryVars
    <2>1. /\ DiaryKept /\ UNCHANGED <<sees, screen, excused>>
          /\ UNCHANGED <<channel, listener, forwarded, stream>>
      BY <1>1 DEF diaryVars, eventVars, DiaryKept
    <2>2. OrderInv /\ ScreensFollow /\ Shape  BY DEF DiaryInv, OrderInv
    <2>3. EventsTypeOK' /\ Connected'
      BY <2>1, <2>2 DEF Shape, DiaryTypeOK, EventsTypeOK, Connected
    <2>4. Shape'
      BY <2>1, <2>2, <2>3, ShapeOfTab DEF Shape, DiaryTypeOK
    <2>5. ScreensFollow'
      BY <2>1, <2>2, FollowsKept DEF ScreensFollow
    <2> QED  BY <2>1, <2>2, <2>4, <2>5, OrderOfTab DEF DiaryInv
  <1> QED  BY <1>1, DiaryInvOfRequest, DiaryInvOfTab, DiaryInvOfInstance DEF DiaryNext

\* A note committed after others had been there comes after them, whatever was
\* archived, unarchived or deleted since (add_note's COALESCE(MAX(sort_order))).
THEOREM NotesStayInOrder == DiarySpec => []NotesInTheOrderWritten
  <1>1. DiaryInv => NotesInTheOrderWritten  BY DEF DiaryInv, OrderInv
  <1> QED  BY <1>1, DiaryInvInit, DiaryInvNext, PTL DEF DiarySpec

\* A connected tab that has caught up shows what there is, but for the changes
\* nobody announces and the events that were lost: a write comes before its
\* announcement and a subscription before the refetch.
THEOREM CaughtUpScreensAreCurrent == DiarySpec => [](DiaryTypeOK /\ ScreensSettle)
  <1>1. DiaryInv => DiaryTypeOK  BY DEF DiaryInv, OrderInv, Shape
  <1>2. DiaryInv => ScreensSettle
    <2> SUFFICES ASSUME DiaryInv, NEW c \in Clients, NEW e \in Entries,
                        CaughtUp(c), JobOf[e] \in stream[c].jobs,
                        \A r \in Authors : edit[r].pc # "announce"
                 PROVE  screen[c][e] = version[e] \/ <<c, e>> \in excused
      BY DEF ScreensSettle
    <2>1. stream[c].pc = "open" /\ stream[c].at \in Instances
      BY DEF CaughtUp, DiaryInv, OrderInv, Shape, Connected
    <2>2. /\ stream[c].read \in Nat /\ Len(forwarded[stream[c].at]) \in Nat
          /\ Len(channel) \in Nat /\ listener[stream[c].at] \in Nat
      BY <2>1 DEF DiaryInv, OrderInv, Shape, DiaryTypeOK, EventsTypeOK, Stream
    <2>3. /\ listener[stream[c].at] = Len(channel)
          /\ stream[c].read = Len(forwarded[stream[c].at])
      BY <2>2 DEF CaughtUp, Unread
    <2>4. ~OnItsWay(c, e)
      BY <2>2, <2>3 DEF OnItsWay
    <2> QED  BY <2>1, <2>4 DEF DiaryInv, ScreensFollow, CatchesUp
  <1> QED  BY <1>1, <1>2, DiaryInvInit, DiaryInvNext, PTL DEF DiarySpec

=============================================================================
