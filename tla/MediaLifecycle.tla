---------------------------- MODULE MediaLifecycle ----------------------------
(***************************************************************************)
(* Uploaded media from the client's PUT to the sweeper's delete.            *)
(*                                                                         *)
(* A file lives in two stores that share no transaction: the bucket         *)
(* (objects) and PostgreSQL (job_media and diary_media rows, and the        *)
(* media_deletion_queue).  Four parties touch them:                         *)
(*   - the client, which PUTs to a presigned URL at any time;               *)
(*   - confirm_upload, which judges the object against the type the client  *)
(*     declares, and then inserts a row or removes the object;              *)
(*   - the deletes: single and bulk row deletes, and the job, diary-entry   *)
(*     and note deletes whose rows go by ON DELETE CASCADE;                 *)
(*   - any number of pmk-worker processes, which drain the queue.           *)
(* Every transaction is READ COMMITTED and may roll back at any point, and  *)
(* a worker may be killed at any point.                                     *)
(***************************************************************************)
EXTENDS Naturals, FiniteSets

CONSTANTS
    Jobs, Entries, Notes,   \* the containers media hangs off
    JobOf,                  \* site_diary.job_id
    EntryOf,                \* diary_notes.diary_entry_id
    Keys,                   \* object keys {company}/{job|diary}/{id}/{stored_name}
    Home,                   \* the job or entry a key's prefix names
    MaxRows,                \* media rows ever inserted (a bound)
    Requests,               \* API requests in flight at once (a bound)
    Workers,                \* sweeper processes
    Batch,                  \* BATCH: keys one pass takes
    MaxAttempts,            \* failures after which a key is no longer offered
    NoNote, NoKey

Containers == Jobs \cup Entries \cup Notes

ASSUME ContainersAssumption ==
    /\ Jobs \cap Entries = {} /\ Jobs \cap Notes = {} /\ Entries \cap Notes = {}
    /\ NoNote \notin Containers
    /\ JobOf \in [Entries -> Jobs]
    /\ EntryOf \in [Notes -> Entries]

ASSUME KeysAssumption ==
    /\ IsFiniteSet(Keys) /\ NoKey \notin Keys
    /\ Home \in [Keys -> Jobs \cup Entries]

ASSUME SweeperAssumption ==
    /\ IsFiniteSet(Workers)
    /\ Batch \in Nat \ {0}
    /\ MaxAttempts \in Nat \ {0}

ASSUME BoundAssumption == MaxRows \in Nat

VARIABLES
    alive,      \* containers whose row exists
    objects,    \* bucket: what is stored at each key
    rows,       \* job_media and diary_media
    nextId,     \* the id serial of the media tables, never handed out twice
    queue,      \* keys in media_deletion_queue
    attempts,   \* media_deletion_queue.attempts, 0 for a key not queued
    request,    \* the transaction each API request has in flight
    worker,     \* each sweeper's pass
    recorded,   \* history: keys a row was ever committed for
    reused,     \* history: keys written or judged again after a confirm judged them
    exposed     \* history: keys recorded under a delete in progress, or under a foreign note

vars == <<alive, objects, rows, nextId, queue, attempts, request, worker,
          recorded, reused, exposed>>

-----------------------------------------------------------------------------
(* Rows, containers and what the statements select. *)

Row == [id : 1..MaxRows, key : Keys, note : Notes \cup {NoNote}]

Idle == [kind |-> "idle"]
Requesting ==
    {Idle}
    \cup [kind : {"confirm"}, key : Keys, note : Notes \cup {NoNote}]
    \cup [kind : {"reject"}, key : Keys]
    \cup [kind : {"remove"}, rows : SUBSET Row]
    \cup [kind : {"read"}, scope : Containers, found : SUBSET Keys]
    \cup [kind : {"purge"}, scope : Containers, added : SUBSET Keys]

Resting == [todo |-> {}, key |-> NoKey, outcome |-> "none"]

\* A container and everything ON DELETE CASCADE takes with it.
Below(c) ==
    {c} \cup {e \in Entries : JobOf[e] = c}
        \cup {n \in Notes : EntryOf[n] = c \/ JobOf[EntryOf[n]] = c}

\* The rows the cascade of deleting c removes: job_id, diary_entry_id or
\* note_id is a foreign key into what goes.
Cascades(c, r) == Home[r.key] \in Below(c) \/ r.note \in Below(c)

\* Mutant: a note's media looked up like an entry's.
CapturesWithoutNotes(c, r) == Home[r.key] \in Below(c)

\* The rows the queueing query of c selects: a note's by note_id, an entry's
\* by diary_entry_id alone, a job's by job_id and by the entry's job.
Captures(c, r) == IF c \in Notes THEN r.note = c ELSE Home[r.key] \in Below(c)

\* A confirm has judged an object and not yet acted on its verdict.
Judging(t) == request[t].kind \in {"confirm", "reject"}

InFlight(k) == \E t \in Requests : Judging(t) /\ request[t].key = k

Deleting(t) == request[t].kind \in {"read", "purge"}

Locked(t) == IF request[t].kind = "remove" THEN request[t].rows ELSE {}

Uncommitted(t) == IF request[t].kind = "purge" THEN request[t].added ELSE {}

\* INSERT INTO media_deletion_queue ... ON CONFLICT DO NOTHING.
Enqueue(K) ==
    /\ queue' = queue \cup K
    /\ attempts' = [k \in Keys |-> IF k \in K \ queue THEN 0 ELSE attempts[k]]

Init ==
    /\ alive = Containers
    /\ objects = [k \in Keys |-> "none"]
    /\ rows = {}
    /\ nextId = 1
    /\ queue = {}
    /\ attempts = [k \in Keys |-> 0]
    /\ request = [t \in Requests |-> Idle]
    /\ worker = [w \in Workers |-> Resting]
    /\ recorded = {} /\ reused = {} /\ exposed = {}

-----------------------------------------------------------------------------
(* Upload: the client's PUT, then confirm_upload. *)

\* The client PUTs to a presigned URL.  The URL outlives the confirm, so the
\* key may be written again, before the row or after it.  Content that fails
\* the checks of verify is "bad".
Upload(k) ==
    /\ \E content \in {"good", "bad"} : objects' = [objects EXCEPT ![k] = content]
    /\ reused' = IF k \in recorded \/ InFlight(k) THEN reused \cup {k} ELSE reused
    /\ UNCHANGED <<alive, rows, nextId, queue, attempts, request, worker, recorded, exposed>>

\* confirm_upload up to a successful verify.  The caller can reach the owner,
\* and the object's size and signature are right.  note_id arrives from the
\* request body and is not compared with the entry.
ConfirmVerify(t, k, n) ==
    /\ request[t] = Idle
    /\ Home[k] \in alive
    /\ n # NoNote => Home[k] \in Entries
    /\ objects[k] = "good"
    /\ request' = [request EXCEPT ![t] = [kind |-> "confirm", key |-> k, note |-> n]]
    /\ reused' = IF k \in recorded \/ InFlight(k) THEN reused \cup {k} ELSE reused
    /\ UNCHANGED <<alive, objects, rows, nextId, queue, attempts, worker, recorded, exposed>>

\* confirm_upload when verify turns the object down: its content is bad, or
\* it is good and of another type than this confirm declares.  The verdict
\* holds against the mimeType of the request alone: a key whose row exists, or
\* that another confirm has just accepted, is judged again like a new one.
ConfirmReject(t, k) ==
    /\ request[t] = Idle
    /\ Home[k] \in alive
    /\ objects[k] # "none"
    /\ request' = [request EXCEPT ![t] = [kind |-> "reject", key |-> k]]
    /\ reused' = IF k \in recorded \/ InFlight(k) THEN reused \cup {k} ELSE reused
    /\ UNCHANGED <<alive, objects, rows, nextId, queue, attempts, worker, recorded, exposed>>

\* What lies at the rejected key by now is removed, best effort (a removal
\* that fails is an Abort).
ConfirmDiscard(t) ==
    /\ request[t].kind = "reject"
    /\ objects' = [objects EXCEPT ![request[t].key] = "none"]
    /\ request' = [request EXCEPT ![t] = Idle]
    /\ UNCHANGED <<alive, rows, nextId, queue, attempts, worker, recorded, reused, exposed>>

\* The insert and its commit.  The foreign keys require the owner and the
\* note; when one is gone the insert fails and the request ends (Abort),
\* leaving the object where it is.
ConfirmRecord(t) ==
    /\ request[t].kind = "confirm"
    /\ nextId <= MaxRows
    /\ nextId' = nextId + 1
    /\ LET k == request[t].key
           n == request[t].note
       IN /\ Home[k] \in alive
          /\ n # NoNote => n \in alive
          /\ LET new == [id |-> nextId, key |-> k, note |-> n]
                 foreign == n # NoNote /\ EntryOf[n] # Home[k]
                 late == \E u \in Requests :
                           Deleting(u) /\ Cascades(request[u].scope, new)
             IN /\ rows' = rows \cup {new}
                /\ exposed' = IF foreign \/ late THEN exposed \cup {k} ELSE exposed
          /\ recorded' = recorded \cup {k}
    /\ request' = [request EXCEPT ![t] = Idle]
    /\ UNCHANGED <<alive, objects, queue, attempts, worker, reused>>

-----------------------------------------------------------------------------
(* Row deletes: one row by id, or a bulk selection within one job. *)

\* Mutant: the keys queued outside the deleting transaction.
RemoveLockQueuesAtOnce(t, R) ==
    /\ request[t] = Idle
    /\ R # {}
    /\ \E j \in Jobs : \A r \in R : Home[r.key] \in Below(j) /\ Home[r.key] \in alive
    /\ \A u \in Requests : Locked(u) \cap R = {}
    /\ Enqueue({r.key : r \in R})
    /\ request' = [request EXCEPT ![t] = [kind |-> "remove", rows |-> R]]
    /\ UNCHANGED <<alive, objects, rows, nextId, worker, recorded, reused, exposed>>

\* DELETE ... RETURNING, or SELECT ... FOR UPDATE: the rows are locked and
\* nobody else's.  delete_many takes only rows of its job, all or none.
RemoveLock(t, R) ==
    /\ request[t] = Idle
    /\ R # {}
    /\ \E j \in Jobs : \A r \in R : Home[r.key] \in Below(j) /\ Home[r.key] \in alive
    /\ \A u \in Requests : Locked(u) \cap R = {}
    /\ request' = [request EXCEPT ![t] = [kind |-> "remove", rows |-> R]]
    /\ UNCHANGED <<alive, objects, rows, nextId, queue, attempts, worker, recorded, reused, exposed>>

\* Mutant: the row goes and nothing is queued.
RemoveCommitQueuesNothing(t) ==
    /\ request[t].kind = "remove"
    /\ rows' = rows \ request[t].rows
    /\ request' = [request EXCEPT ![t] = Idle]
    /\ UNCHANGED <<alive, objects, nextId, queue, attempts, worker, recorded, reused, exposed>>

\* The delete, the queueing and the commit.  Inserting a key another
\* transaction has inserted and not committed waits for that transaction.
RemoveCommit(t) ==
    /\ request[t].kind = "remove"
    /\ LET gone == {r.key : r \in request[t].rows}
       IN /\ \A u \in Requests : Uncommitted(u) \cap gone = {}
          /\ Enqueue(gone)
    /\ rows' = rows \ request[t].rows
    /\ request' = [request EXCEPT ![t] = Idle]
    /\ UNCHANGED <<alive, objects, nextId, worker, recorded, reused, exposed>>

-----------------------------------------------------------------------------
(* Container deletes: jobs.purge, diary.delete, diary.delete_note. *)

\* The media rows are read ...
PurgeRead(t, c) ==
    /\ request[t] = Idle
    /\ c \in alive
    /\ request' = [request EXCEPT ![t] =
         [kind |-> "read", scope |-> c,
          found |-> {r.key : r \in {q \in rows : Captures(c, q)}}]]
    /\ UNCHANGED <<alive, objects, rows, nextId, queue, attempts, worker, recorded, reused, exposed>>

\* ... their keys are inserted into the queue, waiting out any transaction
\* that has inserted one of them ...
PurgeQueue(t) ==
    /\ request[t].kind = "read"
    /\ \A u \in Requests : Uncommitted(u) \cap request[t].found = {}
    /\ request' = [request EXCEPT ![t] =
         [kind |-> "purge", scope |-> request[t].scope, added |-> request[t].found \ queue]]
    /\ UNCHANGED <<alive, objects, rows, nextId, queue, attempts, worker, recorded, reused, exposed>>

\* ... and the container is deleted, the cascade running over the rows as
\* they are now and waiting for row locks.  Deleting a container that a
\* concurrent delete removed affects no row and commits the queue all the same.
PurgeCommit(t) ==
    /\ request[t].kind = "purge"
    /\ LET c == request[t].scope
       IN /\ \A u \in Requests : \A r \in Locked(u) : ~Cascades(c, r)
          /\ alive' = alive \ Below(c)
          /\ rows' = {r \in rows : ~Cascades(c, r)}
    /\ Enqueue(request[t].added)
    /\ request' = [request EXCEPT ![t] = Idle]
    /\ UNCHANGED <<objects, nextId, worker, recorded, reused, exposed>>

\* A request ends and its transaction rolls back: a crash, a lost connection,
\* a failed foreign key, or PostgreSQL choosing the victim of a deadlock
\* between a row lock and a queue key.
Abort(t) ==
    /\ request[t] # Idle
    /\ request' = [request EXCEPT ![t] = Idle]
    /\ UNCHANGED <<alive, objects, rows, nextId, queue, attempts, worker, recorded, reused, exposed>>

-----------------------------------------------------------------------------
(* The sweeper. *)

\* Mutant: the query without its attempts filter.
OfferedForEver == queue

Offered == {k \in queue : attempts[k] < MaxAttempts}

\* pending_deletions.  created_at is the start of the deleting transaction,
\* which says nothing of the commit order: any Batch offered keys may come first.
Fetch(w) ==
    /\ worker[w].todo = {}
    /\ \E K \in SUBSET Offered :
         /\ K # {}
         /\ K = Offered \/ Cardinality(K) = Batch
         /\ Cardinality(K) <= Batch
         /\ worker' = [worker EXCEPT ![w].todo = K]
    /\ UNCHANGED <<alive, objects, rows, nextId, queue, attempts, request, recorded, reused, exposed>>

\* delete_object: done, already gone, or an error that leaves the object.
DeleteObject(w) ==
    /\ worker[w].outcome = "none"
    /\ \E k \in worker[w].todo :
         \/ /\ objects' = [objects EXCEPT ![k] = "none"]
            /\ worker' = [worker EXCEPT ![w].key = k, ![w].outcome = "gone"]
         \/ /\ worker' = [worker EXCEPT ![w].key = k, ![w].outcome = "error"]
            /\ UNCHANGED objects
    /\ UNCHANGED <<alive, rows, nextId, queue, attempts, request, recorded, reused, exposed>>

\* A wrong variant: a failure is not counted.
SettleUncounted(w) ==
    LET k == worker[w].key
    IN /\ worker[w].outcome # "none"
       /\ queue' = IF worker[w].outcome = "gone" THEN queue \ {k} ELSE queue
       /\ attempts' = IF worker[w].outcome = "gone" THEN [attempts EXCEPT ![k] = 0] ELSE attempts
       /\ worker' = [worker EXCEPT ![w] =
            [todo |-> @.todo \ {k}, key |-> NoKey, outcome |-> "none"]]
       /\ UNCHANGED <<alive, objects, rows, nextId, request, recorded, reused, exposed>>

\* mark_deleted, or mark_deletion_failed; then on to the next key.
Settle(w) ==
    LET k == worker[w].key
    IN /\ \/ /\ worker[w].outcome = "gone"
             /\ queue' = queue \ {k}
             /\ attempts' = [attempts EXCEPT ![k] = 0]
          \/ /\ worker[w].outcome = "error"
             /\ attempts' = [attempts EXCEPT ![k] = IF k \in queue THEN @ + 1 ELSE @]
             /\ UNCHANGED queue
       /\ worker' = [worker EXCEPT ![w] =
            [todo |-> @.todo \ {k}, key |-> NoKey, outcome |-> "none"]]
       /\ UNCHANGED <<alive, objects, rows, nextId, request, recorded, reused, exposed>>

\* The worker is killed, or the queue is unreachable and sweep returns early:
\* what is left of the batch is dropped and a later pass starts over.
AbortPass(w) ==
    /\ worker[w] # Resting
    /\ worker' = [worker EXCEPT ![w] = Resting]
    /\ UNCHANGED <<alive, objects, rows, nextId, queue, attempts, request, recorded, reused, exposed>>

-----------------------------------------------------------------------------

RequestStep(t) ==
    \/ \E k \in Keys, n \in Notes \cup {NoNote} : ConfirmVerify(t, k, n)
    \/ \E k \in Keys : ConfirmReject(t, k)
    \/ ConfirmDiscard(t)
    \/ ConfirmRecord(t)
    \/ \E R \in SUBSET rows : RemoveLock(t, R)
    \/ RemoveCommit(t)
    \/ \E c \in Containers : PurgeRead(t, c)
    \/ PurgeQueue(t)
    \/ PurgeCommit(t)
    \/ Abort(t)

WorkerStep(w) == Fetch(w) \/ DeleteObject(w) \/ Settle(w) \/ AbortPass(w)

Next ==
    \/ \E k \in Keys : Upload(k)
    \/ \E t \in Requests : RequestStep(t)
    \/ \E w \in Workers : WorkerStep(w)

Spec == Init /\ [][Next]_vars

\* The sweep loop never ends, and an outage does not recur at every single
\* delete.  Nothing is assumed of clients, requests or crashes.
Fairness ==
    \A w \in Workers :
        WF_vars(Fetch(w)) /\ SF_vars(DeleteObject(w)) /\ SF_vars(Settle(w))

LiveSpec == Spec /\ Fairness

-----------------------------------------------------------------------------
(* Properties. *)

\* The shape of every variable: the rows and requests the code can build, and
\* attempts a count.
TypeOK ==
    /\ alive \subseteq Containers
    /\ objects \in [Keys -> {"none", "bad", "good"}]
    /\ rows \subseteq Row
    /\ nextId \in 1..MaxRows + 1
    /\ queue \subseteq Keys
    /\ attempts \in [Keys -> Nat]
    /\ request \in [Requests -> Requesting]
    /\ worker \in [Workers -> [todo : SUBSET Keys, key : Keys \cup {NoKey},
                               outcome : {"none", "gone", "error"}]]
    /\ recorded \subseteq Keys /\ reused \subseteq Keys /\ exposed \subseteq Keys

HasRow(k) == \E r \in rows : r.key = k

\* No orphaned object: once a row was recorded for a key, either a row still
\* names the object, or the queue does, or the object is gone.  Only a reused
\* key, and a row committed under a delete in progress or hung on another
\* entry's note, can escape (media_queue.rs, delete and delete_many).
NoOrphan ==
    \A k \in recorded \ (reused \cup exposed) :
        HasRow(k) \/ k \in queue \/ objects[k] = "none"

\* No broken image: a row of a key that was confirmed once and not written
\* again names an object that passed verify and that no delete, sweep or
\* retried sweep has touched (confirm_upload, RemoveCommit, sweep).
NoBrokenRow ==
    \A r \in rows : r.key \notin reused => objects[r.key] = "good"

\* "stops offering a key after ten failures": workers racing on one batch can
\* push a key past the cap only by the failures already in flight.
AttemptsBounded ==
    \A k \in Keys : attempts[k] < MaxAttempts + Cardinality(Workers)

\* Every queued key is dealt with: deleted, or parked after MaxAttempts
\* failures, whatever crashes, and whatever fails beside it in the batch.
Swept ==
    \A k \in Keys : k \in queue ~> (k \notin queue \/ attempts[k] >= MaxAttempts)

\* "Committing the delete therefore always commits the queue rows with it":
\* a step that removes a media row leaves its object queued or gone.
DeleteCommitsItsQueueRows ==
    [][\A r \in rows : r \notin rows' => r.key \in queue' \/ objects[r.key] = "none"]_vars

(* Each file goes through the life FileLifecycle promises. *)
Phase(k) ==
    IF k \in reused \cup exposed THEN "stray"
    ELSE IF k \notin recorded THEN "new"
    ELSE IF HasRow(k) THEN "kept"
    ELSE IF k \in queue THEN "condemned"
    ELSE IF objects[k] = "none" THEN "gone"
    ELSE "orphan"

File == INSTANCE FileLifecycle WITH Files <- Keys, phase <- [k \in Keys |-> Phase(k)]

\* The media subsystem implements FileLifecycle, every interleaving included.
ImplementsFileLifecycle == File!Spec

=============================================================================
