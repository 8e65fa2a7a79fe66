---------------------------- MODULE InspectionForms ----------------------------
(***************************************************************************)
(* The inspection draft of one user on one job, and its photos.             *)
(*                                                                         *)
(* A draft is edited from any number of sessions.  Every write carries the  *)
(* revision its client last read, and the write's transaction begins with   *)
(* UPDATE ... WHERE revision = expected, which locks the row to the end: a  *)
(* transaction is one step here, taken at its commit.  What the service     *)
(* reads before it (the photo counts, the form, the uploaded objects) is a  *)
(* step of its own.  Photos are diary media, so the diary can delete them   *)
(* too, and deleting the diary entry deletes the draft.                     *)
(*                                                                         *)
(* The exception is the delete of the entry, the note or the job, which     *)
(* locks nothing before its cascade: each of its statements is a step.      *)
(*                                                                         *)
(* A stored name is a fresh UUID; its client may PUT to it again for as     *)
(* long as the presigned URL lives.  The queue is drained in one step here; *)
(* MediaLifecycle has the sweeper's own steps.                              *)
(***************************************************************************)
EXTENDS Naturals, FiniteSets

CONSTANTS
    Items,          \* client keys of checklist rows
    Rows,           \* what a row may say (a bound on the inputs)
    Names,          \* stored names of uploads
    Requests,       \* API requests in flight at once (a bound)
    MaxRevision     \* accepted writes to the draft (a bound)

ASSUME BoundsAssumption == MaxRevision \in Nat

VARIABLES
    form,       \* the draft: "none" yet, "open", or "gone" with its diary entry
    revision,   \* inspection_forms.revision
    items,      \* inspection_form_items by client key
    photos,     \* inspection_form_media joined to diary_media
    status,     \* action_status of the draft's note and entry
    bucket,     \* what is stored under each name
    queue,      \* media_deletion_queue
    request,    \* what each API request has in flight
    recorded,   \* history: names a photo row was ever committed for
    excused,    \* history: names attached or written again after, or beside, an
                \* attach, and names whose attach committed and was reported failed
    exposed,    \* history: names recorded under a delete of the entry in progress,
                \* or written again once their object was gone
    miscounted  \* history: saves whose photo counts the diary has overtaken

vars == <<form, revision, items, photos, status, bucket, queue, request,
          recorded, excused, exposed, miscounted>>

draft == <<form, revision, items, photos, status>>
objects == <<bucket, queue>>
history == <<recorded, excused, exposed, miscounted>>

-----------------------------------------------------------------------------

Revisions == 0..MaxRevision

\* text: a room or a description that is not blank.
Item == [text : BOOLEAN, actioned : BOOLEAN]
Checklist == UNION {[I -> Rows] : I \in SUBSET Items}

ASSUME RowsAssumption == Rows \subseteq Item

NoItems == [i \in {} |-> i]

\* A photo row; the revision its attach made tells two rows of one name apart.
Photo == [at : Revisions, name : Names, item : Items]

Idle == [kind |-> "idle"]
Pending ==
    {Idle}
    \cup [kind : {"save"}, revision : Revisions, items : Checklist, counted : SUBSET Items]
    \cup [kind : {"attach", "verified"}, revision : Revisions, item : Items, names : SUBSET Names]
    \cup [kind : {"lost", "failed"}, names : SUBSET Names]
    \cup [kind : {"delete", "purge"}, names : SUBSET Names]

PhotosOf(N) == {p \in photos : p.name \in N}
NamesOf(P) == {p.name : p \in P}
ItemsOf(P) == {p.item : p \in P}

\* The names attaches have in hand, to record or to discard.
Attaching(t) == request[t].kind \in {"attach", "verified", "lost", "failed"}
Held == UNION {request[t].names : t \in {u \in Requests : Attaching(u)}}

\* A delete of the diary entry is under way; it has queued names and not committed.
Deleting == \E t \in Requests : request[t].kind \in {"delete", "purge"}
Uncommitted(t) == IF request[t].kind = "purge" THEN request[t].names ELSE {}

\* inspection_action_status, given the rows that have photos.
ActionStatus(checklist, photographed) ==
    LET filled == {i \in DOMAIN checklist : checklist[i].text \/ i \in photographed}
    IN CASE filled = {} -> "none"
         [] \E i \in filled : ~checklist[i].actioned -> "action"
         [] OTHER -> "completed"

Becomes(t, r) == request' = [request EXCEPT ![t] = r]

\* Mutant: the UPDATE without its condition.
ClaimAnyRevision(expected) ==
    /\ form = "open"
    /\ revision < MaxRevision
    /\ revision' = revision + 1
    /\ UNCHANGED form

\* UPDATE inspection_forms SET revision = revision + 1 WHERE revision = expected.
ClaimRevision(expected) ==
    /\ form = "open"
    /\ revision = expected
    /\ revision < MaxRevision
    /\ revision' = revision + 1
    /\ UNCHANGED form

\* Mutant: every photo of the draft queued, those that stay included.
DetachMediaQueuesAll(P) ==
    /\ \A u \in Requests : Uncommitted(u) \cap NamesOf(P) = {}
    /\ photos' = photos \ P
    /\ queue' = queue \cup NamesOf(photos)

\* detach_media: the rows go and their objects are queued with them, once no
\* other transaction has queued one of them and not committed.
DetachMedia(P) ==
    /\ \A u \in Requests : Uncommitted(u) \cap NamesOf(P) = {}
    /\ photos' = photos \ P
    /\ queue' = queue \cup NamesOf(P)

Init ==
    /\ form = "none" /\ revision = 0
    /\ items = NoItems /\ photos = {} /\ status = "none"
    /\ bucket = [n \in Names |-> "none"] /\ queue = {}
    /\ request = [t \in Requests |-> Idle]
    /\ recorded = {} /\ excused = {} /\ exposed = {} /\ miscounted = {}

-----------------------------------------------------------------------------
(* Wrong variants of operations below, with which a property must fail. *)

\* The photos of a dropped row left to the cascade.
SaveCommitLeavesPhotos(t) ==
    /\ request[t].kind = "save"
    /\ ClaimRevision(request[t].revision)
    /\ LET new == request[t].items
       IN /\ items' = new
          /\ photos' = {p \in photos : p.item \in DOMAIN new}
          /\ status' = ActionStatus(new, request[t].counted)
    /\ Becomes(t, Idle)
    /\ miscounted' = miscounted \ {t}
    /\ UNCHANGED <<objects, recorded, excused, exposed>>

-----------------------------------------------------------------------------
(* The draft. *)

\* get_or_create_draft: the entry, its note and the form in one transaction; a
\* rival that lost on the unique constraint rolls all three back.  A draft
\* started after this one was deleted is another instance.
CreateDraft ==
    /\ form = "none"
    /\ form' = "open"
    /\ UNCHANGED <<revision, items, photos, status, objects, request, history>>

\* save_draft up to photo_counts.  The client sends the revision it last read;
\* one that is behind already can only be refused, and nothing changes.
SaveCount(t, input) ==
    /\ form = "open"
    /\ request[t] = Idle
    /\ Becomes(t, [kind |-> "save", revision |-> revision, items |-> input, counted |-> ItemsOf(photos)])
    /\ UNCHANGED <<draft, objects, history>>

\* The transaction: rows not sent are dropped and their photos detached, the
\* rest written, and the note takes the status rendered from the counts.  A
\* stale revision changes nothing (Abort).
SaveCommit(t) ==
    /\ request[t].kind = "save"
    /\ ClaimRevision(request[t].revision)
    /\ LET new == request[t].items
       IN /\ items' = new
          /\ DetachMedia({p \in photos : p.item \notin DOMAIN new})
          /\ status' = ActionStatus(new, request[t].counted)
    /\ Becomes(t, Idle)
    /\ miscounted' = miscounted \ {t}
    /\ UNCHANGED <<bucket, recorded, excused, exposed>>

-----------------------------------------------------------------------------
(* Photos of the draft. *)

\* The client's PUT to the URL prepare_photos gave it, any number of times.
Upload(n) ==
    /\ form # "none"
    /\ \E content \in {"good", "bad"} : bucket' = [bucket EXCEPT ![n] = content]
    /\ excused' = IF n \in recorded \cup Held THEN excused \cup {n} ELSE excused
    /\ exposed' = IF n \in recorded /\ bucket[n] = "none" THEN exposed \cup {n} ELSE exposed
    /\ UNCHANGED <<draft, queue, request, recorded, miscounted>>

\* attach_photos: the form as it is now has the expected revision and the row.
AttachFind(t, i, N) ==
    /\ form = "open"
    /\ request[t] = Idle
    /\ i \in DOMAIN items
    /\ N # {}
    /\ Becomes(t, [kind |-> "attach", revision |-> revision, item |-> i, names |-> N])
    /\ excused' = excused \cup (N \cap (recorded \cup Held))
    /\ UNCHANGED <<draft, objects, recorded, exposed, miscounted>>

\* Every object passes verify ...
AttachVerify(t) ==
    /\ request[t].kind = "attach"
    /\ \A n \in request[t].names : bucket[n] = "good"
    /\ request' = [request EXCEPT ![t].kind = "verified"]
    /\ UNCHANGED <<draft, objects, history>>

\* ... or one does not: it is not there, it is bad, it is not of the type this
\* attach declares, or it is a video.  It is discarded if it is there, and so
\* are those accepted before it.
AttachReject(t) ==
    /\ request[t].kind = "attach"
    /\ \E n \in request[t].names, before \in SUBSET request[t].names :
         /\ \A m \in before : bucket[m] = "good"
         /\ Becomes(t, [kind |-> "failed",
                        names |-> before \cup (IF bucket[n] = "none" THEN {} ELSE {n})])
    /\ UNCHANGED <<draft, objects, history>>

\* The transaction.  Its commit may go through and be reported as an error.
AttachCommit(t) ==
    /\ request[t].kind = "verified"
    /\ ClaimRevision(request[t].revision)
    /\ LET N == request[t].names
       IN /\ request[t].item \in DOMAIN items
          /\ photos' = photos \cup [at : {revision'}, name : N, item : {request[t].item}]
          /\ recorded' = recorded \cup N
          /\ exposed' = IF Deleting THEN exposed \cup N ELSE exposed
          /\ \/ /\ Becomes(t, Idle)
                /\ UNCHANGED excused
             \/ /\ Becomes(t, [kind |-> "failed", names |-> N])
                /\ excused' = excused \cup N
    /\ UNCHANGED <<items, status, objects, miscounted>>

\* The revision has moved: "the objects have no rows pointing at them".
AttachLose(t) ==
    /\ request[t].kind = "verified"
    /\ form = "open"
    /\ revision # request[t].revision
    /\ Becomes(t, [kind |-> "lost", names |-> request[t].names])
    /\ UNCHANGED <<draft, objects, history>>

\* Any error: the form is gone, or the transaction rolled back.
AttachFail(t) ==
    /\ request[t].kind = "verified"
    /\ Becomes(t, [kind |-> "failed", names |-> request[t].names])
    /\ UNCHANGED <<draft, objects, history>>

\* discard, best effort, object by object.
Discard(t) ==
    /\ request[t].kind \in {"lost", "failed"}
    /\ \E N \in SUBSET request[t].names :
         bucket' = [n \in Names |-> IF n \in N THEN "none" ELSE bucket[n]]
    /\ Becomes(t, Idle)
    /\ UNCHANGED <<draft, queue, history>>

\* delete_photo, from a client that has read the current revision.
DeletePhoto(p) ==
    /\ p \in photos
    /\ ClaimRevision(revision)
    /\ DetachMedia({p})
    /\ UNCHANGED <<items, status, bucket, request, history>>

-----------------------------------------------------------------------------
(* The diary beside the draft, and the sweeper. *)

\* The diary's own media delete: no revision is involved.
DiaryDeletePhoto(p) ==
    /\ p \in photos
    /\ DetachMedia({p})
    /\ miscounted' = miscounted \cup {t \in Requests : request[t].kind = "save"}
    /\ UNCHANGED <<form, revision, items, status, bucket, request,
                   recorded, excused, exposed>>

\* The diary entry, its note or the job is deleted: its photos are read ...
DiaryDeleteRead(t) ==
    /\ form = "open"
    /\ request[t] = Idle
    /\ Becomes(t, [kind |-> "delete", names |-> NamesOf(photos)])
    /\ UNCHANGED <<draft, objects, history>>

\* ... those not queued already are queued, rivals of the same names waited out ...
DiaryDeleteQueue(t) ==
    /\ request[t].kind = "delete"
    /\ \A u \in Requests : Uncommitted(u) \cap request[t].names = {}
    /\ Becomes(t, [kind |-> "purge", names |-> request[t].names \ queue])
    /\ UNCHANGED <<draft, objects, history>>

\* ... and all of the draft goes by the cascade, with the photos it has by
\* now.  A rival may have deleted it first.
DiaryDeleteCommit(t) ==
    /\ request[t].kind = "purge"
    /\ form' = "gone"
    /\ items' = NoItems /\ status' = "none" /\ photos' = {}
    /\ queue' = queue \cup request[t].names
    /\ Becomes(t, Idle)
    /\ UNCHANGED <<revision, bucket, history>>

Sweep(n) ==
    /\ n \in queue
    /\ bucket' = [bucket EXCEPT ![n] = "none"]
    /\ queue' = queue \ {n}
    /\ UNCHANGED <<draft, request, history>>

\* A request is refused, fails, or dies, and its transaction with it.
Abort(t) ==
    /\ request[t] # Idle
    /\ Becomes(t, Idle)
    /\ miscounted' = miscounted \ {t}
    /\ UNCHANGED <<draft, objects, recorded, excused, exposed>>

-----------------------------------------------------------------------------

RequestStep(t) ==
    \/ \E input \in Checklist : SaveCount(t, input)
    \/ SaveCommit(t)
    \/ \E i \in Items, N \in SUBSET Names : AttachFind(t, i, N)
    \/ AttachVerify(t) \/ AttachReject(t)
    \/ AttachCommit(t) \/ AttachLose(t) \/ AttachFail(t)
    \/ Discard(t)
    \/ DiaryDeleteRead(t) \/ DiaryDeleteQueue(t) \/ DiaryDeleteCommit(t)
    \/ Abort(t)

Next ==
    \/ CreateDraft
    \/ \E t \in Requests : RequestStep(t)
    \/ \E p \in photos : DeletePhoto(p) \/ DiaryDeletePhoto(p)
    \/ \E n \in Names : Upload(n) \/ Sweep(n)

Spec == Init /\ [][Next]_vars

-----------------------------------------------------------------------------
(* Properties. *)

\* The shape of every variable: a photo hangs on a row of the checklist.
TypeOK ==
    /\ form \in {"none", "open", "gone"}
    /\ revision \in Revisions
    /\ items \in Checklist
    /\ photos \subseteq Photo /\ ItemsOf(photos) \subseteq DOMAIN items
    /\ status \in {"none", "action", "completed"}
    /\ bucket \in [Names -> {"good", "bad", "none"}]
    /\ queue \subseteq Names
    /\ request \in [Requests -> Pending]
    /\ recorded \subseteq Names /\ excused \subseteq Names /\ exposed \subseteq Names
    /\ miscounted \subseteq Requests

\* "Dropping an item takes its photos with it, so their storage objects must
\* be queued": once a photo row was recorded, a row or the queue names the
\* object until it is gone.  Only a name recorded while a delete of the entry
\* was under way, whose row its cascade takes unread, or written again once its
\* object was gone, can escape (save_draft, detach_media, delete).
NoOrphanPhoto ==
    \A n \in recorded \ exposed : PhotosOf({n}) # {} \/ n \in queue \/ bucket[n] = "none"

\* A photo of the draft can be shown: its object is there and passed verify,
\* unless its name was attached or written again, or its attach was reported
\* failed after it had committed (attach_photos).
NoBrokenPhoto ==
    \A p \in photos : p.name \notin excused => bucket[p.name] = "good"

\* "Photo counts decide which rows count as filled in": although the counts
\* are read in another transaction, the status a save writes is that of the
\* rows and photos it leaves, unless the diary deleted a photo in between
\* (save_draft, photo_counts, render).
SavedStatusIsCurrent ==
    [][\A t \in Requests :
         /\ request[t].kind = "save" /\ request'[t] = Idle
         /\ revision' # revision /\ t \notin miscounted
         => status' = ActionStatus(items', {p.item : p \in photos'})]_vars

\* "Lost the revision race after uploading: the objects have no rows pointing
\* at them, so remove them now" (attach_photos).
LosersAreUnreferenced ==
    \A t \in Requests : request[t].kind = "lost" => PhotosOf(request[t].names) = {}

=============================================================================
