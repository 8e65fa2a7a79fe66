# A verification of pm-konstruct-backend

TLA+ specifications of the backend under `src/` (a multi-tenant construction
management API in Rust: `pmk-domain`, `pmk-ports`, `pmk-app`, `pmk-infra`,
`pmk-api`, `pmk-worker`, and the SQL under `src/migrations`), the TLC
configurations that check them on small instances, and proofs for every value of
their constants.

Every definition is translated from the Rust and the SQL it runs. The map from
definitions to lines is in `PROJECT.json`.

## 1. Inventory

The backend is a set of stateless request handlers over PostgreSQL. A handler
calls a service of `pmk-app`; a service calls repositories of `pmk-infra`
through the traits of `pmk-ports`; each repository method opens, uses and
commits a transaction of its own (READ COMMITTED unless said otherwise). A
service method that makes three repository calls is therefore three
transactions, and everything another request commits between them is visible to
the later ones. The second store is an S3-compatible bucket; it takes part in no
transaction. A second process, `pmk-worker`, drains the media deletion queue.
These two facts, service methods that are not atomic and a bucket outside the
transactions, are where the hard behaviour of this code is.

| component | state | operations | hard behaviour | what makes it correct |
|---|---|---|---|---|
| **Media files and deletion queue** (`media/service.rs`, `repo/media.rs`, `repo/media_queue.rs`, the deletes of `repo/job.rs`, `repo/diary.rs`) | bucket objects, `job_media`, `diary_media`, `media_deletion_queue` | presign, confirm, delete one, delete many, job purge, entry and note delete | bucket and database disagree after any partial step; cascades remove rows nobody named; concurrent deletes queue the same keys | a recorded object always has a row or a queue entry until it is gone; no row names a missing object |
| **Sweeper** (`pmk-worker/src/main.rs`) | its pass over a batch; `attempts` | fetch, delete object, settle | killed between two steps; several workers; keys that keep failing; late queue commits | every queued key is eventually deleted or parked |
| **Sessions** (`identity/service.rs`, `repo/identity.rs`, `repo/user.rs`) | `users`, `refresh_tokens` | login (with a transparent rehash), refresh with rotation and reuse detection, logout, resolve | check and write in separate transactions; crashes mid-rotation; revocation racing issue | one spendable token per login; revoked stays revoked |
| **Password recovery** (the same files, migration 0013) | `password_reset_tokens`, `password_changed_at` | request a link, issue a recovery code, reset | codes issued side by side; reset racing login | one winner per code; a reset ends older sessions |
| **Inspection forms and ETO numbers** (`forms/service.rs`, `repo/forms.rs`) | drafts with a revision, their photos, `eto_job_sequences` | get or create, save, attach, delete photo, raise an ETO | lost updates, compare-and-set, retried attaches, discards after an unknown commit outcome | no update is lost; a photo row and its object live and die together; the written status is current |
| **Jobs and assignments** (`jobs/service.rs`, `repo/job.rs`) | `jobs.supervisor_id`, `job_assignments` | assign, unassign, set primary, update, archive, purge | the denormalised supervisor is written from a read of the assignments | `supervisor_id` is the primary assignment |
| **Users, seats, permissions** (`users/service.rs`, `repo/user.rs`, `routes/users.rs`) | `users`, `user_permissions`, the company's seat limit | create, update, delete, save a permission list | the seats are counted in one transaction and taken in another; a partial update writes back a copy; a list is saved as a delete and an insert | users within the seats, an active manager, the last edit and the last list stand: except where two requests overlap |
| **Billing** (`billing/service.rs`, `repo/billing.rs`, `pmk-domain/billing.rs`) | `companies.stripe_*`, `onboarding_completed_at`; Stripe's customers, sessions and subscriptions | start and confirm checkout, complete onboarding; the trial ends, Stripe bills and changes quantities | Stripe and the row disagree; two first checkouts; a session id named by the client | the company's subscription is its own; what was paid can be confirmed |
| **Call-forward** (`call_forward/service.rs`, `repo/call_forward.rs`, `pmk-domain/call_forward/*`) | a tree of headers and tasks per job, templates | create one or many, patch, delete, reorder, capture as a template, apply | a parent is read in an earlier transaction than the write; reorder takes any parent; patches write whole rows | items hang under headers of their job; a capture loses no row, even of a circle; an item is what it was last asked to be |
| **Labour scheduler** (`scheduler/service.rs`, `repo/scheduler.rs`, the trigger of migration 0001) | workers, allocations, absences, day notes | CRUD, the board | an allocation checks absences, an absence checks no allocation; absences exclude one another by a trigger under an advisory lock; the board is four queries | no two absences of one worker overlap; booked while away only by a race |
| **Diary and notes** (`diary/service.rs`, `repo/diary.rs`) | entries, notes, their order | CRUD, archive | a position is one past the greatest of the moment; announcements after the commit, best effort | notes stay in the order they were written |
| **Live events** (`pmk-infra/src/events.rs`, `routes/events.rs`) | PostgreSQL NOTIFY, a broadcast ring per process, the jobs a stream was resolved to | publish, subscribe, receive | lag drops events, the listener reconnects, processes restart, visibility is resolved at connect | a screen that has caught up shows what is stored, unless the loss was one nobody announces |
| **Settings and branding** (`settings/service.rs`, `repo/settings.rs`) | image keys of a company, their objects | confirm, clear, sweep | the displaced key is the one of the statement's snapshot | the logo shown has its object; displaced objects go |
| **Notifications** (`repo/notifications.rs`, `routes/notifications.rs`) | push endpoints, preferences, unread rows | subscribe, unsubscribe, set preferences, notify, mark read | calls of successive users of a browser arrive in any order; preferences are written back whole | an endpoint is its last subscriber's |
| **Weather** (`weather/service.rs`) | an in-memory window per user, bounded | look up | window edges; eviction from a full map; restart | fewer than twice the limit in any window |
| **Reports, dashboard, calendar** (`reports/service.rs`, `dashboard/service.rs`, their repositories, `pmk-domain` delay rules) | none of their own: jobs, lines, diary entries, two clocks | every report, the dashboard, the calendar | lateness is decided in seven queries and in Rust; two notions of today; days expected and days counted by different queries | all screens tell one story |
| **Registration** (`repo/bootstrap.rs`, migration 0013) | `companies`, `users` | first-run setup, public sign-up | checks and inserts race; SERIALIZABLE refuses some | one company per name; answers agree with what was committed |
| **Tasks, links and progress of a job** (`jobs/service.rs`, `progress/service.rs`, `repo/job_task.rs`, `repo/job_link.rs`, `repo/progress.rs`) | `job_tasks`, `job_dropbox_folders`, `progress` | create, update, delete, save the notes of a task | the record, its job and the job's users are each read in a transaction before the write; partial updates write back a copy | progress is written only by those who could see its job; a column is what it was last asked to be, unless two updates overlap |
| **Tenant isolation** (row-level security, `rls.rs`) | a per-transaction setting | every statement | SQL policies, no protocol | - |
| **HTTP layer, mail, configuration, CLI** | none | parsing, rendering, wiring | none | - |

How they interact: media hangs off jobs, diary entries and notes, so every
container delete is also a media delete; forms attach and discard bucket objects
and queue keys through the same queue; users' deletes cascade into tokens,
assignments and forms; identity reads the entitlement of billing; diary and
call-forward publish events after their commit; deleting a job takes its
allocations, items, entries and media; the reports read what all of them wrote.

The hazards these behaviours lead to are listed line by line in `PROJECT.json`.

## 2. Plan

| # | module(s) | status |
|---|---|---|
| 1 | `FileLifecycle` (abstract), `MediaLifecycle` (composes upload, deletes, cascade, sweeper), `MCMedia`, `MediaLifecycleProofs` | done |
| 2 | `AuthSessions`, `MCAuth`, `AuthSessionsProofs` | done |
| 3 | `InspectionForms`, `MCForms`, `InspectionFormsProofs` | done |
| 4 | `Tenant` (the rows and requests of one company), `Accounts`, `Billing`, composed in `Company`; `MCCompany`, `CompanyProofs` | done |
| 5 | `Assignments`: assignment edits statement by statement against the supervisor column; `FieldProofs` | done |
| 6 | `Programme` (the pure rules of the tree) and `CallForward` over it; `CallForwardProofs` | done |
| 7 | `Scheduler`, `Board` over it; `MCBoard`; proofs in `FieldProofs` | done |
| 8 | `LiveEvents`, `Diary` over it; proofs in `FieldProofs` | done |
| 9 | `Branding`, `Weather`, `Notifications`; `ServicesProofs` | done |
| 10 | `Reporting` (late lines and bars), `Reports` over it (jobs, supervisors, diary); `MCReports`; proofs in `ServicesProofs` and `SiteProofs` | done |
| 11 | `Registration`; proofs in `ServicesProofs` | done |
| 12 | `JobRecords`, `ExtrasToOrder`; proofs in `ServicesProofs` | done |
| 13 | `Site`, which puts 5 to 12 side by side; `MCSite`, `SiteProofs` | done |
| 14 | deleting a user beside their sessions; stored reports | open |

`AuthSessions`, `InspectionForms`, `MediaLifecycle`, `Company` and `Site` are
separate specifications: the rows they share (a user's activity, a job's
existence, an entry's) are inputs of each, free to change wherever the other
could change them.

Theorems worth having, in order: the file lifecycle, rotation and revocation,
the photos and the status of a draft and gap-free ETO numbers, the bounds on
attempts and on rival exchanges, the seats and the last manager of a company,
the safety property of each part of the site, that a capture loses no row, that
the reports' sums agree, and that all of it holds of the site (all done). Every
invariant and action property of a passing run is now a theorem; `Swept`, a
liveness property, is not.

No module declares a RECURSIVE operator. The walk of a tree with a stack
(`Walk`) is a function of the number of steps, of which there are as many as
rows, since a row is put on the stack once at most; the rows below an item
(`Below`, the code's recursive query and the foreign key's cascade) are the
least set closed under children; the sums of `Weather` (`CallsUpTo`) are a
function of the ticks.

## 3. What is modelled

### MediaLifecycle

One API request is a slot of `request`, holding what its transaction has read or
locked. One sweeper is a slot of `worker`.

| model | code |
|---|---|
| `Upload` | the client's PUT to the URL `presign_upload` returned; at any time, as often as it likes |
| `ConfirmVerify`, `ConfirmRecord` | `confirm_upload`: `verify` against the bucket and the type this confirm declares, then the insert in its own transaction |
| `ConfirmReject`, `ConfirmDiscard` | `verify` turns the object down, bad or good and of another type than this confirm declares, and removes what lies at the key by then |
| `RemoveLock`, `RemoveCommit` | `delete`, `delete_many`: the rows locked, then row deletes and queue inserts commit together |
| `PurgeRead`, `PurgeQueue`, `PurgeCommit` | `jobs.purge`, `diary.delete`, `diary.delete_note`: read the media, queue the keys, delete the container and let ON DELETE CASCADE run |
| `Abort` | a crash, a lost connection, a failed foreign key, a deadlock victim: the transaction rolls back |
| `Fetch`, `DeleteObject`, `Settle`, `AbortPass` | `sweep` of `pmk-worker`: `pending_deletions`, `delete_object`, `mark_deleted` / `mark_deletion_failed`; killed anywhere |

`Captures` is what the queueing queries select and `Cascades` what the foreign
keys remove; that they are different predicates is the point. Row locks and the
wait on an uncommitted insert of the same queue key are guards. `recorded`,
`reused` and `exposed` are history, read by no guard. The file's content is
`good` or `bad`, what `verify` tells apart but for the type: that is the
request's, and a confirm of a good object, recorded or not, may declare another
than the one before it. Either verdict on a key that a confirm has already
judged makes it `reused`.

`pending_deletions` orders by `created_at`, which is the start of the deleting
transaction and says nothing about when it committed; a late commit can put an
old key in front of keys already offered. The model offers any batch.

`FileLifecycle` is the promise: new, kept, condemned, gone, and never from kept
to gone in one step. `MediaLifecycle` implements it under `Phase`. A key the
client writes or confirms again, and a row committed under a delete in progress
or hung on another entry's note, leave the promise and become `stray`; the code
does not protect those.

### AuthSessions

A request is a slot holding what it read. The statements of `IdentityService`
commit one by one, so between any two of them others may run or the process may
die (`Abort`).

| model | code |
|---|---|
| `LoginCheck`, `LoginRehash`, `LoginIssue` | `login`: credential read and verified; `replace_password_hash`; `issue_session` |
| `RefreshFind`, `RefreshReuse`, `RefreshUser`, `RefreshMarkUsed`, `RefreshIssue` | `refresh`: lookup and checks; `revoke_family` on reuse; the user as of now; `mark_used`; `issue_in_family` |
| `Logout`, `RevokeAllForUser` | `logout`; an inactive user's refresh, or the end of a reset |
| `CodeBegin`, `CodeCommit` | `store_reset_token`, `issue_recovery_code`: the UPDATE that spends outstanding codes sees what was committed when it began |
| `ResetFind`, `ResetClaim` | `reset_password`: lookup, then the conditional `auth_claim_reset` |
| `SetActive`, `SetPassword` | `UsersService::update` on an account |

Time is left out: an expired token or code is one nobody presents any more, and
no guard requires anybody to present anything, so every run with expiry is a run
of the model. `password_changed_at` is a counter of password writes. Hashes, JWT
encoding, audit and mail are left out. `overtaken`, `late`, `resetAt` and the
`since` of a token are history.

### InspectionForms

The draft of one user on one job. Every write of a draft begins its transaction
with `claim_revision`, an UPDATE that holds the row to the end, so a transaction
is one step; what the service reads before it is a step of its own. Deleting the
diary entry, the note or the job locks nothing before its cascade, so there each
statement is a step.

| model | code |
|---|---|
| `CreateDraft` | `get_or_create_draft` |
| `SaveCount`, `SaveCommit` | `save_draft`: `photo_counts` in one transaction; then the claim, the rows, the detached photos and the note with the rendered status in another |
| `Upload` | the client's PUT to a URL from `prepare_photos`, any number of times |
| `AttachFind`, `AttachVerify`, `AttachReject`, `AttachCommit` | `attach_photos`: the form and the row looked up, the objects verified one by one, the transaction, whose commit may be reported as an error; any object that is there may be turned down, since it may be bad, of another type than this attach declares, or a video |
| `AttachLose`, `AttachFail`, `Discard` | the revision moved, or an error; then the best-effort `discard` |
| `DeletePhoto`, `DiaryDeletePhoto` | `delete_photo`; the diary's own delete of a photo, which knows nothing of revisions |
| `DiaryDeleteRead`, `DiaryDeleteQueue`, `DiaryDeleteCommit` | the diary's `delete` and `delete_note` and the job's purge: the photos read, their names queued, the entry deleted with what it has by then |
| `Sweep` | one object of the queue: the steps in between are in `MediaLifecycle` |
| `Abort` | a refusal, an error, a crash: the transaction rolls back |

`ActionStatus` is `inspection_action_status`: a row is filled in if it has text
or a photo. Texts are blank or not. A request that starts with a revision
already behind is refused and changes nothing, so requests start with the
current one; `Rows` bounds what a row of the checklist may say. A draft made
after this one was deleted is another instance. `recorded`, `excused`, `exposed`
and `miscounted` are history, read by no guard: `exposed` are the names recorded
while a delete of the entry was under way, whose rows the cascade takes unread,
and those written again once their object was gone.

### Company: Tenant, Accounts, Billing

`Tenant` holds the users, the company's billing row and the slots of the
requests with their admission: `Authenticate` and `Admit` are the extractors
that resolve the caller and refuse an unpaid company. `Accounts` and `Billing`
add their own variables and steps, `Company` takes one step of either.

| model | code |
|---|---|
| `CreateBegin`, `SeatLimit`, `SeatCount`, `CreateInsert` | `UsersService::create`: the limit, the count and the insert, three transactions |
| `UpdateRead`, `UpdateExisting`, `UpdateWrite` | the route's read and merge, then `update`: nobody acts against themselves, a seat is asked for when the user becomes active, every column is written |
| `DeleteRead`, `DeleteRow` | `delete` |
| `GrantRead`, `GrantDelete`, `GrantLock`, `GrantInsert` | `set_permissions`: the delete of the rows it sees, the wait, the inserts; the marker that makes an empty list a list |
| `CheckoutBegin` .. `CreateSession` | `start_checkout`: entitlement, seats in use, the customer on record or a new one, the session at Stripe |
| `ConfirmSession`, `ConfirmSubscription`, `ConfirmOwner`, `SetSubscription` | `confirm_checkout`: the session the client names, whether it is this company's |
| `CompleteOnboarding` | `complete_onboarding` |
| `Pay`, `Bill`, `ChangeQuantity`, `TrialEnds` | Stripe and time |

`raced`, `deposed`, `crossed`, `mingled` and `displaced` are history: who sat
down, was written or was replaced by a request another had overtaken.

### Assignments

Each statement of `add_assignment`, `remove_assignment` and
`set_primary_assignment` is a step that sees what is committed when it starts
and its own writes; row locks, the job lock and the two unique indexes are
guards (`Locked`, `JobLocked`, `PrimaryUndecided`). `Sync` takes the
assignments, `Store` writes `jobs.supervisor_id` and commits. `PatchRead`,
`PatchFind`, `PatchWrite` are the partial update of a job, whose copy can be
outdated; `Archive`, `Purge` and `DeleteSupervisor` the rest.

### Programme and CallForward

`Programme` is the domain's own code: `ValidParent`, `RowOrder`, `InTreeOrder`
(the walk with a stack), `Capture`, and `ValidItems`, which is `ParentsFirst` up
to `MaxTemplateItems` rows (2000 in the code). `RowOrder` chooses the sorted
sequence; that there is one is a lemma (`RowsCanBeSorted`). `CallForward` are
the requests: `CreateItems`, `CheckLine`, `InsertLines` (one or many lines, each
parent looked up before the write); `PatchItemRead`, `FindItem`, `CheckParent`,
`WriteItem`; `DeleteItem` with the cascade below; `ReorderFind`, `Reorder`;
`CreateTemplate`, `ApplyFind`, `Apply`; `CloseJob`. Ids are given out in order,
as a sequence does, and `born` is the last one given. Orders are integers,
negative ones included; a line that gives none (`NoOrder`) takes one past the
greatest its job has as it is inserted (`RowOf`). An empty template applied with
"replace" removes nothing, as in the code. `unvouched` are the items
whose link a reorder, a retyping or a copy of such a link has put beyond the
service's check, `undone` those written from an outdated copy.

### Scheduler and Board

`AbsenceBegin`, `AbsenceStatement`, `AbsenceCommit`: the statement takes the
trigger's advisory lock and looks for overlaps; the lock is held to the commit.
`AllocationBegin`, `AssertTargetVisible`, `AssertWorkerAvailable`, `Book`: three
calls, and a unique index on worker and day. `DeleteTarget` cascades. `Board`
reads the workers, the absences and the allocations in successive snapshots
while the requests of `Scheduler` go on (`Meanwhile`).

### Diary and LiveEvents

`Get`, then one transaction per request (`AddNote` and `CommitNote` are two: the
position is computed by the insert and seen by others at the commit), then
`Announce` for those operations that announce, and a failure between them.
`LiveEvents` is the bus: `Publish` puts an event in the queue of every
instance's listener, `Forward` into the bounded channel, `Receive` shows it to a
client it concerns; `Interrupted` listeners resume or restart, `Lag` skips,
`Restart` empties an instance. `Connect` and `Open` are the client: subscribe
first, refetch then.

### Branding, Weather, Notifications

`Branding`: `ConfirmImage` verifies; `BeginSet` is the snapshot from which
`RETURNING` reads the displaced key, `WriteImage` the update of the row as it is
by then; `Sweep`, `AbandonSave`. A presigned URL takes any number of PUTs until
it expires, and there is no clock here, so `PutImage` may happen at any time and
again; a key written again after it was shown and deleted is `replayed`, and
nobody sweeps it a second time. `Weather`: `CheckRate` is `check_rate` whole,
with the expiry, the eviction of the stalest and the window of a new caller;
`Tick` moves the clock. `Notifications`: the upsert by endpoint with the
row-level policy that hides another company's row (`Invisible`), the delete by
user and endpoint, and the read and write-back of preferences.

### Reporting and Reports

`Reporting` has one operator per query that decides whether a line is late,
open, coming up or drawn, and the delay engine, over lines that validated edits
change and two clocks, the company's and the database's, that strike midnight
apart. `Reports` puts the lines on jobs with supervisors and a diary, which
supervisors fill (`FileEntry`: for the day they name, past or to come, or else
for today), and has one operator per report, with its filters (`Query`,
`Prepare`, `JobScope`), its grades (`JobHealth`, `Percentage`,
`DiaryCompliance`, `PerformanceScore`) and its calendar (`JobsInWindow`,
`JobBar`). Scores stay in hundredths where the code keeps a float and rounds for
display: the order of two scores is what the properties compare, and rounding
would blur it.

Three ways in which the code's reports differ from one another are in the model
as they are in the code, and the properties say so: the job progress counts
lines that are finished but not closed among the delayed, where every other
report does not; the weather report reads the issue column of a diary entry,
where the application writes issues as notes; the calendar's supervisor filter
looks at the primary supervisor only, where reports look at every assignment.

### Registration

`Register` is the snapshot and the checks of `auth_register_company`,
`CommitRegistration` its insert and commit. The transaction is SERIALIZABLE:
every registration scans `companies` and inserts into it, so each of two that
overlap reads what the other writes, and the later to commit is refused
(`Serializable`). No index keeps company names unique, so this is all there is;
addresses have one. `AddUser` is a manager's, at READ COMMITTED. `IssueSession`
comes after the commit and may fail.

### JobRecords

Tasks, links and progress records are rows of three tables with the same two
columns here: "lead" for what names a row, "rest" for the others. A column holds
the request it comes from. Each request is a slot of `change`.

| model | code |
|---|---|
| `CreateFind`, then `InsertTask`, `InsertLink` or `InsertProgress` | `create_task`, `add_link`, the progress `create`: the job is found for the caller, and the row inserted in another transaction; the foreign key, or the select a link is inserted from, refuses a job purged between |
| `ReadTask`, `UpdateTask`, `UpdateNotes`, `DeleteTask` | the task is looked for by its id; no job is. An update lays the fields sent over the copy it read, the notes have a statement of their own |
| `FindLink`, `UpdateLink`, `DeleteLink` | the job of the path is found for the caller, the link by its id alone; COALESCE keeps an order that was not sent |
| `FindProgress`, `AssertJobAccess`, `FindAgain`, `UpdateProgress`, `DeleteProgress` | the record, then its job; an update does so twice, once for its copy and once for its write |
| `RefuseTaskOrLink`, `RefuseProgress` | validation, a failure, a lost connection |
| `PutOnJob`, `PurgeRecords` | assignments change and jobs are purged beside the requests; the purge cascades |

`reached`, `meant`, `reverted`, `outdated` and `touched` are history. A user is
put on a job or taken off it only while a request of theirs about that job is
under way: at any other time the initial choice of `onJobs` stands for it. That
tasks and links are looked for by their id without their job is as the code has
it; the property about reach is of progress records, the only ones for which the
code looks at the record's own job.

### ExtrasToOrder

`raise_eto` is one transaction. `EtoAllocate` is the upsert that takes the next
number of the job and holds its row, so that a rival waits (`Numbering`);
`EtoCommit` writes the entry and the note under it; `EtoRollback` returns the
number. `EtoJobDelete` is the purge of the job with its sequence and its
entries, which waits as well, for the sequence's row refers to the job's.

### Site

`Site` extends the parts 5 to 12 above. No step of one part reads or writes a
variable of another, except that `Reports` reads the lines and clocks of
`Reporting`; so every behaviour of all of them is a shuffle of one behaviour of
each, and every property, which speaks of one part, is decided by that part's
behaviour. `Site` therefore moves one part in each behaviour (`focus`) and keeps
the others where they start, with nothing in their tables. That each of its
behaviours is one of every part's own specification is proved
(`SiteIsItsParts`).

## 4. What the runs show

| run | instance | shows |
|---|---|---|
| `media` | one job, two entries with a note each, one key on an entry, 2 rows, 2 requests, 2 workers, batch 1, 2 attempts | `NoOrphan`, `NoBrokenRow`, `AttemptsBounded` and the refinement of `FileLifecycle`, over every interleaving of two deletes, purges or confirms with two sweepers |
| `media_sweep` | two keys, one request, one worker, batch 2, fairness | `Swept`: every queued key is deleted or parked, whatever crashes and whatever fails beside it |
| `media_purge_race` | one entry, two requests, no worker | `DeleteCommitsItsQueueRows` is violated: an upload confirmed between a purge's read and its delete loses its row by the cascade with nothing queued |
| `auth` | one user, two requests, 3 tokens, one code, one password write | `OneUnusedToken`, `ExchangedByRivalsOnly`, `RevokedStaysRevoked`, `ResetSparesOnlyRacers` |
| `auth_reset` | the same | `EverySessionEnds` is violated: a login that had verified the old password issues its session after the reset has revoked everything |
| `auth_rehash` | the same | `IssuedTokenResolves` is violated: the transparent rehash moves `password_changed_at` and the login then issues an access token stamped with the old value, which does not resolve |
| `forms` | one checklist row, two uploads, two requests, 3 accepted writes | `NoOrphanPhoto`, `NoBrokenPhoto`, `SavedStatusIsCurrent` over two requests, saves, attaches and deletes of the entry statement by statement, beside repeated PUTs, the diary's delete of a photo and the sweeper |
| `forms_discard` | one upload | `LosersAreUnreferenced` is violated: two attaches of one upload run side by side, and the loser of the revision race discards the object the winner's row names |
| `company` | two managers, two others, two requests, three sessions and two customers at Stripe | `SeatsExceededByRacersOnly`, `LastManagerFallsToRacersOnly`, `EditsUndoneByRacersOnly`, `EffectiveIsLastSave`, `SubscriptionIsOwn`, `CheckoutsConfirmable`: what a company loses it loses to two requests that overlap, and whose |
| `board` | one worker, two days, an absence, an allocation, two requests | `NoAllocationWithoutItsWorker` is violated: the board's four queries take four snapshots, and a worker's allocation made between two of them is drawn without the worker |
| `site` | two requests on each part, one part moving | see below |
| `calendar` | the books below | `DatelessJobIsDrawn` is violated: a job without dates is in no window the query asks for |

The properties of `site`, by part:

| part | property | says |
|---|---|---|
| assignments | `SupervisorDisputedByRacersOnly` | the supervisor column is the primary assignment, unless an add or a remove that was overtaken, a partial update or a deleted account wrote it last |
| | `StatusUndoneByRacersOnly` | a job is archived or not as last asked, unless an update that did not name the status wrote an outdated one back |
| scheduler | `AbsencesNeverOverlap`, `BookedWhileAwayByRacersOnly` | no two absences of a worker share a day; a worker is booked while away only when the absence was saved after the booking looked |
| call-forward | `LinksVouchedFor`, `CapturesAreFaithful`, `ItemsUndoneByRacersOnly` | links are legal where the service had the last word; a capture loses nothing, even of a circle, and can be applied exactly when there is no circle and no more rows than the limit; an item is what it was last asked to be |
| diary, events | `NotesInTheOrderWritten`, `ScreensSettle` | notes keep their order through archiving and deletion; a screen that has caught up is current, through lag, reconnects and restarts |
| reporting | `OverdueReadsAgree`, `DelaysOnlyGrow`, `BarsAreFound` | all lists of late lines are one list; lateness grows a day a day; a calendar window finds exactly its bars |
| reports | `SiteReportsAgree`, `SiteDiaryReportsAgree`, `SiteScoresFollowTheDays` | reports, dashboard and calendar tell one story of the jobs and of the diary; a grade moves only as days and entries move it |
| branding | `ImagesFollowTheLogo` | the logo has its object and displaced objects go, unless a key was confirmed twice or written again after it had gone |
| weather | `QuotaIsBounded` | fewer than twice the limit in any stretch as long as a window |
| notifications | `EndpointIsLastSubscribers` | a late unsubscribe does not switch the next user off |
| registration | `RegistrationsAreSerial` | one company per name and founder, one setup, answers that agree with the database |
| job records | `ProgressWithinReach` | a progress record is created, changed and deleted only by somebody who could see its job while asking |
| extras | `EtoNumbersGapFree` | the ETOs of a job are numbered 1, 2, 3, … in order of commit, whatever rolls back and whoever raises at once |

`SiteTypeOK` is the one type invariant that is run. Those of the media, the
sessions, the forms and the company are proved instead.

Why these bounds are enough. Two requests are the least that race, and every
guard of a step compares its own slot with at most one other. Two entries with a
note each are the least for which a note of another entry exists. Two rows are
needed for one key recorded twice, and for a row inserted behind a purge's back;
`MaxRows` also ends the life of the system, which `Swept` needs: a key that
could be queued again for ever would restart its attempts for ever. Two workers
and one key make the late-failure race; two keys and a batch of two put a
failing key beside a healthy one. Three refresh tokens are a login, its
successor and a rival successor. One password write is the reset. Users do not
interact in `AuthSessions`: every step reads and writes one user's rows. In
`InspectionForms` three writes are a save that makes the row, an attach, and a
write that drops the photo; two names make a batch with one bad file, or a photo
that must survive the dropping of another; rows meet only in the status, which
one row takes through its values: `MCRows` are a blank row to be done, which
only a photo fills in, and a row with text that is done.

In `company`, two managers are the least who can demote each other, a third user
fills a seat and a fourth, not born yet, wants one; seats are sold by twos and
threes, so that a limit can be short of the active users, met, or have room;
three sessions are two first checkouts and one later; a second customer is the
one a race displaces; two payments make one subscription replace another.

In `site` two requests per part are again the least that race, and three where
three identities are needed (supervisors: the primary, the next and a new one;
callers: one more than two windows the eviction can choose between). Four items
make a header with two children and a second header, a circle of two, and the
copies of a template of one job in another; `Filed` lets one item be there at
the start. Where a part starts, the identities it does not tell apart are taken
in one order (`RowsAreNamed`): the supervisors assigned are the lowest of
`Rank`, and the worker away, the entry with the note and the job with the record
have the first name; any other start is one of these renamed. The diary has an
entry with an earlier note and room for two more, a second entry for writes that
arrive through another's path, a channel of one event, so that a second one is a
lag, one instance and one client: instances and clients do not read one another.
Two calls in a window of three ticks put two windows' ends and starts in reach
of each other. Dates are day 1 and day 3 over a clock of thirty days, which
takes a delay through every grade (4, 8, 15 days) and bucket (8, 15, 29).
`Reports` starts from families of books (`MCBooks`): every job beside an
ordinary one, every line beside a late one and a claim, every diary entry after
a dry one of the same day, and an empty company; its clock runs four days across
a weekend (`FirstSaturday` 2), with two entries filed. Two registrations with
two names and two addresses are the setup and a sign-up, or two sign-ups, that
agree on either or on both. Two jobs, two rows and two requests are a record of
another job than the path's, a row beside a new one, and two updates of one row.
Three raisers on two jobs are one who holds the number, one who waits and one on
the other job; three ETOs are a number, its successor and one more.
`MaxTemplateItems` is 2, so that a programme of three or four rows is over it.
An order given is -2, and an item without one takes the next: both sides of 0.
`RecentDays` is 2 for the code's 7, `RateLimit`, `RateWindow`, `RateMapMax` and
`Buffer` stand for larger numbers of the code's that appear in no other way.

Deadlock is checked in the runs of media and auth. In the others every request
is made at most once, drafts are deleted, clocks stop, and the system may stop
with them: `CHECK_DEADLOCK FALSE`.

`SYMMETRY` is used where only invariants and action properties are checked: over
requests and workers; for the forms, client keys and stored names; for the
company, its founders, sessions and customers; for the site, the two requests.
They occur in no property except under a quantifier or as a cardinality, and no
definition chooses among them.

### Fairness

Only `media_sweep` assumes any. The loop of `pmk-worker` runs a pass, sleeps and
runs the next, and a killed worker is restarted, so a pass is eventually begun
(weak fairness of `Fetch`). A pass can be cut short again and again before it
reaches a given key, so weak fairness says nothing of the other two steps;
strong fairness of `DeleteObject` and `Settle` says that a crash does not recur
at each and every delete. `DeleteObject` may fail every time: the outcome is not
assumed. Nothing is assumed of clients, requests, rollbacks or crashes.

## 5. What is proved

TLAPS checks these for any sets of jobs, entries, notes, keys, rows, users,
requests and workers and any bounds, from the named assumptions of the modules
(disjoint containers, finite sets of keys, workers and requests, bounds that are
naturals, items that are numbers, sentinels outside the sets they stand beside).
Each assumption is named in the module that declares the constant, and TLC
evaluates it in the runs.

**MediaLifecycleProofs** - `TypeCorrect`, `FailuresBounded` (`AttemptsBounded`),
`NeverOrphaned` (`NoOrphan`), `NeverBroken` (`NoBrokenRow`) and `Refinement`
(`File!Spec`). The properties are not inductive alone. The invariant adds that a
clean key has at most one row and that ids below `nextId` are used up
(`OneRow`); that a confirm in flight for a clean key has a good object behind it
and no row before it, and that no reject in flight is for a recorded clean key
(`Confirming`); that a removing request's keys are those of
rows it holds (`Removing`); that what a purge is about to cascade it has
captured, already queued or will queue (`Listing`); that a worker holds only
keys that are doomed, so its late delete cannot hit a live row (`Doomed`); and
where a row's container is (`Placed`). Each action has one step per conjunct it
can disturb. The bound on `attempts` is a count: a failure beyond the cap can
only be charged by a worker that fetched its batch before the cap was reached
and still holds the key (`Holding`), and every such charge gives a hold up, so
failures and remaining holders together stay within the cap and the other
workers (`Charged`, `HoldersCounted`).

**AuthSessionsProofs** - `TypeCorrect`, `OneUnused` (`OneUnusedToken`),
`ExchangedByRivals` (`ExchangedByRivalsOnly`), `RevocationLasts`
(`RevokedStaysRevoked`) and `ResetEnds` (`ResetSparesOnlyRacers`). The invariant
adds how tokens descend (`Lineage`), what each request in flight may hold
(`Holding`), that two tokens of a family without a successor mean that one of
its tokens was exchanged twice (`OneTip`), and that whoever could still issue
into a revoked family or under an old password is known to be overtaken
(`RacersKnown`, `LoginsKnown`, `StampsAhead`). One-slot steps share a frame
lemma, revocations share another. How often a token is exchanged is a count as
well: its successors and the requests that hold it past the check (its rivals)
together are never more than the requests in flight at once; an exchange turns a
rival into a successor, and nobody takes hold of a token that has one.

**InspectionFormsProofs** - `TypeCorrect`, `NeverOrphaned` (`NoOrphanPhoto`),
`NeverBroken` (`NoBrokenPhoto`) and `StatusCurrent` (`SavedStatusIsCurrent`).
The two about
photos need `Custody`: a name that is not excused is held by one request at most
and by none once recorded (`SoleHolder`), so nobody is left who could discard
it; what a request has verified stays good until it is recorded
(`VerifiedStays`); and a name has one row (`OneRowEach`), so a photo that is
dropped and queued is not also one that stays. The status needs `CountsHold`: a
save's counts are those of the draft as long as the draft still has the save's
revision. A delete under way has read, and then queued, the names of all photos
there are but the exposed ones (`DeletesCover`), so that its cascade takes no
other row.

**CompanyProofs** - `CompanyTypes` (`CompanyTypeOK`),
`SeatsOnlyExceededByRacers`, `LastManagerOnlyFallsToRacers`,
`EditsOnlyUndoneByRacers`, `LastSaveIsEffective`, `OwnSubscriptionOnly` and
`OwnCheckoutsConfirmable`, one invariant with a part for each. A request under
way has an actor and a target that were there when it looked (`Targets`); a
manager who has not lapsed still manages, and cannot undo that themselves
(`Standing`); a copy nobody has outdated agrees with the row (`Copies`); a count
nobody has overtaken is a count of now, so that who sits down after it has room
(`Seating`, with cardinalities of the active users); a save nobody has
overlapped deletes all there is, so that its own list is what remains
(`Saving`); a checkout works with a customer of the company, a confirmation with
a completed session of one of them (`Dealing`). What a commit does to the other
requests is one lemma (`CommitMoves`): it can only outdate them, never restore
them.

**FieldProofs** - the scheduler, the assignments and the diary.

`NeverAwayTwice` (`AbsencesNeverOverlap`): two absences that wait for their
commit are of two workers and of two rows (`OnePerWorker`), which is what the
trigger's lock is for, so that what a waiting absence was checked against cannot
grow until it commits (`PendingFits`). `OnlyRacersBookTheAway`
(`BookedWhileAwayByRacersOnly`): an absence that covers a day and that a booking
past its look did not find was saved after the look (`LookedOnce`).

`StatusStandsAsAsked` (`StatusUndoneByRacersOnly`): the copy of a partial update
that does not name the status agrees with the job for as long as nobody has
written the status since (`CopiesAreCurrent`); every writer of the status marks
the other copies outdated (`StatusOutdates`); all other steps leave it alone.

`SupervisorFollowsAssignments` (`SupervisorDisputedByRacersOnly`): the promoted
supervisor is the first of the assignments as the transaction sees them, and
that stays so until it stores them (`PromotedIsFirst`). It rests on what the
database guarantees while several transactions write: committed rows keep the
two unique indexes (`RowsSound`), so does what any open transaction would leave
(`ViewsSound`), no row is written by two (`RowsApart`, the row locks), only one
writes a primary (`OnePromoter`, the unique index), and no two assignments share
a time, so that "earliest" names one (`WritesDated`, `ClocksDiffer`). That a
first one exists is the least element of a set of naturals (`LeastElement`).

`NotesStayInOrder` (`NotesInTheOrderWritten`): a note that
waits for its commit has an id of its own, comes before nothing, and after
everything that was there (`PlacedLast`); ids are not used again (`UsedOnly`,
`Unplaced`), and there is always a position above all others (`Bounded`).
`CaughtUpScreensAreCurrent` (`ScreensSettle`): where an open screen differs from
what is stored, the change is on its way to it - not yet announced, in the
channel behind the listener, or in the stream behind what the client read -
unless it is one of the excused (`ScreensFollow`, `OnItsWay`).

**CallForwardProofs** - `ProgrammesAreSound` (`CallForwardTypeOK`),
`LinksAreVouchedFor` (`LinksVouchedFor`), `ItemsAreAsAsked`
(`ItemsUndoneByRacersOnly`), `CapturesLoseNoRow` (`CapturesAreFaithful`).
Parents exist, through every cascade (`ParentsHold`, the foreign key); links are
legal but for the doubtful ones (`LinksHold`) and so are those of a template
(`TemplateHolds`); a create's checked lines and an update's copy stand until
somebody writes the parent or the item (`CreateStands`, `UpdateStands`), and the
writers mark whom they overtake. Applying a template copies its links one for
one, since a captured item's parent is the position of its row's parent
(`CaptureOfRows`).

That a capture loses no row, and is valid exactly when the rows run in no circle
and are within the limit, holds of any rows with any integers for orders
(`CapturesLoseNothing`), so the invariant adds no more than their types. Every
set of rows can be sorted (`RowsCanBeSorted`, from `TopExists`). What the walk
has put out followed by what is on its stack is one sequence (`Walked`): each of
its rows stands in it once, behind its parent, in the order of its siblings, and
it holds the roots and the children of what is out, no others. A step moves one
row over and inserts its children behind it (`PutOutInTheMiddle`,
`WalkedGrows`), so that the stack is empty after as many steps as there are rows
(`WalkEnds`). What is left by then is not below a root (`WalkReaches`), which
rows without a circle all are (`RankedRowsAreReached`); the others follow
sorted, each once (`NoRowIsLost`). The induction over the steps of the walk is
on a least counterexample (`UpTo`).

**ServicesProofs** - the smaller services.

Registration, `Serial` (`RegistrationsAreSerial`): a registration that has
written and not been overlapped still has the name to itself (`SnapshotHolds`),
and every company belongs to a request that is past its commit and was told so,
or was told of an error (`Standing`).

Branding, `LogoAndBucketAgree` (`ImagesFollowTheLogo`): an image that was shown
was written by a request that confirmed it (`ShownWereWritten`), so a request
that comes with the same image has confirmed it again (`SecondConfirmation`).
From this: what a request will show is stored (`PendingAreStored`), what it will
sweep is not on show (`SweptAreHidden`), and who displaces the image they set
has set it again (`SetAgain`). Only a replayed key is stored again once it had
gone.

Notifications, `EndpointsFollowTheirUsers` (`EndpointIsLastSubscribers`): a
delete names the user as well as the endpoint, so a late one finds nothing.

Weather, `CallsStayWithinQuota` (`QuotaIsBounded`): while a window runs it has
counted the calls since it began, and those admitted before it within reach are
fewer than a limit (`WithinOne`); between windows the calls still in reach are
fewer than a limit (`Between`). Calls are summed by tick (`CallsUpTo`): one more
call raises every later sum by one, and a tick of the clock shifts them all
(`SumsOfATick`).

Reporting, `ScreensAgree` (`OverdueReadsAgree`), `LatenessOnlyGrows`
(`DelaysOnlyGrow`), `CalendarFindsItsBars` (`BarsAreFound`): that every line has
passed the service's `validate` is inductive, and with it the rest is arithmetic
on four dates: late work cannot start in the future, because estimates are in
order, and the bar's two fall-back chains end in the same dates. This is for any
dates and any horizon; the run has two dates.

Job records, `ProgressStaysWithinReach` (`ProgressWithinReach`): a request past
its look at the job holds a job its user could see since it began, and the
record under that id is still of that job, because ids are given out once
(`Unborn`) and a row's job never changes (`KnowsItsJob`).
`RecordsLoseOnlyToRacers` (`RecordsUndoneByRacersOnly`, which no run checks): a
copy that no write has overtaken is the row (`CopyIsCurrent`), so only an
outdated one can write a column back. `RecordTypes` is their type invariant.

Extras to order, `NumbersGapFree` (`EtoNumbersGapFree`): the number in flight on
a job is the next one, and only one is in flight.

The theorems of the last three modules are of each part's own specification
(`SchedulerSpec` and so on).

**SiteProofs** - the reports, and the site as a whole.

`SiteIsItsParts`: a behaviour of `Site` is a behaviour of each part's own
specification. Only one part moves in a step (`OthersRest`), and a step of
`Reports` is, to the lines and clocks it shares with `Reporting`, a new day or
nothing (`ReadsStep`). So the site keeps every promise of a part
(`PartsKeepTheirPromises`, all properties of the table in section 4) and every
type (`SiteIsTyped`, `SiteTypeOK`).

The invariant the reports need is small (`LedgerInv`: the types, validated
lines, ordered job dates); what is long is that their operators agree, state by
state. `ReportsTellOneStory` (`SiteReportsAgree`): every list of late lines is
the set `Delays` cut down to some jobs, and a supervisor's own jobs are the
office's filtered by them, so lists agree as sets, counters as cardinalities.
Sums need more. The community modules sum over a set in an order `CHOOSE` picks;
`Total` is the same sum as a function of subsets, and by the least set on which
a claim fails (`ByOneMore`) it does not depend on the order (`TotalOfOneMore`),
is bounded by its members (`TotalIsBounded`) and adds up cardinalities
(`CountsAddUp`, `PairsAreSummed`). With it the four buckets hold every late line
and an average is at most the most.

`DiaryReportsTellOneStory` (`SiteDiaryReportsAgree`): five days for every whole
week and the rest one by one are the weekdays of a span (`SpansAreCounted`: a
week has five wherever it begins, `FiveAWeek`), so the working days of a
supervisor's jobs, summed, are the pairs of a job and a day that are due
(`ExpectedIsDue`). That a rate stays within 100 and a score within its scale is
arithmetic on quotients (`QuotientAtMost`, `RoundedAtMost`).

`GradesFollowTheDays` (`SiteScoresFollowTheDays`): a grade is made of seven
counts and the days owed (`GradesAreMadeOf`), a rounded rate grows with its part
and shrinks with its whole (`RoundedGrows`, `RoundedShrinks`), so the order of
two scores follows from the order of their counts (`ScoreFollowsTheCounts`). At
midnight delays and days owed only grow and nothing done is undone
(`MidnightMoves`); an entry adds one to the days with an entry, or, on a day
that has one, nothing (`EntryMoves`). `ReportsOfOneLedger` says the same of
`ReportsSpec` alone. All this is for any number of jobs, lines, supervisors,
entries and days, from finite tables (`TablesAreFinite`), a NULL that is no
number (`NullIsNoValue`) and calendar windows that end after they start
(`MonthsAreInOrder`).

**Only model-checked**: `Swept`, since liveness under fairness is out of the
prover's reach; and the six violated properties, whose counterexamples are what
their runs show.

## 6. What the code does not promise

The six violated runs are disagreements between a comment and the code; each is
listed in `PROJECT.json` with the line quoted. The passing properties state the
sharpest form that holds: `RevokedStaysRevoked` and `ResetSparesOnlyRacers`
except for requests past their checks, `NoOrphan` except for reused and exposed
keys, `NoOrphanPhoto` except for names attached under a delete of the entry or
written again once gone, `NoBrokenPhoto` except for names attached or written
twice or after an unknown commit, `SavedStatusIsCurrent` except for saves the
diary's delete has overtaken.

The properties named `...RacersOnly` are of operations that check in one
transaction and write in another. The code does not make them atomic, and no
comment says it does; what the property says is that a sequence of requests that
do not overlap never goes wrong, and, through the history variables, exactly
which overlap is to blame when one does. The excuses are narrow: setting a
primary supervisor has none, since it locks the job first; an item is excused
only when an outdated copy of that item was written back.

## 7. What is not modelled

Parts without state or protocol: the HTTP layer, mail and its templates,
configuration, pool, telemetry and the CLI. Rows that one statement writes and
nothing else depends on: day notes of the board, colours, names and SMTP
settings of a company, stored reports, the list of action items. Pure I/O: the
weather upstream.

Tenant isolation: one predicate per table and no protocol, of which the one that
an upsert meets across companies (`push_subscriptions`) is modelled; every other
modelled action is inside one company.

Inside the modelled components: authorisation of each handler beyond reaching
the owner; the rate limits and audit rows of identity, the expiry of an access
token, the deletion of a user beside their sessions; the texts, headings and
e-mails of forms, and the access checks of a draft's job; the headcount columns
of the reports, the month arithmetic of the claim horizon (a number of days
here), the rounding of scores for display, and the ends of the 32-bit range of
orders (`sort_order`), which here are unbounded integers.

## 8. Running it

    tlc -workers 2 -config Media.cfg MCMedia
    tlc -workers 2 -config MediaSweep.cfg MCMedia
    tlc -workers 2 -config MediaPurgeRace.cfg MCMedia
    tlc -workers 2 -config Auth.cfg MCAuth
    tlc -workers 2 -config AuthReset.cfg MCAuth
    tlc -workers 2 -config AuthRehash.cfg MCAuth
    tlc -workers 2 -config Forms.cfg MCForms
    tlc -workers 2 -config FormsDiscard.cfg MCForms
    tlc -workers 2 -config Company.cfg MCCompany
    tlc -workers 2 -config Board.cfg MCBoard
    tlc -workers 2 -config Site.cfg MCSite
    tlc -workers 2 -config Calendar.cfg MCReports
    tlapm MediaLifecycleProofs.tla
    tlapm AuthSessionsProofs.tla
    tlapm InspectionFormsProofs.tla
    tlapm CompanyProofs.tla
    tlapm FieldProofs.tla
    tlapm CallForwardProofs.tla
    tlapm ServicesProofs.tla
    tlapm SiteProofs.tla
