------------------------------ MODULE Accounts ------------------------------
(***************************************************************************)
(* The user administration of one company: UsersService over               *)
(* PgUserRepository, with the routes that merge a partial update into the  *)
(* user they read.  All its routes are ManagerOnly.                        *)
(***************************************************************************)
EXTENDS Tenant

CONSTANTS
    RoleInputs,     \* roles a manager writes in this instance
    GrantLists      \* permission lists a manager saves in this instance

VARIABLES
    grants,         \* user_permissions: the rows of each user
    edit,           \* what a request has read and means to write
    asked,          \* the last value somebody set each field of a user to
    crossed,        \* users written from a copy another edit had outdated
    saved,          \* the list last saved for each user, if any was
    mingled         \* users whose last save overlapped another one's

accountVars == <<grants, edit, asked, crossed, saved, mingled>>

Managed == "access-rules:managed"

ViewDefaults == {"jobs:read", "site-diary:read", "call-forward:read",
                 "reports:read", "trade-scheduler:read"}

SupervisorExtras == {"site-diary:write", "call-forward:write", "trade-scheduler:write"}

Permission == ViewDefaults \cup SupervisorExtras \cup {"jobs:write"}

ASSUME InputsAreLegal == RoleInputs \subseteq Role /\ GrantLists \subseteq SUBSET Permission

DefaultsFor(role) ==
    IF role = "SUPERVISOR" THEN ViewDefaults \cup SupervisorExtras ELSE ViewDefaults

(* Stored rows count for nothing until the marker is among them. *)
Effective(role, stored) ==
    IF Managed \in stored THEN stored \ {Managed} ELSE DefaultsFor(role)

MarkManagedOnlyIfAny(list) == IF list = {} THEN {} ELSE list \cup {Managed}

MarkManaged(list) == list \cup {Managed}

Edit == [target : Users \cup {None}, role : Role, active : BOOLEAN, names : SUBSET {"role", "active"},
         limit : Nat \cup {Uncapped}, list : SUBSET Permission,
         removed : SUBSET (Permission \cup {Managed}), stale : BOOLEAN]

NoEdit == [target |-> None, role |-> "OFFICE", active |-> FALSE,
           names |-> {}, limit |-> Uncapped, list |-> {}, removed |-> {}, stale |-> FALSE]

NoSave == [done |-> FALSE, list |-> {}]

AccountsInit ==
    /\ grants = [u \in Users |-> {}]
    /\ edit = [r \in Requests |-> NoEdit]
    /\ asked = [u \in Users |-> [role |-> users[u].role, active |-> users[u].active]]
    /\ crossed = {}
    /\ saved = [u \in Users |-> NoSave]
    /\ mingled = {}

(* An update between reading the user it edits and writing it. *)
Updating(q, u) == /\ call[q].op = "update" /\ edit[q].target = u
                  /\ call[q].pc \in {"existing", "limit", "count", "write"}

(* r has written the row of u: the copies other updates hold are outdated.  *)
Edited(r, u) ==
    edit' = [q \in Requests |->
        IF q = r THEN NoEdit
        ELSE IF Updating(q, u) THEN [edit[q] EXCEPT !.stale = TRUE]
        ELSE edit[q]]

Drop(r) == edit' = [edit EXCEPT ![r] = NoEdit]

-----------------------------------------------------------------------------
(* create: an inactive user takes no seat, so only an active one is counted. *)
CreateBegin(r) ==
    /\ At(r, "create", "begin")
    /\ \E role \in RoleInputs, active \in BOOLEAN :
          /\ edit' = [edit EXCEPT ![r] = [NoEdit EXCEPT !.role = role, !.active = active]]
          /\ Goto(r, IF active THEN "limit" ELSE "write")
    /\ UNCHANGED <<users, company, raced, deposed, grants, asked, crossed, saved, mingled>>

(* seats: the limit is read in one call and the users counted in the next. *)
SeatLimit(r) ==
    /\ call[r].pc = "limit"
    /\ edit' = [edit EXCEPT ![r].limit = company.seats]
    /\ call' = [call EXCEPT ![r].pc = "count", ![r].counting = TRUE]
    /\ UNCHANGED <<users, company, raced, deposed, grants, asked, crossed, saved, mingled>>

SeatCount(r) ==
    /\ call[r].pc = "count"
    /\ IF HasRoom(edit[r].limit, Cardinality(Active))
       THEN Goto(r, "write") /\ UNCHANGED edit
       ELSE Finish(r) /\ Drop(r)
    /\ UNCHANGED <<users, company, raced, deposed, grants, asked, crossed, saved, mingled>>

CreateInsert(r) ==
    /\ At(r, "create", "write")
    /\ \E u \in Users :
          LET row == [row |-> "held", role |-> edit[r].role, active |-> edit[r].active]
          IN /\ users[u].row = "unborn"
             /\ users' = [users EXCEPT ![u] = row]
             /\ asked' = [asked EXCEPT ![u] = [role |-> row.role, active |-> row.active]]
             /\ raced' = IF row.active /\ call[r].overtaken THEN raced \cup {u} ELSE raced
             /\ Commit(r, users', row.active)
    /\ Drop(r)
    /\ UNCHANGED <<company, deposed, grants, crossed, saved, mingled>>

-----------------------------------------------------------------------------
(* update: the route reads the user and lays the named fields over it.      *)
UpdateReadDefaultingActive(r) ==
    /\ At(r, "update", "begin")
    /\ \E u \in Users, role \in RoleInputs, active \in BOOLEAN,
          names \in SUBSET {"role", "active"} :
          /\ Held(u)
          /\ edit' = [edit EXCEPT ![r] = [NoEdit EXCEPT !.target = u, !.names = names,
                !.role = IF "role" \in names THEN role ELSE users[u].role,
                !.active = IF "active" \in names THEN active ELSE TRUE]]
    /\ Goto(r, "existing")
    /\ UNCHANGED <<users, company, raced, deposed, grants, asked, crossed, saved, mingled>>

UpdateRead(r) ==
    /\ At(r, "update", "begin")
    /\ \E u \in Users, role \in RoleInputs, active \in BOOLEAN,
          names \in SUBSET {"role", "active"} :
          /\ Held(u)
          /\ edit' = [edit EXCEPT ![r] = [NoEdit EXCEPT !.target = u, !.names = names,
                !.role = IF "role" \in names THEN role ELSE users[u].role,
                !.active = IF "active" \in names THEN active ELSE users[u].active]]
    /\ Goto(r, "existing")
    /\ UNCHANGED <<users, company, raced, deposed, grants, asked, crossed, saved, mingled>>

AgainstSelfIfInactive(r, existing) ==
    /\ edit[r].target = call[r].by
    /\ ~edit[r].active

(* Nobody deactivates themselves or changes their own role. *)
AgainstSelf(r, existing) ==
    /\ edit[r].target = call[r].by
    /\ ~edit[r].active \/ edit[r].role # existing.role

(* The service reads the row again: the guards and the need of a seat are   *)
(* decided on this copy, what is written on the route's.                    *)
UpdateExisting(r) ==
    /\ At(r, "update", "existing")
    /\ LET existing == users[edit[r].target]
       IN IF existing.row # "held" \/ AgainstSelf(r, existing)
          THEN Finish(r) /\ Drop(r)
          ELSE /\ Goto(r, IF edit[r].active /\ ~existing.active THEN "limit" ELSE "write")
               /\ UNCHANGED edit
    /\ UNCHANGED <<users, company, raced, deposed, grants, asked, crossed, saved, mingled>>

(* The repository writes every column. *)
UpdateWrite(r) ==
    LET e == edit[r]
        row == [row |-> "held", role |-> e.role, active |-> e.active]
        table == [users EXCEPT ![e.target] = row]
        activates == e.active /\ ~users[e.target].active
    IN  /\ At(r, "update", "write")
        /\ IF Held(e.target)
           THEN /\ users' = table
                /\ asked' = [asked EXCEPT ![e.target] =
                      [role |-> IF "role" \in e.names THEN e.role ELSE @.role,
                       active |-> IF "active" \in e.names THEN e.active ELSE @.active]]
                /\ crossed' = IF e.stale THEN crossed \cup {e.target} ELSE crossed
                /\ raced' = IF /\ activates
                               /\ call[r].overtaken \/ (e.stale /\ ~call[r].counting)
                            THEN raced \cup {e.target} ELSE raced
                /\ deposed' = (deposed \/ (/\ call[r].lapsed
                                           /\ Manages(users, e.target)
                                           /\ ~Manages(table, e.target)))
                /\ Commit(r, table, activates)
                /\ Edited(r, e.target)
           ELSE /\ Finish(r) /\ Drop(r)
                /\ UNCHANGED <<users, asked, crossed, raced, deposed>>
        /\ UNCHANGED <<company, grants, saved, mingled>>

-----------------------------------------------------------------------------
(* delete: not oneself, and the user must be there. *)
DeleteRead(r) ==
    /\ At(r, "delete", "begin")
    /\ \E u \in Users :
          /\ u # call[r].by /\ Held(u)
          /\ edit' = [edit EXCEPT ![r] = [NoEdit EXCEPT !.target = u]]
    /\ Goto(r, "remove")
    /\ UNCHANGED <<users, company, raced, deposed, grants, asked, crossed, saved, mingled>>

(* The rows of user_permissions that a save has deleted and not committed.  *)
LockedBy(q, u) ==
    IF call[q].pc = "deleted" /\ edit[q].target = u THEN edit[q].removed ELSE {}

(* The cascade waits for the permission rows a save holds locked. *)
DeleteRow(r) ==
    LET u == edit[r].target
        table == [users EXCEPT ![u].row = "deleted", ![u].active = FALSE]
    IN  /\ At(r, "delete", "remove")
        /\ \A q \in Requests : LockedBy(q, u) = {}
        /\ IF Held(u)
           THEN /\ users' = table
                /\ grants' = [grants EXCEPT ![u] = {}]
                /\ deposed' = (deposed \/ (call[r].lapsed /\ Manages(users, u)))
                /\ Commit(r, table, FALSE)
                /\ Edited(r, u)
           ELSE Finish(r) /\ Drop(r) /\ UNCHANGED <<users, grants, deposed>>
        /\ UNCHANGED <<company, raced, asked, crossed, saved, mingled>>

-----------------------------------------------------------------------------
(* set_permissions: a manager's own list is never stored. *)
GrantRead(r) ==
    /\ At(r, "grant", "begin")
    /\ \E u \in Users, list \in GrantLists :
          /\ Held(u) /\ users[u].role # "MANAGER"
          /\ edit' = [edit EXCEPT ![r] = [NoEdit EXCEPT !.target = u, !.list = list]]
    /\ Goto(r, "save")
    /\ UNCHANGED <<users, company, raced, deposed, grants, asked, crossed, saved, mingled>>

(* The DELETE sees the rows committed when it starts ... *)
GrantDelete(r) ==
    /\ At(r, "grant", "save")
    /\ edit' = [edit EXCEPT ![r].removed = grants[edit[r].target]]
    /\ Goto(r, "deleting")
    /\ UNCHANGED <<users, company, raced, deposed, grants, asked, crossed, saved, mingled>>

(* ... and waits for any of them that another save has deleted. *)
GrantLock(r) ==
    /\ At(r, "grant", "deleting")
    /\ \A q \in Requests \ {r} : LockedBy(q, edit[r].target) \cap edit[r].removed = {}
    /\ Goto(r, "deleted")
    /\ UNCHANGED <<users, company, raced, deposed, accountVars>>

(* INSERT ... ON CONFLICT DO NOTHING and COMMIT.  The rows this save deleted *)
(* are gone for a save that had seen them; the ones it inserts that save has *)
(* not seen.                                                                 *)
GrantInsert(r) ==
    LET u == edit[r].target
        others == {q \in Requests \ {r} : /\ edit[q].target = u
                                          /\ call[q].pc \in {"deleting", "deleted"}}
    IN  /\ At(r, "grant", "deleted")
        /\ IF Held(u)
           THEN /\ grants' = [grants EXCEPT ![u] = (@ \ edit[r].removed)
                                                   \cup MarkManaged(edit[r].list)]
                /\ saved' = [saved EXCEPT ![u] = [done |-> TRUE, list |-> edit[r].list]]
                /\ mingled' = IF edit[r].stale THEN mingled \cup {u} ELSE mingled \ {u}
                /\ edit' = [q \in Requests |->
                      IF q = r THEN NoEdit
                      ELSE IF q \in others
                      THEN [edit[q] EXCEPT !.removed = @ \ edit[r].removed, !.stale = TRUE]
                      ELSE edit[q]]
           ELSE Drop(r) /\ UNCHANGED <<grants, saved, mingled>>
        /\ Finish(r)
        /\ UNCHANGED <<users, company, raced, deposed, asked, crossed>>

-----------------------------------------------------------------------------
AccountsStep(r) ==
    \/ CreateBegin(r) \/ SeatLimit(r) \/ SeatCount(r) \/ CreateInsert(r)
    \/ UpdateRead(r) \/ UpdateExisting(r) \/ UpdateWrite(r)
    \/ DeleteRead(r) \/ DeleteRow(r)
    \/ GrantRead(r) \/ GrantDelete(r) \/ GrantLock(r) \/ GrantInsert(r)

AccountsTypeOK ==
    /\ grants \in [Users -> SUBSET (Permission \cup {Managed})]
    /\ edit \in [Requests -> Edit]
    /\ asked \in [Users -> [role : Role, active : BOOLEAN]]
    /\ crossed \subseteq Users
    /\ saved \in [Users -> [done : BOOLEAN, list : SUBSET Permission]]
    /\ mingled \subseteq Users

=============================================================================
