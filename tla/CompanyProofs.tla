----------------------------- MODULE CompanyProofs -----------------------------
(***************************************************************************)
(* Theorems about Company, for any users, requests, sessions, customers,    *)
(* seat orders and permission lists.                                        *)
(***************************************************************************)
EXTENDS Company, FiniteSetTheorems, TLAPS

-----------------------------------------------------------------------------
(* What the ways to move a request on leave of it. *)

LEMMA GotoMoves ==
    ASSUME TenantTypeOK, NEW r \in Requests, NEW pc \in Stage, Goto(r, pc)
    PROVE  /\ call' \in [Requests -> Call]
           /\ call'[r] = [call[r] EXCEPT !.pc = pc]
           /\ \A q \in Requests \ {r} : call'[q] = call[q]
BY DEF TenantTypeOK, Goto, Call

LEMMA CountingMoves ==
    ASSUME TenantTypeOK, NEW r \in Requests,
           call' = [call EXCEPT ![r].pc = "count", ![r].counting = TRUE]
    PROVE  /\ call' \in [Requests -> Call]
           /\ call'[r] = [call[r] EXCEPT !.pc = "count", !.counting = TRUE]
           /\ \A q \in Requests \ {r} : call'[q] = call[q]
<1>1. call[r] \in Call
  BY DEF TenantTypeOK
<1>2. [call[r] EXCEPT !.pc = "count", !.counting = TRUE] \in Call
  BY <1>1 DEF Call, Stage
<1> QED
  BY <1>2 DEF TenantTypeOK

LEMMA FinishMoves ==
    ASSUME TenantTypeOK, NEW r \in Requests, Finish(r)
    PROVE  /\ call' \in [Requests -> Call]
           /\ call'[r] = Answered
           /\ \A q \in Requests \ {r} : call'[q] = call[q]
<1>1. Answered \in Call
  BY DEF Answered, Idle, Call, Stage
<1> QED
  BY <1>1 DEF TenantTypeOK, Finish

\* A commit answers its request and touches only the histories of the others.
LEMMA CommitMoves ==
    ASSUME TenantTypeOK, NEW r \in Requests, NEW table, NEW seats \in BOOLEAN,
           Commit(r, table, seats)
    PROVE  /\ call' \in [Requests -> Call]
           /\ call'[r] = Answered
           /\ \A q \in Requests \ {r} :
                 /\ call'[q].pc = call[q].pc /\ call'[q].op = call[q].op
                 /\ call'[q].by = call[q].by /\ call'[q].manager = call[q].manager
                 /\ call'[q].counting = call[q].counting
                 /\ InFlight(q) /\ ~call'[q].lapsed =>
                       ~call[q].lapsed /\ Manages(table, call[q].by)
                 /\ InFlight(q) /\ call[q].counting /\ ~call'[q].overtaken =>
                       ~call[q].overtaken /\ ~seats
<1>1. Answered \in Call
  BY DEF Answered, Idle, Call, Stage
<1>2. call' = [q \in Requests |-> call'[q]] /\ call'[r] = Answered
  BY DEF Commit
<1>3. ASSUME NEW q \in Requests \ {r}, ~InFlight(q)
      PROVE  call'[q] = call[q]
  BY <1>3 DEF Commit
<1>4. ASSUME NEW q \in Requests \ {r}, InFlight(q)
      PROVE  /\ call'[q] \in Call
             /\ call'[q].pc = call[q].pc /\ call'[q].op = call[q].op
             /\ call'[q].by = call[q].by /\ call'[q].manager = call[q].manager
             /\ call'[q].counting = call[q].counting
             /\ ~call'[q].lapsed => ~call[q].lapsed /\ Manages(table, call[q].by)
             /\ call[q].counting /\ ~call'[q].overtaken => ~call[q].overtaken /\ ~seats
  <2> DEFINE lapsed == call[q].lapsed \/ ~Manages(table, call[q].by)
             overtaken == call[q].overtaken \/ (seats /\ call[q].counting)
  <2>1. call'[q] = [call[q] EXCEPT !.lapsed = lapsed, !.overtaken = overtaken]
    BY <1>4 DEF Commit
  <2>2. lapsed \in BOOLEAN /\ overtaken \in BOOLEAN /\ call[q] \in Call
    BY DEF TenantTypeOK
  <2>3. (~lapsed => ~call[q].lapsed /\ Manages(table, call[q].by))
        /\ (call[q].counting /\ ~overtaken => ~call[q].overtaken /\ ~seats)
    OBVIOUS
  <2> HIDE DEF lapsed, overtaken
  <2> QED
    BY <2>1, <2>2, <2>3 DEF Call
<1> QED
  BY <1>1, <1>2, <1>3, <1>4 DEF TenantTypeOK

-----------------------------------------------------------------------------
(* The inductive invariant, part by part. *)

\* An update between its first read and its write.
EditsRow(r) ==
    call[r].op = "update" /\ call[r].pc \in {"existing", "limit", "count", "write"}

\* A request under way has an actor; past the gate, one that was a manager; and
\* its target is a user who was there when it was read.
TargetOf(r) ==
    /\ InFlight(r) => call[r].by \in Users
    /\ InFlight(r) /\ call[r].pc # "admit" => call[r].manager
    /\ EditsRow(r) \/ call[r].pc \in {"remove", "save", "deleting", "deleted"} =>
          edit[r].target \in Users /\ users[edit[r].target].row # "unborn"
    /\ call[r].pc = "remove" => edit[r].target # call[r].by

Targets == \A r \in Requests : TargetOf(r)

\* A manager who has not lapsed still is one, and does not undo it themselves.
StandingOf(r) ==
    /\ InFlight(r) /\ call[r].manager /\ ~call[r].lapsed => Manages(users, call[r].by)
    /\ /\ EditsRow(r) /\ call[r].pc # "existing"
       /\ edit[r].target = call[r].by /\ ~call[r].lapsed
       => edit[r].active /\ edit[r].role = "MANAGER"

Standing == LastManagerFallsToRacersOnly /\ \A r \in Requests : StandingOf(r)

\* A copy nobody has outdated agrees with the row in what it does not change.
CopyOf(r) ==
    EditsRow(r) /\ ~edit[r].stale /\ Held(edit[r].target) =>
        /\ "role" \notin edit[r].names => edit[r].role = users[edit[r].target].role
        /\ "active" \notin edit[r].names => edit[r].active = users[edit[r].target].active

Copies == EditsUndoneByRacersOnly /\ \A r \in Requests : CopyOf(r)

\* A count nobody has overtaken is a count of now; and whoever activates a user
\* has counted, unless their copy is outdated.
SeatOf(r) ==
    /\ call[r].counting => call[r].pc \in {"count", "write"}
    /\ call[r].pc = "count" => call[r].counting
    /\ call[r].counting /\ ~call[r].overtaken =>
          /\ edit[r].limit = company.seats
          /\ call[r].pc = "write" => HasRoom(company.seats, Cardinality(Active))
    /\ At(r, "create", "write") /\ edit[r].active => call[r].counting
    /\ /\ At(r, "update", "write") /\ edit[r].active /\ ~call[r].counting
       /\ ~edit[r].stale /\ Held(edit[r].target)
       => users[edit[r].target].active

Seating == SeatsExceededByRacersOnly /\ \A r \in Requests : SeatOf(r)

\* A save nobody has overlapped deletes all there is.
SaveOf(r) ==
    call[r].pc \in {"deleting", "deleted"} /\ ~edit[r].stale /\ Held(edit[r].target) =>
        grants[edit[r].target] \subseteq edit[r].removed

\* What was saved is what is stored, marker included.
SavedLists ==
    /\ \A u \in Users : users[u].row = "unborn" => ~saved[u].done
    /\ \A u \in Users \ mingled :
          Held(u) /\ saved[u].done => grants[u] = MarkManaged(saved[u].list)

Saving == SavedLists /\ \A r \in Requests : SaveOf(r)

\* A checkout works with a customer of this company, one not yet displaced; a
\* confirmation with a complete session and, to commit, one of this company's.
DealOf(r) ==
    /\ call[r].pc \in {"customer", "remember"} => deal[r].blind
    /\ call[r].pc \in {"remember", "session"} => deal[r].customer \in customers
    /\ call[r].pc = "session" =>
          deal[r].customer = company.customer \/ deal[r].customer \in displaced
    /\ call[r].pc \in {"subscription", "owner", "commit"} =>
          deal[r].subscription \in Sessions /\ session[deal[r].subscription].state = "complete"
    /\ call[r].pc \in {"owner", "commit"} =>
          deal[r].customer = session[deal[r].subscription].customer
    /\ call[r].pc = "commit" => deal[r].customer \in customers

\* The company's own record and Stripe's books.
Books ==
    /\ company.customer # None => company.customer \in customers
    /\ company.subscription # None =>
          /\ session[company.subscription].state = "complete"
          /\ session[company.subscription].customer \in customers
    /\ \A s \in Sessions :
          session[s].state # "new" => session[s].customer \in customers \cup {Foreign}
    /\ CheckoutsConfirmable

Dealing == Books /\ \A r \in Requests : DealOf(r)

IInv ==
    /\ CompanyTypeOK
    /\ Targets /\ Standing /\ Copies /\ Seating /\ Saving /\ Dealing

-----------------------------------------------------------------------------
(* Types *)

LEMMA ActiveCounts == Cardinality(Active) \in Nat /\ IsFiniteSet(Active)
<1>1. IsFiniteSet(Active)
  BY FoundersAreUsers, FS_Subset DEF Active
<1> QED
  BY <1>1, FS_CardinalityType

LEMMA NoEditType == NoEdit \in Edit
BY UncappedIsNoNumber DEF NoEdit, Edit, Role

LEMMA NoDealType == NoDeal \in Deal
BY DEF NoDeal, Deal

LEMMA DropType ==
    ASSUME AccountsTypeOK, NEW r \in Requests, Drop(r)
    PROVE  edit' \in [Requests -> Edit]
BY NoEditType DEF AccountsTypeOK, Drop

LEMMA CloseType ==
    ASSUME BillingTypeOK, NEW r \in Requests, Close(r)
    PROVE  deal' \in [Requests -> Deal]
BY NoDealType DEF BillingTypeOK, Close

\* A copy with one thing about it noted is a copy.
LEMMA NotedType ==
    ASSUME NEW e \in Edit
    PROVE  /\ [e EXCEPT !.stale = TRUE] \in Edit
           /\ \A n \in Nat \cup {Uncapped} : [e EXCEPT !.limit = n] \in Edit
           /\ \A P \in SUBSET (Permission \cup {Managed}) : [e EXCEPT !.removed = P] \in Edit
<1>1. [e EXCEPT !.stale = TRUE] \in Edit
  BY DEF Edit
<1>2. ASSUME NEW n \in Nat \cup {Uncapped} PROVE [e EXCEPT !.limit = n] \in Edit
  BY DEF Edit
<1>3. ASSUME NEW P \in SUBSET (Permission \cup {Managed}) PROVE [e EXCEPT !.removed = P] \in Edit
  BY DEF Edit
<1> QED
  BY <1>1, <1>2, <1>3

\* The other requests' copies are only marked.
LEMMA EditedMoves ==
    ASSUME AccountsTypeOK, NEW r \in Requests, NEW u \in Users, Edited(r, u)
    PROVE  /\ edit' \in [Requests -> Edit]
           /\ edit'[r] = NoEdit
           /\ \A q \in Requests \ {r} :
                 IF Updating(q, u) THEN edit'[q] = [edit[q] EXCEPT !.stale = TRUE]
                 ELSE edit'[q] = edit[q]
<1>1. \A q \in Requests : [edit[q] EXCEPT !.stale = TRUE] \in Edit
  BY NotedType DEF AccountsTypeOK
<1> QED
  BY <1>1, NoEditType DEF AccountsTypeOK, Edited

LEMMA TypeCreate ==
    ASSUME CompanyTypeOK, NEW r \in Requests, CreateBegin(r) \/ CreateInsert(r)
    PROVE  TenantTypeOK' /\ AccountsTypeOK'
<1> USE DEF CompanyTypeOK
<1>1. CASE CreateBegin(r)
  <2>1. PICK role \in RoleInputs, active \in BOOLEAN :
          /\ edit' = [edit EXCEPT ![r] = [NoEdit EXCEPT !.role = role, !.active = active]]
          /\ Goto(r, IF active THEN "limit" ELSE "write")
    BY <1>1 DEF CreateBegin
  <2>2. [NoEdit EXCEPT !.role = role, !.active = active] \in Edit
    BY NoEditType, InputsAreLegal DEF Edit
  <2>3. call' \in [Requests -> Call]
    BY <2>1, GotoMoves DEF Stage
  <2> QED
    BY <1>1, <2>1, <2>2, <2>3 DEF CreateBegin, TenantTypeOK, AccountsTypeOK
<1>2. CASE CreateInsert(r)
  <2> DEFINE row == [row |-> "held", role |-> edit[r].role, active |-> edit[r].active]
  <2>1. PICK u \in Users :
          /\ users' = [users EXCEPT ![u] = row]
          /\ asked' = [asked EXCEPT ![u] = [role |-> row.role, active |-> row.active]]
          /\ raced' = IF row.active /\ call[r].overtaken THEN raced \cup {u} ELSE raced
          /\ Commit(r, users', row.active)
    BY <1>2 DEF CreateInsert
  <2>2. row \in Account /\ row.active \in BOOLEAN /\ row.role \in Role
    BY DEF AccountsTypeOK, Edit, Account
  <2>3. call' \in [Requests -> Call]
    BY <2>1, <2>2, CommitMoves
  <2>4. edit' \in [Requests -> Edit]
    BY <1>2, DropType DEF CreateInsert
  <2> HIDE DEF row
  <2>5. [role |-> row.role, active |-> row.active] \in [role : Role, active : BOOLEAN]
    BY <2>2
  <2> QED
    BY <1>2, <2>1, <2>2, <2>3, <2>4, <2>5 DEF CreateInsert, TenantTypeOK, AccountsTypeOK
<1> QED
  BY <1>1, <1>2

LEMMA TypeSeats ==
    ASSUME CompanyTypeOK, NEW r \in Requests, SeatLimit(r) \/ SeatCount(r)
    PROVE  TenantTypeOK' /\ AccountsTypeOK'
<1> USE DEF CompanyTypeOK
<1>1. CASE SeatLimit(r)
  <2>1. edit' \in [Requests -> Edit]
    <3>1. company.seats \in Nat \cup {Uncapped}
      BY DEF TenantTypeOK, BillingRecord
    <3>2. [edit[r] EXCEPT !.limit = company.seats] \in Edit
      BY <3>1, NotedType DEF AccountsTypeOK
    <3> QED
      BY <1>1, <3>2 DEF SeatLimit, AccountsTypeOK
  <2>2. call' \in [Requests -> Call]
    BY <1>1, CountingMoves DEF SeatLimit
  <2> QED
    BY <1>1, <2>1, <2>2 DEF SeatLimit, TenantTypeOK, AccountsTypeOK
<1>2. CASE SeatCount(r)
  <2>1. call' \in [Requests -> Call]
    BY <1>2, GotoMoves, FinishMoves DEF SeatCount, Stage
  <2>2. edit' \in [Requests -> Edit]
    BY <1>2, DropType DEF SeatCount, AccountsTypeOK
  <2> QED
    BY <1>2, <2>1, <2>2 DEF SeatCount, TenantTypeOK, AccountsTypeOK
<1> QED
  BY <1>1, <1>2

LEMMA TypeUpdate ==
    ASSUME CompanyTypeOK, Targets, NEW r \in Requests,
           UpdateRead(r) \/ UpdateExisting(r) \/ UpdateWrite(r)
    PROVE  TenantTypeOK' /\ AccountsTypeOK'
<1> USE DEF CompanyTypeOK
<1>1. CASE UpdateRead(r)
  <2>1. PICK u \in Users, role \in RoleInputs, active \in BOOLEAN,
             names \in SUBSET {"role", "active"} :
          edit' = [edit EXCEPT ![r] = [NoEdit EXCEPT !.target = u, !.names = names,
                !.role = IF "role" \in names THEN role ELSE users[u].role,
                !.active = IF "active" \in names THEN active ELSE users[u].active]]
    BY <1>1 DEF UpdateRead
  <2> DEFINE to == IF "role" \in names THEN role ELSE users[u].role
             on == IF "active" \in names THEN active ELSE users[u].active
  <2>2. to \in Role /\ on \in BOOLEAN
    BY InputsAreLegal DEF TenantTypeOK, Account
  <2>3. edit' = [edit EXCEPT ![r] = [NoEdit EXCEPT !.target = u, !.names = names, !.role = to, !.active = on]]
    BY <2>1
  <2> HIDE DEF to, on
  <2>4. [NoEdit EXCEPT !.target = u, !.names = names, !.role = to, !.active = on] \in Edit
    BY <2>2, NoEditType DEF Edit
  <2>5. call' \in [Requests -> Call]
    BY <1>1, GotoMoves DEF UpdateRead, Stage
  <2> QED
    BY <1>1, <2>3, <2>4, <2>5 DEF UpdateRead, TenantTypeOK, AccountsTypeOK
<1>2. CASE UpdateExisting(r)
  <2>1. call' \in [Requests -> Call]
    BY <1>2, GotoMoves, FinishMoves DEF UpdateExisting, Stage
  <2>2. edit' \in [Requests -> Edit]
    BY <1>2, DropType DEF UpdateExisting, AccountsTypeOK
  <2> QED
    BY <1>2, <2>1, <2>2 DEF UpdateExisting, TenantTypeOK, AccountsTypeOK
<1>3. CASE UpdateWrite(r)
  <2> DEFINE e == edit[r]
             row == [row |-> "held", role |-> e.role, active |-> e.active]
             table == [users EXCEPT ![e.target] = row]
             activates == e.active /\ ~users[e.target].active
  <2>1. e.target \in Users /\ e.role \in Role /\ e.active \in BOOLEAN
    BY <1>3 DEF UpdateWrite, At, EditsRow, Targets, TargetOf, AccountsTypeOK, Edit
  <2>2. row \in Account /\ activates \in BOOLEAN
    BY <2>1 DEF Account
  <2>3. CASE ~Held(e.target)
    <3>1. Finish(r) /\ Drop(r) /\ UNCHANGED <<users, asked, crossed, raced, deposed>>
      BY <1>3, <2>3 DEF UpdateWrite
    <3> QED
      BY <1>3, <3>1, FinishMoves, DropType DEF UpdateWrite, TenantTypeOK, AccountsTypeOK
  <2>4. CASE Held(e.target)
    <3>1. /\ users' = table /\ Commit(r, table, activates) /\ Edited(r, e.target)
          /\ crossed' \in {crossed, crossed \cup {e.target}}
          /\ raced' \in {raced, raced \cup {e.target}}
      BY <1>3, <2>4 DEF UpdateWrite
    <3>2. deposed' \in BOOLEAN
      BY <1>3, <2>4 DEF UpdateWrite, TenantTypeOK
    <3>3. asked' \in [Users -> [role : Role, active : BOOLEAN]]
      <4> DEFINE to == IF "role" \in e.names THEN e.role ELSE asked[e.target].role
                 on == IF "active" \in e.names THEN e.active ELSE asked[e.target].active
      <4>1. asked' = [asked EXCEPT ![e.target] = [role |-> to, active |-> on]]
        BY <1>3, <2>1, <2>4 DEF UpdateWrite, AccountsTypeOK
      <4>2. to \in Role /\ on \in BOOLEAN
        BY <2>1 DEF AccountsTypeOK
      <4> HIDE DEF to, on
      <4> QED
        BY <4>1, <4>2 DEF AccountsTypeOK
    <3> HIDE DEF row, activates
    <3>4. users' \in [Users -> Account]
      BY <2>2, <3>1 DEF TenantTypeOK
    <3>5. call' \in [Requests -> Call]
      BY <2>2, <3>1, CommitMoves
    <3>6. edit' \in [Requests -> Edit]
      BY <2>1, <3>1, EditedMoves
    <3> QED
      BY <1>3, <2>1, <3>1, <3>2, <3>3, <3>4, <3>5, <3>6 DEF UpdateWrite, TenantTypeOK, AccountsTypeOK
  <2> QED
    BY <2>3, <2>4
<1> QED
  BY <1>1, <1>2, <1>3

LEMMA TypeDelete ==
    ASSUME CompanyTypeOK, Targets, NEW r \in Requests, DeleteRead(r) \/ DeleteRow(r)
    PROVE  TenantTypeOK' /\ AccountsTypeOK'
<1> USE DEF CompanyTypeOK
<1>1. CASE DeleteRead(r)
  <2>1. PICK u \in Users : edit' = [edit EXCEPT ![r] = [NoEdit EXCEPT !.target = u]]
    BY <1>1 DEF DeleteRead
  <2>2. [NoEdit EXCEPT !.target = u] \in Edit
    BY NoEditType DEF Edit
  <2>3. call' \in [Requests -> Call]
    BY <1>1, GotoMoves DEF DeleteRead, Stage
  <2> QED
    BY <1>1, <2>1, <2>2, <2>3 DEF DeleteRead, TenantTypeOK, AccountsTypeOK
<1>2. CASE DeleteRow(r)
  <2> DEFINE u == edit[r].target
             table == [users EXCEPT ![u].row = "deleted", ![u].active = FALSE]
  <2>1. u \in Users
    BY <1>2 DEF DeleteRow, At, Targets, TargetOf
  <2>2. CASE ~Held(u)
    <3>1. Finish(r) /\ Drop(r) /\ UNCHANGED <<users, grants, deposed>>
      BY <1>2, <2>2 DEF DeleteRow
    <3> QED
      BY <1>2, <3>1, FinishMoves, DropType DEF DeleteRow, TenantTypeOK, AccountsTypeOK
  <2>3. CASE Held(u)
    <3>1. /\ users' = table /\ grants' = [grants EXCEPT ![u] = {}]
          /\ deposed' = (deposed \/ (call[r].lapsed /\ Manages(users, u)))
          /\ Commit(r, table, FALSE) /\ Edited(r, u)
      BY <1>2, <2>3 DEF DeleteRow
    <3>2. users' \in [Users -> Account]
      BY <2>1, <3>1 DEF TenantTypeOK, Account
    <3>3. call' \in [Requests -> Call]
      BY <3>1, CommitMoves
    <3>4. edit' \in [Requests -> Edit]
      BY <2>1, <3>1, EditedMoves
    <3>5. deposed' \in BOOLEAN
      BY <3>1 DEF TenantTypeOK
    <3> QED
      BY <1>2, <3>1, <3>2, <3>3, <3>4, <3>5 DEF DeleteRow, TenantTypeOK, AccountsTypeOK
  <2> QED
    BY <2>2, <2>3
<1> QED
  BY <1>1, <1>2

LEMMA TypeGrant ==
    ASSUME CompanyTypeOK, Targets, NEW r \in Requests,
           GrantRead(r) \/ GrantDelete(r) \/ GrantLock(r) \/ GrantInsert(r)
    PROVE  TenantTypeOK' /\ AccountsTypeOK'
<1> USE DEF CompanyTypeOK
<1>1. CASE GrantRead(r)
  <2>1. PICK u \in Users, list \in GrantLists :
          edit' = [edit EXCEPT ![r] = [NoEdit EXCEPT !.target = u, !.list = list]]
    BY <1>1 DEF GrantRead
  <2>2. [NoEdit EXCEPT !.target = u, !.list = list] \in Edit
    BY NoEditType, InputsAreLegal DEF Edit
  <2>3. call' \in [Requests -> Call]
    BY <1>1, GotoMoves DEF GrantRead, Stage
  <2> QED
    BY <1>1, <2>1, <2>2, <2>3 DEF GrantRead, TenantTypeOK, AccountsTypeOK
<1>2. CASE GrantDelete(r)
  <2>1. edit[r].target \in Users
    BY <1>2 DEF GrantDelete, At, Targets, TargetOf
  <2>2. [edit[r] EXCEPT !.removed = grants[edit[r].target]] \in Edit
    BY <2>1, NotedType DEF AccountsTypeOK
  <2>3. call' \in [Requests -> Call]
    BY <1>2, GotoMoves DEF GrantDelete, Stage
  <2> QED
    BY <1>2, <2>2, <2>3 DEF GrantDelete, TenantTypeOK, AccountsTypeOK
<1>3. CASE GrantLock(r)
  <2>1. call' \in [Requests -> Call]
    BY <1>3, GotoMoves DEF GrantLock, Stage
  <2> QED
    BY <1>3, <2>1 DEF GrantLock, TenantTypeOK, AccountsTypeOK, accountVars
<1>4. CASE GrantInsert(r)
  <2> DEFINE u == edit[r].target
  <2>1. u \in Users
    BY <1>4 DEF GrantInsert, At, Targets, TargetOf
  <2>2. edit[r].list \in SUBSET Permission /\ edit[r].removed \in SUBSET (Permission \cup {Managed})
    BY DEF AccountsTypeOK, Edit
  <2>3. CASE ~Held(u)
    <3>1. Drop(r) /\ UNCHANGED <<grants, saved, mingled>>
      BY <1>4, <2>3 DEF GrantInsert
    <3> QED
      BY <1>4, <3>1, DropType, FinishMoves DEF GrantInsert, TenantTypeOK, AccountsTypeOK
  <2>4. CASE Held(u)
    <3> DEFINE others == {q \in Requests \ {r} : /\ edit[q].target = u
                                                 /\ call[q].pc \in {"deleting", "deleted"}}
    <3>1. grants' = [grants EXCEPT ![u] = (@ \ edit[r].removed) \cup MarkManaged(edit[r].list)]
      BY <1>4, <2>4 DEF GrantInsert
    <3>2. saved' = [saved EXCEPT ![u] = [done |-> TRUE, list |-> edit[r].list]]
      BY <1>4, <2>4 DEF GrantInsert
    <3>3. mingled' = IF edit[r].stale THEN mingled \cup {u} ELSE mingled \ {u}
      BY <1>4, <2>4 DEF GrantInsert
    <3>4. edit' = [q \in Requests |->
                    IF q = r THEN NoEdit
                    ELSE IF q \in others
                    THEN [edit[q] EXCEPT !.removed = @ \ edit[r].removed, !.stale = TRUE]
                    ELSE edit[q]]
      BY <1>4, <2>4 DEF GrantInsert
    <3> HIDE DEF u, others
    <3>5. \A q \in Requests :
            [edit[q] EXCEPT !.removed = @ \ edit[r].removed, !.stale = TRUE] \in Edit
      <4> TAKE q \in Requests
      <4>1. edit[q] \in Edit /\ edit[q].removed \ edit[r].removed \in SUBSET (Permission \cup {Managed})
        BY DEF AccountsTypeOK, Edit
      <4> QED
        BY <4>1 DEF Edit
    <3>6. edit' \in [Requests -> Edit]
      BY <3>4, <3>5, NoEditType DEF AccountsTypeOK
    <3>7. grants' \in [Users -> SUBSET (Permission \cup {Managed})]
      <4>1. (grants[u] \ edit[r].removed) \cup MarkManaged(edit[r].list)
              \in SUBSET (Permission \cup {Managed})
        BY <2>1, <2>2 DEF MarkManaged, AccountsTypeOK
      <4> QED
        BY <3>1, <4>1 DEF AccountsTypeOK
    <3>8. saved' \in [Users -> [done : BOOLEAN, list : SUBSET Permission]]
      BY <2>2, <3>2 DEF AccountsTypeOK
    <3>9. mingled' \subseteq Users
      BY <2>1, <3>3 DEF AccountsTypeOK
    <3>10. call' \in [Requests -> Call]
      BY <1>4, FinishMoves DEF GrantInsert
    <3> QED
      BY <1>4, <3>6, <3>7, <3>8, <3>9, <3>10 DEF GrantInsert, TenantTypeOK, AccountsTypeOK
  <2> QED
    BY <2>3, <2>4
<1> QED
  BY <1>1, <1>2, <1>3, <1>4

LEMMA TypeCheckout ==
    ASSUME CompanyTypeOK, Dealing, NEW r \in Requests,
           \/ CheckoutBegin(r) \/ CheckoutCount(r) \/ CheckoutStatus(r) \/ CheckoutRecord(r)
           \/ CreateCustomer(r) \/ SetCustomer(r) \/ CreateSession(r)
    PROVE  TenantTypeOK' /\ BillingTypeOK'
<1> USE DEF CompanyTypeOK
<1>0. deal[r] \in Deal /\ company \in BillingRecord
  BY DEF BillingTypeOK, TenantTypeOK
<1>1. CASE CheckoutBegin(r)
  <2>1. PICK n \in SeatOrders :
          deal' = [deal EXCEPT ![r] = [NoDeal EXCEPT !.seats = n,
                     !.customer = company.customer, !.subscription = company.subscription]]
    BY <1>1 DEF CheckoutBegin
  <2>2. [NoDeal EXCEPT !.seats = n, !.customer = company.customer,
                       !.subscription = company.subscription] \in Deal
    BY <1>0, NoDealType, OrdersAreNumbers DEF Deal, BillingRecord
  <2>3. call' \in [Requests -> Call]
    BY <1>1, GotoMoves DEF CheckoutBegin, Stage
  <2> QED
    BY <1>1, <2>1, <2>2, <2>3 DEF CheckoutBegin, TenantTypeOK, BillingTypeOK
<1>2. CASE CheckoutCount(r)
  <2>1. [deal[r] EXCEPT !.inUse = Cardinality(Active)] \in Deal
    BY <1>0, ActiveCounts DEF Deal
  <2>2. call' \in [Requests -> Call]
    BY <1>2, GotoMoves DEF CheckoutCount, Stage
  <2> QED
    BY <1>2, <2>1, <2>2 DEF CheckoutCount, TenantTypeOK, BillingTypeOK
<1>3. CASE CheckoutStatus(r)
  <2>1. \/ Goto(r, "record") /\ UNCHANGED deal
        \/ Finish(r) /\ Close(r)
    BY <1>3 DEF CheckoutStatus
  <2>2. call' \in [Requests -> Call] /\ deal' \in [Requests -> Deal]
    BY <2>1, GotoMoves, FinishMoves, CloseType DEF Stage, BillingTypeOK
  <2> QED
    BY <1>3, <2>2 DEF CheckoutStatus, TenantTypeOK, BillingTypeOK
<1>4. CASE CheckoutRecord(r)
  <2> DEFINE none == company.customer = None
             first == company.subscription = None
  <2>1. deal' = [deal EXCEPT ![r] = [deal[r] EXCEPT !.customer = company.customer,
                                                    !.blind = none, !.trial = first]]
    BY <1>4 DEF CheckoutRecord, BillingTypeOK
  <2>2. company.customer \in Customers \cup {None} /\ none \in BOOLEAN /\ first \in BOOLEAN
    BY <1>0 DEF BillingRecord
  <2>3. call' \in [Requests -> Call]
    BY <1>4, GotoMoves DEF CheckoutRecord, Stage
  <2> HIDE DEF none, first
  <2>4. [deal[r] EXCEPT !.customer = company.customer, !.blind = none, !.trial = first] \in Deal
    BY <1>0, <2>2 DEF Deal
  <2>5. deal' \in [Requests -> Deal]
    BY <2>1, <2>4 DEF BillingTypeOK
  <2>6. UNCHANGED <<users, company, raced, deposed, customers, session, paid, displaced>>
    BY <1>4 DEF CheckoutRecord
  <2> QED
    BY <2>3, <2>5, <2>6 DEF TenantTypeOK, BillingTypeOK
<1>5. CASE CreateCustomer(r)
  <2>1. PICK c \in Customers \ customers :
          customers' = customers \cup {c} /\ deal' = [deal EXCEPT ![r].customer = c]
    BY <1>5 DEF CreateCustomer
  <2>2. [deal[r] EXCEPT !.customer = c] \in Deal
    BY <1>0 DEF Deal
  <2>3. call' \in [Requests -> Call]
    BY <1>5, GotoMoves DEF CreateCustomer, Stage
  <2> QED
    BY <1>5, <2>1, <2>2, <2>3 DEF CreateCustomer, TenantTypeOK, BillingTypeOK
<1>6. CASE SetCustomer(r)
  <2>1. deal[r].customer \in Customers
    BY <1>6 DEF SetCustomer, At, Dealing, Books, DealOf, BillingTypeOK
  <2>2. company' \in BillingRecord
    BY <1>0, <1>6, <2>1 DEF SetCustomer, BillingRecord
  <2>3. displaced' \subseteq Customers
    BY <1>0, <1>6 DEF SetCustomer, BillingRecord, BillingTypeOK
  <2>4. call' \in [Requests -> Call]
    BY <1>6, GotoMoves DEF SetCustomer, Stage
  <2> QED
    BY <1>6, <2>2, <2>3, <2>4 DEF SetCustomer, TenantTypeOK, BillingTypeOK
<1>7. CASE CreateSession(r)
  <2>1. PICK s \in Sessions :
          session' = [session EXCEPT ![s] =
                [customer |-> deal[r].customer, trial |-> deal[r].trial,
                 seats |-> deal[r].seats, state |-> "open", status |-> "none"]]
    BY <1>7 DEF CreateSession
  <2>2. [customer |-> deal[r].customer, trial |-> deal[r].trial,
         seats |-> deal[r].seats, state |-> "open", status |-> "none"] \in Session
    BY <1>0 DEF Deal, Session
  <2>3. call' \in [Requests -> Call] /\ deal' \in [Requests -> Deal]
    BY <1>7, FinishMoves, CloseType DEF CreateSession
  <2> QED
    BY <1>7, <2>1, <2>2, <2>3 DEF CreateSession, TenantTypeOK, BillingTypeOK
<1> QED
  BY <1>1, <1>2, <1>3, <1>4, <1>5, <1>6, <1>7

LEMMA TypeConfirm ==
    ASSUME CompanyTypeOK, Dealing, NEW r \in Requests,
           \/ ConfirmSession(r) \/ ConfirmSubscription(r) \/ ConfirmOwner(r) \/ SetSubscription(r)
           \/ CompleteOnboarding(r)
    PROVE  TenantTypeOK' /\ BillingTypeOK'
<1> USE DEF CompanyTypeOK
<1>0. deal[r] \in Deal /\ company \in BillingRecord
  BY DEF BillingTypeOK, TenantTypeOK
<1>1. CASE ConfirmSession(r)
  <2>1. PICK s \in Sessions : deal' = [deal EXCEPT ![r] = [NoDeal EXCEPT !.subscription = s]]
    BY <1>1 DEF ConfirmSession
  <2>2. [NoDeal EXCEPT !.subscription = s] \in Deal
    BY NoDealType DEF Deal
  <2>3. call' \in [Requests -> Call]
    BY <1>1, GotoMoves DEF ConfirmSession, Stage
  <2> QED
    BY <1>1, <2>1, <2>2, <2>3 DEF ConfirmSession, TenantTypeOK, BillingTypeOK
<1>2. CASE ConfirmSubscription(r)
  <2> DEFINE s == session[deal[r].subscription]
  <2>1. s \in Session
    BY <1>2 DEF ConfirmSubscription, At, Dealing, Books, DealOf, BillingTypeOK
  <2>2. deal' = [deal EXCEPT ![r].seats = s.seats, ![r].customer = s.customer]
    BY <1>2 DEF ConfirmSubscription
  <2> HIDE DEF s
  <2>3. [deal[r] EXCEPT !.seats = s.seats, !.customer = s.customer] \in Deal
    BY <1>0, <2>1 DEF Deal, Session
  <2>4. call' \in [Requests -> Call]
    BY <1>2, GotoMoves DEF ConfirmSubscription, Stage
  <2> QED
    BY <1>2, <2>2, <2>3, <2>4 DEF ConfirmSubscription, TenantTypeOK, BillingTypeOK
<1>3. CASE ConfirmOwner(r)
  <2>1. call' \in [Requests -> Call] /\ deal' \in [Requests -> Deal]
    BY <1>3, GotoMoves, FinishMoves, CloseType DEF ConfirmOwner, Stage, BillingTypeOK
  <2> QED
    BY <1>3, <2>1 DEF ConfirmOwner, TenantTypeOK, BillingTypeOK
<1>4. CASE SetSubscription(r)
  <2>1. deal[r].subscription \in Sessions /\ deal[r].seats \in Nat
    BY <1>0, <1>4 DEF SetSubscription, At, Dealing, Books, DealOf, Deal
  <2>2. company' \in BillingRecord
    BY <1>0, <1>4, <2>1 DEF SetSubscription, BillingRecord
  <2>3. raced' \subseteq Users
    BY <1>4 DEF SetSubscription, Active, TenantTypeOK
  <2>4. call' \in [Requests -> Call]
    BY <1>4, CommitMoves DEF SetSubscription
  <2>5. deal' \in [Requests -> Deal]
    BY <1>4, CloseType DEF SetSubscription
  <2> QED
    BY <1>4, <2>2, <2>3, <2>4, <2>5 DEF SetSubscription, TenantTypeOK, BillingTypeOK
<1>5. CASE CompleteOnboarding(r)
  <2>1. company' \in BillingRecord
    BY <1>0, <1>5 DEF CompleteOnboarding, BillingRecord
  <2>2. call' \in [Requests -> Call]
    BY <1>5, FinishMoves DEF CompleteOnboarding
  <2> QED
    BY <1>5, <2>1, <2>2 DEF CompleteOnboarding, TenantTypeOK, BillingTypeOK, billingVars
<1> QED
  BY <1>1, <1>2, <1>3, <1>4, <1>5

LEMMA TypeStripe ==
    ASSUME CompanyTypeOK, NEW s \in Sessions, Pay(s) \/ Bill(s) \/ ChangeQuantity(s)
    PROVE  TenantTypeOK' /\ BillingTypeOK'
<1> USE DEF CompanyTypeOK
<1>1. TenantTypeOK'
  BY DEF Pay, Bill, ChangeQuantity, TenantTypeOK
<1>2. session[s] \in Session
  BY DEF BillingTypeOK
<1>3. CASE Pay(s)
  <2> DEFINE status == IF session[s].trial THEN "trialing" ELSE "active"
  <2>1. session' = [session EXCEPT ![s] = [session[s] EXCEPT !.state = "complete", !.status = status]]
    BY <1>3 DEF Pay, BillingTypeOK
  <2>2. [session[s] EXCEPT !.state = "complete", !.status = status] \in Session
    BY <1>2 DEF Session
  <2>3. paid' \in Seq(Sessions) /\ Len(paid') <= MaxPaid
    BY <1>3, OrdersAreNumbers DEF Pay, BillingTypeOK
  <2> HIDE DEF status
  <2> QED
    BY <1>1, <1>3, <2>1, <2>2, <2>3 DEF Pay, BillingTypeOK
<1>4. CASE Bill(s)
  <2>1. PICK status \in {"active", "past_due", "canceled"} :
          session' = [session EXCEPT ![s].status = status]
    BY <1>4 DEF Bill
  <2>2. [session[s] EXCEPT !.status = status] \in Session
    BY <1>2 DEF Session
  <2> QED
    BY <1>1, <1>4, <2>1, <2>2 DEF Bill, BillingTypeOK
<1>5. CASE ChangeQuantity(s)
  <2>1. PICK n \in SeatOrders : session' = [session EXCEPT ![s].seats = n]
    BY <1>5 DEF ChangeQuantity
  <2>2. [session[s] EXCEPT !.seats = n] \in Session
    BY <1>2, OrdersAreNumbers DEF Session
  <2> QED
    BY <1>1, <1>5, <2>1, <2>2 DEF ChangeQuantity, BillingTypeOK
<1> QED
  BY <1>3, <1>4, <1>5

LEMMA TypeTenant ==
    ASSUME CompanyTypeOK
    PROVE  /\ TrialEnds => TenantTypeOK'
           /\ \A r \in Requests : Authenticate(r) \/ Admit(r) \/ Abort(r) => TenantTypeOK'
<1> USE DEF CompanyTypeOK
<1>1. TrialEnds => TenantTypeOK'
  BY DEF TrialEnds, TenantTypeOK, BillingRecord
<1>2. ASSUME NEW r \in Requests, Authenticate(r) PROVE TenantTypeOK'
  <2>1. PICK u \in Active, op \in Operations :
          call' = [call EXCEPT ![r].pc = "admit", ![r].op = op, ![r].by = u,
                               ![r].manager = users[u].role = "MANAGER"]
    BY <1>2 DEF Authenticate
  <2> DEFINE manager == users[u].role = "MANAGER"
  <2>2. call[r] \in Call /\ u \in Users /\ manager \in BOOLEAN
    BY DEF TenantTypeOK, Active
  <2>3. call' = [call EXCEPT ![r] = [call[r] EXCEPT !.pc = "admit", !.op = op, !.by = u, !.manager = manager]]
    BY <2>1 DEF TenantTypeOK
  <2> HIDE DEF manager
  <2>4. [call[r] EXCEPT !.pc = "admit", !.op = op, !.by = u, !.manager = manager] \in Call
    BY <2>2 DEF Call, Stage
  <2> QED
    BY <1>2, <2>3, <2>4 DEF Authenticate, TenantTypeOK
<1>3. ASSUME NEW r \in Requests, Admit(r) \/ Abort(r) PROVE TenantTypeOK'
  <2>1. call' \in [Requests -> Call]
    BY <1>3, GotoMoves, FinishMoves DEF Admit, Abort, Stage
  <2> QED
    BY <1>3, <2>1 DEF Admit, Abort, TenantTypeOK
<1> QED
  BY <1>1, <1>2, <1>3

LEMMA TypeNext ==
    ASSUME CompanyTypeOK, Targets, Dealing, [CompanyNext]_vars PROVE CompanyTypeOK'
<1>1. ASSUME UNCHANGED accountVars PROVE AccountsTypeOK'
  BY <1>1 DEF CompanyTypeOK, AccountsTypeOK, accountVars
<1>2. ASSUME UNCHANGED billingVars PROVE BillingTypeOK'
  BY <1>2 DEF CompanyTypeOK, BillingTypeOK, billingVars
<1>3. ASSUME NEW r \in Requests, Authenticate(r) \/ Admit(r), UNCHANGED <<accountVars, billingVars>>
      PROVE  CompanyTypeOK'
  BY <1>1, <1>2, <1>3, TypeTenant DEF CompanyTypeOK
<1>4. ASSUME NEW r \in Requests, AccountsStep(r), UNCHANGED billingVars PROVE CompanyTypeOK'
  BY <1>2, <1>4, TypeCreate, TypeSeats, TypeUpdate, TypeDelete, TypeGrant
  DEF CompanyTypeOK, AccountsStep
<1>5. ASSUME NEW r \in Requests, BillingStep(r), UNCHANGED accountVars PROVE CompanyTypeOK'
  BY <1>1, <1>5, TypeCheckout, TypeConfirm DEF CompanyTypeOK, BillingStep
<1>6. ASSUME NEW r \in Requests, Fail(r) PROVE CompanyTypeOK'
  BY <1>6, TypeTenant, DropType, CloseType DEF Fail, CompanyTypeOK, AccountsTypeOK, BillingTypeOK
<1>7. ASSUME TrialEnds, UNCHANGED <<accountVars, billingVars>> PROVE CompanyTypeOK'
  BY <1>1, <1>2, <1>7, TypeTenant DEF CompanyTypeOK
<1>8. ASSUME NEW s \in Sessions, Pay(s) \/ Bill(s) \/ ChangeQuantity(s), UNCHANGED accountVars
      PROVE  CompanyTypeOK'
  BY <1>1, <1>8, TypeStripe DEF CompanyTypeOK
<1>9. CASE UNCHANGED vars
  BY <1>1, <1>2, <1>9 DEF vars, tenantVars, CompanyTypeOK, TenantTypeOK
<1> QED
  BY <1>3, <1>4, <1>5, <1>6, <1>7, <1>8, <1>9 DEF CompanyNext

-----------------------------------------------------------------------------
(* What a step of one request leaves of the others. *)

KeepsOthers(r) ==
    \A q \in Requests \ {r} :
        /\ call'[q].pc = call[q].pc /\ call'[q].op = call[q].op
        /\ call'[q].by = call[q].by /\ call'[q].manager = call[q].manager
        /\ call'[q].counting = call[q].counting
        /\ InFlight(q) /\ ~call'[q].lapsed => ~call[q].lapsed
        /\ InFlight(q) /\ call[q].counting /\ ~call'[q].overtaken => ~call[q].overtaken
        /\ edit'[q].target = edit[q].target /\ edit'[q].names = edit[q].names
        /\ edit'[q].role = edit[q].role /\ edit'[q].active = edit[q].active
        /\ edit'[q].limit = edit[q].limit
        /\ ~edit'[q].stale => ~edit[q].stale

\* A step that moves on or ends, and writes at most its own copy.
LEMMA KeepsOthersPlain ==
    ASSUME \A q \in Requests : edit[q] \in Edit,
           NEW r \in Requests,
           \A q \in Requests \ {r} : call'[q] = call[q],
           \A q \in Requests \ {r} : edit'[q] = edit[q]
    PROVE  KeepsOthers(r)
BY DEF KeepsOthers

LEMMA KeepsOthersEdited ==
    ASSUME AccountsTypeOK, TenantTypeOK, NEW r \in Requests, NEW table, NEW seats \in BOOLEAN,
           NEW u \in Users, Commit(r, table, seats), Edited(r, u)
    PROVE  KeepsOthers(r)
<1> SUFFICES ASSUME NEW q \in Requests \ {r}
             PROVE  /\ edit'[q].target = edit[q].target /\ edit'[q].names = edit[q].names
                    /\ edit'[q].role = edit[q].role /\ edit'[q].active = edit[q].active
                    /\ edit'[q].limit = edit[q].limit
                    /\ ~edit'[q].stale => ~edit[q].stale
  BY CommitMoves DEF KeepsOthers
<1>1. edit[q] \in Edit
  BY DEF AccountsTypeOK
<1>2. edit'[q] = [edit[q] EXCEPT !.stale = TRUE] \/ edit'[q] = edit[q]
  BY EditedMoves
<1> QED
  BY <1>1, <1>2 DEF Edit

LEMMA AccountsKeepOthers ==
    ASSUME CompanyTypeOK, Targets, NEW r \in Requests, AccountsStep(r)
    PROVE  KeepsOthers(r)
<1> USE DEF CompanyTypeOK
<1>0. \A q \in Requests : edit[q] \in Edit
  BY DEF AccountsTypeOK
<1>1. CASE \/ CreateBegin(r) \/ SeatLimit(r) \/ SeatCount(r) \/ UpdateRead(r) \/ UpdateExisting(r)
           \/ DeleteRead(r) \/ GrantRead(r) \/ GrantDelete(r) \/ GrantLock(r)
  <2>1. \A q \in Requests \ {r} : call'[q] = call[q]
    BY <1>1 DEF CreateBegin, SeatLimit, SeatCount, UpdateRead, UpdateExisting, DeleteRead, GrantRead,
                GrantDelete, GrantLock, Goto, Finish, TenantTypeOK
  <2>2. \A q \in Requests \ {r} : edit'[q] = edit[q]
    BY <1>1 DEF CreateBegin, SeatLimit, SeatCount, UpdateRead, UpdateExisting, DeleteRead, GrantRead,
                GrantDelete, GrantLock, Drop, AccountsTypeOK, accountVars
  <2> QED
    BY <1>0, <2>1, <2>2, KeepsOthersPlain
<1>2. CASE CreateInsert(r)
  <2>1. \A q \in Requests \ {r} : edit'[q] = edit[q]
    BY <1>2 DEF CreateInsert, Drop, AccountsTypeOK
  <2>2. Commit(r, users', edit[r].active)
    BY <1>2 DEF CreateInsert
  <2>3. edit[r].active \in BOOLEAN
    BY <1>0 DEF Edit
  <2> QED
    BY <2>1, <2>2, <2>3, CommitMoves DEF KeepsOthers
<1>3. CASE UpdateWrite(r)
  <2> DEFINE e == edit[r]
             table == [users EXCEPT ![e.target] = [row |-> "held", role |-> e.role, active |-> e.active]]
             activates == e.active /\ ~users[e.target].active
  <2>1. e.target \in Users
    BY <1>3 DEF UpdateWrite, At, EditsRow, Targets, TargetOf
  <2>2. CASE Held(e.target)
    <3>1. Commit(r, table, activates) /\ Edited(r, e.target)
      BY <1>3, <2>2 DEF UpdateWrite
    <3>2. activates \in BOOLEAN
      OBVIOUS
    <3> HIDE DEF e, table, activates
    <3> QED
      BY <2>1, <3>1, <3>2, KeepsOthersEdited
  <2>3. CASE ~Held(e.target)
    <3>1. Finish(r) /\ Drop(r)
      BY <1>3, <2>3 DEF UpdateWrite
    <3> QED
      BY <1>0, <3>1, FinishMoves, KeepsOthersPlain DEF Drop, AccountsTypeOK
  <2> QED
    BY <2>2, <2>3
<1>4. CASE DeleteRow(r)
  <2> DEFINE u == edit[r].target
             table == [users EXCEPT ![u].row = "deleted", ![u].active = FALSE]
  <2>1. u \in Users
    BY <1>4 DEF DeleteRow, At, Targets, TargetOf
  <2>2. CASE Held(u)
    <3>1. Commit(r, table, FALSE) /\ Edited(r, u)
      BY <1>4, <2>2 DEF DeleteRow
    <3> HIDE DEF table, u
    <3> QED
      BY <2>1, <3>1, KeepsOthersEdited
  <2>3. CASE ~Held(u)
    <3>1. Finish(r) /\ Drop(r)
      BY <1>4, <2>3 DEF DeleteRow
    <3> QED
      BY <1>0, <3>1, FinishMoves, KeepsOthersPlain DEF Drop, AccountsTypeOK
  <2> QED
    BY <2>2, <2>3
<1>5. CASE GrantInsert(r)
  <2>1. \A q \in Requests \ {r} : call'[q] = call[q]
    BY <1>5, FinishMoves DEF GrantInsert
  <2>2. ASSUME NEW q \in Requests \ {r}
        PROVE  \/ edit'[q] = edit[q]
               \/ edit'[q] = [edit[q] EXCEPT !.removed = @ \ edit[r].removed, !.stale = TRUE]
    BY <1>5 DEF GrantInsert, Drop, AccountsTypeOK
  <2>3. ASSUME NEW q \in Requests \ {r}
        PROVE  /\ edit'[q].target = edit[q].target /\ edit'[q].names = edit[q].names
               /\ edit'[q].role = edit[q].role /\ edit'[q].active = edit[q].active
               /\ edit'[q].limit = edit[q].limit
               /\ ~edit'[q].stale => ~edit[q].stale
    <3>1. edit[q] \in Edit
      BY <1>0
    <3> QED
      BY <2>2, <3>1 DEF Edit
  <2> QED
    BY <2>1, <2>3 DEF KeepsOthers
<1> QED
  BY <1>1, <1>2, <1>3, <1>4, <1>5 DEF AccountsStep

LEMMA BillingKeepsOthers ==
    ASSUME CompanyTypeOK, NEW r \in Requests, BillingStep(r), UNCHANGED accountVars
    PROVE  KeepsOthers(r)
<1> USE DEF CompanyTypeOK
<1>1. UNCHANGED edit /\ \A q \in Requests : edit[q] \in Edit
  BY DEF accountVars, AccountsTypeOK
<1>2. CASE SetSubscription(r)
  <2>1. Commit(r, users, TRUE)
    BY <1>2 DEF SetSubscription
  <2>2. ASSUME NEW q \in Requests \ {r}
        PROVE  /\ call'[q].pc = call[q].pc /\ call'[q].op = call[q].op
               /\ call'[q].by = call[q].by /\ call'[q].manager = call[q].manager
               /\ call'[q].counting = call[q].counting
               /\ InFlight(q) /\ ~call'[q].lapsed => ~call[q].lapsed
               /\ InFlight(q) /\ call[q].counting /\ ~call'[q].overtaken => ~call[q].overtaken
    BY <2>1, CommitMoves
  <2> QED
    BY <1>1, <2>2 DEF KeepsOthers
<1>3. CASE ~SetSubscription(r)
  <2>1. \A q \in Requests \ {r} : call'[q] = call[q]
    BY <1>3 DEF BillingStep, CheckoutBegin, CheckoutCount, CheckoutStatus, CheckoutRecord, CreateCustomer,
                SetCustomer, CreateSession, ConfirmSession, ConfirmSubscription, ConfirmOwner,
                CompleteOnboarding, Goto, Finish, TenantTypeOK
  <2> QED
    BY <1>1, <2>1, KeepsOthersPlain
<1> QED
  BY <1>2, <1>3

LEMMA TenantKeepsOthers ==
    ASSUME CompanyTypeOK, NEW r \in Requests,
           \/ (Authenticate(r) \/ Admit(r)) /\ UNCHANGED accountVars
           \/ Abort(r) /\ Drop(r)
    PROVE  KeepsOthers(r)
<1>1. \A q \in Requests \ {r} : call'[q] = call[q] /\ edit'[q] = edit[q]
  BY DEF Authenticate, Admit, Abort, Drop, Goto, Finish, accountVars, CompanyTypeOK, TenantTypeOK,
         AccountsTypeOK
<1> QED
  BY <1>1, KeepsOthersPlain DEF CompanyTypeOK, AccountsTypeOK

-----------------------------------------------------------------------------
(* Actors and targets *)

\* What the two commits that change a row make of the table.
LEMMA UpdateWriteIs ==
    ASSUME CompanyTypeOK, Targets, NEW r \in Requests, UpdateWrite(r)
    PROVE  \/ Finish(r) /\ Drop(r) /\ UNCHANGED <<users, asked, crossed, raced, deposed>>
           \/ /\ Held(edit[r].target)
              /\ users' = [users EXCEPT ![edit[r].target] =
                             [row |-> "held", role |-> edit[r].role, active |-> edit[r].active]]
              /\ \A u \in Users \ {edit[r].target} : users'[u] = users[u] /\ asked'[u] = asked[u]
              /\ users'[edit[r].target] =
                    [row |-> "held", role |-> edit[r].role, active |-> edit[r].active]
              /\ \E seats \in BOOLEAN :
                    /\ seats = (edit[r].active /\ ~users[edit[r].target].active)
                    /\ Commit(r, users', seats)
              /\ Edited(r, edit[r].target)
              /\ asked'[edit[r].target].role =
                    IF "role" \in edit[r].names THEN edit[r].role ELSE asked[edit[r].target].role
              /\ asked'[edit[r].target].active =
                    IF "active" \in edit[r].names THEN edit[r].active ELSE asked[edit[r].target].active
              /\ crossed' = IF edit[r].stale THEN crossed \cup {edit[r].target} ELSE crossed
              /\ raced' = IF /\ edit[r].active /\ ~users[edit[r].target].active
                             /\ call[r].overtaken \/ (edit[r].stale /\ ~call[r].counting)
                          THEN raced \cup {edit[r].target} ELSE raced
              /\ deposed' = (deposed \/ (/\ call[r].lapsed
                                         /\ Manages(users, edit[r].target)
                                         /\ ~Manages(users', edit[r].target)))
<1> DEFINE e == edit[r]
<1>1. e.target \in Users
  BY DEF UpdateWrite, At, EditsRow, Targets, TargetOf
<1>2. CASE ~Held(e.target)
  BY <1>2 DEF UpdateWrite
<1>3. CASE Held(e.target)
  <2> DEFINE row == [row |-> "held", role |-> e.role, active |-> e.active]
             seats == e.active /\ ~users[e.target].active
  <2>1. /\ users' = [users EXCEPT ![e.target] = row]
        /\ Commit(r, users', seats) /\ Edited(r, e.target)
        /\ asked' = [asked EXCEPT ![e.target] = asked'[e.target]]
    BY <1>1, <1>3 DEF UpdateWrite, CompanyTypeOK, AccountsTypeOK
  <2>2. seats \in BOOLEAN
    OBVIOUS
  <2>3. \A u \in Users \ {e.target} : users'[u] = users[u] /\ asked'[u] = asked[u]
    BY <2>1 DEF CompanyTypeOK, TenantTypeOK, AccountsTypeOK
  <2>4. users'[e.target] = row
    BY <1>1, <2>1 DEF CompanyTypeOK, TenantTypeOK
  <2>5. asked'[e.target] = [role |-> IF "role" \in e.names THEN e.role ELSE asked[e.target].role,
                            active |-> IF "active" \in e.names THEN e.active ELSE asked[e.target].active]
    BY <1>1, <1>3 DEF UpdateWrite, CompanyTypeOK, AccountsTypeOK
  <2>6. crossed' = IF e.stale THEN crossed \cup {e.target} ELSE crossed
    BY <1>3 DEF UpdateWrite
  <2>7. raced' = IF seats /\ (call[r].overtaken \/ (e.stale /\ ~call[r].counting))
                 THEN raced \cup {e.target} ELSE raced
    BY <1>3 DEF UpdateWrite
  <2>8. deposed' = (deposed \/ (/\ call[r].lapsed /\ Manages(users, e.target)
                                /\ ~Manages(users', e.target)))
    BY <1>3, <2>1 DEF UpdateWrite
  <2>9. /\ asked'[e.target].role = IF "role" \in e.names THEN e.role ELSE asked[e.target].role
        /\ asked'[e.target].active = IF "active" \in e.names THEN e.active ELSE asked[e.target].active
    BY <2>5
  <2> QED
    BY <1>3, <2>1, <2>2, <2>3, <2>4, <2>6, <2>7, <2>8, <2>9
<1> QED
  BY <1>2, <1>3

LEMMA DeleteRowIs ==
    ASSUME CompanyTypeOK, Targets, NEW r \in Requests, DeleteRow(r)
    PROVE  \/ Finish(r) /\ Drop(r) /\ UNCHANGED <<users, grants, deposed>>
           \/ /\ Held(edit[r].target)
              /\ \A u \in Users \ {edit[r].target} : users'[u] = users[u] /\ grants'[u] = grants[u]
              /\ users'[edit[r].target].row = "deleted" /\ ~users'[edit[r].target].active
              /\ deposed' = (deposed \/ (call[r].lapsed /\ Manages(users, edit[r].target)))
              /\ Commit(r, users', FALSE) /\ Edited(r, edit[r].target)
<1> DEFINE u == edit[r].target
<1>1. u \in Users
  BY DEF DeleteRow, At, Targets, TargetOf
<1>2. CASE ~Held(u)
  BY <1>2 DEF DeleteRow
<1>3. CASE Held(u)
  <2>1. /\ users' = [users EXCEPT ![u].row = "deleted", ![u].active = FALSE]
        /\ grants' = [grants EXCEPT ![u] = {}]
        /\ deposed' = (deposed \/ (call[r].lapsed /\ Manages(users, u)))
        /\ Commit(r, users', FALSE) /\ Edited(r, u)
    BY <1>3 DEF DeleteRow
  <2> HIDE DEF u
  <2>2. \A v \in Users \ {u} : users'[v] = users[v] /\ grants'[v] = grants[v]
    BY <2>1 DEF CompanyTypeOK, TenantTypeOK, AccountsTypeOK
  <2>3. users'[u].row = "deleted" /\ ~users'[u].active
    BY <1>1, <2>1 DEF CompanyTypeOK, TenantTypeOK, Account
  <2> QED
    BY <1>3, <2>1, <2>2, <2>3 DEF u
<1> QED
  BY <1>2, <1>3

\* A row that was inserted once is never as if it had not been.
RowsStay ==
    \A u \in Users : users[u].row # "unborn" => users'[u].row # "unborn" /\ (Held(u)' => Held(u))

LEMMA AccountsRowsStay ==
    ASSUME CompanyTypeOK, Targets, NEW r \in Requests, AccountsStep(r) PROVE RowsStay
<1> USE DEF RowsStay, Held
<1>1. CASE CreateInsert(r)
  BY <1>1 DEF CreateInsert, CompanyTypeOK, TenantTypeOK
<1>2. CASE UpdateWrite(r)
  <2>1. CASE UNCHANGED users
    BY <2>1
  <2>2. CASE ~UNCHANGED users
    <3>1. /\ Held(edit[r].target)
          /\ users'[edit[r].target] =
                [row |-> "held", role |-> edit[r].role, active |-> edit[r].active]
          /\ \A u \in Users \ {edit[r].target} : users'[u] = users[u]
      BY <1>2, <2>2, UpdateWriteIs
    <3>2. users'[edit[r].target].row = "held"
      BY <3>1
    <3> QED
      BY <3>1, <3>2
  <2> QED
    BY <2>1, <2>2
<1>3. CASE DeleteRow(r)
  BY <1>3, DeleteRowIs
<1>4. CASE \/ CreateBegin(r) \/ SeatLimit(r) \/ SeatCount(r) \/ UpdateRead(r) \/ UpdateExisting(r)
           \/ DeleteRead(r) \/ GrantRead(r) \/ GrantDelete(r) \/ GrantLock(r) \/ GrantInsert(r)
  BY <1>4 DEF CreateBegin, SeatLimit, SeatCount, UpdateRead, UpdateExisting, DeleteRead,
              GrantRead, GrantDelete, GrantLock, GrantInsert
<1> QED
  BY <1>1, <1>2, <1>3, <1>4 DEF AccountsStep

LEMMA TargetsKept ==
    ASSUME Targets, NEW r \in Requests, KeepsOthers(r), RowsStay, TargetOf(r)'
    PROVE  Targets'
<1> SUFFICES ASSUME NEW q \in Requests, q # r PROVE TargetOf(q)'
  BY DEF Targets
<1>1. TargetOf(q)
  BY DEF Targets
<1> QED
  BY <1>1 DEF KeepsOthers, RowsStay, TargetOf, EditsRow, InFlight

\* A request that is answered carries nothing.
LEMMA AnsweredTarget ==
    ASSUME NEW r \in Requests, call'[r] = Answered PROVE TargetOf(r)'
BY DEF TargetOf, InFlight, EditsRow, Answered, Idle

LEMMA TargetsAccounts ==
    ASSUME CompanyTypeOK, Targets, NEW r \in Requests, AccountsStep(r) PROVE TargetOf(r)'
<1> USE DEF CompanyTypeOK
<1>0. call[r] \in Call /\ edit[r] \in Edit
  BY DEF TenantTypeOK, AccountsTypeOK
<1>1. InFlight(r) /\ call[r].pc # "admit" /\ call[r].by \in Users /\ call[r].manager
  BY DEF AccountsStep, CreateBegin, SeatLimit, SeatCount, CreateInsert, UpdateRead, UpdateExisting,
         UpdateWrite, DeleteRead, DeleteRow, GrantRead, GrantDelete, GrantLock, GrantInsert, At,
         InFlight, Targets, TargetOf
<1>2. CASE call'[r] = Answered
  BY <1>2, AnsweredTarget
<1>3. CASE CreateBegin(r)
  BY <1>1, <1>3 DEF CreateBegin, At, Goto, TargetOf, EditsRow, InFlight, TenantTypeOK
<1>4. CASE SeatLimit(r)
  BY <1>1, <1>4 DEF SeatLimit, At, Goto, Targets, TargetOf, EditsRow, InFlight, TenantTypeOK, AccountsTypeOK
<1>5. CASE SeatCount(r) /\ call'[r] # Answered
  <2>1. Goto(r, "write") /\ UNCHANGED edit
    BY <1>5, FinishMoves DEF SeatCount
  <2> QED
    BY <1>1, <1>5, <2>1 DEF SeatCount, Goto, Targets, TargetOf, EditsRow, InFlight, RowsStay, TenantTypeOK
<1>6. CASE UpdateRead(r)
  <2>1. call'[r].pc = "existing" /\ call'[r].by = call[r].by /\ call'[r].manager = call[r].manager
    BY <1>6 DEF UpdateRead, Goto, TenantTypeOK
  <2>2. PICK u \in Users : Held(u) /\ edit'[r].target = u
    BY <1>6 DEF UpdateRead, AccountsTypeOK
  <2> QED
    BY <1>1, <1>6, <2>1, <2>2 DEF UpdateRead, Held, TargetOf, EditsRow, InFlight
<1>7. CASE UpdateExisting(r) /\ call'[r] # Answered
  <2>1. UNCHANGED <<edit, users>> /\ At(r, "update", "existing") /\ \E pc \in {"limit", "write"} : Goto(r, pc)
    BY <1>7, FinishMoves DEF UpdateExisting
  <2> QED
    BY <1>1, <2>1 DEF At, Goto, Targets, TargetOf, EditsRow, InFlight, TenantTypeOK
<1>8. CASE DeleteRead(r)
  <2>1. call'[r].pc = "remove" /\ call'[r].by = call[r].by /\ call'[r].manager = call[r].manager
    BY <1>8 DEF DeleteRead, Goto, TenantTypeOK
  <2>2. PICK u \in Users : u # call[r].by /\ Held(u) /\ edit'[r].target = u
    BY <1>8 DEF DeleteRead, AccountsTypeOK
  <2> QED
    BY <1>1, <1>8, <2>1, <2>2 DEF DeleteRead, Held, TargetOf, EditsRow, InFlight
<1>9. CASE GrantRead(r)
  <2>1. call'[r].pc = "save" /\ call'[r].by = call[r].by /\ call'[r].manager = call[r].manager
    BY <1>9 DEF GrantRead, Goto, TenantTypeOK
  <2>2. PICK u \in Users : Held(u) /\ edit'[r].target = u
    BY <1>9 DEF GrantRead, AccountsTypeOK
  <2> QED
    BY <1>1, <1>9, <2>1, <2>2 DEF GrantRead, Held, TargetOf, EditsRow, InFlight
<1>10. CASE GrantDelete(r)
  BY <1>1, <1>10 DEF GrantDelete, At, Goto, Targets, TargetOf, EditsRow, InFlight, TenantTypeOK, AccountsTypeOK
<1>11. CASE GrantLock(r)
  BY <1>1, <1>11 DEF GrantLock, At, Goto, Targets, TargetOf, EditsRow, InFlight, TenantTypeOK, AccountsTypeOK, accountVars
<1>12. CASE CreateInsert(r) \/ UpdateWrite(r) \/ DeleteRow(r) \/ GrantInsert(r)
  <2>1. Finish(r) \/ \E table, seats : Commit(r, table, seats)
    BY <1>12 DEF CreateInsert, UpdateWrite, DeleteRow, GrantInsert
  <2>2. call'[r] = Answered
    BY <2>1 DEF Finish, Commit, TenantTypeOK
  <2> QED
    BY <2>2, AnsweredTarget
<1> QED
  BY <1>2, <1>3, <1>4, <1>5, <1>6, <1>7, <1>8, <1>9, <1>10, <1>11, <1>12 DEF AccountsStep

AccountStages ==
    {"existing", "limit", "count", "write", "remove", "save", "deleting", "deleted"}

\* A billing step leaves its request answered or at another statement of billing.
LEMMA BillingMoves ==
    ASSUME CompanyTypeOK, NEW r \in Requests, BillingStep(r)
    PROVE  /\ InFlight(r) /\ call[r].pc # "admit" /\ call[r].pc \notin AccountStages
           /\ \/ call'[r] = Answered
              \/ /\ call'[r].pc \in Stage \ (AccountStages \cup {"idle", "done", "admit"})
                 /\ call'[r].by = call[r].by /\ call'[r].manager = call[r].manager
                 /\ call'[r].counting = call[r].counting /\ call'[r].lapsed = call[r].lapsed
<1> USE DEF CompanyTypeOK
<1>1. InFlight(r) /\ call[r].pc # "admit" /\ call[r].pc \notin AccountStages
  BY DEF BillingStep, CheckoutBegin, CheckoutCount, CheckoutStatus, CheckoutRecord, CreateCustomer,
         SetCustomer, CreateSession, ConfirmSession, ConfirmSubscription, ConfirmOwner, SetSubscription,
         CompleteOnboarding, At, InFlight, AccountStages
<1>2. \/ Finish(r)
      \/ Commit(r, users, TRUE)
      \/ \E pc \in Stage \ (AccountStages \cup {"idle", "done", "admit"}) : Goto(r, pc)
  BY DEF BillingStep, CheckoutBegin, CheckoutCount, CheckoutStatus, CheckoutRecord, CreateCustomer,
         SetCustomer, CreateSession, ConfirmSession, ConfirmSubscription, ConfirmOwner, SetSubscription,
         CompleteOnboarding, Stage, AccountStages
<1>3. CASE Finish(r) \/ Commit(r, users, TRUE)
  BY <1>1, <1>3, FinishMoves, CommitMoves
<1>4. ASSUME NEW pc \in Stage \ (AccountStages \cup {"idle", "done", "admit"}), Goto(r, pc)
      PROVE  /\ call'[r].pc = pc
             /\ call'[r].by = call[r].by /\ call'[r].manager = call[r].manager
             /\ call'[r].counting = call[r].counting /\ call'[r].lapsed = call[r].lapsed
  BY <1>4 DEF Goto, TenantTypeOK, Call
<1> QED
  BY <1>1, <1>2, <1>3, <1>4

LEMMA TargetsNext ==
    ASSUME CompanyTypeOK, Targets, [CompanyNext]_vars PROVE Targets'
<1> USE DEF CompanyTypeOK
<1>1. ASSUME NEW r \in Requests, Authenticate(r), UNCHANGED <<accountVars, billingVars>> PROVE Targets'
  <2>1. PICK u \in Users : call'[r].by = u /\ call'[r].pc = "admit"
    BY <1>1 DEF Authenticate, TenantTypeOK, Active
  <2>2. TargetOf(r)'
    BY <2>1 DEF TargetOf, InFlight, EditsRow
  <2>3. RowsStay
    BY <1>1 DEF Authenticate, RowsStay, Held
  <2> QED
    BY <1>1, <2>2, <2>3, TenantKeepsOthers, TargetsKept
<1>2. ASSUME NEW r \in Requests, Admit(r), UNCHANGED <<accountVars, billingVars>> PROVE Targets'
  <2>1. TargetOf(r)'
    <3>1. CASE Finish(r)
      BY <3>1, FinishMoves, AnsweredTarget
    <3>2. CASE call[r].manager /\ Goto(r, "begin")
      <4>1. call'[r].pc = "begin" /\ call'[r].by = call[r].by /\ call'[r].manager
        BY <3>2 DEF Goto, TenantTypeOK
      <4> QED
        BY <1>2, <4>1 DEF Admit, Targets, TargetOf, InFlight, EditsRow
    <3> QED
      BY <1>2, <3>1, <3>2 DEF Admit
  <2>2. RowsStay
    BY <1>2 DEF Admit, RowsStay, Held
  <2> QED
    BY <1>2, <2>1, <2>2, TenantKeepsOthers, TargetsKept
<1>3. ASSUME NEW r \in Requests, AccountsStep(r) PROVE Targets'
  BY <1>3, AccountsKeepOthers, AccountsRowsStay, TargetsAccounts, TargetsKept
<1>4. ASSUME NEW r \in Requests, BillingStep(r), UNCHANGED accountVars PROVE Targets'
  <2>1. TargetOf(r)'
    BY <1>4, BillingMoves, AnsweredTarget DEF Targets, TargetOf, InFlight, EditsRow, AccountStages
  <2>2. RowsStay
    BY <1>4 DEF BillingStep, CheckoutBegin, CheckoutCount, CheckoutStatus, CheckoutRecord,
         CreateCustomer, SetCustomer, CreateSession, ConfirmSession, ConfirmSubscription, ConfirmOwner,
         SetSubscription, CompleteOnboarding, RowsStay, Held
  <2> QED
    BY <1>4, <2>1, <2>2, BillingKeepsOthers, TargetsKept
<1>5. ASSUME NEW r \in Requests, Fail(r) PROVE Targets'
  <2>1. TargetOf(r)'
    BY <1>5, FinishMoves, AnsweredTarget DEF Fail, Abort
  <2>2. RowsStay
    BY <1>5 DEF Fail, Abort, RowsStay, Held
  <2> QED
    BY <1>5, <2>1, <2>2, TenantKeepsOthers, TargetsKept DEF Fail
<1>6. CASE UNCHANGED <<users, call, edit>>
  BY <1>6 DEF Targets, TargetOf, InFlight, EditsRow
<1>7. ASSUME \/ TrialEnds /\ UNCHANGED <<accountVars, billingVars>>
             \/ \E s \in Sessions : (Pay(s) \/ Bill(s) \/ ChangeQuantity(s)) /\ UNCHANGED accountVars
             \/ UNCHANGED vars
      PROVE  UNCHANGED <<users, call, edit>>
  BY <1>7 DEF TrialEnds, Pay, Bill, ChangeQuantity, accountVars, vars, tenantVars
<1> QED
  BY <1>1, <1>2, <1>3, <1>4, <1>5, <1>6, <1>7 DEF CompanyNext

-----------------------------------------------------------------------------
(* The steps that are not of the accounts. *)

\* They leave the users alone, and the request they move holds no copy.
Aside(r) ==
    /\ KeepsOthers(r)
    /\ \A q \in Requests \ {r} : edit'[q] = edit[q]
    /\ ~call'[r].counting /\ call'[r].pc \notin AccountStages
    /\ InFlight(r)' /\ call'[r].manager /\ ~call'[r].lapsed =>
          Manages(users, call'[r].by)

LEMMA OtherSteps ==
    ASSUME CompanyTypeOK, Targets, Standing, Seating, [CompanyNext]_vars,
           \A r \in Requests : ~AccountsStep(r)
    PROVE  /\ UNCHANGED <<users, grants, asked, crossed, saved, mingled, deposed>>
           /\ \/ UNCHANGED <<call, edit>>
              \/ \E r \in Requests : Aside(r)
<1> USE DEF CompanyTypeOK
<1>1. ASSUME NEW r \in Requests, Authenticate(r) \/ Admit(r) \/ BillingStep(r), UNCHANGED accountVars
      PROVE  UNCHANGED users /\ UNCHANGED deposed /\ Aside(r)
  <2>1. UNCHANGED <<users, deposed>>
    BY <1>1 DEF Authenticate, Admit, BillingStep, CheckoutBegin, CheckoutCount, CheckoutStatus,
         CheckoutRecord, CreateCustomer, SetCustomer, CreateSession, ConfirmSession, ConfirmSubscription,
         ConfirmOwner, SetSubscription, CompleteOnboarding
  <2>2. KeepsOthers(r) /\ UNCHANGED edit
    BY <1>1, TenantKeepsOthers, BillingKeepsOthers DEF accountVars
  <2>3. StandingOf(r) /\ SeatOf(r)
    BY DEF Standing, Seating
  <2>4. CASE call'[r] = Answered
    BY <2>1, <2>2, <2>4 DEF Aside, Answered, Idle, InFlight, AccountStages
  <2>5. CASE Authenticate(r)
    <3>1. PICK u \in Active, op \in Operations :
            call' = [call EXCEPT ![r].pc = "admit", ![r].op = op, ![r].by = u,
                                 ![r].manager = users[u].role = "MANAGER"]
      BY <2>5 DEF Authenticate
    <3>2. /\ call'[r].pc = "admit" /\ call'[r].by = u
          /\ call'[r].manager => users[u].role = "MANAGER"
          /\ call'[r].counting = call[r].counting
      BY <3>1 DEF TenantTypeOK, Call
    <3>3. call[r].pc = "idle" /\ Held(u) /\ users[u].active
      BY <2>5 DEF Authenticate, Active
    <3>4. ~call'[r].counting
      BY <2>3, <3>2, <3>3 DEF SeatOf, TenantTypeOK, Call
    <3> QED
      BY <2>1, <2>2, <3>2, <3>3, <3>4 DEF Aside, InFlight, AccountStages, Manages, Held
  <2>6. CASE ~Authenticate(r) /\ call'[r] # Answered
    <3>1. /\ InFlight(r) /\ call[r].pc \notin AccountStages
          /\ call'[r].pc \notin AccountStages
          /\ call'[r].by = call[r].by /\ call'[r].manager = call[r].manager
          /\ call'[r].counting = call[r].counting /\ call'[r].lapsed = call[r].lapsed
      <4>1. CASE Admit(r)
        <5>1. Goto(r, "begin") /\ call[r].pc = "admit"
          BY <2>6, <4>1, FinishMoves DEF Admit
        <5> QED
          BY <5>1 DEF Goto, TenantTypeOK, Call, InFlight, AccountStages
      <4>2. CASE BillingStep(r)
        BY <2>6, <4>2, BillingMoves
      <4> QED
        BY <1>1, <2>6, <4>1, <4>2
    <3>2. ~call[r].counting
      BY <2>3, <3>1 DEF SeatOf, AccountStages
    <3> QED
      BY <2>1, <2>2, <2>3, <3>1, <3>2 DEF Aside, StandingOf, InFlight
  <2> QED
    BY <2>1, <2>4, <2>5, <2>6
<1>2. ASSUME NEW r \in Requests, Fail(r) PROVE UNCHANGED <<users, deposed>> /\ Aside(r)
  <2>1. call'[r] = Answered /\ UNCHANGED <<users, deposed>>
    BY <1>2, FinishMoves DEF Fail, Abort
  <2>2. KeepsOthers(r)
    BY <1>2, TenantKeepsOthers DEF Fail
  <2>3. \A q \in Requests \ {r} : edit'[q] = edit[q]
    BY <1>2 DEF Fail, Drop, AccountsTypeOK
  <2> QED
    BY <2>1, <2>2, <2>3 DEF Aside, Answered, Idle, InFlight, AccountStages
<1>3. ASSUME \/ TrialEnds /\ UNCHANGED <<accountVars, billingVars>>
             \/ \E s \in Sessions : (Pay(s) \/ Bill(s) \/ ChangeQuantity(s)) /\ UNCHANGED accountVars
             \/ UNCHANGED vars
      PROVE  UNCHANGED <<users, call, deposed, accountVars>>
  BY <1>3 DEF TrialEnds, Pay, Bill, ChangeQuantity, accountVars, vars, tenantVars
<1>4. UNCHANGED accountVars => UNCHANGED <<edit, grants, asked, crossed, saved, mingled>>
  BY DEF accountVars
<1>5. \A r \in Requests : Fail(r) => UNCHANGED <<grants, asked, crossed, saved, mingled>>
  BY DEF Fail
<1> QED
  BY <1>1, <1>2, <1>3, <1>4, <1>5 DEF CompanyNext

-----------------------------------------------------------------------------
(* What a step of the accounts does to the table. *)

PlainStep(r) ==
    \/ CreateBegin(r) \/ SeatLimit(r) \/ SeatCount(r) \/ UpdateRead(r) \/ UpdateExisting(r)
    \/ DeleteRead(r) \/ GrantRead(r) \/ GrantDelete(r) \/ GrantLock(r)

LEMMA PlainStepIs ==
    ASSUME CompanyTypeOK, NEW r \in Requests, PlainStep(r)
    PROVE  /\ UNCHANGED <<users, company, raced, deposed, grants, asked, crossed, saved, mingled>>
           /\ \A q \in Requests \ {r} : edit'[q] = edit[q]
<1>1. UNCHANGED <<users, company, raced, deposed, grants, asked, crossed, saved, mingled>>
  BY DEF PlainStep, CreateBegin, SeatLimit, SeatCount, UpdateRead, UpdateExisting, DeleteRead, GrantRead,
         GrantDelete, GrantLock, accountVars
<1>2. \A q \in Requests \ {r} : edit'[q] = edit[q]
  BY DEF PlainStep, CreateBegin, SeatLimit, SeatCount, UpdateRead, UpdateExisting, DeleteRead, GrantRead,
         GrantDelete, GrantLock, Drop, accountVars, CompanyTypeOK, AccountsTypeOK
<1> QED
  BY <1>1, <1>2

LEMMA CreateInsertIs ==
    ASSUME CompanyTypeOK, NEW r \in Requests, CreateInsert(r)
    PROVE  \E u \in Users :
              /\ users[u].row = "unborn" /\ Held(u)'
              /\ \A v \in Users \ {u} : users'[v] = users[v] /\ asked'[v] = asked[v]
              /\ users'[u].role = edit[r].role /\ users'[u].active = edit[r].active
              /\ asked'[u].role = edit[r].role /\ asked'[u].active = edit[r].active
              /\ raced' = IF edit[r].active /\ call[r].overtaken THEN raced \cup {u} ELSE raced
              /\ Commit(r, users', edit[r].active)
<1> DEFINE row == [row |-> "held", role |-> edit[r].role, active |-> edit[r].active]
<1>1. PICK u \in Users :
        /\ users[u].row = "unborn"
        /\ users' = [users EXCEPT ![u] = row]
        /\ asked' = [asked EXCEPT ![u] = [role |-> row.role, active |-> row.active]]
        /\ raced' = IF row.active /\ call[r].overtaken THEN raced \cup {u} ELSE raced
        /\ Commit(r, users', row.active)
  BY DEF CreateInsert
<1>2. users'[u] = row /\ \A v \in Users \ {u} : users'[v] = users[v]
  BY <1>1 DEF CompanyTypeOK, TenantTypeOK
<1>3. asked'[u] = [role |-> row.role, active |-> row.active] /\ \A v \in Users \ {u} : asked'[v] = asked[v]
  BY <1>1 DEF CompanyTypeOK, AccountsTypeOK
<1>4. Held(u)' /\ users'[u].role = edit[r].role /\ users'[u].active = edit[r].active
  BY <1>2 DEF Held
<1>5. asked'[u].role = edit[r].role /\ asked'[u].active = edit[r].active
  BY <1>3
<1>6. /\ raced' = IF edit[r].active /\ call[r].overtaken THEN raced \cup {u} ELSE raced
      /\ Commit(r, users', edit[r].active)
  BY <1>1
<1> HIDE DEF row
<1> QED
  BY <1>1, <1>2, <1>3, <1>4, <1>5, <1>6

\* The table changes with a commit only.
LEMMA AccountsCommit ==
    ASSUME CompanyTypeOK, Targets, NEW r \in Requests, AccountsStep(r)
    PROVE  UNCHANGED users \/ \E seats \in BOOLEAN : Commit(r, users', seats)
<1>1. CASE CreateInsert(r)
  <2>1. edit[r].active \in BOOLEAN
    BY DEF CompanyTypeOK, AccountsTypeOK, Edit
  <2> QED
    BY <1>1, <2>1, CreateInsertIs
<1>2. CASE UpdateWrite(r)
  BY <1>2, UpdateWriteIs
<1>3. CASE DeleteRow(r)
  BY <1>3, DeleteRowIs
<1>4. CASE GrantInsert(r)
  BY <1>4 DEF GrantInsert
<1>5. CASE PlainStep(r)
  BY <1>5, PlainStepIs
<1> QED
  BY <1>1, <1>2, <1>3, <1>4, <1>5 DEF AccountsStep, PlainStep

\* A copy the step does not mark is of a row the step does not change.
LEMMA RowsAgree ==
    ASSUME CompanyTypeOK, Targets, NEW r \in Requests, AccountsStep(r),
           NEW q \in Requests \ {r}, EditsRow(q), ~edit'[q].stale
    PROVE  users'[edit[q].target] = users[edit[q].target]
<1>1. edit[q].target \in Users /\ users[edit[q].target].row # "unborn"
  BY DEF Targets, TargetOf
<1>2. Updating(q, edit[q].target)
  BY DEF EditsRow, Updating
<1>3. ASSUME Edited(r, edit[r].target), edit[r].target \in Users PROVE edit[q].target # edit[r].target
  <2> SUFFICES ASSUME edit[q].target = edit[r].target PROVE FALSE
    OBVIOUS
  <2>1. edit'[q] = [edit[q] EXCEPT !.stale = TRUE]
    BY <1>2, <1>3, EditedMoves DEF CompanyTypeOK
  <2>2. edit[q] \in Edit
    BY DEF CompanyTypeOK, AccountsTypeOK
  <2> QED
    BY <2>1, <2>2 DEF Edit
<1>4. CASE CreateInsert(r)
  BY <1>1, <1>4, CreateInsertIs
<1>5. CASE UpdateWrite(r)
  <2>1. edit[r].target \in Users
    BY <1>5 DEF UpdateWrite, At, EditsRow, Targets, TargetOf
  <2> QED
    <3>1. \/ UNCHANGED users
          \/ /\ Edited(r, edit[r].target)
             /\ \A u \in Users \ {edit[r].target} : users'[u] = users[u]
      BY <1>5, UpdateWriteIs
    <3> QED
      BY <1>1, <1>3, <2>1, <3>1
<1>6. CASE DeleteRow(r)
  <2>1. edit[r].target \in Users
    BY <1>6 DEF DeleteRow, At, Targets, TargetOf
  <2> QED
    BY <1>1, <1>3, <1>6, <2>1, DeleteRowIs
<1>7. CASE GrantInsert(r)
  BY <1>7 DEF GrantInsert
<1>8. CASE PlainStep(r)
  BY <1>8, PlainStepIs
<1> QED
  BY <1>4, <1>5, <1>6, <1>7, <1>8 DEF AccountsStep, PlainStep

-----------------------------------------------------------------------------
(* The last manager *)

LEMMA StandingKept ==
    ASSUME CompanyTypeOK, Targets, \A q \in Requests : StandingOf(q),
           NEW r \in Requests, KeepsOthers(r),
           UNCHANGED users \/ \E seats \in BOOLEAN : Commit(r, users', seats)
    PROVE  \A q \in Requests \ {r} : StandingOf(q)'
<1> SUFFICES ASSUME NEW q \in Requests \ {r} PROVE StandingOf(q)'
  OBVIOUS
<1>1. StandingOf(q) /\ TargetOf(q)
  BY DEF Targets
<1>2. InFlight(q) /\ call[q].manager /\ ~call'[q].lapsed => Manages(users, call[q].by)'
  <2>1. CASE UNCHANGED users
    BY <1>1, <2>1 DEF KeepsOthers, StandingOf, Manages
  <2>2. ASSUME NEW seats \in BOOLEAN, Commit(r, users', seats)
        PROVE  InFlight(q) /\ ~call'[q].lapsed => Manages(users', call[q].by)
    BY <2>2, CommitMoves DEF CompanyTypeOK
  <2> QED
    BY <2>1, <2>2 DEF KeepsOthers, Manages
<1> QED
  BY <1>1, <1>2 DEF KeepsOthers, StandingOf, EditsRow, InFlight, Manages

\* Whoever is about to write as a manager that has not lapsed is still one.
LEMMA StandingAccounts ==
    ASSUME CompanyTypeOK, Targets, Standing, NEW r \in Requests, AccountsStep(r)
    PROVE  StandingOf(r)'
<1> USE DEF CompanyTypeOK
<1>0. StandingOf(r) /\ TargetOf(r)
  BY DEF Standing, Targets
<1>1. CASE call'[r] = Answered
  BY <1>1 DEF StandingOf, InFlight, EditsRow, Answered, Idle
<1>2. ASSUME UNCHANGED users, NEW pc \in Stage, Goto(r, pc), pc \notin {"limit", "count", "write"},
             InFlight(r)
      PROVE  StandingOf(r)'
  <2>1. /\ call'[r].pc = pc /\ call'[r].by = call[r].by /\ call'[r].lapsed = call[r].lapsed
        /\ call'[r].manager = call[r].manager
    BY <1>2 DEF Goto, TenantTypeOK, Call
  <2> QED
    BY <1>0, <1>2, <2>1 DEF StandingOf, InFlight, EditsRow, Manages
<1>3. CASE CreateBegin(r)
  <2>1. UNCHANGED users /\ call[r].op = "create" /\ call[r].pc = "begin" /\ \E pc \in {"limit", "write"} : Goto(r, pc)
    BY <1>3 DEF CreateBegin, At
  <2>2. /\ call'[r].by = call[r].by /\ call'[r].lapsed = call[r].lapsed
        /\ call'[r].manager = call[r].manager /\ call'[r].op = "create"
    BY <2>1 DEF Goto, TenantTypeOK, Call
  <2> QED
    BY <1>0, <2>1, <2>2 DEF StandingOf, InFlight, EditsRow, Manages
<1>4. CASE SeatLimit(r) \/ (SeatCount(r) /\ call'[r] # Answered)
  <2>1. /\ UNCHANGED users /\ InFlight(r) /\ call[r].pc \in {"limit", "count"}
        /\ edit'[r].target = edit[r].target /\ edit'[r].role = edit[r].role
        /\ edit'[r].active = edit[r].active
    BY <1>4, FinishMoves DEF SeatLimit, SeatCount, InFlight, AccountsTypeOK, Edit
  <2>2. /\ call'[r].by = call[r].by /\ call'[r].lapsed = call[r].lapsed
        /\ call'[r].manager = call[r].manager /\ call'[r].op = call[r].op
    BY <1>4, FinishMoves DEF SeatLimit, SeatCount, Goto, TenantTypeOK, Call
  <2> QED
    BY <1>0, <2>1, <2>2 DEF StandingOf, InFlight, EditsRow, Manages
<1>5. CASE UpdateExisting(r) /\ call'[r] # Answered
  <2>1. /\ UNCHANGED <<users, edit>> /\ At(r, "update", "existing")
        /\ ~AgainstSelf(r, users[edit[r].target]) /\ \E pc \in {"limit", "write"} : Goto(r, pc)
    BY <1>5, FinishMoves DEF UpdateExisting
  <2>2. /\ call'[r].by = call[r].by /\ call'[r].lapsed = call[r].lapsed
        /\ call'[r].manager = call[r].manager /\ call'[r].op = call[r].op
    BY <2>1 DEF Goto, TenantTypeOK, Call
  <2>3. InFlight(r) /\ call[r].manager
    BY <1>0, <2>1 DEF At, InFlight, TargetOf
  <2>4. ~call[r].lapsed => Manages(users, call[r].by)
    BY <1>0, <2>3 DEF StandingOf
  <2>5. edit[r].target = call[r].by /\ ~call[r].lapsed => edit[r].active /\ edit[r].role = "MANAGER"
    BY <2>1, <2>4 DEF AgainstSelf, Manages
  <2> QED
    BY <2>1, <2>2, <2>3, <2>4, <2>5 DEF StandingOf, InFlight, EditsRow, Manages
<1>6. CASE UpdateRead(r) \/ DeleteRead(r) \/ GrantRead(r) \/ GrantDelete(r) \/ GrantLock(r)
  <2>1. /\ UNCHANGED users /\ InFlight(r)
        /\ \E pc \in {"existing", "remove", "save", "deleting", "deleted"} : Goto(r, pc)
    BY <1>6 DEF UpdateRead, DeleteRead, GrantRead, GrantDelete, GrantLock, At, InFlight
  <2> QED
    BY <1>2, <2>1 DEF Stage
<1>7. CASE CreateInsert(r) \/ UpdateWrite(r) \/ DeleteRow(r) \/ GrantInsert(r)
  <2>1. Finish(r) \/ \E table, seats : Commit(r, table, seats)
    BY <1>7 DEF CreateInsert, UpdateWrite, DeleteRow, GrantInsert
  <2>2. call'[r] = Answered
    BY <2>1 DEF Finish, Commit, TenantTypeOK
  <2> QED
    BY <1>1, <2>2
<1> QED
  BY <1>1, <1>3, <1>4, <1>5, <1>6, <1>7 DEF AccountsStep

\* The table keeps a manager, or somebody who had lapsed removed the last one.
LEMMA LastManagerAccounts ==
    ASSUME CompanyTypeOK, Targets, Standing, NEW r \in Requests, AccountsStep(r)
    PROVE  LastManagerFallsToRacersOnly'
<1> USE DEF LastManagerFallsToRacersOnly
<1>0. StandingOf(r) /\ TargetOf(r) /\ LastManagerFallsToRacersOnly
  BY DEF Standing, Targets
<1>1. CASE CreateInsert(r)
  <2>1. PICK u \in Users : users[u].row = "unborn" /\ \A v \in Users \ {u} : users'[v] = users[v]
    BY <1>1, CreateInsertIs
  <2>2. UNCHANGED deposed
    BY <1>1 DEF CreateInsert
  <2> QED
    BY <1>0, <2>1, <2>2 DEF Manages
<1>2. CASE UpdateWrite(r)
  <2> DEFINE t == edit[r].target
  <2>1. t \in Users /\ InFlight(r) /\ call[r].manager /\ call[r].by \in Users
    BY <1>0, <1>2 DEF UpdateWrite, At, EditsRow, InFlight, TargetOf
  <2>2. CASE UNCHANGED <<users, deposed>>
    BY <1>0, <2>2 DEF Manages
  <2>3. CASE ~UNCHANGED <<users, deposed>>
    <3>1. /\ users'[t] = [row |-> "held", role |-> edit[r].role, active |-> edit[r].active]
          /\ \A u \in Users \ {t} : users'[u] = users[u]
          /\ deposed' = (deposed \/ (call[r].lapsed /\ Manages(users, t) /\ ~Manages(users', t)))
      BY <1>2, <2>3, UpdateWriteIs
    <3>2. CASE ~call[r].lapsed
      <4>1. Manages(users, call[r].by)
        BY <1>0, <2>1, <3>2 DEF StandingOf
      <4>2. t = call[r].by => edit[r].active /\ edit[r].role = "MANAGER"
        BY <1>0, <1>2, <3>2 DEF StandingOf, UpdateWrite, At, EditsRow
      <4>3. Manages(users', call[r].by)
        BY <2>1, <3>1, <4>1, <4>2 DEF Manages
      <4> QED
        BY <2>1, <4>3 DEF Manages
    <3>3. CASE ~Manages(users, t)
      BY <1>0, <3>1, <3>3 DEF Manages
    <3>4. CASE Manages(users', t)
      BY <2>1, <3>4 DEF Manages
    <3> QED
      BY <3>1, <3>2, <3>3, <3>4
  <2> QED
    BY <2>2, <2>3
<1>3. CASE DeleteRow(r)
  <2> DEFINE t == edit[r].target
  <2>1. t \in Users /\ t # call[r].by /\ InFlight(r) /\ call[r].manager /\ call[r].by \in Users
    BY <1>0, <1>3 DEF DeleteRow, At, InFlight, TargetOf
  <2>2. CASE UNCHANGED <<users, deposed>>
    BY <1>0, <2>2 DEF Manages
  <2>3. CASE ~UNCHANGED <<users, deposed>>
    <3>1. /\ \A u \in Users \ {t} : users'[u] = users[u]
          /\ deposed' = (deposed \/ (call[r].lapsed /\ Manages(users, t)))
      BY <1>3, <2>3, DeleteRowIs
    <3>2. CASE ~call[r].lapsed
      BY <1>0, <2>1, <3>1, <3>2 DEF StandingOf, Manages
    <3>3. CASE ~Manages(users, t)
      BY <1>0, <3>1, <3>3 DEF Manages
    <3> QED
      BY <3>1, <3>2, <3>3
  <2> QED
    BY <2>2, <2>3
<1>4. CASE GrantInsert(r) \/ PlainStep(r)
  <2>1. UNCHANGED <<users, deposed>>
    BY <1>4, PlainStepIs DEF GrantInsert
  <2> QED
    BY <1>0, <2>1 DEF Manages
<1> QED
  BY <1>1, <1>2, <1>3, <1>4 DEF AccountsStep, PlainStep

LEMMA StandingNext ==
    ASSUME CompanyTypeOK, Targets, Standing, Seating, [CompanyNext]_vars PROVE Standing'
<1>1. ASSUME NEW r \in Requests, AccountsStep(r) PROVE Standing'
  <2>1. \A q \in Requests \ {r} : StandingOf(q)'
    BY <1>1, AccountsKeepOthers, AccountsCommit, StandingKept DEF Standing
  <2> QED
    BY <1>1, <2>1, StandingAccounts, LastManagerAccounts DEF Standing
<1>2. ASSUME \A r \in Requests : ~AccountsStep(r) PROVE Standing'
  <2>1. UNCHANGED <<users, deposed>> /\ (UNCHANGED <<call, edit>> \/ \E r \in Requests : Aside(r))
    BY <1>2, OtherSteps
  <2>2. LastManagerFallsToRacersOnly'
    BY <2>1 DEF Standing, LastManagerFallsToRacersOnly, Manages
  <2>3. CASE UNCHANGED <<call, edit>>
    BY <2>1, <2>2, <2>3 DEF Standing, StandingOf, InFlight, EditsRow, Manages
  <2>4. ASSUME NEW r \in Requests, Aside(r) PROVE \A q \in Requests : StandingOf(q)'
    <3>1. StandingOf(r)'
      BY <2>1, <2>4 DEF Aside, StandingOf, EditsRow, AccountStages, InFlight, Manages
    <3>2. \A q \in Requests \ {r} : StandingOf(q)'
      BY <2>1, <2>4, StandingKept DEF Standing, Aside
    <3> QED
      BY <3>1, <3>2
  <2> QED
    BY <2>1, <2>2, <2>3, <2>4 DEF Standing
<1> QED
  BY <1>1, <1>2

-----------------------------------------------------------------------------
(* Edits *)

LEMMA CopyKept ==
    ASSUME CompanyTypeOK, Targets, Copies, NEW r \in Requests, AccountsStep(r)
    PROVE  \A q \in Requests \ {r} : CopyOf(q)'
<1> SUFFICES ASSUME NEW q \in Requests \ {r}, EditsRow(q)', ~edit'[q].stale, Held(edit[q].target)'
             PROVE  /\ "role" \notin edit[q].names =>
                          edit[q].role = users'[edit[q].target].role
                    /\ "active" \notin edit[q].names =>
                          edit[q].active = users'[edit[q].target].active
  BY AccountsKeepOthers DEF KeepsOthers, CopyOf, Held
<1>1. EditsRow(q) /\ ~edit[q].stale /\ edit'[q].target = edit[q].target
  BY AccountsKeepOthers DEF KeepsOthers, EditsRow
<1>2. users'[edit[q].target] = users[edit[q].target]
  BY <1>1, RowsAgree
<1>3. CopyOf(q)
  BY DEF Copies
<1> QED
  BY <1>1, <1>2, <1>3 DEF CopyOf, Held

LEMMA CopyAccounts ==
    ASSUME CompanyTypeOK, Targets, Copies, NEW r \in Requests, AccountsStep(r)
    PROVE  CopyOf(r)'
<1> USE DEF CompanyTypeOK
<1>1. CASE ~EditsRow(r)'
  BY <1>1 DEF CopyOf
<1>2. CASE UpdateRead(r)
  <2>1. PICK u \in Users, role \in RoleInputs, active \in BOOLEAN,
             names \in SUBSET {"role", "active"} :
          edit' = [edit EXCEPT ![r] = [NoEdit EXCEPT !.target = u, !.names = names,
                !.role = IF "role" \in names THEN role ELSE users[u].role,
                !.active = IF "active" \in names THEN active ELSE users[u].active]]
    BY <1>2 DEF UpdateRead
  <2>2. /\ edit'[r].target = u /\ edit'[r].names = names
        /\ "role" \notin names => edit'[r].role = users[u].role
        /\ "active" \notin names => edit'[r].active = users[u].active
    BY <2>1 DEF AccountsTypeOK, NoEdit
  <2>3. UNCHANGED users
    BY <1>2 DEF UpdateRead
  <2> QED
    BY <2>2, <2>3 DEF CopyOf
<1>3. CASE \/ SeatLimit(r) \/ (SeatCount(r) /\ EditsRow(r)') \/ (UpdateExisting(r) /\ EditsRow(r)')
  <2>1. /\ UNCHANGED users /\ call'[r].op = call[r].op
        /\ call[r].pc \in {"existing", "limit", "count"}
    BY <1>3, FinishMoves
    DEF SeatLimit, SeatCount, UpdateExisting, At, Goto, EditsRow, Answered, Idle, TenantTypeOK, Call
  <2>2. edit' = edit \/ edit' = [edit EXCEPT ![r].limit = company.seats]
    BY <1>3, FinishMoves
    DEF SeatLimit, SeatCount, UpdateExisting, EditsRow, Answered, Idle
  <2>3. /\ edit'[r].target = edit[r].target /\ edit'[r].names = edit[r].names
        /\ edit'[r].role = edit[r].role /\ edit'[r].active = edit[r].active
        /\ edit'[r].stale = edit[r].stale
    BY <2>2 DEF AccountsTypeOK, Edit
  <2>4. CopyOf(r)
    BY DEF Copies
  <2> QED
    BY <2>1, <2>3, <2>4 DEF CopyOf, EditsRow, Held
<1>4. CASE CreateBegin(r)
  BY <1>4 DEF CreateBegin, At, Goto, CopyOf, EditsRow, TenantTypeOK
<1>5. CASE DeleteRead(r) \/ GrantRead(r) \/ GrantDelete(r) \/ GrantLock(r)
  <2>1. \E pc \in {"remove", "save", "deleting", "deleted"} : Goto(r, pc)
    BY <1>5 DEF DeleteRead, GrantRead, GrantDelete, GrantLock
  <2>2. ~EditsRow(r)'
    BY <2>1 DEF Goto, EditsRow, TenantTypeOK
  <2> QED
    BY <1>1, <2>2
<1>6. CASE CreateInsert(r) \/ UpdateWrite(r) \/ DeleteRow(r) \/ GrantInsert(r)
  <2>1. Finish(r) \/ \E table, seats : Commit(r, table, seats)
    BY <1>6 DEF CreateInsert, UpdateWrite, DeleteRow, GrantInsert
  <2>2. call'[r] = Answered
    BY <2>1 DEF Finish, Commit, TenantTypeOK
  <2> QED
    BY <1>1, <2>2 DEF EditsRow, Answered, Idle
<1> QED
  BY <1>1, <1>2, <1>3, <1>4, <1>5, <1>6 DEF AccountsStep

LEMMA EditsAccounts ==
    ASSUME CompanyTypeOK, Targets, Copies, NEW r \in Requests, AccountsStep(r)
    PROVE  EditsUndoneByRacersOnly'
<1> SUFFICES ASSUME NEW u \in Users, u \notin crossed', Held(u)'
             PROVE  users'[u].role = asked'[u].role /\ users'[u].active = asked'[u].active
  BY DEF EditsUndoneByRacersOnly
<1>0. u \notin crossed /\ Held(u) => users[u].role = asked[u].role /\ users[u].active = asked[u].active
  BY DEF Copies, EditsUndoneByRacersOnly
<1>1. CASE CreateInsert(r)
  <2>1. UNCHANGED crossed
    BY <1>1 DEF CreateInsert
  <2> QED
    BY <1>0, <1>1, <2>1, CreateInsertIs DEF Held
<1>2. CASE UpdateWrite(r)
  <2> DEFINE e == edit[r]
  <2>1. CASE UNCHANGED <<users, asked, crossed>>
    BY <1>0, <2>1 DEF Held
  <2>2. CASE ~UNCHANGED <<users, asked, crossed>>
    <3>1. /\ Held(e.target)
          /\ \A v \in Users \ {e.target} : users'[v] = users[v] /\ asked'[v] = asked[v]
          /\ users'[e.target] = [row |-> "held", role |-> e.role, active |-> e.active]
          /\ asked'[e.target].role = IF "role" \in e.names THEN e.role ELSE asked[e.target].role
          /\ asked'[e.target].active =
                IF "active" \in e.names THEN e.active ELSE asked[e.target].active
          /\ crossed' = IF e.stale THEN crossed \cup {e.target} ELSE crossed
      BY <1>2, <2>2, UpdateWriteIs
    <3>2. CASE u # e.target
      BY <1>0, <3>1, <3>2 DEF Held
    <3>3. CASE u = e.target
      <4>1. u \notin crossed /\ ~e.stale /\ Held(u)
        BY <3>1, <3>3
      <4>2. EditsRow(r) /\ CopyOf(r)
        BY <1>2 DEF UpdateWrite, At, EditsRow, Copies
      <4>3. /\ "role" \notin e.names => e.role = asked[u].role
            /\ "active" \notin e.names => e.active = asked[u].active
        BY <1>0, <3>3, <4>1, <4>2 DEF CopyOf
      <4>4. users'[u].role = e.role /\ users'[u].active = e.active
        BY <3>1, <3>3
      <4> QED
        BY <3>1, <3>3, <4>3, <4>4
    <3> QED
      BY <3>2, <3>3
  <2> QED
    BY <2>1, <2>2
<1>3. CASE DeleteRow(r)
  <2>1. UNCHANGED <<asked, crossed>>
    BY <1>3 DEF DeleteRow
  <2> QED
    BY <1>0, <1>3, <2>1, DeleteRowIs DEF Held
<1>4. CASE GrantInsert(r) \/ PlainStep(r)
  <2>1. UNCHANGED <<users, asked, crossed>>
    BY <1>4, PlainStepIs DEF GrantInsert
  <2> QED
    BY <1>0, <2>1 DEF Held
<1> QED
  BY <1>1, <1>2, <1>3, <1>4 DEF AccountsStep, PlainStep

LEMMA CopiesNext ==
    ASSUME CompanyTypeOK, Targets, Standing, Seating, Copies, [CompanyNext]_vars PROVE Copies'
<1>1. ASSUME NEW r \in Requests, AccountsStep(r) PROVE Copies'
  BY <1>1, CopyKept, CopyAccounts, EditsAccounts DEF Copies
<1>2. ASSUME \A r \in Requests : ~AccountsStep(r) PROVE Copies'
  <2>1. /\ UNCHANGED <<users, asked, crossed>>
        /\ UNCHANGED <<call, edit>> \/ \E r \in Requests : Aside(r)
    BY <1>2, OtherSteps
  <2>2. EditsUndoneByRacersOnly'
    BY <2>1 DEF Copies, EditsUndoneByRacersOnly, Held
  <2>3. CASE UNCHANGED <<call, edit>>
    BY <2>1, <2>2, <2>3 DEF Copies, CopyOf, EditsRow, Held
  <2>4. ASSUME NEW r \in Requests, Aside(r) PROVE \A q \in Requests : CopyOf(q)'
    BY <2>1, <2>4 DEF Copies, Aside, KeepsOthers, CopyOf, EditsRow, AccountStages, Held
  <2> QED
    BY <2>1, <2>2, <2>3, <2>4 DEF Copies
<1> QED
  BY <1>1, <1>2

-----------------------------------------------------------------------------
(* Permission lists *)

\* What a save that finds its user leaves.
LEMMA GrantInsertIs ==
    ASSUME CompanyTypeOK, Targets, NEW r \in Requests, GrantInsert(r)
    PROVE  \/ UNCHANGED <<grants, saved, mingled>> /\ \A q \in Requests \ {r} : edit'[q] = edit[q]
           \/ /\ \A v \in Users \ {edit[r].target} : grants'[v] = grants[v] /\ saved'[v] = saved[v]
              /\ grants'[edit[r].target] =
                    (grants[edit[r].target] \ edit[r].removed) \cup MarkManaged(edit[r].list)
              /\ saved'[edit[r].target] = [done |-> TRUE, list |-> edit[r].list]
              /\ mingled' = IF edit[r].stale THEN mingled \cup {edit[r].target}
                            ELSE mingled \ {edit[r].target}
              /\ \A q \in Requests \ {r} :
                    IF edit[q].target = edit[r].target /\ call[q].pc \in {"deleting", "deleted"}
                    THEN edit'[q].stale ELSE edit'[q] = edit[q]
<1> DEFINE u == edit[r].target
<1>0. u \in Users
  BY DEF GrantInsert, At, Targets, TargetOf
<1>1. CASE ~Held(u)
  BY <1>1 DEF GrantInsert, Drop, CompanyTypeOK, AccountsTypeOK
<1>2. CASE Held(u)
  <2>1. grants' = [grants EXCEPT ![u] = (@ \ edit[r].removed) \cup MarkManaged(edit[r].list)]
    BY <1>2 DEF GrantInsert
  <2>2. saved' = [saved EXCEPT ![u] = [done |-> TRUE, list |-> edit[r].list]]
    BY <1>2 DEF GrantInsert
  <2>3. mingled' = IF edit[r].stale THEN mingled \cup {u} ELSE mingled \ {u}
    BY <1>2 DEF GrantInsert
  <2>4. ASSUME NEW q \in Requests \ {r}
        PROVE  IF edit[q].target = u /\ call[q].pc \in {"deleting", "deleted"}
               THEN edit'[q].stale ELSE edit'[q] = edit[q]
    <3>1. edit[q] \in Edit
      BY DEF CompanyTypeOK, AccountsTypeOK
    <3>2. edit'[q] = IF edit[q].target = u /\ call[q].pc \in {"deleting", "deleted"}
                     THEN [edit[q] EXCEPT !.removed = @ \ edit[r].removed, !.stale = TRUE]
                     ELSE edit[q]
      BY <1>2 DEF GrantInsert
    <3> QED
      BY <3>1, <3>2 DEF Edit
  <2> HIDE DEF u
  <2>5. /\ \A v \in Users \ {u} : grants'[v] = grants[v] /\ saved'[v] = saved[v]
        /\ grants'[u] = (grants[u] \ edit[r].removed) \cup MarkManaged(edit[r].list)
        /\ saved'[u] = [done |-> TRUE, list |-> edit[r].list]
    BY <1>0, <2>1, <2>2 DEF CompanyTypeOK, AccountsTypeOK
  <2> QED
    BY <2>3, <2>4, <2>5 DEF u
<1> QED
  BY <1>1, <1>2

\* No other commit touches what another save has read.
LEMMA RemovedKept ==
    ASSUME CompanyTypeOK, Targets, NEW r \in Requests,
           CreateInsert(r) \/ UpdateWrite(r) \/ DeleteRow(r), NEW q \in Requests \ {r}
    PROVE  edit'[q].removed = edit[q].removed
<1>1. CASE edit'[q] = edit[q]
  BY <1>1
<1>2. CASE CreateInsert(r)
  BY <1>2 DEF CreateInsert, Drop, CompanyTypeOK, AccountsTypeOK
<1>3. CASE Drop(r)
  BY <1>3 DEF Drop, CompanyTypeOK, AccountsTypeOK
<1>4. CASE edit[r].target \in Users /\ Edited(r, edit[r].target)
  <2>1. edit[q] \in Edit
    BY DEF CompanyTypeOK, AccountsTypeOK
  <2>2. edit'[q] = [edit[q] EXCEPT !.stale = TRUE] \/ edit'[q] = edit[q]
    BY <1>4, EditedMoves DEF CompanyTypeOK
  <2> QED
    BY <2>1, <2>2 DEF Edit
<1>5. edit[r].target \in Users \/ CreateInsert(r)
  BY DEF UpdateWrite, DeleteRow, At, EditsRow, Targets, TargetOf
<1>6. CASE UpdateWrite(r)
  BY <1>3, <1>4, <1>5, <1>6, UpdateWriteIs, <1>2
<1>7. CASE DeleteRow(r)
  BY <1>2, <1>3, <1>4, <1>5, <1>7, DeleteRowIs
<1> QED
  BY <1>2, <1>6, <1>7

LEMMA SaveKept ==
    ASSUME CompanyTypeOK, Targets, Saving, NEW r \in Requests, AccountsStep(r)
    PROVE  \A q \in Requests \ {r} : SaveOf(q)'
<1> SUFFICES ASSUME NEW q \in Requests \ {r}, call'[q].pc \in {"deleting", "deleted"},
                    ~edit'[q].stale, Held(edit[q].target)'
             PROVE  grants'[edit'[q].target] \subseteq edit'[q].removed
  BY DEF SaveOf
<1>1. /\ call[q].pc \in {"deleting", "deleted"} /\ ~edit[q].stale
      /\ edit'[q].target = edit[q].target /\ edit[q].target \in Users /\ Held(edit[q].target)
  BY AccountsKeepOthers, AccountsRowsStay DEF KeepsOthers, RowsStay, Targets, TargetOf, Held
<1>2. grants[edit[q].target] \subseteq edit[q].removed
  BY <1>1 DEF Saving, SaveOf
<1>3. CASE GrantInsert(r)
  <2>1. CASE edit[q].target = edit[r].target
    <3>1. UNCHANGED grants /\ edit'[q] = edit[q]
      BY <1>1, <1>3, <2>1, GrantInsertIs
    <3> QED
      BY <1>1, <1>2, <3>1
  <2>2. CASE edit[q].target # edit[r].target
    <3>1. grants'[edit[q].target] = grants[edit[q].target] /\ edit'[q] = edit[q]
      BY <1>1, <1>3, <2>2, GrantInsertIs
    <3> QED
      BY <1>1, <1>2, <3>1
  <2> QED
    BY <2>1, <2>2
<1>4. CASE DeleteRow(r)
  <2>1. CASE UNCHANGED <<users, grants>>
    <3>1. edit'[q].removed = edit[q].removed
      BY <1>4, RemovedKept
    <3> QED
      BY <1>1, <1>2, <2>1, <3>1
  <2>2. CASE ~UNCHANGED <<users, grants>>
    <3>1. /\ \A u \in Users \ {edit[r].target} : grants'[u] = grants[u]
          /\ users'[edit[r].target].row = "deleted"
      BY <1>4, <2>2, DeleteRowIs
    <3>2. edit[q].target # edit[r].target
      BY <1>1, <3>1 DEF Held
    <3>3. edit'[q].removed = edit[q].removed
      BY <1>4, RemovedKept
    <3> QED
      BY <1>1, <1>2, <3>1, <3>2, <3>3
  <2> QED
    BY <2>1, <2>2
<1>5. CASE CreateInsert(r) \/ UpdateWrite(r)
  <2>1. UNCHANGED grants
    BY <1>5 DEF CreateInsert, UpdateWrite
  <2>2. edit'[q].removed = edit[q].removed
    BY <1>5, RemovedKept
  <2> QED
    BY <1>1, <1>2, <2>1, <2>2
<1>6. CASE PlainStep(r)
  BY <1>1, <1>2, <1>6, PlainStepIs
<1> QED
  BY <1>3, <1>4, <1>5, <1>6 DEF AccountsStep, PlainStep

LEMMA SaveAccounts ==
    ASSUME CompanyTypeOK, Targets, Saving, NEW r \in Requests, AccountsStep(r)
    PROVE  SaveOf(r)'
<1> USE DEF CompanyTypeOK
<1>1. CASE call'[r].pc \notin {"deleting", "deleted"}
  BY <1>1 DEF SaveOf
<1>2. CASE GrantDelete(r)
  BY <1>2 DEF GrantDelete, SaveOf, AccountsTypeOK, Edit
<1>3. CASE GrantLock(r)
  BY <1>3 DEF GrantLock, At, accountVars, Saving, SaveOf, Held
<1>4. CASE \/ CreateBegin(r) \/ SeatLimit(r) \/ SeatCount(r) \/ UpdateRead(r) \/ UpdateExisting(r)
           \/ DeleteRead(r) \/ GrantRead(r)
  <2>1. \/ Finish(r)
        \/ call' = [call EXCEPT ![r].pc = "count", ![r].counting = TRUE]
        \/ \E pc \in {"limit", "write", "existing", "remove", "save"} : Goto(r, pc)
    BY <1>4 DEF CreateBegin, SeatLimit, SeatCount, UpdateRead, UpdateExisting, DeleteRead, GrantRead
  <2>2. call'[r].pc \notin {"deleting", "deleted"}
    BY <2>1 DEF Finish, Goto, Answered, Idle, TenantTypeOK, Call
  <2> QED
    BY <1>1, <2>2
<1>5. CASE CreateInsert(r) \/ UpdateWrite(r) \/ DeleteRow(r) \/ GrantInsert(r)
  <2>1. Finish(r) \/ \E table, seats : Commit(r, table, seats)
    BY <1>5 DEF CreateInsert, UpdateWrite, DeleteRow, GrantInsert
  <2>2. call'[r] = Answered
    BY <2>1 DEF Finish, Commit, TenantTypeOK
  <2> QED
    BY <1>1, <2>2 DEF Answered, Idle
<1> QED
  BY <1>2, <1>3, <1>4, <1>5 DEF AccountsStep

LEMMA SavedAccounts ==
    ASSUME CompanyTypeOK, Targets, Saving, NEW r \in Requests, AccountsStep(r)
    PROVE  SavedLists'
<1>0. SavedLists
  BY DEF Saving, SavedLists
<1>1. ASSUME UNCHANGED <<saved, mingled>>,
             \A u \in Users : /\ users'[u].row = "unborn" => users[u].row = "unborn"
                              /\ Held(u)' => grants'[u] = grants[u] /\ (Held(u) \/ users[u].row = "unborn")
      PROVE  SavedLists'
  BY <1>0, <1>1 DEF SavedLists
<1>2. CASE GrantInsert(r)
  <2> DEFINE t == edit[r].target
  <2>1. UNCHANGED users
    BY <1>2 DEF GrantInsert
  <2>2. CASE UNCHANGED <<grants, saved, mingled>>
    BY <1>0, <2>1, <2>2 DEF SavedLists, Held
  <2>3. CASE ~UNCHANGED <<grants, saved, mingled>>
    <3>1. /\ \A v \in Users \ {t} : grants'[v] = grants[v] /\ saved'[v] = saved[v]
          /\ grants'[t] = (grants[t] \ edit[r].removed) \cup MarkManaged(edit[r].list)
          /\ saved'[t] = [done |-> TRUE, list |-> edit[r].list]
          /\ mingled' = IF edit[r].stale THEN mingled \cup {t} ELSE mingled \ {t}
      BY <1>2, <2>3, GrantInsertIs
    <3>2. t \in Users /\ users[t].row # "unborn" /\ call[r].pc = "deleted"
      BY <1>2 DEF GrantInsert, At, Targets, TargetOf
    <3>3. Held(t) /\ ~edit[r].stale => grants'[t] = MarkManaged(saved'[t].list)
      <4>1. Held(t) /\ ~edit[r].stale => grants[t] \subseteq edit[r].removed
        BY <3>2 DEF Saving, SaveOf
      <4> QED
        BY <3>1, <4>1
    <3>4. \A u \in Users : u # t /\ u \notin mingled' => u \notin mingled
      BY <3>1
    <3>5. t \notin mingled' => ~edit[r].stale
      BY <3>1
    <3> QED
      BY <1>0, <2>1, <3>1, <3>2, <3>3, <3>4, <3>5 DEF SavedLists, Held
  <2> QED
    BY <2>2, <2>3
<1>3. CASE CreateInsert(r)
  <2>1. UNCHANGED <<grants, saved, mingled>>
    BY <1>3 DEF CreateInsert
  <2>2. PICK u \in Users : /\ users[u].row = "unborn" /\ Held(u)'
                           /\ \A v \in Users \ {u} : users'[v] = users[v]
    BY <1>3, CreateInsertIs
  <2> QED
    BY <1>1, <2>1, <2>2 DEF Held
<1>4. CASE UpdateWrite(r)
  <2>1. UNCHANGED <<grants, saved, mingled>>
    BY <1>4 DEF UpdateWrite
  <2>2. \/ UNCHANGED users
        \/ /\ users'[edit[r].target] = [row |-> "held", role |-> edit[r].role, active |-> edit[r].active]
           /\ \A u \in Users \ {edit[r].target} : users'[u] = users[u]
           /\ Held(edit[r].target)
    BY <1>4, UpdateWriteIs
  <2> QED
    BY <1>1, <2>1, <2>2 DEF Held
<1>5. CASE DeleteRow(r)
  <2>1. UNCHANGED <<saved, mingled>>
    BY <1>5 DEF DeleteRow
  <2>2. \/ UNCHANGED <<users, grants>>
        \/ /\ users'[edit[r].target].row = "deleted"
           /\ \A u \in Users \ {edit[r].target} : users'[u] = users[u] /\ grants'[u] = grants[u]
    BY <1>5, DeleteRowIs
  <2> QED
    BY <1>1, <2>1, <2>2 DEF Held
<1>6. CASE PlainStep(r)
  BY <1>1, <1>6, PlainStepIs DEF Held
<1> QED
  BY <1>2, <1>3, <1>4, <1>5, <1>6 DEF AccountsStep, PlainStep

LEMMA SavingNext ==
    ASSUME CompanyTypeOK, Targets, Standing, Seating, Saving, [CompanyNext]_vars PROVE Saving'
<1>1. ASSUME NEW r \in Requests, AccountsStep(r) PROVE Saving'
  <2>1. \A q \in Requests : SaveOf(q)'
    BY <1>1, SaveKept, SaveAccounts
  <2> QED
    BY <1>1, <2>1, SavedAccounts DEF Saving
<1>2. ASSUME \A r \in Requests : ~AccountsStep(r) PROVE Saving'
  <2>1. /\ UNCHANGED <<users, grants, saved, mingled>>
        /\ UNCHANGED <<call, edit>> \/ \E r \in Requests : Aside(r)
    BY <1>2, OtherSteps
  <2>2. SavedLists'
    BY <2>1 DEF Saving, SavedLists, Held
  <2>3. ASSUME UNCHANGED <<call, edit>> PROVE \A q \in Requests : SaveOf(q)'
    BY <2>1, <2>3 DEF Saving, SaveOf, Held
  <2>4. ASSUME NEW r \in Requests, Aside(r) PROVE \A q \in Requests : SaveOf(q)'
    BY <2>1, <2>4 DEF Saving, Aside, KeepsOthers, SaveOf, AccountStages, Held
  <2>5. \A q \in Requests : SaveOf(q)'
    BY <2>1, <2>3, <2>4
  <2> QED
    BY <2>2, <2>5 DEF Saving
<1> QED
  BY <1>1, <1>2

\* What is in force is what was saved.
LEMMA SavingEffective == CompanyTypeOK /\ Saving => EffectiveIsLastSave
<1> SUFFICES ASSUME CompanyTypeOK, Saving, NEW u \in Users \ mingled, Held(u), saved[u].done
             PROVE  Effective(users[u].role, grants[u]) = saved[u].list
  BY DEF EffectiveIsLastSave
<1>1. grants[u] = MarkManaged(saved[u].list)
  BY DEF Saving, SavedLists
<1>2. Managed \notin saved[u].list
  <2>1. saved[u].list \subseteq Permission
    BY DEF CompanyTypeOK, AccountsTypeOK
  <2>2. Managed \notin Permission
    BY DEF Managed, Permission, ViewDefaults, SupervisorExtras
  <2> QED
    BY <2>1, <2>2
<1> QED
  BY <1>1, <1>2 DEF Effective, MarkManaged

-----------------------------------------------------------------------------
(* Seats *)

LEMMA FewerCount ==
    ASSUME NEW S, IsFiniteSet(S), NEW T \in SUBSET S
    PROVE  IsFiniteSet(T) /\ Cardinality(T) \in Nat /\ Cardinality(T) <= Cardinality(S)
BY FS_Subset, FS_CardinalityType

LEMMA OneMoreCounts ==
    ASSUME NEW S, IsFiniteSet(S), NEW u, NEW T \in SUBSET (S \cup {u})
    PROVE  Cardinality(T) <= Cardinality(S) + 1
<1>1. IsFiniteSet(S \cup {u}) /\ Cardinality(S) \in Nat
  BY FS_AddElement, FS_CardinalityType
<1>2. CASE u \in S
  <2>1. T \subseteq S
    BY <1>2
  <2> QED
    BY <1>1, <2>1, FewerCount
<1>3. CASE u \notin S
  <2>1. Cardinality(S \cup {u}) = Cardinality(S) + 1
    BY <1>3, FS_AddElement
  <2>2. Cardinality(T) \in Nat /\ Cardinality(T) <= Cardinality(S \cup {u})
    BY <1>1, FewerCount
  <2> QED
    BY <1>1, <2>1, <2>2
<1> QED
  BY <1>2, <1>3

\* Whoever takes a seat counted first, on a count still good, or is recorded.
LEMMA SeatTaken ==
    ASSUME CompanyTypeOK, Targets, Seating, NEW r \in Requests, AccountsStep(r)
    PROVE  /\ raced \subseteq raced' /\ UNCHANGED company
           /\ \/ Active' \subseteq Active
              \/ \E u \in Users :
                    /\ Active' \subseteq Active \cup {u} /\ Commit(r, users', TRUE)
                    /\ \/ u \in raced'
                       \/ call[r].pc = "write" /\ call[r].counting /\ ~call[r].overtaken
<1> USE DEF CompanyTypeOK
<1>0. SeatOf(r)
  BY DEF Seating
<1>1. CASE CreateInsert(r)
  <2>1. PICK u \in Users :
          /\ users[u].row = "unborn"
          /\ \A v \in Users \ {u} : users'[v] = users[v]
          /\ users'[u].active = edit[r].active
          /\ raced' = IF edit[r].active /\ call[r].overtaken THEN raced \cup {u} ELSE raced
          /\ Commit(r, users', edit[r].active)
    BY <1>1, CreateInsertIs
  <2>2. UNCHANGED company /\ At(r, "create", "write")
    BY <1>1 DEF CreateInsert
  <2>3. Active' \subseteq Active \cup {u} /\ (~edit[r].active => Active' \subseteq Active)
    BY <2>1 DEF Active, Held
  <2>4. CASE edit[r].active
    <3>1. Commit(r, users', TRUE)
      <4>1. edit[r].active = TRUE
        BY <2>4 DEF AccountsTypeOK, Edit
      <4> QED
        BY <2>1, <4>1
    <3>2. call[r].counting /\ call[r].pc = "write"
      BY <1>0, <2>2, <2>4 DEF SeatOf, At
    <3> QED
      BY <2>1, <2>2, <2>3, <2>4, <3>1, <3>2
  <2>5. CASE ~edit[r].active
    BY <2>1, <2>2, <2>3, <2>5
  <2> QED
    BY <2>4, <2>5
<1>2. CASE UpdateWrite(r)
  <2> DEFINE t == edit[r].target
  <2>1. UNCHANGED company /\ At(r, "update", "write")
    BY <1>2 DEF UpdateWrite
  <2>2. CASE UNCHANGED <<users, raced>>
    BY <2>1, <2>2 DEF Active, Held
  <2>3. CASE ~UNCHANGED <<users, raced>>
    <3>1. /\ Held(t)
          /\ \A u \in Users \ {t} : users'[u] = users[u]
          /\ users'[t] = [row |-> "held", role |-> edit[r].role, active |-> edit[r].active]
      BY <1>2, <2>3, UpdateWriteIs
    <3>2. raced' = IF /\ edit[r].active /\ ~users[t].active
                      /\ call[r].overtaken \/ (edit[r].stale /\ ~call[r].counting)
                   THEN raced \cup {t} ELSE raced
      BY <1>2, <2>3, UpdateWriteIs
    <3>3. t \in Users
      BY <2>1 DEF At, EditsRow, Targets, TargetOf
    <3>4. CASE ~(edit[r].active /\ ~users[t].active)
      <4>1. Active' \subseteq Active
        BY <3>1, <3>3, <3>4 DEF Active, Held
      <4> QED
        BY <2>1, <3>2, <4>1
    <3>5. CASE edit[r].active /\ ~users[t].active
      <4>1. Active' \subseteq Active \cup {t}
        BY <3>1 DEF Active, Held
      <4>2. PICK seats \in BOOLEAN :
              seats = (edit[r].active /\ ~users[t].active) /\ Commit(r, users', seats)
        BY <1>2, <2>3, UpdateWriteIs
      <4>3. Commit(r, users', TRUE)
        BY <3>5, <4>2
      <4>4. t \in raced' \/ (call[r].counting /\ ~call[r].overtaken)
        BY <1>0, <2>1, <3>1, <3>2, <3>5 DEF SeatOf
      <4>5. raced \subseteq raced' /\ call[r].pc = "write"
        BY <2>1, <3>2 DEF At
      <4> QED
        BY <2>1, <3>3, <4>1, <4>3, <4>4, <4>5
    <3> QED
      BY <3>4, <3>5
  <2> QED
    BY <2>2, <2>3
<1>3. CASE DeleteRow(r)
  <2>1. UNCHANGED <<company, raced>>
    BY <1>3 DEF DeleteRow
  <2>2. \/ UNCHANGED users
        \/ /\ users'[edit[r].target].row = "deleted"
           /\ \A u \in Users \ {edit[r].target} : users'[u] = users[u]
    BY <1>3, DeleteRowIs
  <2> QED
    BY <2>1, <2>2 DEF Active, Held
<1>4. CASE GrantInsert(r) \/ PlainStep(r)
  <2>1. UNCHANGED <<users, company, raced>>
    BY <1>4, PlainStepIs DEF GrantInsert
  <2> QED
    BY <2>1 DEF Active, Held
<1> QED
  BY <1>1, <1>2, <1>3, <1>4 DEF AccountsStep, PlainStep

LEMMA SeatsAccounts ==
    ASSUME CompanyTypeOK, Targets, Seating, NEW r \in Requests, AccountsStep(r)
    PROVE  SeatsExceededByRacersOnly'
<1>1. raced \subseteq raced' /\ UNCHANGED company
  BY SeatTaken
<1>2. CASE company.seats = Uncapped
  BY <1>1, <1>2 DEF SeatsExceededByRacersOnly
<1>3. CASE company.seats # Uncapped
  <2>1. company.seats \in Nat
    BY <1>3 DEF CompanyTypeOK, TenantTypeOK, BillingRecord
  <2>2. Cardinality(Active \ raced) <= company.seats
    BY <1>3 DEF Seating, SeatsExceededByRacersOnly
  <2>3. IsFiniteSet(Active \ raced) /\ Cardinality(Active \ raced) \in Nat
    BY ActiveCounts, FewerCount
  <2>4. CASE Active' \ raced' \subseteq Active \ raced
    <3>1. Cardinality(Active' \ raced') <= Cardinality(Active \ raced) /\ Cardinality(Active' \ raced') \in Nat
      BY <2>3, <2>4, FewerCount
    <3> QED
      BY <1>1, <2>1, <2>2, <2>3, <3>1 DEF SeatsExceededByRacersOnly
  <2>5. CASE ~(Active' \ raced' \subseteq Active \ raced)
    <3>1. PICK u \in Users : /\ Active' \subseteq Active \cup {u}
                             /\ call[r].pc = "write" /\ call[r].counting /\ ~call[r].overtaken
      BY <1>1, <2>5, SeatTaken
    <3>2. Cardinality(Active) < company.seats
      <4>1. SeatOf(r)
        BY DEF Seating
      <4> QED
        BY <1>3, <3>1, <4>1 DEF SeatOf, HasRoom
    <3>3. Cardinality(Active' \ raced') <= Cardinality(Active) + 1
      BY <3>1, ActiveCounts, OneMoreCounts
    <3>4. Cardinality(Active) \in Nat /\ Cardinality(Active' \ raced') \in Nat
      <4>1. IsFiniteSet(Active \cup {u})
        BY ActiveCounts, FS_AddElement
      <4> QED
        BY <3>1, <4>1, ActiveCounts, FewerCount
    <3> QED
      BY <1>1, <2>1, <3>2, <3>3, <3>4 DEF SeatsExceededByRacersOnly
  <2> QED
    BY <2>4, <2>5
<1> QED
  BY <1>2, <1>3

LEMMA SeatKept ==
    ASSUME CompanyTypeOK, Targets, Seating, NEW r \in Requests, AccountsStep(r)
    PROVE  \A q \in Requests \ {r} : SeatOf(q)'
<1> SUFFICES ASSUME NEW q \in Requests \ {r} PROVE SeatOf(q)'
  OBVIOUS
<1>0. SeatOf(q) /\ KeepsOthers(r) /\ UNCHANGED company
  BY AccountsKeepOthers, SeatTaken DEF Seating
<1>1. /\ call'[q].counting => call'[q].pc \in {"count", "write"}
      /\ call'[q].pc = "count" => call'[q].counting
      /\ At(q, "create", "write")' /\ edit'[q].active => call'[q].counting
  BY <1>0 DEF KeepsOthers, SeatOf, At
<1>2. ASSUME call'[q].counting, ~call'[q].overtaken
      PROVE  /\ edit'[q].limit = company.seats
             /\ call'[q].pc = "write" => HasRoom(company.seats, Cardinality(Active'))
  <2>1. InFlight(q) /\ call[q].counting /\ ~call[q].overtaken
    BY <1>0, <1>2 DEF KeepsOthers, SeatOf, InFlight
  <2>2. edit'[q].limit = company.seats
    BY <1>0, <2>1 DEF KeepsOthers, SeatOf
  <2>3. Active' \subseteq Active
    <3>1. ~Commit(r, users', TRUE)
      BY <1>2, <2>1, CommitMoves DEF CompanyTypeOK
    <3> QED
      BY <3>1, SeatTaken
  <2>4. call[q].pc = "write" => HasRoom(company.seats, Cardinality(Active))
    BY <1>0, <2>1 DEF SeatOf
  <2>5. Cardinality(Active') \in Nat /\ Cardinality(Active') <= Cardinality(Active)
    BY <2>3, ActiveCounts, FewerCount
  <2>6. company.seats \in Nat \cup {Uncapped}
    BY DEF CompanyTypeOK, TenantTypeOK, BillingRecord
  <2> QED
    BY <1>0, <2>2, <2>4, <2>5, <2>6, ActiveCounts DEF KeepsOthers, HasRoom
<1>3. ASSUME At(q, "update", "write")', edit'[q].active, ~call'[q].counting, ~edit'[q].stale,
             Held(edit[q].target)'
      PROVE  users'[edit'[q].target].active
  <2>1. /\ At(q, "update", "write") /\ edit[q].active /\ ~call[q].counting /\ ~edit[q].stale
        /\ edit'[q].target = edit[q].target
    BY <1>0, <1>3 DEF KeepsOthers, At
  <2>2. users'[edit[q].target] = users[edit[q].target]
    BY <1>3, <2>1, RowsAgree DEF At, EditsRow
  <2> QED
    BY <1>0, <1>3, <2>1, <2>2 DEF SeatOf, Held
<1> QED
  BY <1>0, <1>1, <1>2, <1>3 DEF SeatOf, KeepsOthers

LEMMA SeatAccounts ==
    ASSUME CompanyTypeOK, Targets, Seating, NEW r \in Requests, AccountsStep(r)
    PROVE  SeatOf(r)'
<1> USE DEF CompanyTypeOK
<1>0. SeatOf(r) /\ call[r] \in Call /\ edit[r] \in Edit
  BY DEF Seating, TenantTypeOK, AccountsTypeOK
<1>1. CASE call'[r] = Answered
  BY <1>1 DEF SeatOf, At, Answered, Idle
<1>2. ASSUME ~call[r].counting,
             NEW pc \in {"existing", "limit", "remove", "save", "deleting", "deleted"}, Goto(r, pc)
      PROVE  SeatOf(r)'
  <2>1. call'[r].pc = pc /\ ~call'[r].counting
    BY <1>0, <1>2 DEF Goto, TenantTypeOK, Call
  <2> QED
    BY <1>2, <2>1 DEF SeatOf, At
<1>3. CASE CreateBegin(r)
  <2>1. PICK role \in RoleInputs, active \in BOOLEAN :
          /\ edit' = [edit EXCEPT ![r] = [NoEdit EXCEPT !.role = role, !.active = active]]
          /\ Goto(r, IF active THEN "limit" ELSE "write")
    BY <1>3 DEF CreateBegin
  <2>2. ~call[r].counting /\ call[r].op = "create"
    BY <1>0, <1>3 DEF SeatOf, CreateBegin, At
  <2>3. CASE active
    BY <1>2, <2>1, <2>2, <2>3
  <2>4. CASE ~active
    <3>1. edit'[r].active = FALSE
      BY <2>1, <2>4 DEF AccountsTypeOK, NoEdit
    <3>2. call'[r].pc = "write" /\ ~call'[r].counting /\ call'[r].op = "create"
      BY <1>0, <2>1, <2>2, <2>4 DEF Goto, TenantTypeOK, Call
    <3> QED
      BY <3>1, <3>2 DEF SeatOf, At
  <2> QED
    BY <2>3, <2>4
<1>4. CASE SeatLimit(r)
  <2>1. call'[r].pc = "count" /\ call'[r].counting
    BY <1>0, <1>4 DEF SeatLimit, TenantTypeOK, Call
  <2>2. edit'[r].limit = company.seats /\ UNCHANGED company
    BY <1>0, <1>4 DEF SeatLimit, AccountsTypeOK, Edit
  <2> QED
    BY <2>1, <2>2 DEF SeatOf, At
<1>5. CASE SeatCount(r) /\ call'[r] # Answered
  <2>1. /\ HasRoom(edit[r].limit, Cardinality(Active)) /\ Goto(r, "write")
        /\ UNCHANGED <<users, company, edit>> /\ call[r].pc = "count"
    BY <1>5, FinishMoves DEF SeatCount
  <2>2. /\ call'[r].pc = "write" /\ call'[r].counting = call[r].counting
        /\ call'[r].overtaken = call[r].overtaken
    BY <1>0, <2>1 DEF Goto, TenantTypeOK, Call
  <2>3. call[r].counting /\ (~call[r].overtaken => edit[r].limit = company.seats)
    BY <1>0, <2>1 DEF SeatOf
  <2>4. Active' = Active
    BY <2>1 DEF Active, Held
  <2> QED
    BY <2>1, <2>2, <2>3, <2>4 DEF SeatOf, At
<1>6. CASE UpdateExisting(r) /\ call'[r] # Answered
  <2>1. /\ Goto(r, IF edit[r].active /\ ~users[edit[r].target].active THEN "limit" ELSE "write")
        /\ UNCHANGED <<users, edit>> /\ At(r, "update", "existing")
    BY <1>6, FinishMoves DEF UpdateExisting
  <2>2. ~call[r].counting
    BY <1>0, <2>1 DEF SeatOf, At
  <2>3. CASE edit[r].active /\ ~users[edit[r].target].active
    BY <1>2, <2>1, <2>2, <2>3
  <2>4. CASE ~(edit[r].active /\ ~users[edit[r].target].active)
    <3>1. call'[r].pc = "write" /\ ~call'[r].counting /\ call'[r].op = "update"
      BY <1>0, <2>1, <2>2, <2>4 DEF Goto, At, TenantTypeOK, Call
    <3> QED
      BY <2>1, <2>4, <3>1 DEF SeatOf, At, Held
  <2> QED
    BY <2>3, <2>4
<1>7. CASE UpdateRead(r) \/ DeleteRead(r) \/ GrantRead(r) \/ GrantDelete(r) \/ GrantLock(r)
  <2>1. \E pc \in {"existing", "remove", "save", "deleting", "deleted"} : Goto(r, pc)
    BY <1>7 DEF UpdateRead, DeleteRead, GrantRead, GrantDelete, GrantLock
  <2>2. ~call[r].counting
    BY <1>0, <1>7 DEF SeatOf, UpdateRead, DeleteRead, GrantRead, GrantDelete, GrantLock, At
  <2> QED
    BY <1>2, <2>1, <2>2
<1>8. CASE CreateInsert(r) \/ UpdateWrite(r) \/ DeleteRow(r) \/ GrantInsert(r)
  <2>1. Finish(r) \/ \E table, seats : Commit(r, table, seats)
    BY <1>8 DEF CreateInsert, UpdateWrite, DeleteRow, GrantInsert
  <2>2. call'[r] = Answered
    BY <2>1 DEF Finish, Commit, TenantTypeOK
  <2> QED
    BY <1>1, <2>2
<1> QED
  BY <1>1, <1>3, <1>4, <1>5, <1>6, <1>7, <1>8 DEF AccountsStep

\* Of the other steps only the end of a confirmation changes the limit.
LEMMA LimitMoves ==
    ASSUME CompanyTypeOK, [CompanyNext]_vars, \A r \in Requests : ~AccountsStep(r)
    PROVE  \/ company'.seats = company.seats /\ UNCHANGED raced
           \/ \E r \in Requests : SetSubscription(r) /\ UNCHANGED accountVars
<1> USE DEF CompanyTypeOK
<1>1. company \in BillingRecord
  BY DEF TenantTypeOK
<1>2. ASSUME NEW r \in Requests, BillingStep(r), UNCHANGED accountVars, ~SetSubscription(r)
      PROVE  company'.seats = company.seats /\ UNCHANGED raced
  <2>1. CASE SetCustomer(r) \/ CompleteOnboarding(r)
    BY <1>1, <2>1 DEF SetCustomer, CompleteOnboarding, BillingRecord
  <2>2. CASE ~(SetCustomer(r) \/ CompleteOnboarding(r))
    BY <1>2, <2>2 DEF BillingStep, CheckoutBegin, CheckoutCount, CheckoutStatus, CheckoutRecord,
         CreateCustomer, CreateSession, ConfirmSession, ConfirmSubscription, ConfirmOwner
  <2> QED
    BY <2>1, <2>2
<1>3. CASE TrialEnds
  BY <1>1, <1>3 DEF TrialEnds, BillingRecord
<1>4. ASSUME \/ \E r \in Requests : Authenticate(r) \/ Admit(r) \/ Fail(r)
             \/ \E s \in Sessions : Pay(s) \/ Bill(s) \/ ChangeQuantity(s)
             \/ UNCHANGED vars
      PROVE  UNCHANGED <<company, raced>>
  BY <1>4 DEF Authenticate, Admit, Fail, Abort, Pay, Bill, ChangeQuantity, vars, tenantVars
<1> QED
  BY <1>2, <1>3, <1>4 DEF CompanyNext

\* A limit set below the users there are records them all; whoever was counting
\* is recorded too.
LEMMA SeatingSubscribed ==
    ASSUME CompanyTypeOK, Targets, Standing, Seating, [CompanyNext]_vars,
           \A q \in Requests : ~AccountsStep(q),
           NEW r \in Requests, SetSubscription(r), UNCHANGED accountVars
    PROVE  Seating'
<1> USE DEF CompanyTypeOK
<1>1. /\ company' = [company EXCEPT !.subscription = deal[r].subscription,
                                    !.seats = deal[r].seats, !.onboarded = TRUE]
      /\ raced' = IF deal[r].seats < Cardinality(Active) THEN raced \cup Active ELSE raced
      /\ Commit(r, users, TRUE) /\ UNCHANGED <<users, edit>>
  BY DEF SetSubscription, accountVars
<1>2. company'.seats = deal[r].seats /\ deal[r].seats \in Nat
  BY <1>1 DEF TenantTypeOK, BillingTypeOK, BillingRecord, Deal
<1>3. Active' = Active
  BY <1>1 DEF Active, Held
<1>4. SeatsExceededByRacersOnly'
  <2>1. CASE deal[r].seats < Cardinality(Active)
    <3>1. Active' \ raced' = {}
      BY <1>1, <1>3, <2>1
    <3> QED
      BY <1>2, <3>1, FS_EmptySet DEF SeatsExceededByRacersOnly
  <2>2. CASE ~(deal[r].seats < Cardinality(Active))
    <3>1. Active' \ raced' \subseteq Active
      BY <1>3
    <3>2. Cardinality(Active' \ raced') <= Cardinality(Active) /\ Cardinality(Active' \ raced') \in Nat
      BY <3>1, ActiveCounts, FewerCount
    <3> QED
      BY <1>2, <2>2, <3>2, ActiveCounts DEF SeatsExceededByRacersOnly
  <2> QED
    BY <2>1, <2>2
<1>5. SeatOf(r)'
  <2>1. call'[r] = Answered
    BY <1>1, CommitMoves
  <2> QED
    BY <2>1 DEF SeatOf, At, Answered, Idle
<1>6. ASSUME NEW q \in Requests \ {r} PROVE SeatOf(q)'
  <2>1. SeatOf(q)
    BY DEF Seating
  <2>2. /\ call'[q].pc = call[q].pc /\ call'[q].op = call[q].op
        /\ call'[q].counting = call[q].counting
        /\ InFlight(q) /\ call[q].counting => call'[q].overtaken
    BY <1>1, CommitMoves
  <2>3. call'[q].counting => InFlight(q)
    BY <2>1, <2>2 DEF SeatOf, InFlight
  <2> QED
    BY <1>1, <2>1, <2>2, <2>3 DEF SeatOf, At, Held
<1> QED
  BY <1>4, <1>5, <1>6 DEF Seating

LEMMA SeatingNext ==
    ASSUME CompanyTypeOK, Targets, Standing, Seating, [CompanyNext]_vars PROVE Seating'
<1>1. ASSUME NEW r \in Requests, AccountsStep(r) PROVE Seating'
  BY <1>1, SeatsAccounts, SeatKept, SeatAccounts DEF Seating
<1>2. ASSUME \A r \in Requests : ~AccountsStep(r) PROVE Seating'
  <2>1. CASE \E r \in Requests : SetSubscription(r) /\ UNCHANGED accountVars
    BY <1>2, <2>1, SeatingSubscribed
  <2>2. CASE company'.seats = company.seats /\ UNCHANGED raced
    <3>1. /\ UNCHANGED users
          /\ UNCHANGED <<call, edit>> \/ \E r \in Requests : Aside(r)
      BY <1>2, OtherSteps
    <3>2. Active' = Active
      BY <3>1 DEF Active, Held
    <3>3. SeatsExceededByRacersOnly'
      BY <2>2, <3>2 DEF Seating, SeatsExceededByRacersOnly
    <3>4. CASE UNCHANGED <<call, edit>>
      BY <2>2, <3>1, <3>2, <3>3, <3>4 DEF Seating, SeatOf, At, Held
    <3>5. ASSUME NEW r \in Requests, Aside(r) PROVE \A q \in Requests : SeatOf(q)'
      <4>1. SeatOf(r)'
        BY <3>5 DEF Aside, SeatOf, At, AccountStages
      <4>2. ASSUME NEW q \in Requests \ {r} PROVE SeatOf(q)'
        <5>1. SeatOf(q) /\ KeepsOthers(r) /\ edit'[q] = edit[q]
          BY <3>5 DEF Seating, Aside
        <5>2. call'[q].counting /\ ~call'[q].overtaken =>
                InFlight(q) /\ call[q].counting /\ ~call[q].overtaken
          BY <5>1 DEF SeatOf, KeepsOthers, InFlight
        <5> QED
          BY <2>2, <3>1, <3>2, <5>1, <5>2 DEF SeatOf, KeepsOthers, At, Held
      <4> QED
        BY <4>1, <4>2
    <3> QED
      BY <3>1, <3>3, <3>4, <3>5 DEF Seating
  <2> QED
    BY <1>2, <2>1, <2>2, LimitMoves
<1> QED
  BY <1>1, <1>2

-----------------------------------------------------------------------------
(* Billing *)

\* What has been given out stays: customers, the customer of a session, a
\* completed checkout; and a customer leaves the record by being displaced.
Lasts ==
    /\ customers \subseteq customers' /\ displaced \subseteq displaced'
    /\ \A s \in Sessions : session[s].state = "complete" => session'[s].state = "complete"
    /\ \A s \in Sessions : session[s].state # "new" =>
          session'[s].customer = session[s].customer /\ session'[s].state # "new"
    /\ company'.customer = company.customer \/ company.customer \in displaced' \cup {None}

\* A session changes hands in no step; only an unused id is given to a customer.
Opens(r, s) ==
    /\ call[r].pc = "session" /\ session[s].state = "new"
    /\ session'[s].customer = deal[r].customer

SessionMoves ==
    \A s \in Sessions :
        \/ /\ session'[s].customer = session[s].customer
           /\ session'[s].state # "new" <=> session[s].state # "new"
           /\ session[s].state = "complete" => session'[s].state = "complete"
        \/ \E r \in Requests : Opens(r, s) /\ UNCHANGED <<company, customers, displaced>>

LEMMA SessionsMove ==
    ASSUME CompanyTypeOK, [CompanyNext]_vars PROVE SessionMoves
<1> USE DEF CompanyTypeOK
<1>0. session \in [Sessions -> Session]
  BY DEF BillingTypeOK
<1>1. CASE UNCHANGED session
  BY <1>1 DEF SessionMoves
<1>2. ASSUME NEW r \in Requests, CreateSession(r) PROVE SessionMoves
  <2>1. PICK t \in Sessions :
          /\ session[t].state = "new"
          /\ session' = [session EXCEPT ![t] =
                [customer |-> deal[r].customer, trial |-> deal[r].trial,
                 seats |-> deal[r].seats, state |-> "open", status |-> "none"]]
    BY <1>2 DEF CreateSession
  <2>2. session'[t].customer = deal[r].customer /\ \A s \in Sessions \ {t} : session'[s] = session[s]
    BY <1>0, <2>1
  <2>3. call[r].pc = "session" /\ UNCHANGED <<company, customers, displaced>>
    BY <1>2 DEF CreateSession, At
  <2> QED
    BY <2>1, <2>2, <2>3 DEF SessionMoves, Opens
<1>3. ASSUME NEW t \in Sessions, Pay(t) \/ Bill(t) \/ ChangeQuantity(t) PROVE SessionMoves
  <2>1. \A s \in Sessions \ {t} : session'[s] = session[s]
    BY <1>0, <1>3 DEF Pay, Bill, ChangeQuantity
  <2>2. /\ session'[t].customer = session[t].customer
        /\ \/ session'[t].state = session[t].state
           \/ session[t].state = "open" /\ session'[t].state = "complete"
    <3>1. CASE Pay(t)
      BY <1>0, <3>1 DEF Pay, Session
    <3>2. CASE Bill(t) \/ ChangeQuantity(t)
      BY <1>0, <3>2 DEF Bill, ChangeQuantity, Session
    <3> QED
      BY <1>3, <3>1, <3>2
  <2> QED
    BY <2>1, <2>2 DEF SessionMoves
<1>4. ASSUME \/ \E r \in Requests :
                   \/ (Authenticate(r) \/ Admit(r)) /\ UNCHANGED billingVars
                   \/ AccountsStep(r) /\ UNCHANGED billingVars
                   \/ BillingStep(r) /\ ~CreateSession(r)
                   \/ Fail(r)
             \/ TrialEnds /\ UNCHANGED billingVars
             \/ UNCHANGED vars
      PROVE  UNCHANGED session
  BY <1>4 DEF BillingStep, CheckoutBegin, CheckoutCount, CheckoutStatus, CheckoutRecord, CreateCustomer,
       SetCustomer, ConfirmSession, ConfirmSubscription, ConfirmOwner, SetSubscription,
       CompleteOnboarding, Fail, billingVars, vars
<1> QED
  BY <1>1, <1>2, <1>3, <1>4 DEF CompanyNext

\* The company's record changes its customer at SetCustomer and its
\* subscription at SetSubscription; Stripe's list of customers only grows.
LEMMA RecordMoves ==
    ASSUME CompanyTypeOK, [CompanyNext]_vars
    PROVE  /\ customers \subseteq customers'
           /\ \/ company'.customer = company.customer /\ displaced \subseteq displaced'
              \/ \E r \in Requests : SetCustomer(r)
           /\ \/ company'.subscription = company.subscription
              \/ \E r \in Requests : SetSubscription(r)
<1> USE DEF CompanyTypeOK
<1>1. company \in BillingRecord
  BY DEF TenantTypeOK
<1>2. ASSUME NEW r \in Requests, BillingStep(r)
      PROVE  /\ customers \subseteq customers'
             /\ \/ company'.customer = company.customer /\ UNCHANGED displaced
                \/ SetCustomer(r)
             /\ company'.subscription = company.subscription \/ SetSubscription(r)
  <2>1. CASE SetCustomer(r) \/ SetSubscription(r)
    BY <1>1, <2>1 DEF SetCustomer, SetSubscription, BillingRecord
  <2>2. CASE CompleteOnboarding(r)
    BY <1>1, <2>2 DEF CompleteOnboarding, BillingRecord, billingVars
  <2>3. CASE CreateCustomer(r)
    BY <2>3 DEF CreateCustomer
  <2>4. CASE \/ CheckoutBegin(r) \/ CheckoutCount(r) \/ CheckoutStatus(r) \/ CheckoutRecord(r)
             \/ CreateSession(r) \/ ConfirmSession(r) \/ ConfirmSubscription(r) \/ ConfirmOwner(r)
    BY <2>4 DEF CheckoutBegin, CheckoutCount, CheckoutStatus, CheckoutRecord, CreateSession,
         ConfirmSession, ConfirmSubscription, ConfirmOwner
  <2> QED
    BY <1>2, <2>1, <2>2, <2>3, <2>4 DEF BillingStep
<1>3. ASSUME NEW r \in Requests, AccountsStep(r)
      PROVE  UNCHANGED company
  BY <1>3 DEF AccountsStep, CreateBegin, SeatLimit, SeatCount, CreateInsert, UpdateRead, UpdateExisting,
       UpdateWrite, DeleteRead, DeleteRow, GrantRead, GrantDelete, GrantLock, GrantInsert
<1>4. CASE TrialEnds /\ UNCHANGED billingVars
  BY <1>1, <1>4 DEF TrialEnds, BillingRecord, billingVars
<1>5. ASSUME \/ \E r \in Requests :
                   \/ (Authenticate(r) \/ Admit(r)) /\ UNCHANGED billingVars
                   \/ Fail(r)
             \/ \E s \in Sessions : Pay(s) \/ Bill(s) \/ ChangeQuantity(s)
             \/ UNCHANGED vars
      PROVE  UNCHANGED <<company, customers, displaced>>
  BY <1>5 DEF Authenticate, Admit, Fail, Abort, Pay, Bill, ChangeQuantity, billingVars, vars, tenantVars
<1>6. UNCHANGED billingVars => UNCHANGED <<customers, displaced>>
  BY DEF billingVars
<1> QED
  BY <1>2, <1>3, <1>4, <1>5, <1>6 DEF CompanyNext

\* Whoever sets the customer had seen none, so the one there is displaced.
LEMMA CustomerSet ==
    ASSUME CompanyTypeOK, Dealing, NEW r \in Requests, SetCustomer(r)
    PROVE  /\ company'.customer \in customers /\ UNCHANGED customers
           /\ displaced \subseteq displaced' /\ company.customer \in displaced' \cup {None}
           /\ company'.customer = deal[r].customer
<1>1. call[r].pc = "remember"
  BY DEF SetCustomer, At
<1>2. deal[r].blind /\ deal[r].customer \in customers
  BY <1>1 DEF Dealing, Books, DealOf
<1>3. company'.customer = deal[r].customer
  BY DEF SetCustomer, CompanyTypeOK, TenantTypeOK, BillingRecord
<1> QED
  BY <1>2, <1>3 DEF SetCustomer

LEMMA LastsNext ==
    ASSUME CompanyTypeOK, Dealing, [CompanyNext]_vars PROVE Lasts
<1>1. SessionMoves
  BY SessionsMove
<1>2. \A s \in Sessions : session[s].state # "new" =>
         /\ session'[s].customer = session[s].customer /\ session'[s].state # "new"
         /\ session[s].state = "complete" => session'[s].state = "complete"
  BY <1>1 DEF SessionMoves, Opens
<1>3. /\ customers \subseteq customers' /\ displaced \subseteq displaced'
      /\ company'.customer = company.customer \/ company.customer \in displaced' \cup {None}
  BY RecordMoves, CustomerSet
<1> QED
  BY <1>2, <1>3 DEF Lasts

LEMMA DealKept ==
    ASSUME CompanyTypeOK, Dealing, Lasts, NEW q \in Requests,
           call'[q].pc = call[q].pc, deal'[q] = deal[q]
    PROVE  DealOf(q)'
<1>1. DealOf(q)
  BY DEF Dealing, Books
<1>2. None \notin customers
  BY NoneIsNoId DEF CompanyTypeOK, BillingTypeOK
<1> QED
  BY <1>1, <1>2 DEF DealOf, Lasts

\* A request that reads nothing of billing next.
LEMMA DealAside ==
    ASSUME NEW r \in Requests,
           call'[r].pc \notin {"customer", "remember", "session", "subscription", "owner", "commit"}
    PROVE  DealOf(r)'
BY DEF DealOf

LEMMA DealBilling ==
    ASSUME CompanyTypeOK, Dealing, Lasts, NEW r \in Requests, BillingStep(r)
    PROVE  /\ DealOf(r)'
           /\ \A q \in Requests \ {r} : deal'[q] = deal[q]
<1> USE DEF CompanyTypeOK
<1>0. /\ call[r] \in Call /\ deal[r] \in Deal /\ company \in BillingRecord
      /\ deal \in [Requests -> Deal] /\ session \in [Sessions -> Session]
      /\ customers \subseteq Customers
  BY DEF TenantTypeOK, BillingTypeOK
<1>1. DealOf(r) /\ None \notin customers /\ Foreign \notin customers
  BY <1>0, NoneIsNoId, ForeignIsNoCustomer DEF Dealing, Books
<1>2. ASSUME NEW pc \in Stage, Goto(r, pc) PROVE call'[r].pc = pc
  BY <1>2 DEF Goto, TenantTypeOK, Call
<1>3. Answered.pc = "done"
  BY DEF Answered, Idle
<1>4. CASE CheckoutBegin(r) \/ CheckoutCount(r) \/ CheckoutStatus(r)
  <2>1. \A q \in Requests \ {r} : deal'[q] = deal[q]
    BY <1>0, <1>4 DEF CheckoutBegin, CheckoutCount, CheckoutStatus, Close
  <2>2. call'[r] = Answered \/ \E pc \in {"active", "stripe", "record"} : Goto(r, pc)
    BY <1>4, FinishMoves DEF CheckoutBegin, CheckoutCount, CheckoutStatus
  <2>3. call'[r].pc \in {"done", "active", "stripe", "record"}
    BY <1>2, <1>3, <2>2 DEF Stage
  <2> QED
    BY <2>1, <2>3, DealAside
<1>5. CASE CheckoutRecord(r)
  <2> DEFINE customer == company.customer
             blind == company.customer = None
             trial == company.subscription = None
             X == [deal[r] EXCEPT !.customer = customer, !.blind = blind, !.trial = trial]
  <2>1. deal' = [deal EXCEPT ![r] = X]
    BY <1>5 DEF CheckoutRecord
  <2>2. X.customer = customer /\ X.blind = blind
    BY <1>0 DEF Deal
  <2>3. deal'[r] = X /\ \A q \in Requests \ {r} : deal'[q] = deal[q]
    BY <1>0, <2>1
  <2>4. call'[r].pc = IF company.customer = None THEN "customer" ELSE "session"
    BY <1>2, <1>5 DEF CheckoutRecord, Stage
  <2>5. UNCHANGED <<company, customers, displaced>>
    BY <1>5 DEF CheckoutRecord
  <2>6. company.customer # None => company.customer \in customers
    BY DEF Dealing, Books
  <2>7. deal'[r].customer = company.customer /\ deal'[r].blind = (company.customer = None)
    BY <2>2, <2>3
  <2> HIDE DEF X
  <2> QED
    BY <2>3, <2>4, <2>5, <2>6, <2>7 DEF DealOf
<1>6. CASE CreateCustomer(r)
  <2>1. PICK c \in Customers : customers' = customers \cup {c} /\ deal' = [deal EXCEPT ![r].customer = c]
    BY <1>6 DEF CreateCustomer
  <2>2. deal'[r].customer = c /\ deal'[r].blind = deal[r].blind
    BY <1>0, <2>1 DEF Deal
  <2>3. call'[r].pc = "remember" /\ call[r].pc = "customer"
    BY <1>2, <1>6 DEF CreateCustomer, At, Stage
  <2>4. \A q \in Requests \ {r} : deal'[q] = deal[q]
    BY <1>0, <2>1
  <2> QED
    BY <1>1, <2>1, <2>2, <2>3, <2>4 DEF DealOf
<1>7. CASE SetCustomer(r)
  <2>1. call'[r].pc = "session" /\ call[r].pc = "remember" /\ UNCHANGED <<deal, customers>>
    BY <1>2, <1>7 DEF SetCustomer, At, Stage
  <2>2. company'.customer = deal[r].customer
    BY <1>7, CustomerSet
  <2> QED
    BY <1>1, <2>1, <2>2 DEF DealOf
<1>8. CASE CreateSession(r) \/ SetSubscription(r) \/ CompleteOnboarding(r)
  <2>1. \A q \in Requests \ {r} : deal'[q] = deal[q]
    BY <1>0, <1>8 DEF CreateSession, SetSubscription, CompleteOnboarding, Close, billingVars
  <2>2. call'[r] = Answered
    BY <1>8, FinishMoves, CommitMoves DEF CreateSession, SetSubscription, CompleteOnboarding
  <2> QED
    BY <1>3, <2>1, <2>2, DealAside
<1>9. CASE ConfirmSession(r)
  <2>1. PICK s \in Sessions :
          /\ session[s].state = "complete"
          /\ deal' = [deal EXCEPT ![r] = [NoDeal EXCEPT !.subscription = s]]
    BY <1>9 DEF ConfirmSession
  <2>2. deal'[r].subscription = s /\ \A q \in Requests \ {r} : deal'[q] = deal[q]
    BY <1>0, <2>1 DEF NoDeal
  <2>3. call'[r].pc = "subscription" /\ UNCHANGED session
    BY <1>2, <1>9 DEF ConfirmSession, Stage
  <2> QED
    BY <2>1, <2>2, <2>3 DEF DealOf
<1>10. CASE ConfirmSubscription(r)
  <2> DEFINE s == session[deal[r].subscription]
             X == [deal[r] EXCEPT !.seats = s.seats, !.customer = s.customer]
  <2>1. deal' = [deal EXCEPT ![r] = X]
    BY <1>10 DEF ConfirmSubscription
  <2>2. X.customer = s.customer /\ X.subscription = deal[r].subscription
    BY <1>0 DEF Deal
  <2>3. deal'[r] = X /\ \A q \in Requests \ {r} : deal'[q] = deal[q]
    BY <1>0, <2>1
  <2>4. call'[r].pc = "owner" /\ call[r].pc = "subscription" /\ UNCHANGED session
    BY <1>2, <1>10 DEF ConfirmSubscription, At, Stage
  <2>5. /\ deal'[r].subscription = deal[r].subscription
        /\ deal'[r].customer = session[deal[r].subscription].customer
    BY <2>2, <2>3
  <2> HIDE DEF X
  <2> QED
    BY <1>1, <2>3, <2>4, <2>5 DEF DealOf
<1>11. CASE ConfirmOwner(r)
  <2>1. call[r].pc = "owner" /\ UNCHANGED <<company, customers, session>>
    BY <1>11 DEF ConfirmOwner, At
  <2>2. CASE company.customer = deal[r].customer
    <3>1. call'[r].pc = "commit" /\ UNCHANGED deal
      BY <1>2, <1>11, <2>2 DEF ConfirmOwner, Stage
    <3>2. deal[r].subscription \in Sessions
          /\ session[deal[r].subscription].state = "complete"
          /\ deal[r].customer = session[deal[r].subscription].customer
      BY <1>1, <2>1 DEF DealOf
    <3>3. deal[r].customer \in customers
      <4>1. deal[r].customer \in customers \cup {Foreign}
        BY <3>2 DEF Dealing, Books
      <4>2. company.customer # Foreign
        BY <1>0, ForeignIsNoCustomer DEF BillingRecord
      <4> QED
        BY <2>2, <4>1, <4>2
    <3> QED
      BY <2>1, <3>1, <3>2, <3>3 DEF DealOf
  <2>3. CASE company.customer # deal[r].customer
    <3>1. call'[r] = Answered /\ Close(r)
      BY <1>11, <2>3, FinishMoves DEF ConfirmOwner
    <3> QED
      BY <1>0, <1>3, <3>1, DealAside DEF Close
  <2> QED
    BY <2>2, <2>3
<1> QED
  BY <1>4, <1>5, <1>6, <1>7, <1>8, <1>9, <1>10, <1>11 DEF BillingStep

\* Nor does a request of the accounts, or one that only enters or fails.
LEMMA DealAccounts ==
    ASSUME CompanyTypeOK, NEW r \in Requests,
           \/ AccountsStep(r) /\ UNCHANGED billingVars
           \/ (Authenticate(r) \/ Admit(r)) /\ UNCHANGED billingVars
           \/ Fail(r)
    PROVE  DealOf(r)' /\ \A q \in Requests \ {r} : deal'[q] = deal[q]
<1> USE DEF CompanyTypeOK
<1>1. \A q \in Requests \ {r} : deal'[q] = deal[q]
  BY DEF Fail, Close, BillingTypeOK, billingVars
<1>2. \/ Finish(r) \/ \E table, seats : Commit(r, table, seats)
      \/ \E pc \in AccountStages \cup {"begin"} : Goto(r, pc)
      \/ SeatLimit(r) \/ Authenticate(r)
  BY DEF AccountsStep, CreateBegin, SeatCount, CreateInsert, UpdateRead, UpdateExisting, UpdateWrite,
         DeleteRead, DeleteRow, GrantRead, GrantDelete, GrantLock, GrantInsert, Admit, Fail, Abort,
         AccountStages
<1>3. call'[r].pc \in AccountStages \cup {"begin", "admit", "done"}
  <2>1. CASE Finish(r) \/ \E table, seats : Commit(r, table, seats)
    BY <2>1 DEF Finish, Commit, TenantTypeOK, Answered, Idle
  <2>2. CASE \E pc \in AccountStages \cup {"begin"} : Goto(r, pc)
    BY <2>2 DEF Goto, TenantTypeOK, Call
  <2>3. CASE SeatLimit(r)
    <3>1. call'[r].pc = "count"
      BY <2>3 DEF SeatLimit, TenantTypeOK, Call
    <3> QED
      BY <3>1 DEF AccountStages
  <2>4. CASE Authenticate(r)
    <3>1. PICK u \in Active, op \in Operations :
            call' = [call EXCEPT ![r].pc = "admit", ![r].op = op, ![r].by = u,
                                 ![r].manager = users[u].role = "MANAGER"]
      BY <2>4 DEF Authenticate
    <3> QED
      BY <3>1 DEF TenantTypeOK, Call
  <2> QED
    BY <1>2, <2>1, <2>2, <2>3, <2>4
<1> QED
  BY <1>1, <1>3, DealAside DEF AccountStages

LEMMA BooksNext ==
    ASSUME CompanyTypeOK, Dealing, Lasts, [CompanyNext]_vars PROVE Books'
<1> USE DEF CompanyTypeOK
<1>0. /\ company \in BillingRecord /\ customers \subseteq Customers
      /\ company.subscription # None => company.subscription \in Sessions
  BY DEF TenantTypeOK, BillingTypeOK, BillingRecord
<1>1. (company.customer # None => company.customer \in customers)'
  BY RecordMoves, CustomerSet DEF Dealing, Books
<1>2. (company.subscription # None =>
          /\ session[company.subscription].state = "complete"
          /\ session[company.subscription].customer \in customers)'
  <2>1. CASE company'.subscription = company.subscription
    BY <1>0, <2>1 DEF Dealing, Books, Lasts
  <2>2. ASSUME NEW r \in Requests, SetSubscription(r)
        PROVE  /\ session'[company'.subscription].state = "complete"
               /\ session'[company'.subscription].customer \in customers'
    <3>1. company'.subscription = deal[r].subscription /\ UNCHANGED <<session, customers>>
      BY <1>0, <2>2 DEF SetSubscription, BillingRecord
    <3>2. call[r].pc = "commit" /\ DealOf(r)
      BY <2>2 DEF SetSubscription, At, Dealing, Books
    <3> QED
      BY <3>1, <3>2 DEF DealOf
  <2> QED
    BY <2>1, <2>2, RecordMoves
<1>3. ASSUME NEW s \in Sessions
      PROVE  /\ session'[s].state # "new" => session'[s].customer \in customers' \cup {Foreign}
             /\ session'[s].customer \in Customers =>
                   \/ session'[s].customer = company'.customer
                   \/ session'[s].customer \in displaced'
  <2>1. CASE /\ session'[s].customer = session[s].customer
             /\ session'[s].state # "new" <=> session[s].state # "new"
    <3>1. session[s].customer \in Customers =>
             session[s].customer = company.customer \/ session[s].customer \in displaced
      BY DEF Dealing, Books, CheckoutsConfirmable
    <3>2. session[s].state # "new" => session[s].customer \in customers \cup {Foreign}
      BY DEF Dealing, Books
    <3> QED
      BY <2>1, <3>1, <3>2, NoneIsNoId DEF Lasts
  <2>2. ASSUME NEW r \in Requests, Opens(r, s), UNCHANGED <<company, customers, displaced>>
        PROVE  /\ session'[s].customer \in customers'
               /\ session'[s].customer = company'.customer \/ session'[s].customer \in displaced'
    BY <2>2 DEF Dealing, Books, DealOf, Opens
  <2> QED
    BY <2>1, <2>2, SessionsMove DEF SessionMoves
<1> QED
  BY <1>1, <1>2, <1>3 DEF Books, CheckoutsConfirmable

LEMMA DealingNext ==
    ASSUME CompanyTypeOK, Dealing, [CompanyNext]_vars, Targets PROVE Dealing'
<1> USE DEF CompanyTypeOK
<1>1. Lasts /\ Books'
  BY LastsNext, BooksNext
<1>2. ASSUME NEW r \in Requests, DealOf(r)', \A q \in Requests \ {r} : deal'[q] = deal[q],
             KeepsOthers(r)
      PROVE  \A q \in Requests : DealOf(q)'
  BY <1>1, <1>2, DealKept DEF KeepsOthers
<1>3. ASSUME NEW r \in Requests,
             \/ (Authenticate(r) \/ Admit(r)) /\ UNCHANGED <<accountVars, billingVars>>
             \/ AccountsStep(r) /\ UNCHANGED billingVars
             \/ BillingStep(r) /\ UNCHANGED accountVars
             \/ Fail(r)
      PROVE  \A q \in Requests : DealOf(q)'
  <2>1. DealOf(r)' /\ \A q \in Requests \ {r} : deal'[q] = deal[q]
    BY <1>1, <1>3, DealAccounts, DealBilling
  <2>2. KeepsOthers(r)
    BY <1>3, TenantKeepsOthers, AccountsKeepOthers, BillingKeepsOthers DEF Fail
  <2> QED
    BY <1>2, <2>1, <2>2
<1>4. ASSUME \/ TrialEnds /\ UNCHANGED <<accountVars, billingVars>>
             \/ \E s \in Sessions : Pay(s) \/ Bill(s) \/ ChangeQuantity(s)
             \/ UNCHANGED vars
      PROVE  \A q \in Requests : DealOf(q)'
  <2>1. UNCHANGED <<call, deal>>
    BY <1>4 DEF TrialEnds, Pay, Bill, ChangeQuantity, billingVars, vars, tenantVars
  <2> QED
    BY <1>1, <2>1, DealKept
<1>5. \A q \in Requests : DealOf(q)'
  BY <1>3, <1>4 DEF CompanyNext
<1> QED
  BY <1>1, <1>5 DEF Dealing, Books

-----------------------------------------------------------------------------
(* The start *)

\* The company's record as it may start.
LEMMA RecordInit ==
    ASSUME BillingInit, TenantInit
    PROVE  /\ company \in BillingRecord
           /\ NeverSubscribed =>
                 company.customer = None /\ company.subscription = None /\ company.seats = Uncapped
           /\ Subscribed =>
                 /\ company.customer \in Customers /\ customers = {company.customer}
                 /\ company.subscription \in Sessions /\ paid = <<company.subscription>>
                 /\ company.seats \in Nat /\ company.seats >= Cardinality(Active)
<1>1. /\ Registered \in BillingRecord
      /\ Registered.customer = None /\ Registered.subscription = None /\ Registered.seats = Uncapped
  BY DEF Registered, BillingRecord
<1>2. ASSUME NeverSubscribed
      PROVE  /\ company \in BillingRecord
             /\ company.customer = None /\ company.subscription = None /\ company.seats = Uncapped
  <2>1. CASE company = Registered
    BY <1>1, <2>1
  <2>2. CASE company = Legacy
    BY <1>1, <2>2 DEF Legacy, BillingRecord
  <2> QED
    BY <1>2, <2>1, <2>2 DEF NeverSubscribed
<1>3. ASSUME Subscribed
      PROVE  /\ company \in BillingRecord
             /\ company.customer \in Customers /\ customers = {company.customer}
             /\ company.subscription \in Sessions /\ paid = <<company.subscription>>
             /\ company.seats \in Nat /\ company.seats >= Cardinality(Active)
  <2>1. PICK c \in Customers, s \in Sessions, n \in SeatOrders :
          /\ n >= Cardinality(Active)
          /\ company = [Registered EXCEPT !.onboarded = TRUE, !.customer = c,
                                          !.subscription = s, !.seats = n]
          /\ customers = {c} /\ paid = <<s>>
    BY <1>3 DEF Subscribed
  <2>2. n \in Nat
    BY OrdersAreNumbers
  <2>3. /\ company \in BillingRecord
        /\ company.customer = c /\ company.subscription = s /\ company.seats = n
    BY <1>1, <2>1, <2>2 DEF BillingRecord
  <2> QED
    BY <2>1, <2>2, <2>3
<1> QED
  BY <1>2, <1>3 DEF BillingInit

LEMMA TypeInit == CompanyInit => CompanyTypeOK
<1> SUFFICES ASSUME CompanyInit PROVE CompanyTypeOK
  OBVIOUS
<1> USE DEF CompanyInit
<1>1. users \in [Users -> Account]
  <2>1. PICK employed \in SUBSET Staff :
          users = [u \in Users |->
                     [row |-> IF u \in Founders \cup Staff THEN "held" ELSE "unborn",
                      role |-> IF u \in Founders THEN "MANAGER" ELSE "OFFICE",
                      active |-> u \in Founders \cup employed]]
    BY DEF TenantInit
  <2> QED
    BY <2>1 DEF Account, Role
<1>2. call \in [Requests -> Call] /\ raced \subseteq Users /\ deposed \in BOOLEAN
  BY DEF TenantInit, Idle, Call, Stage
<1>3. AccountsTypeOK
  <2>1. asked \in [Users -> [role : Role, active : BOOLEAN]]
    BY <1>1 DEF AccountsInit, Account
  <2> QED
    BY <2>1, NoEditType DEF AccountsInit, AccountsTypeOK, NoSave
<1>4. company \in BillingRecord
  BY RecordInit
<1>5. customers \subseteq Customers /\ paid \in Seq(Sessions) /\ Len(paid) <= MaxPaid
  <2>1. CASE NeverSubscribed
    BY <2>1, OrdersAreNumbers DEF NeverSubscribed
  <2>2. CASE Subscribed
    <3>1. /\ company.customer \in Customers /\ customers = {company.customer}
          /\ company.subscription \in Sessions /\ paid = <<company.subscription>>
      BY <2>2, RecordInit
    <3> QED
      BY <3>1, OrdersAreNumbers
  <2> QED
    BY <2>1, <2>2 DEF BillingInit
<1>6. session \in [Sessions -> Session]
  <2>1. ForeignSession \in Session /\ NoSession \in Session
    BY DEF ForeignSession, NoSession, Session
  <2>2. company.subscription \in Sessions =>
          company.seats \in Nat /\ company.customer \in Customers
    BY RecordInit, NoneIsNoId DEF BillingInit
  <2>3. company.subscription \in Sessions =>
          [customer |-> company.customer, trial |-> TRUE, seats |-> company.seats,
           state |-> "complete", status |-> "trialing"] \in Session
    BY <2>2 DEF Session
  <2>4. PICK theirs \in Sessions \ {company.subscription} :
          session = [s \in Sessions |->
              IF s = theirs THEN ForeignSession
              ELSE IF s = company.subscription
              THEN [customer |-> company.customer, trial |-> TRUE, seats |-> company.seats,
                    state |-> "complete", status |-> "trialing"]
              ELSE NoSession]
    BY DEF BillingInit
  <2> QED
    BY <2>1, <2>3, <2>4
<1>7. BillingTypeOK
  BY <1>5, <1>6, NoDealType DEF BillingInit, BillingTypeOK
<1> QED
  BY <1>1, <1>2, <1>3, <1>4, <1>7 DEF CompanyTypeOK, TenantTypeOK

LEMMA BooksInit == CompanyInit /\ CompanyTypeOK => Books
<1> SUFFICES ASSUME CompanyInit, CompanyTypeOK PROVE Books
  OBVIOUS
<1>1. PICK theirs \in Sessions \ {company.subscription} :
        session = [s \in Sessions |->
            IF s = theirs THEN ForeignSession
            ELSE IF s = company.subscription
            THEN [customer |-> company.customer, trial |-> TRUE, seats |-> company.seats,
                  state |-> "complete", status |-> "trialing"]
            ELSE NoSession]
  BY DEF CompanyInit, BillingInit
<1>2. /\ ForeignSession.customer = Foreign
      /\ NoSession.customer = None /\ NoSession.state = "new"
  BY DEF ForeignSession, NoSession
<1>3. ASSUME NEW s \in Sessions, s # company.subscription
      PROVE  session[s].customer \in {Foreign, None} /\ (session[s].state # "new" => session[s].customer = Foreign)
  BY <1>1, <1>2, <1>3
<1>4. \A s \in Sessions : s = company.subscription =>
          session[s].customer = company.customer /\ session[s].state = "complete"
  BY <1>1
<1>5. CASE NeverSubscribed
  <2>1. company.customer = None /\ company.subscription = None
    BY <1>5, RecordInit DEF CompanyInit
  <2> QED
    BY <1>3, <2>1, NoneIsNoId, ForeignIsNoCustomer DEF Books, CheckoutsConfirmable
<1>6. CASE Subscribed
  <2>1. /\ company.subscription \in Sessions /\ company.customer \in Customers
        /\ customers = {company.customer}
    BY <1>6, RecordInit DEF CompanyInit
  <2> QED
    BY <1>3, <1>4, <2>1, NoneIsNoId, ForeignIsNoCustomer DEF Books, CheckoutsConfirmable
<1> QED
  BY <1>5, <1>6 DEF CompanyInit, BillingInit

LEMMA IInvInit == CompanyInit => IInv
<1> SUFFICES ASSUME CompanyInit PROVE IInv
  OBVIOUS
<1>1. CompanyTypeOK /\ Books
  BY TypeInit, BooksInit
<1>2. /\ \A r \in Requests : call[r] = Idle
      /\ raced = {} /\ deposed = FALSE /\ crossed = {} /\ mingled = {}
      /\ \A u \in Users : asked[u].role = users[u].role /\ asked[u].active = users[u].active
      /\ \A u \in Users : ~saved[u].done
  BY DEF CompanyInit, TenantInit, AccountsInit, NoSave
<1>3. \A r \in Requests : call[r].pc = "idle" /\ ~call[r].counting
  BY <1>2 DEF Idle
<1>4. Targets /\ Copies /\ Saving
  BY <1>2, <1>3 DEF Targets, TargetOf, Copies, CopyOf, EditsUndoneByRacersOnly, Saving, SavedLists, SaveOf,
     InFlight, EditsRow
<1>5. Standing
  <2>1. PICK u \in Founders : TRUE
    BY FoundersAreUsers
  <2>2. u \in Users /\ Manages(users, u)
    <3>1. u \in Users
      BY FoundersAreUsers
    <3>2. PICK employed \in SUBSET Staff :
            users = [v \in Users |->
                       [row |-> IF v \in Founders \cup Staff THEN "held" ELSE "unborn",
                        role |-> IF v \in Founders THEN "MANAGER" ELSE "OFFICE",
                        active |-> v \in Founders \cup employed]]
      BY DEF CompanyInit, TenantInit
    <3> QED
      BY <3>1, <3>2 DEF Manages
  <2> QED
    BY <1>3, <2>2 DEF Standing, StandingOf, LastManagerFallsToRacersOnly, InFlight, EditsRow
<1>6. Seating
  <2>1. SeatsExceededByRacersOnly
    <3>1. CASE NeverSubscribed
      BY <3>1, RecordInit DEF CompanyInit, SeatsExceededByRacersOnly
    <3>2. CASE Subscribed
      <4>1. Active \ raced = Active
        BY <1>2
      <4>2. company.seats \in Nat /\ company.seats >= Cardinality(Active)
        BY <3>2, RecordInit DEF CompanyInit
      <4> QED
        BY <4>1, <4>2, ActiveCounts DEF SeatsExceededByRacersOnly
    <3> QED
      BY <3>1, <3>2 DEF CompanyInit, BillingInit
  <2> QED
    BY <1>3, <2>1 DEF Seating, SeatOf, At
<1>7. Dealing
  BY <1>1, <1>3 DEF Dealing, DealOf
<1> QED
  BY <1>1, <1>4, <1>5, <1>6, <1>7 DEF IInv

LEMMA IInvNext == IInv /\ [CompanyNext]_vars => IInv'
<1> SUFFICES ASSUME IInv, [CompanyNext]_vars PROVE IInv'
  OBVIOUS
<1> USE DEF IInv
<1>1. CompanyTypeOK'
  BY TypeNext
<1>2. Targets' /\ Standing' /\ Copies'
  BY TargetsNext, StandingNext, CopiesNext
<1>3. Seating' /\ Saving' /\ Dealing'
  BY SeatingNext, SavingNext, DealingNext
<1> QED
  BY <1>1, <1>2, <1>3

\* What a company's administration keeps between any two of its statements.
THEOREM Invariance == Spec => []IInv
<1> QED
  BY IInvInit, IInvNext, PTL DEF Spec

\* Every row, column and local of Accounts and Billing holds what its type can.
THEOREM CompanyTypes == Spec => []CompanyTypeOK
<1> QED
  BY Invariance, PTL DEF IInv

\* The seat check and the write are separate transactions (ensure_seat_available,
\* then create or update): whoever sits above the limit counted before another
\* took a seat or before the limit was set.
THEOREM SeatsOnlyExceededByRacers == Spec => []SeatsExceededByRacersOnly
<1>1. IInv => SeatsExceededByRacersOnly
  BY DEF IInv, Seating
<1> QED
  BY <1>1, Invariance, PTL

\* Nobody deactivates, demotes or deletes themselves, and that is enough: the
\* last manager falls only to a request whose actor had fallen before it wrote.
THEOREM LastManagerOnlyFallsToRacers == Spec => []LastManagerFallsToRacersOnly
<1>1. IInv => LastManagerFallsToRacersOnly
  BY DEF IInv, Standing
<1> QED
  BY <1>1, Invariance, PTL

\* A partial update is merged into a row read before the write, and the write
\* sets every column: it undoes another edit only when its copy was outdated.
THEOREM EditsOnlyUndoneByRacers == Spec => []EditsUndoneByRacersOnly
<1>1. IInv => EditsUndoneByRacersOnly
  BY DEF IInv, Copies
<1> QED
  BY <1>1, Invariance, PTL

\* set_permissions deletes the rows it saw and inserts its own, with the marker:
\* what is in force is the list last saved, unless two saves overlapped.
THEOREM LastSaveIsEffective == Spec => []EffectiveIsLastSave
<1>1. IInv => EffectiveIsLastSave
  BY SavingEffective DEF IInv
<1> QED
  BY <1>1, Invariance, PTL

\* confirm_checkout takes a session id from the client: only one whose
\* subscription has this company's customer reaches the company's row.
THEOREM OwnSubscriptionOnly == Spec => []SubscriptionIsOwn
<1>1. IInv => SubscriptionIsOwn
  BY DEF IInv, Dealing, Books, SubscriptionIsOwn
<1> QED
  BY <1>1, Invariance, PTL

\* start_checkout may create two customers at once: a session can be confirmed
\* as long as the customer it was opened for has not been displaced.
THEOREM OwnCheckoutsConfirmable == Spec => []CheckoutsConfirmable
<1>1. IInv => CheckoutsConfirmable
  BY DEF IInv, Dealing, Books
<1> QED
  BY <1>1, Invariance, PTL

=============================================================================
