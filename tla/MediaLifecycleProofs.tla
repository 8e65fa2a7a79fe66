------------------------- MODULE MediaLifecycleProofs -------------------------
(***************************************************************************)
(* Proofs about MediaLifecycle, for every value of its constants.           *)
(***************************************************************************)
EXTENDS MediaLifecycle, FiniteSetTheorems, TLAPS

-----------------------------------------------------------------------------
(* Type correctness. *)

\* What a request holds follows from its kind.
LEMMA RequestFields ==
    ASSUME TypeOK, NEW t \in Requests
    PROVE  /\ request[t].kind = "confirm" =>
                request[t].key \in Keys /\ request[t].note \in Notes \cup {NoNote}
           /\ request[t].kind = "reject" => request[t].key \in Keys
           /\ request[t].kind = "remove" => request[t].rows \subseteq Row
           /\ request[t].kind = "read" =>
                request[t].scope \in Containers /\ request[t].found \subseteq Keys
           /\ request[t].kind = "purge" =>
                request[t].scope \in Containers /\ request[t].added \subseteq Keys
BY DEF TypeOK, Requesting, Idle

\* Queueing a set of keys keeps the queue a set of keys with counted attempts.
LEMMA EnqueueType ==
    ASSUME TypeOK, NEW K \in SUBSET Keys, Enqueue(K)
    PROVE  queue' \subseteq Keys /\ attempts' \in [Keys -> Nat]
BY DEF TypeOK, Enqueue

\* Every handler of the media subsystem keeps the shape of its state.
THEOREM TypeCorrect == Spec => []TypeOK
<1>1. Init => TypeOK
  BY BoundAssumption DEF Init, TypeOK, Requesting, Resting
<1>2. TypeOK /\ [Next]_vars => TypeOK'
  <2> SUFFICES ASSUME TypeOK, [Next]_vars PROVE TypeOK'
    OBVIOUS
  <2>1. ASSUME NEW k \in Keys, Upload(k) PROVE TypeOK'
    BY <2>1 DEF Upload, TypeOK
  <2>2. ASSUME NEW t \in Requests, NEW k \in Keys, ConfirmReject(t, k) PROVE TypeOK'
    <3>1. [kind |-> "reject", key |-> k] \in Requesting
      BY DEF Requesting
    <3> QED BY <2>2, <3>1 DEF ConfirmReject, TypeOK
  <2>16. ASSUME NEW t \in Requests, ConfirmDiscard(t) PROVE TypeOK'
    <3>1. Idle \in Requesting
      BY DEF Requesting
    <3> QED BY <2>16, <3>1 DEF ConfirmDiscard, TypeOK
  <2>3. ASSUME NEW t \in Requests, NEW k \in Keys, NEW n \in Notes \cup {NoNote},
               ConfirmVerify(t, k, n)
        PROVE TypeOK'
    <3>1. [kind |-> "confirm", key |-> k, note |-> n] \in Requesting
      BY DEF Requesting
    <3> QED BY <2>3, <3>1 DEF ConfirmVerify, TypeOK
  <2>4. ASSUME NEW t \in Requests, ConfirmRecord(t) PROVE TypeOK'
    <3>1. /\ request[t].key \in Keys /\ request[t].note \in Notes \cup {NoNote}
      BY <2>4, RequestFields DEF ConfirmRecord
    <3>2. nextId \in 1..MaxRows /\ nextId' \in 1..MaxRows + 1
      BY <2>4, BoundAssumption DEF ConfirmRecord, TypeOK
    <3>3. [id |-> nextId, key |-> request[t].key, note |-> request[t].note] \in Row
      BY <3>1, <3>2 DEF Row
    <3>4. Idle \in Requesting
      BY DEF Requesting
    <3>5. rows' \subseteq Row /\ exposed' \subseteq Keys /\ recorded' \subseteq Keys
      BY <2>4, <3>1, <3>3 DEF ConfirmRecord, TypeOK
    <3> QED BY <2>4, <3>2, <3>4, <3>5 DEF ConfirmRecord, TypeOK
  <2>5. ASSUME NEW t \in Requests, NEW R \in SUBSET rows, RemoveLock(t, R) PROVE TypeOK'
    <3>1. [kind |-> "remove", rows |-> R] \in Requesting
      BY DEF Requesting, TypeOK
    <3> QED BY <2>5, <3>1 DEF RemoveLock, TypeOK
  <2>6. ASSUME NEW t \in Requests, RemoveCommit(t) PROVE TypeOK'
    <3>1. {r.key : r \in request[t].rows} \in SUBSET Keys
      BY <2>6, RequestFields DEF RemoveCommit, Row
    <3>2. queue' \subseteq Keys /\ attempts' \in [Keys -> Nat]
      BY <2>6, <3>1, EnqueueType DEF RemoveCommit
    <3>3. Idle \in Requesting
      BY DEF Requesting
    <3> QED BY <2>6, <3>2, <3>3 DEF RemoveCommit, TypeOK
  <2>7. ASSUME NEW t \in Requests, NEW c \in Containers, PurgeRead(t, c) PROVE TypeOK'
    <3>1. {r.key : r \in {q \in rows : Captures(c, q)}} \subseteq Keys
      BY DEF TypeOK, Row
    <3>2. [kind |-> "read", scope |-> c,
           found |-> {r.key : r \in {q \in rows : Captures(c, q)}}] \in Requesting
      BY <3>1 DEF Requesting
    <3> QED BY <2>7, <3>2 DEF PurgeRead, TypeOK
  <2>8. ASSUME NEW t \in Requests, PurgeQueue(t) PROVE TypeOK'
    <3>1. [kind |-> "purge", scope |-> request[t].scope,
           added |-> request[t].found \ queue] \in Requesting
      BY <2>8, RequestFields DEF PurgeQueue, Requesting
    <3> QED BY <2>8, <3>1 DEF PurgeQueue, TypeOK
  <2>9. ASSUME NEW t \in Requests, PurgeCommit(t) PROVE TypeOK'
    <3>1. request[t].added \in SUBSET Keys
      BY <2>9, RequestFields DEF PurgeCommit
    <3>2. queue' \subseteq Keys /\ attempts' \in [Keys -> Nat]
      BY <2>9, <3>1, EnqueueType DEF PurgeCommit
    <3>3. Idle \in Requesting
      BY DEF Requesting
    <3> QED BY <2>9, <3>2, <3>3 DEF PurgeCommit, TypeOK
  <2>10. ASSUME NEW t \in Requests, Abort(t) PROVE TypeOK'
    BY <2>10 DEF Abort, TypeOK, Requesting
  <2>11. ASSUME NEW w \in Workers, Fetch(w) PROVE TypeOK'
    BY <2>11 DEF Fetch, Offered, TypeOK
  <2>12. ASSUME NEW w \in Workers, DeleteObject(w) PROVE TypeOK'
    BY <2>12 DEF DeleteObject, TypeOK
  <2>13. ASSUME NEW w \in Workers, Settle(w) PROVE TypeOK'
    <3>1. worker' \in [Workers -> [todo : SUBSET Keys, key : Keys \cup {NoKey},
                                   outcome : {"none", "gone", "error"}]]
      BY <2>13 DEF Settle, TypeOK
    <3>2. queue' \subseteq Keys /\ attempts' \in [Keys -> Nat]
      BY <2>13 DEF Settle, TypeOK
    <3> QED BY <2>13, <3>1, <3>2 DEF Settle, TypeOK
  <2>14. ASSUME NEW w \in Workers, AbortPass(w) PROVE TypeOK'
    BY <2>14 DEF AbortPass, Resting, TypeOK
  <2>15. CASE UNCHANGED vars
    BY <2>15 DEF vars, TypeOK
  <2> QED
    BY <2>1, <2>2, <2>3, <2>4, <2>5, <2>6, <2>7, <2>8, <2>9, <2>10, <2>11,
       <2>12, <2>13, <2>14, <2>15, <2>16 DEF Next, RequestStep, WorkerStep
<1> QED
  BY <1>1, <1>2, PTL DEF Spec

-----------------------------------------------------------------------------
(* No orphan and no broken row.                                             *)
(*                                                                         *)
(* Neither is inductive.  A key that is used once is confirmed once, so at  *)
(* most one row ever names it, and from the delete of that row on no row    *)
(* does; a delete in progress has already written down every key its        *)
(* cascade will take, unless the row came late; and a sweeper holds only    *)
(* keys that had been queued.                                               *)

Once(k) == k \notin reused

Scope(t) == request[t].scope

\* The keys a container delete will queue.
Listed(t) ==
    CASE request[t].kind = "read" -> request[t].found
      [] request[t].kind = "purge" -> request[t].added
      [] OTHER -> {}

OneRow ==
    /\ \A r \in rows : r.key \in recorded
    /\ \A r, q \in rows : r.key = q.key /\ Once(r.key) => r = q

Confirming ==
    \A t \in Requests :
        Judging(t) /\ Once(request[t].key) =>
            /\ request[t].key \notin recorded
            /\ request[t].kind = "confirm" => objects[request[t].key] = "good"
            /\ \A u \in Requests :
                 Judging(u) /\ request[u].key = request[t].key => u = t

Dead(k) == k \in recorded /\ (Once(k) => ~HasRow(k))

Doomed ==
    /\ \A k \in queue : Dead(k)
    /\ \A w \in Workers :
         /\ \A k \in worker[w].todo : Dead(k)
         /\ worker[w].outcome # "none" => worker[w].key \in worker[w].todo
         /\ worker[w].outcome = "gone" /\ Once(worker[w].key) =>
              objects[worker[w].key] = "none"

Removing ==
    \A t \in Requests :
        /\ Locked(t) \subseteq rows
        /\ \A u \in Requests : u # t => Locked(t) \cap Locked(u) = {}

\* Both ways: what a delete lists its cascade takes, and what its cascade
\* takes it has listed.
Listing ==
    \A t \in Requests : Deleting(t) =>
        /\ Listed(t) \subseteq recorded
        /\ \A r \in rows :
             /\ r.key \in Listed(t) /\ Once(r.key) => Cascades(Scope(t), r)
             /\ Cascades(Scope(t), r) /\ Once(r.key) /\ r.key \notin exposed =>
                  r.key \in Listed(t)

Placed ==
    \A r \in rows : Once(r.key) /\ r.key \notin exposed =>
        r.note = NoNote \/ EntryOf[r.note] = Home[r.key]

Inv ==
    /\ TypeOK
    /\ OneRow
    /\ Confirming
    /\ Doomed
    /\ Removing
    /\ Listing
    /\ Placed
    /\ NoBrokenRow
    /\ NoOrphan

\* Deleting a container takes at least the rows its query selects ...
LEMMA CapturedIsCascaded ==
    ASSUME NEW c \in Containers, NEW r \in Row, Captures(c, r)
    PROVE  Cascades(c, r)
BY DEF Captures, Cascades, Below

\* ... and no others, when a note's media is filed under the note's entry.
LEMMA CascadedIsCaptured ==
    ASSUME NEW c \in Containers, NEW r \in Row, Cascades(c, r),
           r.note = NoNote \/ EntryOf[r.note] = Home[r.key]
    PROVE  Captures(c, r)
<1>1. /\ Home[r.key] \in Jobs \cup Entries /\ Home[r.key] \notin Notes
      /\ r.note \in Notes \cup {NoNote}
      /\ r.note \notin Jobs \cup Entries
      /\ NoNote \notin Below(c)
  BY ContainersAssumption, KeysAssumption DEF Row, Containers, Below
<1>2. CASE c \in Notes
  <2>1. \A e \in Entries : JobOf[e] # c
    BY <1>2, ContainersAssumption
  <2>2. \A n \in Notes : EntryOf[n] # c /\ JobOf[EntryOf[n]] # c
    BY <1>2, ContainersAssumption
  <2>3. Below(c) = {c}
    BY <2>1, <2>2 DEF Below
  <2> QED BY <1>1, <1>2, <2>3 DEF Captures, Cascades
<1>3. CASE c \notin Notes
  <2>1. CASE Home[r.key] \in Below(c)
    BY <1>3, <2>1 DEF Captures
  <2>2. CASE r.note \in Below(c) /\ r.note \in Notes
    <3>1. r.note # c
      BY <1>3, <2>2
    <3>2. EntryOf[r.note] = c \/ JobOf[EntryOf[r.note]] = c
      BY <2>2, <3>1, <1>1 DEF Below
    <3>3. EntryOf[r.note] \in Entries /\ EntryOf[r.note] = Home[r.key]
      BY <2>2, <1>1, ContainersAssumption DEF Containers
    <3> QED BY <1>3, <3>2, <3>3 DEF Captures, Below
  <2> QED BY <1>1, <2>1, <2>2 DEF Cascades
<1> QED BY <1>2, <1>3

LEMMA InvInit == Init => Inv
<1> SUFFICES ASSUME Init PROVE Inv
  OBVIOUS
<1>1. TypeOK
  BY BoundAssumption DEF Init, TypeOK, Requesting, Resting
<1> QED
  BY <1>1 DEF Init, Inv, OneRow, Confirming, Judging, Doomed, Dead, Removing, Locked, Listing,
     Listed, Deleting, Placed, NoBrokenRow, NoOrphan, HasRow, Idle, Resting

\* The client's PUT touches a key nobody relies on, or marks it as reused.
LEMMA InvUpload ==
    ASSUME Inv, TypeOK', NEW k \in Keys, Upload(k) PROVE Inv'
<1> USE DEF Inv, Upload
<1>1. reused \subseteq reused' /\ (k \in recorded \/ InFlight(k) => k \in reused')
  BY DEF TypeOK
<1>2. \A x \in Keys : x # k => objects'[x] = objects[x]
  BY DEF TypeOK
<1>3. \A x \in Keys : Dead(x) => Dead(x)'
  BY <1>1 DEF Dead, Once, HasRow
<1>4. OneRow' /\ Removing' /\ Placed'
  BY <1>1 DEF OneRow, Removing, Locked, Placed, Once
<1>5. Confirming'
  BY <1>1, <1>2, RequestFields DEF Confirming, Once, InFlight, Judging
<1>6. Doomed'
  <2>1. \A w \in Workers : worker[w].todo \subseteq Keys
    BY DEF TypeOK
  <2> QED BY <1>1, <1>2, <1>3, <2>1 DEF Doomed, Once, Dead, TypeOK
<1>7. Listing'
  BY <1>1 DEF Listing, Listed, Scope, Deleting, Once, Cascades
<1>8. NoBrokenRow'
  BY <1>1, <1>2 DEF NoBrokenRow, OneRow, TypeOK, Row
<1>9. NoOrphan'
  BY <1>1, <1>2 DEF NoOrphan, HasRow, TypeOK
<1> QED BY <1>4, <1>5, <1>6, <1>7, <1>8, <1>9

\* A confirm that judges a key again, whatever its verdict, marks it as reused.
LEMMA InvConfirmJudge ==
    ASSUME Inv, NEW t \in Requests, NEW k \in Keys, ~Judging(t),
           request'[t].kind \in {"confirm", "reject"}, request'[t].key = k,
           request'[t].kind = "confirm" => objects[k] = "good",
           \A u \in Requests : u # t => request'[u] = request[u],
           reused' = IF k \in recorded \/ InFlight(k) THEN reused \cup {k} ELSE reused,
           UNCHANGED <<objects, rows, queue, worker, recorded, exposed>>, TypeOK'
    PROVE  Inv'
<1> USE DEF Inv
<1>1. reused \subseteq reused' /\ (k \in recorded \/ InFlight(k) => k \in reused')
  OBVIOUS
<1>2. Confirming'
  BY <1>1 DEF Confirming, Once, InFlight, Judging
<1>3. Doomed'
  BY <1>1 DEF Doomed, Dead, Once, HasRow
<1>4. Removing'
  BY DEF Removing, Locked
<1>5. Listing'
  BY <1>1 DEF Listing, Listed, Scope, Deleting, Once, Cascades
<1>6. OneRow' /\ Placed' /\ NoBrokenRow' /\ NoOrphan'
  BY <1>1 DEF OneRow, Placed, NoBrokenRow, NoOrphan, HasRow, Once
<1> QED BY <1>2, <1>3, <1>4, <1>5, <1>6

LEMMA InvConfirmVerify ==
    ASSUME Inv, TypeOK', NEW t \in Requests, NEW k \in Keys,
           NEW n \in Notes \cup {NoNote}, ConfirmVerify(t, k, n)
    PROVE  Inv'
<1>1. /\ request'[t] = [kind |-> "confirm", key |-> k, note |-> n]
      /\ \A u \in Requests : u # t => request'[u] = request[u]
      /\ ~Judging(t)
  BY DEF Inv, TypeOK, ConfirmVerify, Judging, Idle
<1> QED BY <1>1, InvConfirmJudge DEF ConfirmVerify

LEMMA InvConfirmReject ==
    ASSUME Inv, TypeOK', NEW t \in Requests, NEW k \in Keys, ConfirmReject(t, k)
    PROVE  Inv'
<1>1. /\ request'[t] = [kind |-> "reject", key |-> k]
      /\ \A u \in Requests : u # t => request'[u] = request[u]
      /\ ~Judging(t)
  BY DEF Inv, TypeOK, ConfirmReject, Judging, Idle
<1> QED BY <1>1, InvConfirmJudge DEF ConfirmReject

\* The object that is discarded is no row's and no other confirm's, unless
\* its key was judged again or written again since.
LEMMA InvConfirmDiscard ==
    ASSUME Inv, TypeOK', NEW t \in Requests, ConfirmDiscard(t) PROVE Inv'
<1> DEFINE k == request[t].key
<1> USE DEF Inv
<1>1. /\ k \in Keys /\ request[t].kind = "reject" /\ Judging(t)
      /\ objects' = [objects EXCEPT ![k] = "none"]
      /\ UNCHANGED <<rows, queue, worker, recorded, reused, exposed>>
  BY RequestFields DEF ConfirmDiscard, Judging
<1>2. request'[t] = Idle /\ \A u \in Requests : u # t => request'[u] = request[u]
  BY DEF ConfirmDiscard, TypeOK
<1>3. Once(k) => ~HasRow(k) /\ \A u \in Requests : u # t /\ Judging(u) => request[u].key # k
  BY <1>1 DEF Confirming, OneRow, HasRow
<1> HIDE DEF k
<1>4. \A x \in Keys : objects'[x] = IF x = k THEN "none" ELSE objects[x]
  BY <1>1 DEF TypeOK
<1>5. Doomed'
  <2>1. \A x \in Keys : Dead(x) => Dead(x)'
    BY <1>1 DEF Dead, Once, HasRow
  <2>2. \A w \in Workers : worker[w].todo \subseteq Keys
    BY DEF TypeOK
  <2> QED BY <1>1, <1>4, <2>1, <2>2 DEF Doomed, Once, TypeOK
<1>6. Confirming'
  <2>1. \A u \in Requests : Judging(u)' => u # t /\ Judging(u) /\ request[u].key \in Keys
    BY <1>2, RequestFields DEF Judging, Idle
  <2> QED BY <1>1, <1>2, <1>3, <1>4, <2>1 DEF Confirming, Once, Judging
<1>7. NoBrokenRow'
  BY <1>1, <1>3, <1>4 DEF NoBrokenRow, TypeOK, Row, Once, HasRow
<1>8. NoOrphan'
  BY <1>1, <1>4 DEF NoOrphan, HasRow, TypeOK
<1>9. Removing' /\ Listing'
  BY <1>1, <1>2 DEF Removing, Locked, Listing, Listed, Scope, Deleting, Once, Cascades, Idle
<1> QED
  BY <1>1, <1>5, <1>6, <1>7, <1>8, <1>9 DEF OneRow, Placed, Once

\* A new row is the first of its key, unless the key was reused; it is late
\* or misplaced only if it is marked as exposed.
LEMMA InvConfirmRecord ==
    ASSUME Inv, TypeOK', NEW t \in Requests, ConfirmRecord(t) PROVE Inv'
<1> DEFINE k == request[t].key
           new == [id |-> nextId, key |-> k, note |-> request[t].note]
<1>1. /\ request[t].kind = "confirm"
      /\ k \in Keys /\ request[t].note \in Notes \cup {NoNote}
  BY RequestFields DEF ConfirmRecord, Inv
<1>2. /\ rows' = rows \cup {new} /\ recorded' = recorded \cup {k}
      /\ UNCHANGED <<alive, objects, queue, attempts, worker, reused>>
      /\ exposed \subseteq exposed'
  BY DEF ConfirmRecord
<1>3. request'[t] = Idle /\ \A u \in Requests : u # t => request'[u] = request[u]
  BY DEF ConfirmRecord, Inv, TypeOK
<1>4. Once(k) => k \notin recorded /\ objects[k] = "good" /\ ~HasRow(k)
  BY <1>1 DEF Inv, Confirming, Judging, OneRow, HasRow
<1>5. /\ request[t].note # NoNote /\ EntryOf[request[t].note] # Home[k] => k \in exposed'
      /\ \A u \in Requests : Deleting(u) /\ Cascades(Scope(u), new) => k \in exposed'
  BY DEF ConfirmRecord, Scope
<1> HIDE DEF k, new
<1>6. new.key = k /\ new.note = request[t].note
  BY DEF new
<1>7. OneRow'
  BY <1>2, <1>4, <1>6 DEF Inv, OneRow, Once, HasRow
<1>8. Confirming'
  <2>1. \A u \in Requests : u # t /\ Judging(u) /\ Once(request[u].key)
                               => request[u].key # k
    BY <1>1 DEF Inv, Confirming, Judging, k
  <2> QED BY <1>2, <1>3, <2>1 DEF Inv, Confirming, Once, Judging, Idle
<1>9. Doomed'
  <2>1. \A x : Dead(x) => Dead(x)'
    BY <1>2, <1>4, <1>6 DEF Dead, Once, HasRow
  <2> QED BY <1>2, <2>1 DEF Inv, Doomed, Once
<1>10. Removing'
  BY <1>2, <1>3 DEF Inv, Removing, Locked, Idle
<1>11. Listing'
  <2> SUFFICES ASSUME NEW u \in Requests, Deleting(u)'
               PROVE  /\ Listed(u)' \subseteq recorded'
                      /\ \A r \in rows' :
                           /\ r.key \in Listed(u)' /\ Once(r.key)' => Cascades(Scope(u), r)'
                           /\ Cascades(Scope(u), r)' /\ Once(r.key)' /\ r.key \notin exposed' =>
                                r.key \in Listed(u)'
    BY DEF Listing
  <2>1. u # t /\ Deleting(u) /\ Scope(u)' = Scope(u) /\ Listed(u)' = Listed(u)
    BY <1>3 DEF Deleting, Idle, Scope, Listed
  <2>2. Listed(u) \subseteq recorded
    BY <2>1 DEF Inv, Listing
  <2>3. ASSUME NEW r \in rows, Once(r.key)
        PROVE  /\ r.key \in Listed(u) => Cascades(Scope(u), r)
               /\ Cascades(Scope(u), r) /\ r.key \notin exposed => r.key \in Listed(u)
    BY <2>1, <2>3 DEF Inv, Listing
  <2>4. ASSUME Once(k) PROVE k \notin Listed(u)
    BY <2>2, <2>4, <1>4
  <2>5. Cascades(Scope(u), new) => k \in exposed'
    BY <1>5, <2>1
  <2> QED BY <1>2, <1>6, <2>1, <2>2, <2>3, <2>4, <2>5 DEF Once, Cascades
<1>12. Placed'
  BY <1>2, <1>5, <1>6 DEF Inv, Placed, Once
<1>13. NoBrokenRow'
  BY <1>2, <1>4, <1>6 DEF Inv, NoBrokenRow, Once
<1>14. NoOrphan'
  BY <1>2, <1>6 DEF Inv, NoOrphan, HasRow
<1> QED
  BY <1>7, <1>8, <1>9, <1>10, <1>11, <1>12, <1>13, <1>14 DEF Inv

\* Locking rows changes nothing but the locks.
LEMMA InvRemoveLock ==
    ASSUME Inv, TypeOK', NEW t \in Requests, NEW R \in SUBSET rows, RemoveLock(t, R)
    PROVE  Inv'
<1> USE DEF Inv, RemoveLock
<1>1. /\ request'[t] = [kind |-> "remove", rows |-> R]
      /\ \A u \in Requests : u # t => request'[u] = request[u]
  BY DEF TypeOK
<1>2. Removing'
  BY <1>1 DEF Removing, Locked
<1>3. Confirming'
  BY <1>1 DEF Confirming, Once, Judging
<1>4. Listing'
  BY <1>1 DEF Listing, Listed, Scope, Deleting, Once, Cascades
<1> QED
  BY <1>2, <1>3, <1>4
  DEF OneRow, Doomed, Dead, Once, HasRow, Placed, NoBrokenRow, NoOrphan

\* Whatever rows go, if their keys are queued and every queued key is dead,
\* what concerns rows, objects and the queue still holds.
LEMMA InvRowsGo ==
    ASSUME Inv, NEW K, rows' \subseteq rows, queue' = queue \cup K,
           UNCHANGED <<objects, worker, recorded, reused, exposed>>,
           \A k \in K : k \in recorded /\ (Once(k) => ~HasRow(k)'),
           \A r \in rows \ rows' : Once(r.key) /\ r.key \notin exposed => r.key \in K
    PROVE  OneRow' /\ Doomed' /\ Placed' /\ NoBrokenRow' /\ NoOrphan'
<1> USE DEF Inv
<1>1. \A x : HasRow(x)' => HasRow(x)
  BY DEF HasRow
<1>2. Doomed'
  BY <1>1 DEF Doomed, Dead, Once
<1>3. NoOrphan'
  BY DEF NoOrphan, HasRow, Once
<1> QED
  BY <1>2, <1>3 DEF OneRow, Placed, NoBrokenRow, Once

\* A row delete queues the keys of the rows it removes.
LEMMA InvRemoveCommit ==
    ASSUME Inv, TypeOK', NEW t \in Requests, RemoveCommit(t) PROVE Inv'
<1> DEFINE R == request[t].rows
           K == {r.key : r \in R}
<1>1. /\ rows' = rows \ R /\ queue' = queue \cup K
      /\ UNCHANGED <<objects, worker, recorded, reused, exposed>>
      /\ request[t].kind = "remove"
  BY DEF RemoveCommit, Enqueue
<1>2. request'[t] = Idle /\ \A u \in Requests : u # t => request'[u] = request[u]
  BY DEF RemoveCommit, Inv, TypeOK
<1>3. R \subseteq rows /\ \A u \in Requests : u # t => R \cap Locked(u) = {}
  BY <1>1 DEF Inv, Removing, Locked
<1> HIDE DEF R
<1>4. OneRow' /\ Doomed' /\ Placed' /\ NoBrokenRow' /\ NoOrphan'
  <2>1. \A k \in K : k \in recorded /\ (Once(k) => ~HasRow(k)')
    BY <1>1, <1>3 DEF Inv, OneRow, HasRow
  <2>2. \A r \in rows \ rows' : r.key \in K
    BY <1>1
  <2> HIDE DEF K
  <2> QED BY <1>1, <2>1, <2>2, InvRowsGo
<1>5. Removing'
  BY <1>1, <1>2, <1>3 DEF Inv, Removing, Locked, Idle
<1>6. Confirming'
  BY <1>1, <1>2 DEF Inv, Confirming, Once, Judging, Idle
<1>7. Listing'
  BY <1>1, <1>2 DEF Inv, Listing, Listed, Scope, Deleting, Once, Cascades, Idle
<1> QED BY <1>4, <1>5, <1>6, <1>7 DEF Inv

\* The query lists exactly what the cascade would take now.
LEMMA InvPurgeRead ==
    ASSUME Inv, TypeOK', NEW t \in Requests, NEW c \in Containers, PurgeRead(t, c)
    PROVE  Inv'
<1> DEFINE F == {r.key : r \in {q \in rows : Captures(c, q)}}
<1> USE DEF Inv
<1>1. /\ request'[t] = [kind |-> "read", scope |-> c, found |-> F]
      /\ \A u \in Requests : u # t => request'[u] = request[u]
      /\ UNCHANGED <<objects, rows, queue, worker, recorded, reused, exposed>>
  BY DEF PurgeRead, TypeOK
<1>2. F \subseteq recorded
  BY DEF OneRow
<1>3. ASSUME NEW r \in rows, Once(r.key)
      PROVE  /\ r.key \in F => Cascades(c, r)
             /\ Cascades(c, r) /\ r.key \notin exposed => r.key \in F
  <2>1. r \in Row /\ (r.key \notin exposed =>
                         r.note = NoNote \/ EntryOf[r.note] = Home[r.key])
    BY <1>3 DEF TypeOK, Placed
  <2>2. ASSUME r.key \in F PROVE Cascades(c, r)
    <3>1. PICK q \in rows : Captures(c, q) /\ q.key = r.key
      BY <2>2
    <3>2. q = r
      BY <3>1, <1>3 DEF OneRow
    <3> QED BY <3>1, <3>2, <2>1, CapturedIsCascaded
  <2>3. ASSUME Cascades(c, r), r.key \notin exposed PROVE r.key \in F
    BY <2>1, <2>3, CascadedIsCaptured
  <2> QED BY <2>2, <2>3
<1> HIDE DEF F
<1>4. Listing'
  BY <1>1, <1>2, <1>3 DEF Listing, Listed, Scope, Deleting, Once, Cascades
<1>5. Removing'
  BY <1>1 DEF Removing, Locked
<1>6. Confirming'
  BY <1>1 DEF Confirming, Once, Judging
<1> QED
  BY <1>1, <1>4, <1>5, <1>6
  DEF OneRow, Doomed, Dead, Once, HasRow, Placed, NoBrokenRow, NoOrphan

\* A key found with its row still there is not yet queued, so it is added.
LEMMA InvPurgeQueue ==
    ASSUME Inv, TypeOK', NEW t \in Requests, PurgeQueue(t) PROVE Inv'
<1> DEFINE A == request[t].found \ queue
           c == request[t].scope
<1> USE DEF Inv
<1>1. /\ request[t].kind = "read"
      /\ request'[t] = [kind |-> "purge", scope |-> c, added |-> A]
      /\ \A u \in Requests : u # t => request'[u] = request[u]
      /\ UNCHANGED <<objects, rows, queue, worker, recorded, reused, exposed>>
  BY DEF PurgeQueue, TypeOK
<1>2. A \subseteq recorded
  BY <1>1 DEF Listing, Listed, Deleting
<1>3. ASSUME NEW r \in rows, Once(r.key)
      PROVE  /\ r.key \in A => Cascades(c, r)
             /\ Cascades(c, r) /\ r.key \notin exposed => r.key \in A
  <2>1. r.key \notin queue
    BY <1>3 DEF Doomed, Dead, HasRow
  <2>2. Deleting(t) /\ Scope(t) = c /\ Listed(t) = request[t].found
    BY <1>1 DEF Deleting, Scope, Listed
  <2> QED BY <1>3, <2>1, <2>2 DEF Listing
<1> HIDE DEF A, c
<1>4. Listing'
  BY <1>1, <1>2, <1>3 DEF Listing, Listed, Scope, Deleting, Once, Cascades
<1>5. Removing'
  BY <1>1 DEF Removing, Locked
<1>6. Confirming'
  BY <1>1 DEF Confirming, Once, Judging
<1> QED
  BY <1>1, <1>4, <1>5, <1>6
  DEF OneRow, Doomed, Dead, Once, HasRow, Placed, NoBrokenRow, NoOrphan

\* The cascade takes only listed rows, late and misplaced ones apart, and
\* every listed key is queued with it.
LEMMA InvPurgeCommit ==
    ASSUME Inv, TypeOK', NEW t \in Requests, PurgeCommit(t) PROVE Inv'
<1> DEFINE K == request[t].added
           c == request[t].scope
<1>1. /\ request[t].kind = "purge"
      /\ rows' = {r \in rows : ~Cascades(c, r)} /\ queue' = queue \cup K
      /\ UNCHANGED <<objects, worker, recorded, reused, exposed>>
      /\ \A u \in Requests : \A r \in Locked(u) : ~Cascades(c, r)
  BY DEF PurgeCommit, Enqueue
<1>2. request'[t] = Idle /\ \A u \in Requests : u # t => request'[u] = request[u]
  BY DEF PurgeCommit, Inv, TypeOK
<1>3. Deleting(t) /\ Listed(t) = K /\ Scope(t) = c
  BY <1>1 DEF Deleting, Listed, Scope
<1>4. OneRow' /\ Doomed' /\ Placed' /\ NoBrokenRow' /\ NoOrphan'
  <2>1. \A k \in K : k \in recorded /\ (Once(k) => ~HasRow(k)')
    BY <1>1, <1>3 DEF Inv, Listing, HasRow
  <2>2. \A r \in rows \ rows' : Once(r.key) /\ r.key \notin exposed => r.key \in K
    BY <1>1, <1>3 DEF Inv, Listing
  <2> HIDE DEF K, c
  <2>3. rows' \subseteq rows
    BY <1>1
  <2> QED BY <1>1, <2>1, <2>2, <2>3, InvRowsGo
<1>5. Removing'
  BY <1>1, <1>2 DEF Inv, Removing, Locked, Idle
<1>6. Confirming'
  BY <1>1, <1>2 DEF Inv, Confirming, Once, Judging, Idle
<1>7. Listing'
  BY <1>1, <1>2 DEF Inv, Listing, Listed, Scope, Deleting, Once, Cascades, Idle
<1> QED BY <1>4, <1>5, <1>6, <1>7 DEF Inv

\* A rollback forgets only the request.
LEMMA InvAbort ==
    ASSUME Inv, TypeOK', NEW t \in Requests, Abort(t) PROVE Inv'
<1> USE DEF Inv, Abort
<1>1. request'[t] = Idle /\ \A u \in Requests : u # t => request'[u] = request[u]
  BY DEF TypeOK
<1>2. Listing'
  BY <1>1 DEF Listing, Listed, Scope, Deleting, Once, Cascades, Idle
<1>3. Removing'
  BY <1>1 DEF Removing, Locked, Idle
<1>4. Confirming'
  BY <1>1 DEF Confirming, Once, Judging, Idle
<1> QED
  BY <1>2, <1>3, <1>4
  DEF OneRow, Doomed, Dead, Once, HasRow, Placed, NoBrokenRow, NoOrphan

\* A sweeper takes, deletes and settles only dead keys, killed or not.
LEMMA InvWorkerStep ==
    ASSUME Inv, TypeOK', NEW w \in Workers, WorkerStep(w) PROVE Inv'
<1> USE DEF Inv
<1>1. UNCHANGED <<rows, request, recorded, reused, exposed>>
  BY DEF WorkerStep, Fetch, DeleteObject, Settle, AbortPass
<1>2. OneRow' /\ Removing' /\ Listing' /\ Placed'
  BY <1>1 DEF OneRow, Removing, Locked, Listing, Listed, Scope, Deleting, Placed, Once, Cascades
<1>3. \A x : Dead(x) <=> Dead(x)'
  BY <1>1 DEF Dead, Once, HasRow
<1>4. Confirming' /\ Doomed' /\ NoBrokenRow' /\ NoOrphan'
  <2>1. CASE Fetch(w)
    <3>1. /\ worker' = [worker EXCEPT ![w] = [@ EXCEPT !.todo = worker'[w].todo]]
          /\ worker'[w].todo \subseteq queue
          /\ UNCHANGED <<objects, queue>>
      BY <2>1 DEF Fetch, Offered, TypeOK
    <3>2. Doomed'
      BY <1>1, <1>3, <2>1 DEF Fetch, Offered, Doomed, Once, TypeOK
    <3> QED BY <1>1, <3>1, <3>2 DEF Confirming, Judging, NoBrokenRow, NoOrphan, Once, HasRow
  <2>2. CASE DeleteObject(w)
    <3>1. PICK k \in worker[w].todo :
            /\ \/ objects' = [objects EXCEPT ![k] = "none"]
                  /\ worker' = [worker EXCEPT ![w].key = k, ![w].outcome = "gone"]
               \/ UNCHANGED objects
                  /\ worker' = [worker EXCEPT ![w].key = k, ![w].outcome = "error"]
            /\ UNCHANGED queue
      BY <2>2 DEF DeleteObject
    <3>2. Dead(k) /\ k \in Keys
      BY DEF Doomed, TypeOK
    <3>3. \A x \in Keys : objects'[x] = objects[x] \/ (x = k /\ objects'[x] = "none")
      BY <3>1 DEF TypeOK
    <3>4. Doomed'
      <4>1. \A v \in Workers \ {w} : worker'[v] = worker[v]
        BY <3>1 DEF TypeOK
      <4>2. worker'[w].todo = worker[w].todo /\ worker'[w].key = k
        BY <3>1 DEF TypeOK
      <4>3. worker'[w].outcome = "gone" => objects'[k] = "none"
        BY <3>1, <3>2 DEF TypeOK
      <4>4. \A v \in Workers : worker[v].outcome = "gone" => worker[v].key \in Keys
        BY DEF Doomed, TypeOK
      <4>5. \A v \in Workers :
              worker'[v].outcome = "gone" /\ Once(worker[v].key)'
                  => objects'[worker'[v].key] = "none"
        BY <1>1, <3>3, <4>1, <4>2, <4>3, <4>4 DEF Doomed, Once
      <4>6. \A v \in Workers :
              /\ \A x \in worker'[v].todo : Dead(x)'
              /\ worker'[v].outcome # "none" => worker'[v].key \in worker'[v].todo
        <5> TAKE v \in Workers
        <5>1. CASE v = w
          BY <1>3, <3>1, <4>2, <5>1 DEF Doomed
        <5>2. CASE v # w
          BY <1>3, <4>1, <5>2 DEF Doomed
        <5> QED BY <5>1, <5>2
      <4>7. \A x \in queue' : Dead(x)'
        BY <1>3, <3>1 DEF Doomed
      <4> QED BY <4>5, <4>6, <4>7 DEF Doomed
    <3>5. Confirming'
      BY <1>1, <3>2, <3>3, RequestFields DEF Confirming, Once, Judging, Dead
    <3>6. NoBrokenRow'
      BY <1>1, <3>2, <3>3 DEF NoBrokenRow, Once, Dead, HasRow, TypeOK, Row
    <3>7. NoOrphan'
      BY <1>1, <3>1, <3>3 DEF NoOrphan, HasRow, TypeOK
    <3> QED BY <3>4, <3>5, <3>6, <3>7
  <2>3. CASE Settle(w)
    <3>1. /\ UNCHANGED objects
          /\ queue' \subseteq queue
          /\ \A k \in queue \ queue' : k = worker[w].key /\ worker[w].outcome = "gone"
          /\ worker' = [worker EXCEPT ![w] =
                [todo |-> @.todo \ {worker[w].key}, key |-> NoKey, outcome |-> "none"]]
      BY <2>3 DEF Settle
    <3>2. Doomed'
      BY <1>1, <1>3, <3>1 DEF Doomed, Once, TypeOK
    <3>3. NoOrphan'
      BY <1>1, <3>1 DEF NoOrphan, HasRow, Doomed, Once
    <3> QED BY <1>1, <3>1, <3>2, <3>3 DEF Confirming, Judging, NoBrokenRow, Once
  <2>4. CASE AbortPass(w)
    <3>1. Doomed'
      BY <1>1, <1>3, <2>4 DEF AbortPass, Doomed, Once, Resting, TypeOK
    <3> QED BY <1>1, <2>4, <3>1 DEF AbortPass, Confirming, Judging, NoBrokenRow, NoOrphan, Once, HasRow
  <2> QED BY <2>1, <2>2, <2>3, <2>4 DEF WorkerStep
<1> QED BY <1>2, <1>4

LEMMA InvStutter == Inv /\ UNCHANGED vars => Inv'
BY DEF Inv, vars, TypeOK, OneRow, Confirming, Judging, Doomed, Dead, Removing, Locked, Listing,
   Listed, Scope, Deleting, Placed, NoBrokenRow, NoOrphan, HasRow, Once, Cascades

THEOREM Invariance == Spec => []Inv
<1>1. Init => Inv
  BY InvInit
<1>2. Inv /\ TypeOK' /\ [Next]_vars => Inv'
  <2> SUFFICES ASSUME Inv, TypeOK', [Next]_vars PROVE Inv'
    OBVIOUS
  <2>1. CASE \E k \in Keys : Upload(k)
    BY <2>1, InvUpload
  <2>2. ASSUME NEW t \in Requests, RequestStep(t) PROVE Inv'
    BY <2>2, InvConfirmVerify, InvConfirmReject, InvConfirmDiscard, InvConfirmRecord, InvRemoveLock, InvRemoveCommit,
       InvPurgeRead, InvPurgeQueue, InvPurgeCommit, InvAbort DEF RequestStep
  <2>3. CASE \E w \in Workers : WorkerStep(w)
    BY <2>3, InvWorkerStep
  <2>4. CASE UNCHANGED vars
    BY <2>4, InvStutter
  <2> QED BY <2>1, <2>2, <2>3, <2>4 DEF Next
<1> QED
  BY <1>1, <1>2, TypeCorrect, PTL DEF Spec

\* A recorded object always has an owner: a row, the deletion queue, or
\* nobody because it is gone (delete, delete_many, media_queue.rs).
THEOREM NeverOrphaned == Spec => []NoOrphan
<1>1. Inv => NoOrphan
  BY DEF Inv
<1> QED BY <1>1, Invariance, PTL

\* A row of a key used once shows a file that is there and passed verify.
THEOREM NeverBroken == Spec => []NoBrokenRow
<1>1. Inv => NoBrokenRow
  BY DEF Inv
<1> QED BY <1>1, Invariance, PTL

-----------------------------------------------------------------------------
(* MediaLifecycle implements FileLifecycle. *)

\* With no orphans, what the bucket holds does not bear on the phase.
Standing(k) ==
    IF k \in reused \cup exposed THEN "stray"
    ELSE IF k \notin recorded THEN "new"
    ELSE IF HasRow(k) THEN "kept"
    ELSE IF k \in queue THEN "condemned"
    ELSE "gone"

LEMMA PhaseIsStanding ==
    ASSUME NoOrphan, NEW k \in Keys
    PROVE  Phase(k) = Standing(k)
BY DEF NoOrphan, Phase, Standing

Phases == [k \in Keys |-> Phase(k)]

\* How a step of one key, or of a set of keys, maps to a step of FileLifecycle.
LEMMA StepOfOne ==
    ASSUME NEW k \in Keys, \A x \in Keys \ {k} : Phase(x)' = Phase(x),
           \/ Phase(k)' = Phase(k)
           \/ Phase(k)' = "stray"
           \/ Phase(k) = "new" /\ Phase(k)' = "kept"
           \/ Phase(k) = "condemned" /\ Phase(k)' = "gone"
    PROVE  File!Next \/ UNCHANGED Phases
<1>1. CASE Phase(k)' = Phase(k)
  <2>1. \A x \in Keys : Phase(x)' = Phase(x)
    BY <1>1
  <2> QED BY <2>1 DEF Phases
<1>2. CASE Phase(k)' = "stray"
  <2>1. \A x \in Keys : Phase(x)' = IF x = k THEN "stray" ELSE Phase(x)
    BY <1>2
  <2>2. File!Stray(k)
    BY <1>2, <2>1 DEF File!Stray
  <2> QED BY <2>2 DEF File!Next
<1>3. CASE Phase(k) = "new" /\ Phase(k)' = "kept"
  <2>1. \A x \in Keys : Phase(x)' = IF x = k THEN "kept" ELSE Phase(x)
    BY <1>3
  <2>2. File!Record(k)
    BY <1>3, <2>1 DEF File!Record
  <2> QED BY <2>2 DEF File!Next
<1>4. CASE Phase(k) = "condemned" /\ Phase(k)' = "gone"
  <2>1. \A x \in Keys : Phase(x)' = IF x = k THEN "gone" ELSE Phase(x)
    BY <1>4
  <2>2. File!Sweep(k)
    BY <1>4, <2>1 DEF File!Sweep
  <2> QED BY <2>2 DEF File!Next
<1> QED BY <1>1, <1>2, <1>3, <1>4

LEMMA StepOfMany ==
    ASSUME NEW F \in SUBSET Keys, \A x \in Keys \ F : Phase(x)' = Phase(x),
           \A k \in F : Phase(k) \in {"kept", "gone", "condemned"} /\ Phase(k)' = "condemned"
    PROVE  File!Next
<1>1. File!Condemn(F)
  BY DEF File!Condemn
<1> QED BY <1>1 DEF File!Next

LEMMA StepOfNone ==
    ASSUME Inv, Inv', UNCHANGED <<rows, queue, recorded, reused, exposed>>
    PROVE  UNCHANGED Phases
<1>1. \A k \in Keys : Phase(k)' = Phase(k)
  <2> SUFFICES ASSUME NEW k \in Keys PROVE Phase(k)' = Phase(k)
    OBVIOUS
  <2>1. Standing(k)' = Standing(k)
    BY DEF Standing, HasRow
  <2> QED BY <2>1, PhaseIsStanding DEF Inv, NoOrphan, Phase, Standing
<1> QED BY <1>1 DEF Phases

\* A step that moves no phase but that of keys it strays.
LEMMA StepOfReuse ==
    ASSUME Inv, Inv', NEW k \in Keys,
           UNCHANGED <<rows, queue, recorded, exposed>>,
           reused' \in {reused, reused \cup {k}}
    PROVE  File!Next \/ UNCHANGED Phases
<1>1. \A x \in Keys \ {k} : Standing(x)' = Standing(x)
  BY DEF Standing, HasRow
<1>2. Standing(k)' = Standing(k) \/ Standing(k)' = "stray"
  BY DEF Standing, HasRow
<1>3. \A x \in Keys : Phase(x) = Standing(x) /\ Phase(x)' = Standing(x)'
  BY PhaseIsStanding DEF Inv, NoOrphan, Phase, Standing
<1> QED BY <1>1, <1>2, <1>3, StepOfOne

\* A step that removes rows and queues keys condemns those keys.
LEMMA StepOfDelete ==
    ASSUME Inv, Inv', NEW K \in SUBSET Keys, rows' \subseteq rows, queue' = queue \cup K,
           UNCHANGED <<recorded, reused, exposed>>,
           \A k \in K : k \in recorded,
           \A r \in rows \ rows' : Once(r.key) /\ r.key \notin exposed => r.key \in K
    PROVE  File!Next
<1> DEFINE F == {k \in K : k \notin reused \cup exposed}
<1>1. \A x \in Keys : Phase(x) = Standing(x) /\ Phase(x)' = Standing(x)'
  BY PhaseIsStanding DEF Inv, NoOrphan, Phase, Standing
<1>2. ASSUME NEW x \in Keys \ F PROVE Standing(x)' = Standing(x)
  <2>1. CASE x \in reused \cup exposed
    BY <2>1 DEF Standing
  <2>2. CASE x \notin reused \cup exposed
    <3>1. x \notin K
      BY <2>2
    <3>2. HasRow(x)' <=> HasRow(x)
      BY <3>1, <2>2 DEF HasRow, Once
    <3> QED BY <3>1, <3>2 DEF Standing
  <2> QED BY <2>1, <2>2
<1>3. ASSUME NEW k \in F
      PROVE  Standing(k) \in {"kept", "gone", "condemned"} /\ Standing(k)' = "condemned"
  <2>1. k \in queue' /\ k \in recorded' /\ Once(k)'
    BY DEF Once
  <2>2. ~HasRow(k)'
    BY <2>1 DEF Inv, Doomed, Dead, Once, HasRow
  <2> QED BY <2>1, <2>2 DEF Standing
<1> QED
  BY <1>1, <1>2, <1>3, StepOfMany

LEMMA StepOfRequest ==
    ASSUME Inv, Inv', NEW t \in Requests, RequestStep(t)
    PROVE  File!Next \/ UNCHANGED Phases
<1>1. ASSUME NEW k \in Keys, NEW n \in Notes \cup {NoNote}, ConfirmVerify(t, k, n)
      PROVE  File!Next \/ UNCHANGED Phases
  BY <1>1, StepOfReuse DEF ConfirmVerify
<1>8. ASSUME NEW k \in Keys, ConfirmReject(t, k)
      PROVE  File!Next \/ UNCHANGED Phases
  BY <1>8, StepOfReuse DEF ConfirmReject
<1>9. CASE ConfirmDiscard(t)
  BY <1>9, StepOfNone DEF ConfirmDiscard
<1>2. CASE ConfirmRecord(t)
  <2>0. PICK k \in Keys : k = request[t].key
    BY <1>2, RequestFields DEF ConfirmRecord, Inv
  <2>1. /\ request[t].kind = "confirm"
        /\ \E r : r.key = k /\ rows' = rows \cup {r}
        /\ recorded' = recorded \cup {k}
        /\ exposed' \in {exposed, exposed \cup {k}}
        /\ UNCHANGED <<queue, reused>>
    <3> DEFINE r == [id |-> nextId, key |-> request[t].key, note |-> request[t].note]
    <3>1. r.key = k /\ rows' = rows \cup {r}
      BY <1>2, <2>0 DEF ConfirmRecord
    <3> HIDE DEF r
    <3> QED BY <1>2, <2>0, <3>1 DEF ConfirmRecord
  <2>2. Once(k) => k \notin recorded
    BY <2>0, <2>1 DEF Inv, Confirming, Judging
  <2>3. \A x \in Keys \ {k} : Standing(x)' = Standing(x)
    BY <2>1 DEF Standing, HasRow
  <2>4. HasRow(k)'
    BY <2>1 DEF HasRow
  <2>5. \/ Standing(k)' = Standing(k) \/ Standing(k)' = "stray"
        \/ Standing(k) = "new" /\ Standing(k)' = "kept"
    BY <2>1, <2>2, <2>4 DEF Standing, Once
  <2>6. \A x \in Keys : Phase(x) = Standing(x) /\ Phase(x)' = Standing(x)'
    BY PhaseIsStanding DEF Inv, NoOrphan, Phase, Standing
  <2> QED BY <2>1, <2>3, <2>5, <2>6, StepOfOne
<1>3. CASE RemoveCommit(t)
  <2> DEFINE K == {r.key : r \in request[t].rows}
  <2>1. /\ rows' = rows \ request[t].rows /\ queue' = queue \cup K
        /\ UNCHANGED <<recorded, reused, exposed>>
        /\ request[t].kind = "remove"
    BY <1>3 DEF RemoveCommit, Enqueue
  <2>2. request[t].rows \subseteq rows
    BY <2>1 DEF Inv, Removing, Locked
  <2>3. /\ K \subseteq Keys /\ \A k \in K : k \in recorded
        /\ \A r \in rows \ rows' : r.key \in K
    BY <2>1, <2>2 DEF Inv, OneRow, TypeOK, Row
  <2>4. rows' \subseteq rows
    BY <2>1
  <2> HIDE DEF K
  <2> QED BY <2>1, <2>3, <2>4, StepOfDelete
<1>4. CASE PurgeCommit(t)
  <2> DEFINE K == request[t].added
             c == request[t].scope
  <2>1. /\ rows' = {r \in rows : ~Cascades(c, r)} /\ queue' = queue \cup K
        /\ UNCHANGED <<recorded, reused, exposed>>
        /\ request[t].kind = "purge" /\ K \subseteq Keys
    BY <1>4, RequestFields DEF PurgeCommit, Enqueue, Inv
  <2>2. Deleting(t) /\ Listed(t) = K /\ Scope(t) = c
    BY <2>1 DEF Deleting, Listed, Scope
  <2>3. /\ \A k \in K : k \in recorded
        /\ \A r \in rows \ rows' : Once(r.key) /\ r.key \notin exposed => r.key \in K
    BY <2>1, <2>2 DEF Inv, Listing
  <2>4. rows' \subseteq rows
    BY <2>1
  <2> HIDE DEF K, c
  <2> QED BY <2>1, <2>3, <2>4, StepOfDelete
<1>5. ASSUME NEW R \in SUBSET rows, RemoveLock(t, R) PROVE UNCHANGED Phases
  BY <1>5, StepOfNone DEF RemoveLock
<1>6. ASSUME NEW c \in Containers, PurgeRead(t, c) PROVE UNCHANGED Phases
  BY <1>6, StepOfNone DEF PurgeRead
<1>7. CASE PurgeQueue(t) \/ Abort(t)
  BY <1>7, StepOfNone DEF PurgeQueue, Abort
<1> QED BY <1>1, <1>2, <1>3, <1>4, <1>5, <1>6, <1>7, <1>8, <1>9 DEF RequestStep

LEMMA StepOfWorker ==
    ASSUME Inv, Inv', NEW w \in Workers, WorkerStep(w)
    PROVE  File!Next \/ UNCHANGED Phases
<1>1. CASE Fetch(w) \/ DeleteObject(w) \/ AbortPass(w)
  BY <1>1, StepOfNone DEF Fetch, DeleteObject, AbortPass
<1>2. CASE Settle(w)
  <2>1. /\ UNCHANGED <<rows, recorded, reused, exposed>>
        /\ \/ queue' = queue
           \/ worker[w].outcome = "gone" /\ queue' = queue \ {worker[w].key}
    BY <1>2 DEF Settle
  <2>2. CASE queue' = queue
    BY <2>1, <2>2, StepOfNone
  <2>3. CASE worker[w].outcome = "gone" /\ queue' = queue \ {worker[w].key}
    <3>1. PICK k \in Keys : k = worker[w].key /\ Dead(k)
      BY <2>3 DEF Inv, Doomed, TypeOK
    <3>2. \A x \in Keys \ {k} : Standing(x)' = Standing(x)
      BY <2>1, <2>3, <3>1 DEF Standing, HasRow
    <3>3. \/ Standing(k)' = Standing(k)
          \/ Standing(k) = "condemned" /\ Standing(k)' = "gone"
      BY <2>1, <2>3, <3>1 DEF Standing, HasRow, Dead, Once
    <3>4. \A x \in Keys : Phase(x) = Standing(x) /\ Phase(x)' = Standing(x)'
      BY PhaseIsStanding DEF Inv, NoOrphan, Phase, Standing
    <3> QED BY <3>1, <3>2, <3>3, <3>4, StepOfOne
  <2> QED BY <2>1, <2>2, <2>3
<1> QED BY <1>1, <1>2 DEF WorkerStep

-----------------------------------------------------------------------------
(* The attempts of a key.  A worker that has a key in its batch may still    *)
(* charge it one failure: the failures charged and those to come stay under  *)
(* the cap and the number of workers.                                        *)
Holding(k) == {w \in Workers : k \in worker[w].todo}

Charged ==
    \A k \in Keys : attempts[k] + Cardinality(Holding(k)) < MaxAttempts + Cardinality(Workers)

\* The workers that hold a key can be counted, and no more than all hold it.
LEMMA HoldersCounted ==
    \A k : /\ IsFiniteSet(Holding(k)) /\ Cardinality(Holding(k)) \in Nat
           /\ Cardinality(Workers) \in Nat
           /\ Cardinality(Holding(k)) <= Cardinality(Workers)
<1> SUFFICES ASSUME NEW k
             PROVE  /\ IsFiniteSet(Holding(k)) /\ Cardinality(Holding(k)) \in Nat
                    /\ Cardinality(Workers) \in Nat
                    /\ Cardinality(Holding(k)) <= Cardinality(Workers)
  OBVIOUS
<1>1. Holding(k) \in SUBSET Workers
  BY DEF Holding
<1> QED BY <1>1, SweeperAssumption, FS_Subset, FS_CardinalityType

\* A key that gains neither a failure nor a holder stays within its bound.
LEMMA NotCharged ==
    ASSUME TypeOK, TypeOK', Charged, NEW k \in Keys,
           attempts'[k] <= attempts[k], Holding(k)' \subseteq Holding(k)
    PROVE  attempts'[k] + Cardinality(Holding(k)') < MaxAttempts + Cardinality(Workers)
<1>1. Cardinality(Holding(k)') <= Cardinality(Holding(k)) /\ Cardinality(Holding(k)') \in Nat
  BY HoldersCounted, FS_Subset, FS_CardinalityType
<1>2. attempts[k] \in Nat /\ attempts'[k] \in Nat
  BY DEF TypeOK
<1> QED BY <1>1, <1>2, HoldersCounted, SweeperAssumption DEF Charged

\* A worker charges a failure to a key of its batch and strikes it off.
LEMMA ChargedByWorker ==
    ASSUME TypeOK, TypeOK', Doomed, Charged, NEW w \in Workers, WorkerStep(w),
           NEW k \in Keys
    PROVE  attempts'[k] + Cardinality(Holding(k)') < MaxAttempts + Cardinality(Workers)
<1>1. CASE Fetch(w)
  <2>1. attempts'[k] = attempts[k] /\ attempts[k] \in Nat
    BY <1>1 DEF Fetch, TypeOK
  <2>2. CASE k \in worker'[w].todo
    <3>1. attempts[k] < MaxAttempts
      BY <1>1, <2>2 DEF Fetch, Offered, TypeOK
    <3>2. Cardinality(Holding(k)') <= Cardinality(Workers) /\ Cardinality(Holding(k)') \in Nat
      <4>1. Holding(k)' \in SUBSET Workers
        BY DEF Holding
      <4> QED BY <4>1, SweeperAssumption, FS_Subset, FS_CardinalityType
    <3>3. Cardinality(Workers) \in Nat /\ MaxAttempts \in Nat
      BY SweeperAssumption, FS_CardinalityType
    <3> QED BY <2>1, <3>1, <3>2, <3>3
  <2>3. CASE k \notin worker'[w].todo
    <3>1. Holding(k)' \subseteq Holding(k)
      BY <1>1, <2>3 DEF Fetch, Holding, TypeOK
    <3> QED BY <2>1, <3>1, NotCharged
  <2> QED BY <2>2, <2>3
<1>2. CASE DeleteObject(w)
  <2>1. attempts'[k] = attempts[k] /\ attempts[k] \in Nat
    BY <1>2 DEF DeleteObject, TypeOK
  <2>2. Holding(k)' \subseteq Holding(k)
    BY <1>2 DEF DeleteObject, Holding, TypeOK
  <2> QED BY <2>1, <2>2, NotCharged
<1>3. CASE Settle(w)
  <2>1. worker' = [worker EXCEPT ![w] =
            [todo |-> @.todo \ {worker[w].key}, key |-> NoKey, outcome |-> "none"]]
    BY <1>3 DEF Settle
  <2>2. Holding(k)' \subseteq Holding(k)
    BY <2>1 DEF Holding, TypeOK
  <2>3. CASE k # worker[w].key \/ worker[w].outcome = "gone" \/ k \notin queue
    <3>1. attempts'[k] <= attempts[k]
      BY <1>3, <2>3 DEF Settle, TypeOK
    <3> QED BY <2>2, <3>1, NotCharged
  <2>4. CASE k = worker[w].key /\ worker[w].outcome = "error" /\ k \in queue
    <3>1. attempts'[k] = attempts[k] + 1 /\ attempts[k] \in Nat
      BY <1>3, <2>4 DEF Settle, TypeOK
    <3>2. w \in Holding(k)
      BY <2>4 DEF Doomed, Holding
    <3>3. Holding(k)' = Holding(k) \ {w}
      BY <2>1, <2>4 DEF Holding, TypeOK
    <3>4. Cardinality(Holding(k)') = Cardinality(Holding(k)) - 1
      BY <3>2, <3>3, HoldersCounted, FS_RemoveElement
    <3> QED BY <3>1, <3>4, HoldersCounted, SweeperAssumption DEF Charged
  <2> QED BY <1>3, <2>3, <2>4 DEF Settle
<1>4. CASE AbortPass(w)
  <2>1. attempts'[k] = attempts[k] /\ attempts[k] \in Nat
    BY <1>4 DEF AbortPass, TypeOK
  <2>2. Holding(k)' \subseteq Holding(k)
    BY <1>4 DEF AbortPass, Holding, Resting, TypeOK
  <2> QED BY <2>1, <2>2, NotCharged
<1> QED BY <1>1, <1>2, <1>3, <1>4 DEF WorkerStep

\* No request counts a failure: it leaves the attempts alone, or queues a key
\* anew with none.
LEMMA RequestsChargeNothing ==
    ASSUME TypeOK,
           \/ \E k \in Keys : Upload(k)
           \/ \E t \in Requests : RequestStep(t)
           \/ UNCHANGED vars
    PROVE  worker' = worker /\ \A k \in Keys : attempts'[k] <= attempts[k]
<1>1. ASSUME NEW K, Enqueue(K) PROVE \A k \in Keys : attempts'[k] <= attempts[k]
  BY <1>1 DEF Enqueue, TypeOK
<1>2. CASE \E k \in Keys : Upload(k)
  BY <1>2 DEF Upload, TypeOK
<1>3. ASSUME NEW t \in Requests, RequestStep(t)
      PROVE  worker' = worker /\ \A k \in Keys : attempts'[k] <= attempts[k]
  <2>1. CASE RemoveCommit(t) \/ PurgeCommit(t)
    BY <1>1, <2>1 DEF RemoveCommit, PurgeCommit
  <2>2. CASE attempts' = attempts /\ worker' = worker
    BY <2>2 DEF TypeOK
  <2>3. RemoveCommit(t) \/ PurgeCommit(t) \/ (attempts' = attempts /\ worker' = worker)
    BY <1>3 DEF RequestStep, ConfirmVerify, ConfirmReject, ConfirmDiscard, ConfirmRecord,
                RemoveLock, PurgeRead, PurgeQueue, Abort
  <2> QED BY <2>1, <2>2, <2>3
<1>4. CASE UNCHANGED vars
  BY <1>4 DEF vars, TypeOK
<1> QED BY <1>2, <1>3, <1>4

\* A key that keeps failing is charged at most the cap and one failure for
\* every other worker that had it in its batch (pending_deletions,
\* mark_deletion_failed).
THEOREM FailuresBounded == Spec => []AttemptsBounded
<1>1. Init => Charged
  <2> SUFFICES ASSUME Init, NEW k \in Keys
               PROVE  attempts[k] + Cardinality(Holding(k)) < MaxAttempts + Cardinality(Workers)
    BY DEF Charged
  <2>1. attempts[k] = 0
    BY DEF Init
  <2> QED BY <2>1, HoldersCounted, SweeperAssumption
<1>2. Charged /\ Inv /\ TypeOK' /\ [Next]_vars => Charged'
  <2> SUFFICES ASSUME Charged, Inv, TypeOK', [Next]_vars, NEW k \in Keys
               PROVE  attempts'[k] + Cardinality(Holding(k)') < MaxAttempts + Cardinality(Workers)
    BY DEF Charged
  <2>1. TypeOK /\ Doomed
    BY DEF Inv
  <2>2. CASE \E w \in Workers : WorkerStep(w)
    BY <2>1, <2>2, ChargedByWorker
  <2>3. CASE worker' = worker /\ \A x \in Keys : attempts'[x] <= attempts[x]
    <3>1. Holding(k)' \subseteq Holding(k)
      BY <2>3 DEF Holding
    <3> QED BY <2>1, <2>3, <3>1, NotCharged
  <2> QED BY <2>1, <2>2, <2>3, RequestsChargeNothing DEF Next
<1>3. TypeOK /\ Charged => AttemptsBounded
  <2> SUFFICES ASSUME TypeOK, Charged, NEW k \in Keys
               PROVE  attempts[k] < MaxAttempts + Cardinality(Workers)
    BY DEF AttemptsBounded
  <2>1. attempts[k] \in Nat /\ MaxAttempts \in Nat
    BY SweeperAssumption DEF TypeOK
  <2> QED BY <2>1, HoldersCounted DEF Charged
<1> QED
  BY <1>1, <1>2, <1>3, Invariance, TypeCorrect, PTL DEF Spec

\* Every behaviour of the media subsystem, races and crashes included, takes
\* each file through the life FileLifecycle describes.
THEOREM Refinement == Spec => ImplementsFileLifecycle
<1>1. Init => File!Init
  BY DEF Init, File!Init, Phase
<1>2. Inv /\ Inv' /\ [Next]_vars => File!Next \/ UNCHANGED Phases
  <2> SUFFICES ASSUME Inv, Inv', [Next]_vars PROVE File!Next \/ UNCHANGED Phases
    OBVIOUS
  <2>1. ASSUME NEW k \in Keys, Upload(k) PROVE File!Next \/ UNCHANGED Phases
    BY <2>1, StepOfReuse DEF Upload
  <2>3. CASE UNCHANGED vars
    BY <2>3, StepOfNone DEF vars
  <2> QED BY <2>1, <2>3, StepOfRequest, StepOfWorker DEF Next
<1>3. Inv /\ Inv' /\ [Next]_vars => [File!Next]_[k \in Keys |-> Phase(k)]
  BY <1>2 DEF Phases
<1> QED
  BY <1>1, <1>3, Invariance, PTL DEF ImplementsFileLifecycle, Spec, File!Spec

=============================================================================
