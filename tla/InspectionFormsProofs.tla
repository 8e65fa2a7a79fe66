------------------------- MODULE InspectionFormsProofs -------------------------
(***************************************************************************)
(* Theorems about InspectionForms, for any client keys, stored names,       *)
(* requests and bounds.                                                     *)
(***************************************************************************)
EXTENDS InspectionForms, TLAPS

-----------------------------------------------------------------------------
(* Types *)

\* What ActionStatus returns is a status, and it depends on the rows it is
\* given alone.
LEMMA ActionStatusType ==
    ASSUME NEW c, NEW S
    PROVE  ActionStatus(c, S) \in {"none", "action", "completed"}
BY DEF ActionStatus

LEMMA ActionStatusLocal ==
    ASSUME NEW c, NEW S, NEW T, \A i \in DOMAIN c : i \in S <=> i \in T
    PROVE  ActionStatus(c, S) = ActionStatus(c, T)
<1>1. {i \in DOMAIN c : c[i].text \/ i \in S} = {i \in DOMAIN c : c[i].text \/ i \in T}
  OBVIOUS
<1> QED
  BY <1>1 DEF ActionStatus

LEMMA NoItemsType == NoItems \in Checklist /\ DOMAIN NoItems = {}
<1>1. NoItems \in [{} -> Rows] /\ DOMAIN NoItems = {}
  BY DEF NoItems
<1> QED
  BY <1>1 DEF Checklist

\* Whatever a request turns into, the others are as they were.
LEMMA BecomesType ==
    ASSUME TypeOK, NEW t \in Requests, NEW r \in Pending, Becomes(t, r)
    PROVE  request' \in [Requests -> Pending]
BY DEF TypeOK, Becomes

LEMMA IdleType == Idle \in Pending
BY DEF Pending

\* What an attach in hand is.
LEMMA AttachType ==
    ASSUME TypeOK, NEW t \in Requests, request[t].kind \in {"attach", "verified"}
    PROVE  /\ request[t] \in [kind : {"attach", "verified"}, revision : Revisions,
                              item : Items, names : SUBSET Names]
           /\ [kind |-> "lost", names |-> request[t].names] \in Pending
           /\ [kind |-> "failed", names |-> request[t].names] \in Pending
<1>1. request[t] \in [kind : {"attach", "verified"}, revision : Revisions,
                      item : Items, names : SUBSET Names]
  BY DEF TypeOK, Pending, Idle
<1>2. request[t].names \in SUBSET Names
  BY <1>1
<1>3. [kind |-> "lost", names |-> request[t].names] \in Pending
  BY <1>2 DEF Pending
<1>4. [kind |-> "failed", names |-> request[t].names] \in Pending
  BY <1>2 DEF Pending
<1> QED
  BY <1>1, <1>3, <1>4

\* What a delete in hand is.
LEMMA DeleteType ==
    ASSUME TypeOK, NEW t \in Requests, request[t].kind \in {"delete", "purge"}
    PROVE  request[t].names \in SUBSET Names
BY DEF TypeOK, Pending, Idle

LEMMA TypeInit == Init => TypeOK
<1> SUFFICES ASSUME Init PROVE TypeOK
  OBVIOUS
<1> USE BoundsAssumption DEF Init, TypeOK
<1>1. items \in Checklist /\ ItemsOf(photos) \subseteq DOMAIN items
  BY NoItemsType DEF ItemsOf
<1>2. request \in [Requests -> Pending]
  BY DEF Pending
<1>3. revision \in Revisions
  BY DEF Revisions
<1> QED
  BY <1>1, <1>2, <1>3

LEMMA TypeNext == TypeOK /\ [Next]_vars => TypeOK'
<1> SUFFICES ASSUME TypeOK, [Next]_vars PROVE TypeOK'
  OBVIOUS
<1> USE BoundsAssumption DEF TypeOK, draft, objects, history
<1>1. CASE CreateDraft
  BY <1>1 DEF CreateDraft, ItemsOf
<1>2. ASSUME NEW t \in Requests, NEW input \in Checklist, SaveCount(t, input) PROVE TypeOK'
  <2>1. ItemsOf(photos) \subseteq Items
    BY DEF ItemsOf, Photo
  <2>2. [kind |-> "save", revision |-> revision, items |-> input, counted |-> ItemsOf(photos)] \in Pending
    BY <2>1 DEF Pending
  <2> QED
    BY <1>2, <2>2 DEF SaveCount, Becomes, ItemsOf
<1>3. ASSUME NEW t \in Requests, SaveCommit(t) PROVE TypeOK'
  <2>1. request[t] \in [kind : {"save"}, revision : Revisions, items : Checklist, counted : SUBSET Items]
    BY <1>3 DEF SaveCommit, Pending, Idle
  <2>2. status' \in {"none", "action", "completed"}
    BY <1>3, ActionStatusType DEF SaveCommit
  <2>3. items' \in Checklist /\ photos' \subseteq Photo /\ ItemsOf(photos)' \subseteq DOMAIN items'
    BY <1>3, <2>1 DEF SaveCommit, DetachMedia, ItemsOf
  <2>4. queue' \subseteq Names
    BY <1>3 DEF SaveCommit, DetachMedia, NamesOf, Photo
  <2>5. revision' \in Revisions /\ form' = form
    BY <1>3 DEF SaveCommit, ClaimRevision, Revisions
  <2>6. request' \in [Requests -> Pending]
    BY <1>3, IdleType, BecomesType DEF SaveCommit
  <2> QED
    BY <1>3, <2>2, <2>3, <2>4, <2>5, <2>6 DEF SaveCommit
<1>4. ASSUME NEW t \in Requests, NEW i \in Items, NEW N \in SUBSET Names, AttachFind(t, i, N) PROVE TypeOK'
  <2>1. [kind |-> "attach", revision |-> revision, item |-> i, names |-> N] \in Pending
    BY DEF Pending
  <2> QED
    BY <1>4, <2>1 DEF AttachFind, Becomes, ItemsOf
<1>5. ASSUME NEW t \in Requests, AttachVerify(t) PROVE TypeOK'
  <2>1. request[t] \in [kind : {"attach", "verified"}, revision : Revisions, item : Items, names : SUBSET Names]
    BY <1>5 DEF AttachVerify, Pending, Idle
  <2>2. [request[t] EXCEPT !.kind = "verified"] \in Pending
    BY <2>1 DEF Pending
  <2> QED
    BY <1>5, <2>2 DEF AttachVerify, ItemsOf
<1>6. ASSUME NEW t \in Requests, AttachReject(t) PROVE TypeOK'
  <2>1. request[t] \in [kind : {"attach", "verified"}, revision : Revisions, item : Items, names : SUBSET Names]
    BY <1>6, AttachType DEF AttachReject
  <2>2. PICK n \in request[t].names, before \in SUBSET request[t].names :
          Becomes(t, [kind |-> "failed",
                      names |-> before \cup (IF bucket[n] = "none" THEN {} ELSE {n})])
    BY <1>6 DEF AttachReject
  <2>3. [kind |-> "failed", names |-> before \cup (IF bucket[n] = "none" THEN {} ELSE {n})] \in Pending
    BY <2>1 DEF Pending
  <2> QED
    BY <1>6, <2>2, <2>3 DEF AttachReject, Becomes, ItemsOf
<1>7. ASSUME NEW t \in Requests, AttachCommit(t) PROVE TypeOK'
  <2>1. request[t] \in [kind : {"attach", "verified"}, revision : Revisions, item : Items, names : SUBSET Names]
    BY <1>7, AttachType DEF AttachCommit
  <2>2. revision' \in Revisions /\ form' = form
    BY <1>7 DEF AttachCommit, ClaimRevision, Revisions
  <2>3. photos' \subseteq Photo /\ ItemsOf(photos)' \subseteq DOMAIN items'
    BY <1>7, <2>1, <2>2 DEF AttachCommit, Photo, ItemsOf
  <2>4. request' \in [Requests -> Pending]
    BY <1>7, AttachType, IdleType, BecomesType DEF AttachCommit
  <2>5. recorded' \subseteq Names /\ excused' \subseteq Names /\ exposed' \subseteq Names
    BY <1>7, <2>1 DEF AttachCommit
  <2> QED
    BY <1>7, <2>2, <2>3, <2>4, <2>5 DEF AttachCommit
<1>8. ASSUME NEW t \in Requests, AttachLose(t) \/ AttachFail(t) PROVE TypeOK'
  <2>1. request' \in [Requests -> Pending]
    BY <1>8, AttachType, BecomesType DEF AttachLose, AttachFail
  <2> QED
    BY <1>8, <2>1 DEF AttachLose, AttachFail, ItemsOf
<1>9. ASSUME NEW t \in Requests, Discard(t) PROVE TypeOK'
  <2>1. bucket' \in [Names -> {"good", "bad", "none"}]
    BY <1>9 DEF Discard
  <2>2. request' \in [Requests -> Pending]
    BY <1>9, IdleType, BecomesType DEF Discard
  <2> QED
    BY <1>9, <2>1, <2>2 DEF Discard, ItemsOf
<1>10. ASSUME NEW t \in Requests, DiaryDeleteRead(t) PROVE TypeOK'
  <2>1. [kind |-> "delete", names |-> NamesOf(photos)] \in Pending
    BY DEF Pending, NamesOf, Photo
  <2>2. request' \in [Requests -> Pending]
    BY <1>10, <2>1, BecomesType DEF DiaryDeleteRead
  <2> QED
    BY <1>10, <2>2 DEF DiaryDeleteRead, ItemsOf
<1>11. ASSUME NEW t \in Requests, DiaryDeleteQueue(t) PROVE TypeOK'
  <2>1. request[t].names \in SUBSET Names
    BY <1>11, DeleteType DEF DiaryDeleteQueue
  <2>2. [kind |-> "purge", names |-> request[t].names \ queue] \in Pending
    BY <2>1 DEF Pending
  <2>3. request' \in [Requests -> Pending]
    BY <1>11, <2>2, BecomesType DEF DiaryDeleteQueue
  <2> QED
    BY <1>11, <2>3 DEF DiaryDeleteQueue, ItemsOf
<1>12. ASSUME NEW t \in Requests, Abort(t) PROVE TypeOK'
  <2>1. request' \in [Requests -> Pending]
    BY <1>12, IdleType, BecomesType DEF Abort
  <2> QED
    BY <1>12, <2>1 DEF Abort, ItemsOf
<1>13. ASSUME NEW p \in photos, DeletePhoto(p) PROVE TypeOK'
  <2>1. revision' \in Revisions /\ form' = form
    BY <1>13 DEF DeletePhoto, ClaimRevision, Revisions
  <2>2. photos' \subseteq Photo /\ ItemsOf(photos)' \subseteq DOMAIN items' /\ queue' \subseteq Names
    BY <1>13 DEF DeletePhoto, DetachMedia, NamesOf, ItemsOf, Photo
  <2> QED
    BY <1>13, <2>1, <2>2 DEF DeletePhoto
<1>14. ASSUME NEW p \in photos, DiaryDeletePhoto(p) PROVE TypeOK'
  <2>1. photos' \subseteq Photo /\ ItemsOf(photos)' \subseteq DOMAIN items' /\ queue' \subseteq Names
    BY <1>14 DEF DiaryDeletePhoto, DetachMedia, NamesOf, ItemsOf, Photo
  <2> QED
    BY <1>14, <2>1 DEF DiaryDeletePhoto
<1>15. ASSUME NEW t \in Requests, DiaryDeleteCommit(t) PROVE TypeOK'
  <2>1. request[t].names \in SUBSET Names
    BY <1>15, DeleteType DEF DiaryDeleteCommit
  <2>2. ItemsOf(photos)' = {}
    BY <1>15 DEF DiaryDeleteCommit, ItemsOf
  <2>3. request' \in [Requests -> Pending]
    BY <1>15, IdleType, BecomesType DEF DiaryDeleteCommit
  <2> QED
    BY <1>15, <2>1, <2>2, <2>3, NoItemsType DEF DiaryDeleteCommit
<1>16. ASSUME NEW n \in Names, Upload(n) \/ Sweep(n) PROVE TypeOK'
  BY <1>16 DEF Upload, Sweep, ItemsOf
<1>17. CASE UNCHANGED vars
  BY <1>17 DEF vars, ItemsOf
<1> QED
  BY <1>1, <1>2, <1>3, <1>4, <1>5, <1>6, <1>7, <1>8, <1>9, <1>10, <1>11, <1>12, <1>13, <1>14,
     <1>15, <1>16, <1>17 DEF Next, RequestStep

\* Every variable keeps its shape.
THEOREM TypeCorrect == Spec => []TypeOK
<1> QED
  BY TypeInit, TypeNext, PTL DEF Spec

-----------------------------------------------------------------------------
(* Photos and their objects *)

Once(n) == n \notin excused

\* Attaches have their names to themselves, unless a name is attached twice,
\* and what they have in hand has no row yet.
SoleHolder ==
    \A t \in Requests : Attaching(t) =>
        \A n \in request[t].names : Once(n) =>
            /\ n \notin recorded
            /\ \A u \in Requests : Attaching(u) /\ n \in request[u].names => u = t

\* What has passed verify is still there.
VerifiedStays ==
    \A t \in Requests : request[t].kind = "verified" =>
        \A n \in request[t].names : Once(n) => bucket[n] = "good"

\* A name has one photo row at most, and none once it is queued.
OneRowEach ==
    /\ NamesOf(photos) \subseteq recorded /\ queue \subseteq recorded
    /\ \A p, q \in photos : p.name = q.name /\ Once(p.name) => p = q
    /\ \A p \in photos : Once(p.name) => p.name \notin queue

\* A delete of the entry knows of every photo it is going to take with it, or
\* the photo is exposed; one it found queued may have been swept since.
DeletesCover ==
    \A t \in Requests :
        /\ request[t].kind \in {"delete", "purge"} => request[t].names \subseteq recorded
        /\ request[t].kind = "delete" => NamesOf(photos) \ exposed \subseteq request[t].names
        /\ request[t].kind = "purge" =>
             \A n \in NamesOf(photos) \ exposed :
                 n \in request[t].names \/ n \in queue \/ bucket[n] = "none"

Custody ==
    SoleHolder /\ VerifiedStays /\ OneRowEach /\ NoBrokenPhoto /\ NoOrphanPhoto

\* Detaching photos keeps what Custody says of rows and queue.
LEMMA DetachKeeps ==
    ASSUME TypeOK, Custody, NEW P \in SUBSET photos, DetachMedia(P),
           UNCHANGED <<bucket, recorded, excused, exposed>>
    PROVE  OneRowEach' /\ NoBrokenPhoto' /\ NoOrphanPhoto'
<1> USE DEF Custody, DetachMedia, Once
<1>1. NamesOf(photos)' \subseteq recorded' /\ queue' \subseteq recorded'
  BY DEF OneRowEach, NamesOf
<1>2. \A p, q \in photos' : p.name = q.name /\ Once(p.name)' => p = q
  BY DEF OneRowEach
<1>3. \A p \in photos' : Once(p.name)' => p.name \notin queue'
  BY DEF OneRowEach, NamesOf
<1>4. NoBrokenPhoto'
  BY DEF NoBrokenPhoto
<1>5. NoOrphanPhoto'
  <2> SUFFICES ASSUME NEW n \in recorded \ exposed, bucket[n] # "none", n \notin queue'
               PROVE  PhotosOf({n})' # {}
    BY DEF NoOrphanPhoto
  <2>1. n \notin NamesOf(P) /\ n \notin queue
    OBVIOUS
  <2>2. PhotosOf({n}) # {}
    BY <2>1 DEF NoOrphanPhoto
  <2>3. PICK p \in photos : p.name = n
    BY <2>2 DEF PhotosOf
  <2>4. p \in photos'
    BY <2>1, <2>3 DEF NamesOf
  <2> QED
    BY <2>3, <2>4 DEF PhotosOf
<1> QED
  BY <1>1, <1>2, <1>3, <1>4, <1>5 DEF OneRowEach

\* A step that only hands a request fewer names, or none, keeps who holds what.
LEMMA HoldersKeep ==
    ASSUME TypeOK, SoleHolder, NEW t \in Requests, NEW r,
           request' = [request EXCEPT ![t] = r],
           r.kind \in {"attach", "verified", "lost", "failed"} =>
               Attaching(t) /\ r.names \subseteq request[t].names,
           UNCHANGED <<recorded, excused>>
    PROVE  SoleHolder'
<1> SUFFICES ASSUME NEW u \in Requests, Attaching(u)',
                    NEW n \in request'[u].names, Once(n)
             PROVE  /\ n \notin recorded
                    /\ \A v \in Requests : Attaching(v)' /\ n \in request'[v].names => v = u
  BY DEF SoleHolder, Once
<1>1. \A v \in Requests : Attaching(v)' => Attaching(v) /\ request'[v].names \subseteq request[v].names
  BY DEF Attaching, TypeOK
<1> QED
  BY <1>1 DEF SoleHolder

LEMMA CustodyInit == Init => Custody
BY DEF Init, Custody, SoleHolder, VerifiedStays, OneRowEach, NoBrokenPhoto, NoOrphanPhoto,
       Attaching, Idle, NamesOf

LEMMA CustodyNext == TypeOK /\ Custody /\ DeletesCover /\ [Next]_vars => Custody'
<1> SUFFICES ASSUME TypeOK, Custody, DeletesCover, [Next]_vars PROVE Custody'
  OBVIOUS
<1> USE DEF draft, objects, history
<1>a. TypeOK /\ SoleHolder /\ VerifiedStays /\ OneRowEach /\ NoBrokenPhoto /\ NoOrphanPhoto
  BY DEF Custody
\* Steps that touch neither photos nor objects, and start no attach.
<1>1. ASSUME NEW t \in Requests, NEW r, request' = [request EXCEPT ![t] = r],
             r.kind \in {"attach", "verified", "lost", "failed"} =>
                 Attaching(t) /\ r.names \subseteq request[t].names,
             r.kind = "verified" => \A n \in r.names : Once(n) => bucket[n] = "good",
             UNCHANGED <<photos, bucket, queue, recorded, excused, exposed>>
      PROVE  Custody'
  <2>1. SoleHolder'
    BY <1>a, <1>1, HoldersKeep
  <2>2. VerifiedStays'
    BY <1>a, <1>1 DEF VerifiedStays, Once, TypeOK
  <2>3. OneRowEach' /\ NoBrokenPhoto' /\ NoOrphanPhoto'
    BY <1>a, <1>1 DEF OneRowEach, NoBrokenPhoto, NoOrphanPhoto, Once, NamesOf, PhotosOf
  <2> QED
    BY <2>1, <2>2, <2>3 DEF Custody
<1>2. ASSUME UNCHANGED <<photos, bucket, queue, recorded, excused, exposed, request>> PROVE Custody'
  BY <1>a, <1>2 DEF Custody, SoleHolder, VerifiedStays, OneRowEach, NoBrokenPhoto, NoOrphanPhoto,
                    Once, NamesOf, PhotosOf, Attaching
<1>3. ASSUME NEW t \in Requests, NEW input \in Checklist, SaveCount(t, input) PROVE Custody'
  <2>1. PICK r : /\ r = [kind |-> "save", revision |-> revision, items |-> input,
                         counted |-> ItemsOf(photos)]
                 /\ request' = [request EXCEPT ![t] = r]
    BY <1>3 DEF SaveCount, Becomes
  <2>2. r.kind = "save"
    BY <2>1
  <2> QED
    BY <1>1, <1>3, <2>1, <2>2 DEF SaveCount
<1>4. ASSUME NEW t \in Requests, SaveCommit(t) PROVE Custody'
  <2>1. PICK P \in SUBSET photos : DetachMedia(P)
    BY <1>4 DEF SaveCommit
  <2>2. OneRowEach' /\ NoBrokenPhoto' /\ NoOrphanPhoto'
    BY <1>a, <1>4, <2>1, DetachKeeps DEF SaveCommit
  <2>3. SoleHolder'
    BY <1>a, <1>4, HoldersKeep DEF SaveCommit, Becomes, Idle
  <2>4. VerifiedStays'
    BY <1>a, <1>4 DEF SaveCommit, Becomes, Idle, VerifiedStays, Once, TypeOK
  <2> QED
    BY <2>2, <2>3, <2>4 DEF Custody
<1>5. ASSUME NEW t \in Requests, NEW i \in Items, NEW N \in SUBSET Names, AttachFind(t, i, N)
      PROVE  Custody'
  <2>1. PICK r : /\ r = [kind |-> "attach", revision |-> revision, item |-> i, names |-> N]
                 /\ request' = [request EXCEPT ![t] = r]
    BY <1>5 DEF AttachFind, Becomes
  <2>2. /\ r.kind = "attach" /\ r.names = N
        /\ request'[t] = r
        /\ \A u \in Requests : u # t => request'[u] = request[u]
        /\ ~Attaching(t)
    BY <1>5, <2>1 DEF AttachFind, TypeOK, Attaching, Idle
  <2>3. \A n : Once(n)' => Once(n)
    BY <1>5 DEF AttachFind, Once
  <2>4. \A n \in N : Once(n)' => n \notin recorded /\ n \notin Held
    BY <1>5 DEF AttachFind, Once
  <2>5. \A n \in N : Once(n)' => \A u \in Requests : Attaching(u) => n \notin request[u].names
    BY <2>4 DEF Held
  <2>6. \A u \in Requests : u # t => (Attaching(u)' <=> Attaching(u))
    BY <2>2 DEF Attaching
  <2>7. SoleHolder'
    <3> SUFFICES ASSUME NEW u \in Requests, Attaching(u)',
                        NEW n \in request'[u].names, Once(n)'
                 PROVE  /\ n \notin recorded
                        /\ \A v \in Requests : Attaching(v)' /\ n \in request'[v].names => v = u
      BY <1>5 DEF SoleHolder, AttachFind
    <3>1. CASE u = t
      BY <3>1, <2>2, <2>4, <2>5, <2>6
    <3>2. CASE u # t
      BY <3>2, <1>a, <2>2, <2>3, <2>5, <2>6 DEF SoleHolder
    <3> QED
      BY <3>1, <3>2
  <2>8. VerifiedStays'
    BY <1>a, <1>5, <2>2, <2>3 DEF VerifiedStays, AttachFind
  <2>9. OneRowEach' /\ NoBrokenPhoto' /\ NoOrphanPhoto'
    BY <1>a, <1>5, <2>3 DEF AttachFind, OneRowEach, NoBrokenPhoto, NoOrphanPhoto, Once, NamesOf, PhotosOf
  <2> QED
    BY <2>7, <2>8, <2>9 DEF Custody
<1>6. ASSUME NEW t \in Requests, AttachVerify(t) PROVE Custody'
  <2>1. request[t] \in [kind : {"attach", "verified"}, revision : Revisions, item : Items, names : SUBSET Names]
    BY <1>a, <1>6 DEF AttachVerify, Pending, Idle, TypeOK
  <2>2. PICK r : r = [request[t] EXCEPT !.kind = "verified"] /\ request' = [request EXCEPT ![t] = r]
    BY <1>6 DEF AttachVerify
  <2>3. r.names = request[t].names /\ r.kind = "verified" /\ Attaching(t)
    BY <1>6, <2>1, <2>2 DEF Attaching, AttachVerify
  <2>4. \A n \in r.names : bucket[n] = "good"
    BY <1>6, <2>3 DEF AttachVerify
  <2>5. UNCHANGED <<photos, bucket, queue, recorded, excused, exposed>>
    BY <1>6 DEF AttachVerify
  <2>6. request' = [request EXCEPT ![t] = r]
    BY <2>2
  <2> QED
    BY <1>1, <2>3, <2>4, <2>5, <2>6
<1>7. ASSUME NEW t \in Requests, AttachReject(t) PROVE Custody'
  <2>1. PICK r : /\ r.names \subseteq request[t].names /\ r.kind = "failed"
                 /\ request' = [request EXCEPT ![t] = r]
    BY <1>7 DEF AttachReject, Becomes
  <2>2. Attaching(t)
    BY <1>7 DEF AttachReject, Attaching
  <2> QED
    BY <1>1, <1>7, <2>1, <2>2 DEF AttachReject
<1>8. ASSUME NEW t \in Requests, AttachLose(t) \/ AttachFail(t) PROVE Custody'
  <2>1. PICK r : /\ r.names = request[t].names /\ r.kind \in {"lost", "failed"}
                 /\ request' = [request EXCEPT ![t] = r]
    BY <1>8 DEF AttachLose, AttachFail, Becomes
  <2>2. Attaching(t)
    BY <1>8 DEF AttachLose, AttachFail, Attaching
  <2> QED
    BY <1>1, <1>8, <2>1, <2>2 DEF AttachLose, AttachFail
<1>9. ASSUME NEW t \in Requests, AttachCommit(t) PROVE Custody'
  <2>1. PICK N, at, i :
          /\ N = request[t].names /\ i = request[t].item /\ at = revision'
          /\ photos' = photos \cup [at : {at}, name : N, item : {i}]
          /\ recorded' = recorded \cup N
    BY <1>9 DEF AttachCommit
  <2>2a. PICK failed : failed = [kind |-> "failed", names |-> N]
    OBVIOUS
  <2>2b. PICK r \in {Idle, failed} :
          /\ request' = [request EXCEPT ![t] = r]
          /\ r = Idle => excused' = excused
          /\ r = failed => excused' = excused \cup N
    <3>1. Idle # failed
      BY <2>2a DEF Idle
    <3> QED
      BY <1>9, <2>1, <2>2a, <3>1 DEF AttachCommit, Becomes
  <2>2. /\ request' = [request EXCEPT ![t] = r]
        /\ \/ r.kind = "idle" /\ excused' = excused
           \/ r.kind = "failed" /\ r.names = N /\ excused' = excused \cup N
    BY <2>2a, <2>2b DEF Idle
  <2>3. /\ request'[t] = r
        /\ \A u \in Requests : u # t => request'[u] = request[u]
        /\ request[t].kind = "verified" /\ Attaching(t)
        /\ UNCHANGED <<bucket, queue>> /\ exposed \subseteq exposed'
    BY <1>a, <1>9, <2>2 DEF TypeOK, AttachCommit, Attaching
  <2>4. \A n : Once(n)' => Once(n)
    BY <2>2, <2>3 DEF Once
  <2>5. \A n \in N : Once(n) => bucket[n] = "good" /\ n \notin recorded
    BY <1>a, <2>1, <2>3 DEF VerifiedStays, SoleHolder
  <2>6. \A p \in photos' : p \in photos \/ (p.name \in N /\ p.at = at /\ p.item = i)
    BY <2>1
  <2>7. \A p \in photos : p.name \in recorded
    BY <1>a DEF OneRowEach, NamesOf
  <2>8. SoleHolder'
    <3> SUFFICES ASSUME NEW u \in Requests, Attaching(u)',
                        NEW n \in request'[u].names, Once(n)'
                 PROVE  /\ n \notin recorded'
                        /\ \A v \in Requests : Attaching(v)' /\ n \in request'[v].names => v = u
      BY DEF SoleHolder
    <3>1. \A v \in Requests : v # t => (Attaching(v)' <=> Attaching(v))
      BY <2>3 DEF Attaching
    <3>2. u # t
      BY <2>2, <2>3 DEF Attaching, Once
    <3>3. n \notin recorded /\ n \notin N
      BY <1>a, <2>1, <2>3, <2>4, <3>1, <3>2 DEF SoleHolder
    <3>4. \A v \in Requests : Attaching(v)' /\ n \in request'[v].names => v = u
      BY <1>a, <2>2, <2>3, <2>4, <3>1, <3>2, <3>3 DEF SoleHolder, Attaching
    <3> QED
      BY <2>1, <3>3, <3>4
  <2>9. VerifiedStays'
    BY <1>a, <2>2, <2>3, <2>4 DEF VerifiedStays
  <2>10. OneRowEach'
    <3>1. NamesOf(photos)' \subseteq recorded' /\ queue' \subseteq recorded'
      BY <1>a, <2>1, <2>3, <2>6, <2>7 DEF OneRowEach, NamesOf
    <3>2. \A p, q \in photos' : p.name = q.name /\ Once(p.name)' => p = q
      <4> SUFFICES ASSUME NEW p \in photos', NEW q \in photos', p.name = q.name, Once(p.name)
                   PROVE  p = q
        BY <2>4
      <4>1. CASE p \in photos /\ q \in photos
        BY <1>a, <4>1 DEF OneRowEach
      <4>2. CASE p \notin photos /\ q \notin photos
        BY <2>1, <4>2
      <4>3. CASE (p \in photos) # (q \in photos)
        BY <2>5, <2>6, <2>7, <4>3
      <4> QED
        BY <4>1, <4>2, <4>3
    <3>3. \A p \in photos' : Once(p.name)' => p.name \notin queue'
      BY <1>a, <2>3, <2>4, <2>5, <2>6 DEF OneRowEach
    <3> QED
      BY <3>1, <3>2, <3>3 DEF OneRowEach
  <2>11. NoBrokenPhoto'
    BY <1>a, <2>3, <2>4, <2>5, <2>6 DEF NoBrokenPhoto, Once
  <2>12. NoOrphanPhoto'
    <3> SUFFICES ASSUME NEW n \in recorded' \ exposed', bucket[n] # "none", n \notin queue
                 PROVE  PhotosOf({n})' # {}
      BY <2>3 DEF NoOrphanPhoto
    <3>1. CASE n \in N
      <4>1. [at |-> at, name |-> n, item |-> i] \in photos'
        BY <2>1, <3>1
      <4> QED
        BY <4>1 DEF PhotosOf
    <3>2. CASE n \in recorded
      BY <1>a, <2>1, <2>3, <3>2 DEF NoOrphanPhoto, PhotosOf
    <3> QED
      BY <2>1, <3>1, <3>2
  <2> QED
    BY <2>8, <2>9, <2>10, <2>11, <2>12 DEF Custody
<1>10. ASSUME NEW t \in Requests, Discard(t) PROVE Custody'
  <2>1. PICK N \in SUBSET request[t].names :
          bucket' = [n \in Names |-> IF n \in N THEN "none" ELSE bucket[n]]
    BY <1>10 DEF Discard
  <2>2. /\ Attaching(t) /\ request[t].kind # "verified"
        /\ request' = [request EXCEPT ![t] = Idle]
        /\ UNCHANGED <<photos, queue, recorded, excused, exposed>>
    BY <1>10 DEF Discard, Attaching, Becomes
  <2>3. SoleHolder'
    BY <1>a, <2>2, HoldersKeep DEF Idle
  <2>4. VerifiedStays'
    <3> SUFFICES ASSUME NEW u \in Requests, request'[u].kind = "verified",
                        NEW n \in request'[u].names, Once(n)
                 PROVE  bucket'[n] = "good"
      BY <2>2 DEF VerifiedStays, Once
    <3>1. u # t /\ request'[u] = request[u]
      BY <1>a, <2>2 DEF TypeOK, Idle
    <3>2. request[u] \in [kind : {"attach", "verified"}, revision : Revisions, item : Items, names : SUBSET Names]
      BY <1>a, <3>1 DEF Pending, Idle, TypeOK
    <3>3. n \in Names /\ n \notin N
      BY <1>a, <2>2, <3>1, <3>2 DEF SoleHolder, Attaching
    <3> QED
      BY <1>a, <2>1, <3>1, <3>3 DEF VerifiedStays
  <2>5. OneRowEach'
    BY <1>a, <2>2 DEF OneRowEach, Once, NamesOf
  <2>6. NoBrokenPhoto'
    <3> SUFFICES ASSUME NEW p \in photos, Once(p.name) PROVE bucket'[p.name] = "good"
      BY <2>2 DEF NoBrokenPhoto, Once
    <3>1. p.name \in Names /\ p.name \in recorded
      BY <1>a DEF TypeOK, Photo, OneRowEach, NamesOf
    <3>2. p.name \notin N
      BY <1>a, <2>2, <3>1 DEF SoleHolder
    <3> QED
      BY <1>a, <2>1, <3>1, <3>2 DEF NoBrokenPhoto, Once
  <2>7. NoOrphanPhoto'
    BY <1>a, <2>1, <2>2 DEF NoOrphanPhoto, PhotosOf, TypeOK
  <2> QED
    BY <2>3, <2>4, <2>5, <2>6, <2>7 DEF Custody
<1>11. ASSUME NEW t \in Requests, DiaryDeleteRead(t) \/ DiaryDeleteQueue(t) PROVE Custody'
  <2>1. ASSUME DiaryDeleteRead(t)
        PROVE  \E r : r.kind = "delete" /\ request' = [request EXCEPT ![t] = r]
    BY <2>1 DEF DiaryDeleteRead, Becomes
  <2>2. ASSUME DiaryDeleteQueue(t)
        PROVE  \E r : r.kind = "purge" /\ request' = [request EXCEPT ![t] = r]
    BY <2>2 DEF DiaryDeleteQueue, Becomes
  <2>3. PICK r : r.kind \in {"delete", "purge"} /\ request' = [request EXCEPT ![t] = r]
    BY <1>11, <2>1, <2>2
  <2> QED
    BY <1>1, <1>11, <2>3 DEF DiaryDeleteRead, DiaryDeleteQueue
<1>12. ASSUME NEW t \in Requests, Abort(t) PROVE Custody'
  <2>1. Idle.kind = "idle"
    BY DEF Idle
  <2> QED
    BY <1>1, <1>12, <2>1 DEF Abort, Becomes
<1>13. ASSUME NEW P \in SUBSET photos, DetachMedia(P), UNCHANGED <<bucket, request, recorded, excused, exposed>>
       PROVE  Custody'
  <2>1. OneRowEach' /\ NoBrokenPhoto' /\ NoOrphanPhoto'
    BY <1>a, <1>13, DetachKeeps
  <2>2. SoleHolder' /\ VerifiedStays'
    BY <1>a, <1>13 DEF SoleHolder, VerifiedStays, Once, Attaching
  <2> QED
    BY <2>1, <2>2 DEF Custody
<1>14. ASSUME NEW p \in photos, DeletePhoto(p) \/ DiaryDeletePhoto(p) PROVE Custody'
  BY <1>13, <1>14 DEF DeletePhoto, DiaryDeletePhoto
<1>15. ASSUME NEW t \in Requests, DiaryDeleteCommit(t) PROVE Custody'
  <2>1. /\ photos' = {} /\ queue' = queue \cup request[t].names
        /\ request' = [request EXCEPT ![t] = Idle] /\ request[t].kind = "purge"
        /\ UNCHANGED <<bucket, recorded, excused, exposed>>
    BY <1>15 DEF DiaryDeleteCommit, Becomes
  <2>2. SoleHolder'
    BY <1>a, <2>1, HoldersKeep DEF Idle
  <2>3. VerifiedStays'
    BY <1>a, <2>1 DEF VerifiedStays, Once, Idle, TypeOK
  <2>4. OneRowEach' /\ NoBrokenPhoto'
    BY <1>a, <2>1 DEF OneRowEach, NoBrokenPhoto, DeletesCover, NamesOf
  <2>5. NoOrphanPhoto'
    <3> SUFFICES ASSUME NEW n \in recorded \ exposed PROVE n \in queue' \/ bucket[n] = "none"
      BY <2>1 DEF NoOrphanPhoto
    <3>1. CASE PhotosOf({n}) = {}
      BY <1>a, <2>1, <3>1 DEF NoOrphanPhoto
    <3>2. CASE PhotosOf({n}) # {}
      <4>1. n \in NamesOf(photos) \ exposed
        BY <3>2 DEF PhotosOf, NamesOf
      <4> QED
        BY <2>1, <4>1 DEF DeletesCover
    <3> QED
      BY <3>1, <3>2
  <2> QED
    BY <2>2, <2>3, <2>4, <2>5 DEF Custody
<1>16. ASSUME NEW n \in Names, Upload(n) PROVE Custody'
  <2>1. PICK content \in {"good", "bad"} : bucket' = [bucket EXCEPT ![n] = content]
    BY <1>16 DEF Upload
  <2>2. /\ excused' = IF n \in recorded \cup Held THEN excused \cup {n} ELSE excused
        /\ exposed' = IF n \in recorded /\ bucket[n] = "none" THEN exposed \cup {n} ELSE exposed
        /\ UNCHANGED <<photos, queue, request, recorded>>
    BY <1>16 DEF Upload
  <2>3. /\ \A m \in Names : m # n => bucket'[m] = bucket[m]
        /\ \A m : Once(m)' => Once(m)
    BY <1>a, <2>1, <2>2 DEF TypeOK, Once
  <2>4. SoleHolder' /\ OneRowEach'
    <3>1. SoleHolder'
      <4> SUFFICES ASSUME NEW u \in Requests, Attaching(u), NEW m \in request[u].names, Once(m)
                   PROVE  /\ m \notin recorded
                          /\ \A v \in Requests : Attaching(v) /\ m \in request[v].names => v = u
        BY <2>2, <2>3 DEF SoleHolder, Attaching
      <4> QED
        BY <1>a DEF SoleHolder
    <3>2. OneRowEach'
      BY <1>a, <2>2, <2>3 DEF OneRowEach, NamesOf
    <3> QED
      BY <3>1, <3>2
  <2>5. VerifiedStays'
    <3> SUFFICES ASSUME NEW u \in Requests, request[u].kind = "verified",
                        NEW m \in request[u].names, m \notin excused'
                 PROVE  bucket'[m] = "good"
      BY <2>2 DEF VerifiedStays, Once
    <3>1. request[u] \in [kind : {"attach", "verified"}, revision : Revisions, item : Items, names : SUBSET Names]
      BY <1>a DEF Pending, Idle, TypeOK
    <3>2. m \in Held
      BY DEF Held, Attaching
    <3>3. m # n /\ m \notin excused
      BY <2>2, <3>2
    <3> QED
      BY <1>a, <2>3, <3>1, <3>3 DEF VerifiedStays, Once
  <2>6. NoBrokenPhoto'
    <3> SUFFICES ASSUME NEW p \in photos, p.name \notin excused' PROVE bucket'[p.name] = "good"
      BY <2>2 DEF NoBrokenPhoto
    <3>1. p.name \in Names /\ p.name \in recorded
      BY <1>a DEF TypeOK, Photo, OneRowEach, NamesOf
    <3>2. p.name # n /\ p.name \notin excused
      BY <2>2, <3>1
    <3> QED
      BY <1>a, <2>3, <3>1, <3>2 DEF NoBrokenPhoto
  <2>7. NoOrphanPhoto'
    <3> SUFFICES ASSUME NEW m \in recorded \ exposed'
                 PROVE  PhotosOf({m}) # {} \/ m \in queue \/ bucket'[m] = "none"
      BY <2>2 DEF NoOrphanPhoto, PhotosOf
    <3>1. m \notin exposed /\ m \in Names /\ (m = n => bucket[n] # "none")
      BY <1>a, <2>2 DEF TypeOK
    <3> QED
      BY <1>a, <2>3, <3>1 DEF NoOrphanPhoto
  <2> QED
    BY <2>4, <2>5, <2>6, <2>7 DEF Custody
<1>17. ASSUME NEW n \in Names, Sweep(n) PROVE Custody'
  <2>1. /\ bucket' = [bucket EXCEPT ![n] = "none"] /\ queue' = queue \ {n} /\ n \in queue
        /\ UNCHANGED <<photos, request, recorded, excused, exposed>>
    BY <1>17 DEF Sweep
  <2>2. n \in recorded /\ \A m \in Names : bucket'[m] = IF m = n THEN "none" ELSE bucket[m]
    BY <1>a, <2>1 DEF TypeOK, OneRowEach
  <2>3. SoleHolder' /\ OneRowEach'
    BY <1>a, <2>1 DEF SoleHolder, OneRowEach, Once, Attaching, NamesOf
  <2>4. VerifiedStays'
    <3> SUFFICES ASSUME NEW u \in Requests, request[u].kind = "verified",
                        NEW m \in request[u].names, Once(m)
                 PROVE  bucket'[m] = "good"
      BY <2>1 DEF VerifiedStays, Once
    <3>1. request[u] \in [kind : {"attach", "verified"}, revision : Revisions, item : Items, names : SUBSET Names]
      BY <1>a DEF Pending, Idle, TypeOK
    <3>2. m # n
      BY <1>a, <2>2 DEF SoleHolder, Attaching
    <3> QED
      BY <1>a, <2>2, <3>1, <3>2 DEF VerifiedStays
  <2>5. NoBrokenPhoto'
    <3> SUFFICES ASSUME NEW p \in photos, Once(p.name) PROVE bucket'[p.name] = "good"
      BY <2>1 DEF NoBrokenPhoto, Once
    <3>1. p.name \in Names /\ p.name # n
      BY <1>a, <2>1 DEF TypeOK, Photo, OneRowEach
    <3> QED
      BY <1>a, <2>2, <3>1 DEF NoBrokenPhoto, Once
  <2>6. NoOrphanPhoto'
    BY <1>a, <2>1, <2>2 DEF NoOrphanPhoto, PhotosOf, TypeOK
  <2> QED
    BY <2>3, <2>4, <2>5, <2>6 DEF Custody
<1>18. CASE CreateDraft \/ UNCHANGED vars
  BY <1>2, <1>18 DEF CreateDraft, vars
<1> QED
  BY <1>3, <1>4, <1>5, <1>6, <1>7, <1>8, <1>9, <1>10, <1>11, <1>12, <1>14, <1>15, <1>16, <1>17,
     <1>18 DEF Next, RequestStep

LEMMA DeletesInit == Init => DeletesCover
BY DEF Init, DeletesCover, Idle

LEMMA DeletesNext == TypeOK /\ OneRowEach /\ DeletesCover /\ [Next]_vars => DeletesCover'
<1> SUFFICES ASSUME TypeOK, OneRowEach, DeletesCover, [Next]_vars PROVE DeletesCover'
  OBVIOUS
<1> USE DEF draft, objects, history
\* Steps that record no photo and start no delete.
<1>1. ASSUME NamesOf(photos)' \subseteq NamesOf(photos), recorded \subseteq recorded',
             exposed \subseteq exposed',
             \A n \in NamesOf(photos) \ exposed' :
                 n \in queue \/ bucket[n] = "none" => n \in queue' \/ bucket'[n] = "none",
             \A u \in Requests :
                 request'[u].kind \in {"delete", "purge"} => request'[u] = request[u]
      PROVE  DeletesCover'
  <2> SUFFICES ASSUME NEW u \in Requests, request'[u].kind \in {"delete", "purge"}
               PROVE  /\ request[u].names \subseteq recorded
                      /\ request[u].kind = "delete" => NamesOf(photos) \ exposed \subseteq request[u].names
                      /\ request[u].kind = "purge" =>
                           \A n \in NamesOf(photos)' \ exposed' :
                               n \in request[u].names \/ n \in queue' \/ bucket'[n] = "none"
    BY <1>1 DEF DeletesCover
  <2>1. request[u].kind \in {"delete", "purge"}
    BY <1>1
  <2> QED
    BY <1>1, <2>1 DEF DeletesCover
\* Steps of a request that leave photos and objects alone.
<1>2. ASSUME NEW t \in Requests, NEW r, request' = [request EXCEPT ![t] = r],
             r.kind \notin {"delete", "purge"},
             UNCHANGED <<photos, bucket, queue, recorded>>, exposed \subseteq exposed'
      PROVE  DeletesCover'
  <2>1. \A u \in Requests : request'[u].kind \in {"delete", "purge"} => request'[u] = request[u]
    BY <1>2 DEF TypeOK
  <2> QED
    BY <1>1, <1>2, <2>1 DEF NamesOf
<1>3. ASSUME NEW t \in Requests, NEW input \in Checklist, SaveCount(t, input) PROVE DeletesCover'
  <2>1. PICK r : r.kind = "save" /\ request' = [request EXCEPT ![t] = r]
    BY <1>3 DEF SaveCount, Becomes
  <2> QED
    BY <1>2, <1>3, <2>1 DEF SaveCount
<1>4. ASSUME NEW t \in Requests, SaveCommit(t) PROVE DeletesCover'
  <2>1. /\ NamesOf(photos)' \subseteq NamesOf(photos) /\ queue \subseteq queue'
        /\ UNCHANGED <<bucket, recorded, exposed>>
    BY <1>4 DEF SaveCommit, DetachMedia, NamesOf
  <2>2. \A u \in Requests : request'[u].kind \in {"delete", "purge"} => request'[u] = request[u]
    BY <1>4 DEF SaveCommit, Becomes, Idle, TypeOK
  <2> QED
    BY <1>1, <2>1, <2>2
<1>5. ASSUME NEW t \in Requests, NEW i \in Items, NEW N \in SUBSET Names, AttachFind(t, i, N)
      PROVE  DeletesCover'
  <2>1. PICK r : r.kind = "attach" /\ request' = [request EXCEPT ![t] = r]
    BY <1>5 DEF AttachFind, Becomes
  <2> QED
    BY <1>2, <1>5, <2>1 DEF AttachFind
<1>6. ASSUME NEW t \in Requests, AttachVerify(t) PROVE DeletesCover'
  <2>1. request[t] \in [kind : {"attach", "verified"}, revision : Revisions, item : Items, names : SUBSET Names]
    BY <1>6, AttachType DEF AttachVerify
  <2>2. PICK r : r = [request[t] EXCEPT !.kind = "verified"] /\ request' = [request EXCEPT ![t] = r]
    BY <1>6 DEF AttachVerify
  <2>3. r.kind = "verified"
    BY <2>1, <2>2
  <2>4. request' = [request EXCEPT ![t] = r] /\ UNCHANGED <<photos, bucket, queue, recorded, exposed>>
    BY <1>6, <2>2 DEF AttachVerify
  <2> QED
    BY <1>2, <2>3, <2>4
<1>7. ASSUME NEW t \in Requests, AttachReject(t) \/ AttachLose(t) \/ AttachFail(t) PROVE DeletesCover'
  <2>1. ASSUME AttachReject(t)
        PROVE  \E r : r.kind = "failed" /\ request' = [request EXCEPT ![t] = r]
    BY <2>1 DEF AttachReject, Becomes
  <2>2. ASSUME AttachLose(t)
        PROVE  \E r : r.kind = "lost" /\ request' = [request EXCEPT ![t] = r]
    BY <2>2 DEF AttachLose, Becomes
  <2>3. ASSUME AttachFail(t)
        PROVE  \E r : r.kind = "failed" /\ request' = [request EXCEPT ![t] = r]
    BY <2>3 DEF AttachFail, Becomes
  <2>4. PICK r : r.kind \in {"failed", "lost"} /\ request' = [request EXCEPT ![t] = r]
    BY <1>7, <2>1, <2>2, <2>3
  <2> QED
    BY <1>2, <1>7, <2>4 DEF AttachReject, AttachLose, AttachFail
<1>8. ASSUME NEW t \in Requests, AttachCommit(t) PROVE DeletesCover'
  <2>1. PICK N : /\ N = request[t].names
                 /\ \A p \in photos' : p \in photos \/ p.name \in N
                 /\ recorded' = recorded \cup N
                 /\ exposed' = IF Deleting THEN exposed \cup N ELSE exposed
                 /\ UNCHANGED <<bucket, queue>>
    BY <1>8 DEF AttachCommit
  <2>2. \A u \in Requests : request'[u].kind \in {"delete", "purge"} => request'[u] = request[u]
    BY <1>8 DEF AttachCommit, Becomes, Idle, TypeOK
  <2> SUFFICES ASSUME NEW u \in Requests, request'[u].kind \in {"delete", "purge"}
               PROVE  /\ request'[u].names \subseteq recorded'
                      /\ request'[u].kind = "delete" =>
                           NamesOf(photos)' \ exposed' \subseteq request'[u].names
                      /\ request'[u].kind = "purge" =>
                           \A n \in NamesOf(photos)' \ exposed' :
                               n \in request'[u].names \/ n \in queue' \/ bucket'[n] = "none"
    BY DEF DeletesCover
  <2>3. request'[u] = request[u] /\ Deleting
    BY <2>2 DEF Deleting
  <2>4. NamesOf(photos)' \ exposed' \subseteq NamesOf(photos) \ exposed
    BY <2>1, <2>3 DEF NamesOf
  <2> QED
    BY <2>1, <2>3, <2>4 DEF DeletesCover
<1>9. ASSUME NEW t \in Requests, Discard(t) PROVE DeletesCover'
  <2>1. PICK N \in SUBSET request[t].names :
          bucket' = [n \in Names |-> IF n \in N THEN "none" ELSE bucket[n]]
    BY <1>9 DEF Discard
  <2>2. UNCHANGED <<photos, queue, recorded, exposed>>
    BY <1>9 DEF Discard
  <2>3. \A n \in NamesOf(photos) : bucket[n] = "none" => bucket'[n] = "none"
    BY <2>1 DEF NamesOf, TypeOK, Photo
  <2>4. \A u \in Requests : request'[u].kind \in {"delete", "purge"} => request'[u] = request[u]
    BY <1>9 DEF Discard, Becomes, Idle, TypeOK
  <2> QED
    BY <1>1, <2>2, <2>3, <2>4 DEF NamesOf
<1>10. ASSUME NEW t \in Requests, DiaryDeleteRead(t) PROVE DeletesCover'
  <2>1. PICK names :
          /\ names = NamesOf(photos)
          /\ request' = [request EXCEPT ![t] = [kind |-> "delete", names |-> names]]
          /\ UNCHANGED <<photos, bucket, queue, recorded, exposed>>
    BY <1>10 DEF DiaryDeleteRead, Becomes
  <2>2. request'[t] = [kind |-> "delete", names |-> names]
    BY <2>1 DEF TypeOK
  <2>3. \A u \in Requests : u # t => request'[u] = request[u]
    BY <2>1 DEF TypeOK
  <2>4. names \subseteq recorded /\ NamesOf(photos)' = names
    BY <2>1 DEF OneRowEach, NamesOf
  <2> QED
    BY <2>1, <2>2, <2>3, <2>4 DEF DeletesCover
<1>11. ASSUME NEW t \in Requests, DiaryDeleteQueue(t) PROVE DeletesCover'
  <2>1. PICK names :
          /\ names = request[t].names \ queue
          /\ request' = [request EXCEPT ![t] = [kind |-> "purge", names |-> names]]
          /\ UNCHANGED <<photos, bucket, queue, recorded, exposed>>
          /\ request[t].kind = "delete"
    BY <1>11 DEF DiaryDeleteQueue, Becomes
  <2>2. request'[t] = [kind |-> "purge", names |-> names]
    BY <2>1 DEF TypeOK
  <2>3. \A u \in Requests : u # t => request'[u] = request[u]
    BY <2>1 DEF TypeOK
  <2>4. NamesOf(photos) \ exposed \subseteq names \cup queue /\ names \subseteq recorded
    BY <2>1 DEF DeletesCover
  <2>5. NamesOf(photos)' = NamesOf(photos)
    BY <2>1 DEF NamesOf
  <2> QED
    BY <2>1, <2>2, <2>3, <2>4, <2>5 DEF DeletesCover
<1>12. ASSUME NEW t \in Requests, DiaryDeleteCommit(t) PROVE DeletesCover'
  <2>1. photos' = {} /\ UNCHANGED <<bucket, recorded, exposed>> /\ queue \subseteq queue'
    BY <1>12 DEF DiaryDeleteCommit
  <2>2. \A u \in Requests : request'[u].kind \in {"delete", "purge"} => request'[u] = request[u]
    BY <1>12 DEF DiaryDeleteCommit, Becomes, Idle, TypeOK
  <2> QED
    BY <1>1, <2>1, <2>2 DEF NamesOf
<1>13. ASSUME NEW t \in Requests, Abort(t) PROVE DeletesCover'
  <2>1. Idle.kind = "idle"
    BY DEF Idle
  <2> QED
    BY <1>2, <1>13, <2>1 DEF Abort, Becomes
<1>14. ASSUME NEW p \in photos, DeletePhoto(p) \/ DiaryDeletePhoto(p) PROVE DeletesCover'
  <2>1. /\ NamesOf(photos)' \subseteq NamesOf(photos) /\ queue \subseteq queue'
        /\ UNCHANGED <<bucket, recorded, exposed, request>>
    BY <1>14 DEF DeletePhoto, DiaryDeletePhoto, DetachMedia, NamesOf
  <2> QED
    BY <1>1, <2>1
<1>15. ASSUME NEW n \in Names, Upload(n) PROVE DeletesCover'
  <2>1. PICK content \in {"good", "bad"} : bucket' = [bucket EXCEPT ![n] = content]
    BY <1>15 DEF Upload
  <2>2. /\ exposed' = IF n \in recorded /\ bucket[n] = "none" THEN exposed \cup {n} ELSE exposed
        /\ UNCHANGED <<photos, queue, recorded, request>>
    BY <1>15 DEF Upload
  <2>3. \A m \in NamesOf(photos) \ exposed' : bucket[m] = "none" => bucket'[m] = "none"
    BY <2>1, <2>2 DEF OneRowEach, TypeOK
  <2> QED
    BY <1>1, <2>2, <2>3 DEF NamesOf
<1>16. ASSUME NEW n \in Names, Sweep(n) PROVE DeletesCover'
  <2>1. /\ bucket' = [bucket EXCEPT ![n] = "none"] /\ queue' = queue \ {n}
        /\ UNCHANGED <<photos, recorded, exposed, request>>
    BY <1>16 DEF Sweep
  <2>2. \A m \in NamesOf(photos) :
          m \in queue \/ bucket[m] = "none" => m \in queue' \/ bucket'[m] = "none"
    BY <2>1 DEF TypeOK, NamesOf, Photo
  <2> QED
    BY <1>1, <2>1, <2>2 DEF NamesOf
<1>17. CASE CreateDraft \/ UNCHANGED vars
  <2>1. UNCHANGED <<photos, bucket, queue, recorded, exposed, request>>
    BY <1>17 DEF CreateDraft, vars
  <2> QED
    BY <1>1, <2>1 DEF NamesOf
<1> QED
  BY <1>3, <1>4, <1>5, <1>6, <1>7, <1>8, <1>9, <1>10, <1>11, <1>12, <1>13, <1>14, <1>15, <1>16,
     <1>17 DEF Next, RequestStep

LEMMA CustodyHolds == Spec => [](TypeOK /\ Custody)
<1>1. Init => TypeOK /\ Custody /\ DeletesCover
  BY TypeInit, CustodyInit, DeletesInit
<1>2. TypeOK /\ Custody /\ DeletesCover /\ [Next]_vars => TypeOK' /\ Custody' /\ DeletesCover'
  BY TypeNext, CustodyNext, DeletesNext DEF Custody
<1> QED
  BY <1>1, <1>2, PTL DEF Spec

\* No recorded object is left without a row, a queue entry or an end.
THEOREM NeverOrphaned == Spec => []NoOrphanPhoto
<1>1. TypeOK /\ Custody => NoOrphanPhoto
  BY DEF Custody
<1> QED
  BY <1>1, CustodyHolds, PTL

\* A photo attached once, by an attach that was told of its success, is there.
THEOREM NeverBroken == Spec => []NoBrokenPhoto
<1>1. TypeOK /\ Custody => NoBrokenPhoto
  BY DEF Custody
<1> QED
  BY <1>1, CustodyHolds, PTL

-----------------------------------------------------------------------------
(* The status a save writes *)

\* A save in flight counted the photos of the revision it is going to claim:
\* its counts hold as long as the revision has not moved.
CountsHold ==
    \A t \in Requests : request[t].kind = "save" =>
        /\ request[t].revision <= revision /\ form # "none"
        /\ form = "open" /\ request[t].revision = revision /\ t \notin miscounted =>
             request[t].counted = ItemsOf(photos)

\* The step of a save that commits.
Saved ==
    \A t \in Requests :
        /\ request[t].kind = "save" /\ request'[t] = Idle
        /\ revision' # revision /\ t \notin miscounted
        => status' = ActionStatus(items', {p.item : p \in photos'})

LEMMA CountsNext == TypeOK /\ CountsHold /\ [Next]_vars => CountsHold' /\ Saved
<1> SUFFICES ASSUME TypeOK, CountsHold, [Next]_vars PROVE CountsHold' /\ Saved
  OBVIOUS
<1> USE DEF draft, objects, history
\* What the steps of a request leave alone.
<1>1. ASSUME UNCHANGED <<form, revision, photos>>, miscounted \subseteq miscounted' \/ UNCHANGED request,
             \A u \in Requests : request'[u].kind = "save" =>
                \/ request'[u] = request[u] /\ (u \in miscounted => u \in miscounted')
                \/ /\ request'[u].revision = revision /\ request'[u].counted = ItemsOf(photos)
                   /\ form # "none"
      PROVE  CountsHold' /\ Saved
  <2>1. revision \in Nat
    BY DEF TypeOK, Revisions
  <2>2. CountsHold'
    BY <1>1, <2>1 DEF CountsHold, ItemsOf
  <2> QED
    BY <1>1, <2>2 DEF Saved
<1>2. ASSUME form' = form, revision' = revision + 1,
             \A u \in Requests : request'[u].kind = "save" => request'[u] = request[u]
      PROVE  CountsHold'
  <2>1. \A u \in Requests : request'[u].kind = "save" => request'[u].revision < revision'
    <3> SUFFICES ASSUME NEW u \in Requests, request'[u].kind = "save"
                 PROVE  request'[u].revision < revision'
      OBVIOUS
    <3>1. request[u] \in [kind : {"save"}, revision : Revisions, items : Checklist, counted : SUBSET Items]
      BY <1>2 DEF TypeOK, Pending, Idle
    <3> QED
      BY <1>2, <3>1 DEF CountsHold, TypeOK, Revisions
  <2>2. revision' \in Nat
    BY <1>2 DEF TypeOK, Revisions
  <2>3. \A u \in Requests : request'[u].kind = "save" =>
          request'[u].revision <= revision' /\ request'[u].revision # revision'
    <3> SUFFICES ASSUME NEW u \in Requests, request'[u].kind = "save"
                 PROVE  request'[u].revision <= revision' /\ request'[u].revision # revision'
      OBVIOUS
    <3>1. request'[u] \in [kind : {"save"}, revision : Revisions, items : Checklist, counted : SUBSET Items]
      BY <1>2 DEF TypeOK, Pending, Idle
    <3> QED
      BY <2>1, <2>2, <3>1 DEF Revisions
  <2>4. \A u \in Requests : request'[u].kind = "save" => form' # "none"
    BY <1>2 DEF CountsHold
  <2> QED
    BY <2>3, <2>4 DEF CountsHold
<1>3. ASSUME NEW t \in Requests, NEW input \in Checklist, SaveCount(t, input)
      PROVE  CountsHold' /\ Saved
  <2>1. /\ UNCHANGED <<form, revision, photos, miscounted>>
        /\ form = "open"
        /\ request' = [request EXCEPT ![t] = [kind |-> "save", revision |-> revision,
                                              items |-> input, counted |-> ItemsOf(photos)]]
    BY <1>3 DEF SaveCount, Becomes
  <2>2. \A u \in Requests : \/ request'[u] = request[u]
                            \/ request'[u].revision = revision /\ request'[u].counted = ItemsOf(photos)
    BY <2>1 DEF TypeOK
  <2> QED
    BY <1>1, <2>1, <2>2
<1>4. ASSUME NEW t \in Requests, SaveCommit(t) PROVE CountsHold' /\ Saved
  <2>1. /\ form' = form /\ revision' = revision + 1 /\ request[t].revision = revision
        /\ form = "open" /\ request[t].kind = "save"
        /\ request' = [request EXCEPT ![t] = Idle]
    BY <1>4 DEF SaveCommit, ClaimRevision, Becomes
  <2>2. \A u \in Requests : request'[u].kind = "save" => request'[u] = request[u]
    BY <2>1 DEF TypeOK, Idle
  <2>3. CountsHold'
    BY <1>2, <2>1, <2>2
  <2>4. Saved
    <3> SUFFICES ASSUME NEW u \in Requests, request[u].kind = "save", request'[u] = Idle,
                        u \notin miscounted
                 PROVE  status' = ActionStatus(items', {p.item : p \in photos'})
      BY DEF Saved
    <3>1. u = t
      BY <2>1 DEF TypeOK, Idle
    <3>2. request[t].counted = ItemsOf(photos)
      BY <2>1, <3>1 DEF CountsHold
    <3>3. PICK new, counted :
            /\ new = request[t].items /\ counted = request[t].counted
            /\ items' = new /\ status' = ActionStatus(new, counted)
            /\ photos' = photos \ {p \in photos : p.item \notin DOMAIN new}
      BY <1>4 DEF SaveCommit, DetachMedia
    <3>4. PICK kept : kept = {p.item : p \in photos'}
      OBVIOUS
    <3>5. \A i \in DOMAIN new : i \in counted <=> i \in kept
      BY <3>2, <3>3, <3>4 DEF ItemsOf
    <3>6. ActionStatus(new, counted) = ActionStatus(new, kept)
      BY <3>5, ActionStatusLocal
    <3> QED
      BY <3>3, <3>4, <3>6
  <2> QED
    BY <2>3, <2>4
<1>5. ASSUME NEW t \in Requests, AttachCommit(t) PROVE CountsHold' /\ Saved
  <2>1. form' = form /\ revision' = revision + 1 /\ request[t].kind = "verified"
    BY <1>5 DEF AttachCommit, ClaimRevision
  <2>2. /\ \A u \in Requests : u # t => request'[u] = request[u]
        /\ request'[t].kind # "save"
    BY <1>5 DEF AttachCommit, Becomes, Idle, TypeOK
  <2>3. CountsHold'
    BY <1>2, <2>1, <2>2
  <2>4. \A u \in Requests : request[u].kind = "save" => request'[u] # Idle
    BY <2>1, <2>2 DEF Idle
  <2> QED
    BY <2>3, <2>4 DEF Saved
<1>6. ASSUME NEW p \in photos, DeletePhoto(p) PROVE CountsHold' /\ Saved
  <2>1. form' = form /\ revision' = revision + 1 /\ UNCHANGED request
    BY <1>6 DEF DeletePhoto, ClaimRevision
  <2>2. CountsHold'
    BY <1>2, <2>1
  <2>3. \A u \in Requests : request[u].kind = "save" => request'[u] # Idle
    BY <2>1 DEF Idle
  <2> QED
    BY <2>2, <2>3 DEF Saved
<1>7. ASSUME NEW t \in Requests, NEW i \in Items, NEW N \in SUBSET Names, AttachFind(t, i, N)
      PROVE  CountsHold' /\ Saved
  <2>1. PICK r : /\ r = [kind |-> "attach", revision |-> revision, item |-> i, names |-> N]
                 /\ request' = [request EXCEPT ![t] = r]
                 /\ UNCHANGED <<form, revision, photos, miscounted>>
    BY <1>7 DEF AttachFind, Becomes
  <2>2. \A u \in Requests : request'[u] = request[u] \/ request'[u].kind # "save"
    BY <2>1 DEF TypeOK
  <2> QED
    BY <1>1, <2>1, <2>2
<1>8. ASSUME NEW t \in Requests, AttachVerify(t) PROVE CountsHold' /\ Saved
  <2>1. request[t] \in [kind : {"attach", "verified"}, revision : Revisions, item : Items, names : SUBSET Names]
    BY <1>8 DEF AttachVerify, Pending, Idle, TypeOK
  <2>2. /\ \A u \in Requests : request'[u] = request[u] \/ request'[u].kind # "save"
        /\ UNCHANGED <<form, revision, photos, miscounted>>
    BY <1>8, <2>1 DEF AttachVerify, TypeOK
  <2> QED
    BY <1>1, <2>2
<1>9. ASSUME NEW t \in Requests,
             AttachReject(t) \/ AttachLose(t) \/ AttachFail(t) \/ Discard(t)
               \/ DiaryDeleteRead(t) \/ DiaryDeleteQueue(t)
      PROVE  CountsHold' /\ Saved
  <2>1. UNCHANGED <<form, revision, photos, miscounted>>
    BY <1>9 DEF AttachReject, AttachLose, AttachFail, Discard, DiaryDeleteRead,
                DiaryDeleteQueue
  <2>2. \A u \in Requests : request'[u] = request[u] \/ request'[u].kind # "save"
    BY <1>9 DEF AttachReject, AttachLose, AttachFail, Discard, DiaryDeleteRead,
                DiaryDeleteQueue, Becomes, Idle, TypeOK
  <2> QED
    BY <1>1, <2>1, <2>2
<1>10. ASSUME NEW t \in Requests, Abort(t) PROVE CountsHold' /\ Saved
  <2>1. /\ UNCHANGED <<form, revision, photos>>
        /\ \A u \in Requests : u # t =>
             request'[u] = request[u] /\ (u \in miscounted' <=> u \in miscounted)
        /\ request'[t].kind # "save"
    BY <1>10 DEF Abort, Becomes, Idle, TypeOK
  <2>2. CountsHold'
    BY <2>1 DEF CountsHold, ItemsOf
  <2> QED
    BY <2>1, <2>2 DEF Saved
<1>11. ASSUME NEW p \in photos, DiaryDeletePhoto(p) PROVE CountsHold' /\ Saved
  <2>1. /\ UNCHANGED <<form, revision, request>>
        /\ miscounted' = miscounted \cup {t \in Requests : request[t].kind = "save"}
    BY <1>11 DEF DiaryDeletePhoto
  <2> QED
    BY <2>1 DEF CountsHold, Saved
<1>12. ASSUME NEW t \in Requests, DiaryDeleteCommit(t) PROVE CountsHold' /\ Saved
  <2>1. form' = "gone" /\ UNCHANGED revision /\ request[t].kind = "purge"
    BY <1>12 DEF DiaryDeleteCommit
  <2>2. \A u \in Requests : request'[u].kind = "save" => request'[u] = request[u]
    BY <1>12 DEF DiaryDeleteCommit, Becomes, Idle, TypeOK
  <2> QED
    BY <2>1, <2>2 DEF CountsHold, Saved
<1>13. CASE CreateDraft
  <2>1. /\ form = "none" /\ form' = "open"
        /\ UNCHANGED <<revision, photos, request, miscounted>>
    BY <1>13 DEF CreateDraft
  <2> QED
    BY <2>1 DEF CountsHold, Saved
<1>14. ASSUME \/ UNCHANGED vars
              \/ \E n \in Names : Upload(n) \/ Sweep(n)
       PROVE  CountsHold' /\ Saved
  <2>1. UNCHANGED <<form, revision, photos, request, miscounted>>
    BY <1>14 DEF Upload, Sweep, vars
  <2> QED
    BY <1>1, <2>1
<1> QED
  BY <1>3, <1>4, <1>5, <1>6, <1>7, <1>8, <1>9, <1>10, <1>11, <1>12, <1>13, <1>14
     DEF Next, RequestStep

\* A save writes the status of the rows and photos it leaves, for any number of
\* sessions, although it counted the photos in an earlier transaction.
THEOREM StatusCurrent == Spec => SavedStatusIsCurrent
<1>1. Init => TypeOK /\ CountsHold
  BY TypeInit DEF Init, CountsHold, Idle
<1>2. TypeOK /\ CountsHold /\ [Next]_vars => TypeOK' /\ CountsHold'
  BY TypeNext, CountsNext
<1>3. TypeOK /\ CountsHold /\ [Next]_vars => [Saved]_vars
  BY CountsNext
<1>4. Spec => [][Saved]_vars
  BY <1>1, <1>2, <1>3, PTL DEF Spec
<1> QED
  BY <1>4 DEF SavedStatusIsCurrent, Saved

=============================================================================
