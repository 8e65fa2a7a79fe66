----------------------------- MODULE ServicesProofs -----------------------------
(***************************************************************************)
(* What Registration, Branding, Notifications, Weather, Reporting,         *)
(* JobRecords and ExtrasToOrder promise, for every number of requests,     *)
(* names, images, users, browsers, calls, lines, dates, days, jobs, rows   *)
(* and extras.                                                             *)
(***************************************************************************)
EXTENDS Registration, Branding, Notifications, Weather, Reporting, JobRecords, ExtrasToOrder,
        FiniteSetTheorems, WellFoundedInduction, TLAPS

-----------------------------------------------------------------------------
(* Registration: the inductive invariant. *)

Mine(r) == {i \in DOMAIN companies : companies[i].by = r}

\* Names, founders' addresses and the setup's place.
NamedApart ==
    /\ \A i, j \in DOMAIN companies :
          companies[i].name = companies[j].name \/ companies[i].email = companies[j].email
              => i = j
    /\ \A i \in DOMAIN companies : companies[i].setup => i = 1

\* Every founder is a user.
FoundersHaveAccounts == \A i \in DOMAIN companies : companies[i].email \in accounts

\* What a registration checked still holds until another one commits.
SnapshotHolds ==
    \A r \in Registrants :
        signup[r].pc = "written" /\ ~signup[r].overlapped =>
            /\ signup[r].name \notin NamesTaken
            /\ signup[r].setup => companies = <<>>

\* A request has its company from its commit on, and is told so or nothing.
Standing ==
    \A r \in Registrants :
        /\ signup[r].pc \in {"idle", "written"} => Mine(r) = {} /\ signup[r].answer = NoAnswer
        /\ signup[r].pc = "session" =>
             (\E i \in DOMAIN companies : Mine(r) = {i}) /\ signup[r].answer = NoAnswer
        /\ signup[r].answer = "created" => \E i \in DOMAIN companies : Mine(r) = {i}
        /\ signup[r].answer \in {"forbidden", "taken", "busy"} => Mine(r) = {}
        /\ signup[r].answer = "taken" =>
             signup[r].email \in accounts \/ signup[r].name \in NamesTaken

RegistrationInv ==
    /\ RegistrationTypeOK
    /\ NamedApart
    /\ FoundersHaveAccounts
    /\ SnapshotHolds
    /\ Standing

-----------------------------------------------------------------------------
(* Registration, step by step. *)

LEMMA RegistrationInvInit == RegistrationInit => RegistrationInv
  <1> SUFFICES ASSUME RegistrationInit PROVE RegistrationInv
    OBVIOUS
  <1>1. companies = <<>> /\ accounts = {} /\ DOMAIN companies = {}
    BY DEF RegistrationInit
  <1>2. \A r \in Registrants : /\ signup[r] \in Signup /\ signup[r].pc = "idle"
                               /\ signup[r].answer = NoAnswer
    BY DEF RegistrationInit
  <1>3. RegistrationTypeOK  BY <1>1 DEF RegistrationInit, RegistrationTypeOK
  <1> QED  BY <1>1, <1>2, <1>3 DEF RegistrationInv, NamedApart, FoundersHaveAccounts, SnapshotHolds, Standing,
              Mine, NoAnswer

\* A step that leaves the companies alone and moves one request on.
LEMMA Answered ==
    ASSUME RegistrationInv, NEW r \in Registrants, UNCHANGED companies, accounts \subseteq accounts',
           accounts' \subseteq Emails,
           signup' \in [Registrants -> Signup],
           \A q \in Registrants \ {r} : signup'[q] = signup[q],
           signup[r].pc \in {"idle", "written"} \/ signup[r].pc = "session",
           signup'[r].pc = "written" =>
             /\ signup[r].pc = "idle" /\ signup'[r].answer = NoAnswer
             /\ signup'[r].name \notin NamesTaken
             /\ signup'[r].setup => companies = <<>>,
           signup'[r].pc \in {"written", "done"},
           signup'[r].answer = "created" => signup[r].pc = "session",
           signup'[r].answer \in {"forbidden", "taken", "busy"} => signup[r].pc # "session",
           signup'[r].answer = "taken" =>
             signup'[r].email \in accounts \/ signup'[r].name \in NamesTaken
    PROVE  RegistrationInv'
  <1>1. NamesTaken' = NamesTaken /\ \A q \in Registrants : Mine(q)' = Mine(q)
    BY DEF NamesTaken, Mine
  <1>2. RegistrationTypeOK'  BY DEF RegistrationInv, RegistrationTypeOK
  <1>3. NamedApart' /\ FoundersHaveAccounts'
    BY DEF RegistrationInv, NamedApart, FoundersHaveAccounts
  <1>4. SnapshotHolds'
    BY <1>1 DEF RegistrationInv, SnapshotHolds
  <1>5. Standing'
    <2> SUFFICES ASSUME NEW q \in Registrants
                 PROVE  /\ signup'[q].pc \in {"idle", "written"} =>
                             Mine(q) = {} /\ signup'[q].answer = NoAnswer
                        /\ signup'[q].pc = "session" =>
                             (\E i \in DOMAIN companies : Mine(q) = {i}) /\ signup'[q].answer = NoAnswer
                        /\ signup'[q].answer = "created" => \E i \in DOMAIN companies : Mine(q) = {i}
                        /\ signup'[q].answer \in {"forbidden", "taken", "busy"} => Mine(q) = {}
                        /\ signup'[q].answer = "taken" =>
                             signup'[q].email \in accounts \/ signup'[q].name \in NamesTaken
      BY <1>1 DEF Standing
    <2>1. CASE q = r  BY <2>1 DEF RegistrationInv, Standing
    <2>2. CASE q # r  BY <2>2 DEF RegistrationInv, Standing
    <2> QED  BY <2>1, <2>2
  <1> QED  BY <1>2, <1>3, <1>4, <1>5 DEF RegistrationInv

\* An answer keeps the type and says what it says.
LEMMA TellType ==
    ASSUME RegistrationTypeOK, NEW r \in Registrants, NEW answer,
           answer \in {"created", "forbidden", "taken", "busy", "error"}, Tell(r, answer)
    PROVE  /\ signup' \in [Registrants -> Signup]
           /\ signup'[r].pc = "done" /\ signup'[r].answer = answer
           /\ signup'[r].email = signup[r].email /\ signup'[r].name = signup[r].name
           /\ \A q \in Registrants \ {r} : signup'[q] = signup[q]
  <1>1. signup[r] \in Signup  BY DEF RegistrationTypeOK
  <1>2. signup'[r] = [signup[r] EXCEPT !.pc = "done", !.answer = answer]
    BY DEF RegistrationTypeOK, Tell
  <1>3. /\ signup'[r] \in Signup /\ signup'[r].pc = "done" /\ signup'[r].answer = answer
        /\ signup'[r].email = signup[r].email /\ signup'[r].name = signup[r].name
    BY <1>1, <1>2 DEF Signup
  <1> QED  BY <1>3 DEF RegistrationTypeOK, Tell

LEMMA InvRegister ==
    ASSUME RegistrationInv, NEW r \in Registrants, Register(r)
    PROVE  RegistrationInv'
  <1>1. RegistrationTypeOK /\ signup[r].pc = "idle" /\ UNCHANGED <<companies, accounts>>
    BY DEF RegistrationInv, Register
  <1>2. CASE Tell(r, "forbidden")
    BY <1>1, <1>2, TellType, Answered DEF RegistrationTypeOK
  <1>3. CASE Tell(r, "taken") /\ (signup[r].email \in accounts \/ signup[r].name \in NamesTaken)
    BY <1>1, <1>3, TellType, Answered DEF RegistrationTypeOK
  <1>4. CASE /\ signup[r].setup => NeedsSetup
             /\ signup[r].email \notin accounts /\ signup[r].name \notin NamesTaken
             /\ signup' = [signup EXCEPT ![r].pc = "written"]
    <2>1. signup[r] \in Signup /\ signup[r].answer = NoAnswer
      BY <1>1 DEF RegistrationInv, RegistrationTypeOK, Standing
    <2>2. signup'[r] = [signup[r] EXCEPT !.pc = "written"]
      BY <1>1, <1>4 DEF RegistrationTypeOK
    <2>3. /\ signup'[r] \in Signup /\ signup'[r].pc = "written" /\ signup'[r].answer = NoAnswer
          /\ signup'[r].name = signup[r].name /\ signup'[r].setup = signup[r].setup
      BY <2>1, <2>2 DEF Signup
    <2>4. signup' \in [Registrants -> Signup] /\ \A q \in Registrants \ {r} : signup'[q] = signup[q]
      BY <1>1, <1>4, <2>3 DEF RegistrationTypeOK
    <2>5. signup'[r].setup => companies = <<>>
      <3> SUFFICES ASSUME accounts = {} PROVE companies = <<>>
        BY <1>4, <2>3 DEF NeedsSetup
      <3>1. DOMAIN companies = {}  BY DEF RegistrationInv, FoundersHaveAccounts
      <3> QED  BY <1>1, <3>1 DEF RegistrationTypeOK
    <2> HIDE <1>4
    <2>6. signup'[r].name \notin NamesTaken  BY <1>4, <2>3
    <2> QED  BY <1>1, <2>3, <2>4, <2>5, <2>6, Answered DEF RegistrationTypeOK, NoAnswer
  <1> QED  BY <1>2, <1>3, <1>4 DEF Register

LEMMA InvRefuse ==
    ASSUME RegistrationInv, NEW r \in Registrants, RefuseRegistration(r)
    PROVE  RegistrationInv'
  <1>1. RegistrationTypeOK /\ signup[r].pc = "written" /\ UNCHANGED <<companies, accounts>>
    BY DEF RegistrationInv, RefuseRegistration
  <1>2. CASE signup[r].email \in accounts /\ Tell(r, "taken")
    BY <1>1, <1>2, TellType, Answered DEF RegistrationTypeOK
  <1>3. CASE Tell(r, "busy")
    BY <1>1, <1>3, TellType, Answered DEF RegistrationTypeOK
  <1>4. CASE Tell(r, "error")
    BY <1>1, <1>4, TellType, Answered DEF RegistrationTypeOK
  <1> QED  BY <1>2, <1>3, <1>4 DEF RefuseRegistration

LEMMA InvIssue ==
    ASSUME RegistrationInv, NEW r \in Registrants, IssueSession(r)
    PROVE  RegistrationInv'
  <1>1. RegistrationTypeOK /\ signup[r].pc = "session" /\ UNCHANGED <<companies, accounts>>
    BY DEF RegistrationInv, IssueSession
  <1>2. PICK answer \in {"created", "error"} : Tell(r, answer)
    BY DEF IssueSession
  <1>3. /\ signup' \in [Registrants -> Signup] /\ signup'[r].pc = "done"
        /\ signup'[r].answer = answer
        /\ \A q \in Registrants \ {r} : signup'[q] = signup[q]
    BY <1>1, <1>2, TellType
  <1> QED  BY <1>1, <1>2, <1>3, Answered DEF RegistrationTypeOK

\* The commit: nobody has committed since this request's snapshot.
LEMMA InvCommit ==
    ASSUME RegistrationInv, NEW r \in Registrants, CommitRegistration(r)
    PROVE  RegistrationInv'
  <1> DEFINE n   == Len(companies) + 1
             row == [by |-> r, setup |-> signup[r].setup, name |-> signup[r].name,
                     email |-> signup[r].email]
  <1>1. /\ signup[r].pc = "written" /\ signup[r].email \notin accounts /\ ~signup[r].overlapped
        /\ companies' = Append(companies, row) /\ accounts' = accounts \cup {signup[r].email}
    BY DEF CommitRegistration, Serializable
  <1>2. signup[r] \in Signup /\ row \in Founded
    BY DEF RegistrationInv, RegistrationTypeOK, Signup, Founded
  <1>3. /\ companies' \in Seq(Founded) /\ DOMAIN companies' = DOMAIN companies \cup {n}
        /\ n \notin DOMAIN companies /\ companies'[n] = row
        /\ \A i \in DOMAIN companies : companies'[i] = companies[i]
    BY <1>1, <1>2 DEF RegistrationInv, RegistrationTypeOK
  <1>4. /\ signup[r].name \notin NamesTaken
        /\ signup[r].setup => companies = <<>>
        /\ Mine(r) = {} /\ signup[r].answer = NoAnswer
    BY <1>1 DEF RegistrationInv, SnapshotHolds, Standing
  <1>5. /\ row.by = r /\ row.setup = signup[r].setup /\ row.name = signup[r].name
        /\ row.email = signup[r].email
    OBVIOUS
  <1> HIDE DEF row
  <1>6. signup'[r] = [signup[r] EXCEPT !.pc = "session"]
    BY DEF CommitRegistration
  <1>7. /\ signup'[r] \in Signup /\ signup'[r].pc = "session" /\ signup'[r].answer = NoAnswer
        /\ signup'[r].email = signup[r].email
    BY <1>2, <1>4, <1>6 DEF Signup
  <1>8. ASSUME NEW q \in Registrants \ {r}
        PROVE  /\ signup'[q] \in Signup /\ signup'[q].pc = signup[q].pc
               /\ signup'[q].answer = signup[q].answer
               /\ signup'[q].email = signup[q].email /\ signup'[q].name = signup[q].name
               /\ signup'[q].pc = "written" => signup'[q].overlapped
    <2>1. signup'[q] = [signup[q] EXCEPT !.overlapped = @ \/ signup[q].pc = "written"]
      BY DEF CommitRegistration
    <2>2. signup[q] \in Signup  BY DEF RegistrationInv, RegistrationTypeOK
    <2>3. (signup[q].overlapped \/ signup[q].pc = "written") \in BOOLEAN  BY <2>2 DEF Signup
    <2> QED  BY <2>1, <2>2, <2>3 DEF Signup
  <1>9. RegistrationTypeOK'
    <2>1. signup' = [q \in Registrants |-> signup'[q]]
      BY DEF CommitRegistration
    <2>2. \A q \in Registrants : signup'[q] \in Signup  BY <1>7, <1>8
    <2>3. accounts' \subseteq Emails  BY <1>1, <1>2 DEF RegistrationInv, RegistrationTypeOK, Signup
    <2> QED  BY <1>3, <2>1, <2>2, <2>3 DEF RegistrationTypeOK
  <1>10. NamedApart'
    <2>1. \A i \in DOMAIN companies : /\ companies[i].name # row.name
                                      /\ companies[i].email # row.email
      BY <1>1, <1>4, <1>5 DEF NamesTaken, RegistrationInv, FoundersHaveAccounts
    <2>2. row.setup => n = 1
      BY <1>4, <1>5
    <2> QED  BY <1>3, <2>1, <2>2 DEF RegistrationInv, NamedApart
  <1>11. FoundersHaveAccounts'
    BY <1>1, <1>3, <1>5 DEF RegistrationInv, FoundersHaveAccounts
  <1>12. SnapshotHolds'
    BY <1>7, <1>8 DEF SnapshotHolds
  <1>13. Standing'
    <2>1. Mine(r)' = {n} /\ n \in DOMAIN companies'
      BY <1>3, <1>4, <1>5 DEF Mine
    <2>2. \A q \in Registrants \ {r} : Mine(q)' = Mine(q)
      BY <1>3, <1>5 DEF Mine
    <2>3. NamesTaken \subseteq NamesTaken' /\ accounts \subseteq accounts'
      BY <1>1, <1>3 DEF NamesTaken
    <2>4. DOMAIN companies \subseteq DOMAIN companies'
      BY <1>3
    <2> SUFFICES ASSUME NEW q \in Registrants
                 PROVE  /\ signup'[q].pc \in {"idle", "written"} =>
                             Mine(q)' = {} /\ signup'[q].answer = NoAnswer
                        /\ signup'[q].pc = "session" =>
                             (\E i \in DOMAIN companies' : Mine(q)' = {i}) /\ signup'[q].answer = NoAnswer
                        /\ signup'[q].answer = "created" => \E i \in DOMAIN companies' : Mine(q)' = {i}
                        /\ signup'[q].answer \in {"forbidden", "taken", "busy"} => Mine(q)' = {}
                        /\ signup'[q].answer = "taken" =>
                             signup'[q].email \in accounts' \/ signup'[q].name \in NamesTaken'
      BY DEF Standing
    <2>5. CASE q = r  BY <1>7, <2>1, <2>5 DEF NoAnswer
    <2>6. CASE q # r
      <3>1. /\ signup[q].pc \in {"idle", "written"} => Mine(q) = {} /\ signup[q].answer = NoAnswer
            /\ signup[q].pc = "session" =>
                 (\E i \in DOMAIN companies : Mine(q) = {i}) /\ signup[q].answer = NoAnswer
            /\ signup[q].answer = "created" => \E i \in DOMAIN companies : Mine(q) = {i}
            /\ signup[q].answer \in {"forbidden", "taken", "busy"} => Mine(q) = {}
            /\ signup[q].answer = "taken" =>
                 signup[q].email \in accounts \/ signup[q].name \in NamesTaken
        BY DEF RegistrationInv, Standing
      <3> QED  BY <1>8, <2>2, <2>3, <2>4, <2>6, <3>1
    <2> QED  BY <2>5, <2>6
  <1> QED  BY <1>9, <1>10, <1>11, <1>12, <1>13 DEF RegistrationInv

LEMMA InvAddUser ==
    ASSUME RegistrationInv, NEW email \in Emails, AddUser(email)
    PROVE  RegistrationInv'
  <1>1. accounts \subseteq accounts' /\ accounts' \subseteq Emails /\ UNCHANGED <<companies, signup>>
    BY DEF RegistrationInv, RegistrationTypeOK, AddUser
  <1> QED  BY <1>1 DEF RegistrationInv, RegistrationTypeOK, NamedApart, FoundersHaveAccounts, SnapshotHolds,
              Standing, NamesTaken, Mine

LEMMA RegistrationInvNext == RegistrationInv /\ [RegistrationNext]_registrationVars => RegistrationInv'
  <1> SUFFICES ASSUME RegistrationInv, [RegistrationNext]_registrationVars PROVE RegistrationInv'
    OBVIOUS
  <1>1. CASE UNCHANGED registrationVars
    BY <1>1 DEF registrationVars, RegistrationInv, RegistrationTypeOK, NamedApart, FoundersHaveAccounts,
       SnapshotHolds, Standing, NamesTaken, Mine
  <1> QED  BY <1>1, InvRegister, InvCommit, InvRefuse, InvIssue, InvAddUser DEF RegistrationNext

\* Registrations behave as if they ran one after the other: names, founders'
\* addresses and the setup are unique, and every answer is true
\* (auth_register_company under SERIALIZABLE, and map_register_error).
THEOREM Serial == RegistrationSpec => []RegistrationsAreSerial
  <1>1. RegistrationInv => RegistrationsAreSerial
    <2> SUFFICES ASSUME RegistrationInv PROVE RegistrationsAreSerial
      OBVIOUS
    <2>1. ASSUME NEW r \in Registrants, signup[r].answer = "created"
          PROVE  Cardinality(Mine(r)) = 1
      <3>1. PICK i \in DOMAIN companies : Mine(r) = {i}
        BY <2>1 DEF RegistrationInv, Standing
      <3> QED  BY <3>1, FS_Singleton
    <2> QED  BY <2>1 DEF RegistrationInv, NamedApart, Standing, Mine, RegistrationsAreSerial
  <1> QED  BY <1>1, RegistrationInvInit, RegistrationInvNext, PTL DEF RegistrationSpec

-----------------------------------------------------------------------------
(* Branding: the inductive invariant. *)

Pending(r) == saver[r].pc \in {"set", "write"}
PastWrite(r) == saver[r].pc \in {"sweep", "done"}

\* A request that saves an image has confirmed it, and an idle one none.
SaversConfirmed ==
    \A r \in Savers, k \in Images :
        /\ saver[r].key = k => r \in confirmedBy[k]
        /\ saver[r].pc = "idle" => r \notin confirmedBy[k]

\* An image that was shown has a request that wrote it.
ShownWereWritten ==
    \A k \in shownOnce : \E s \in Savers : PastWrite(s) /\ saver[s].key = k

\* Every image that is or was seen as the logo was shown.
SeenWereShown ==
    /\ logo # NoImage => logo \in shownOnce
    /\ \A r \in Savers : saver[r].seen # NoImage => saver[r].seen \in shownOnce

\* What a request is going to show is stored.
PendingAreStored ==
    \A r \in Savers :
        Pending(r) /\ saver[r].key # NoImage
            => saver[r].key \in bucket \/ ConfirmedAgain(saver[r].key)

\* What a request is going to sweep is not on show.
SweptAreHidden ==
    \A r \in Savers :
        saver[r].pc = "sweep" /\ saver[r].seen # NoImage /\ saver[r].seen # saver[r].key
            => logo # saver[r].seen \/ ConfirmedAgain(saver[r].seen)

\* Who displaces the image they set has set it again.
SetAgain ==
    \A r \in Savers :
        /\ saver[r].pc \in {"write", "sweep"}
        /\ saver[r].seen = saver[r].key /\ saver[r].key # NoImage
        => ConfirmedAgain(saver[r].key)

BrandingInv ==
    /\ BrandingTypeOK
    /\ SaversConfirmed
    /\ ShownWereWritten
    /\ SeenWereShown
    /\ PendingAreStored
    /\ SweptAreHidden
    /\ SetAgain
    /\ LogoIsStored
    /\ DisplacedAreSwept

-----------------------------------------------------------------------------
(* The argument: an image that was shown was written by somebody, and        *)
(* whoever else comes with it now has confirmed it again.                    *)

LEMMA SaverType ==
    ASSUME BrandingTypeOK, NEW r \in Savers
    PROVE  /\ saver[r] \in Saver
           /\ saver[r].pc \in {"idle", "set", "write", "sweep", "done"}
           /\ saver[r].key \in Images \cup {NoImage} /\ saver[r].seen \in Images \cup {NoImage}
  BY DEF BrandingTypeOK, Saver

LEMMA SecondConfirmation ==
    ASSUME BrandingInv, NEW k \in shownOnce, NEW r \in Savers, Pending(r), saver[r].key = k
    PROVE  ConfirmedAgain(k)
  <1>1. k \in Images  BY DEF BrandingInv, BrandingTypeOK
  <1>2. PICK s \in Savers : PastWrite(s) /\ saver[s].key = k
    BY DEF BrandingInv, ShownWereWritten
  <1>3. s # r  BY <1>2 DEF Pending, PastWrite
  <1>4. r \in confirmedBy[k] /\ s \in confirmedBy[k]
    BY <1>1, <1>2 DEF BrandingInv, SaversConfirmed
  <1> QED  BY <1>3, <1>4 DEF ConfirmedAgain

LEMMA LateConfirmation ==
    ASSUME BrandingInv, NEW k \in Images, NEW r \in Savers, saver[r].pc = "idle",
           confirmedBy' = [confirmedBy EXCEPT ![k] = @ \cup {r}],
           \E s \in Savers : saver[s].key = k
    PROVE  ConfirmedAgain(k)'
  <1>1. PICK s \in Savers : s \in confirmedBy[k]
    BY DEF BrandingInv, SaversConfirmed
  <1>2. s # r  BY <1>1 DEF BrandingInv, SaversConfirmed
  <1>3. confirmedBy'[k] = confirmedBy[k] \cup {r}
    BY DEF BrandingInv, BrandingTypeOK
  <1> QED  BY <1>1, <1>2, <1>3 DEF ConfirmedAgain

LEMMA BrandingInvInit == BrandingInit => BrandingInv
  <1> SUFFICES ASSUME BrandingInit PROVE BrandingInv
    OBVIOUS
  <1>1. \A r \in Savers : /\ saver[r].pc = "idle"
                          /\ saver[r].key = NoImage /\ saver[r].seen = NoImage
    BY DEF BrandingInit
  <1>2. BrandingTypeOK  BY DEF BrandingInit, BrandingTypeOK, Saver
  <1>3. SaversConfirmed  BY <1>1, NoImageIsNone DEF BrandingInit, SaversConfirmed
  <1>4. ShownWereWritten /\ SeenWereShown
    BY <1>1 DEF BrandingInit, ShownWereWritten, SeenWereShown
  <1>6. PendingAreStored /\ SweptAreHidden /\ SetAgain
    BY <1>1 DEF PendingAreStored, SweptAreHidden, SetAgain, Pending
  <1>7. LogoIsStored /\ DisplacedAreSwept
    BY DEF BrandingInit, LogoIsStored, DisplacedAreSwept
  <1> QED  BY <1>2, <1>3, <1>4, <1>6, <1>7 DEF BrandingInv

-----------------------------------------------------------------------------
(* Branding, step by step. *)

\* An object that was deleted and is of an image that was shown is excused.
LEMMA InvPutImage ==
    ASSUME BrandingInv, NEW k \in Images, PutImage(k)
    PROVE  BrandingInv'
  <1> USE DEF PutImage
  <1>1. BrandingTypeOK'  BY DEF BrandingInv, BrandingTypeOK
  <1>2. SaversConfirmed' /\ ShownWereWritten' /\ SeenWereShown'
    BY DEF BrandingInv, SaversConfirmed, ShownWereWritten, SeenWereShown, PastWrite
  <1>3. \A i \in Images : ConfirmedAgain(i)' <=> ConfirmedAgain(i)
    BY DEF ConfirmedAgain
  <1>4. PendingAreStored' /\ SweptAreHidden' /\ SetAgain' /\ LogoIsStored'
    BY DEF BrandingInv, PendingAreStored, SweptAreHidden, SetAgain, LogoIsStored, Pending,
       ConfirmedAgain
  <1>5. DisplacedAreSwept'
    <2> SUFFICES ASSUME NEW i \in (shownOnce \cap bucket') \ {logo}
                 PROVE  \/ \E r \in Savers : saver[r].pc = "sweep" /\ saver[r].seen = i
                        \/ i \in leftBehind
                        \/ ConfirmedAgain(i) \/ i \in replayed'
      BY DEF DisplacedAreSwept, ConfirmedAgain
    <2>1. CASE i \in bucket
      BY <2>1 DEF BrandingInv, DisplacedAreSwept
    <2>2. CASE i \notin bucket
      BY <2>2
    <2> QED  BY <2>1, <2>2
  <1> QED  BY <1>1, <1>2, <1>4, <1>5 DEF BrandingInv

\* A confirmation that discards the object of an image is not its first.
LEMMA InvConfirmImage ==
    ASSUME BrandingInv, NEW r \in Savers, NEW k \in Images, NEW mismatch \in BOOLEAN,
           ConfirmImage(r, k, mismatch)
    PROVE  BrandingInv'
  <1>1. /\ saver[r].pc = "idle"
        /\ confirmedBy' = [confirmedBy EXCEPT ![k] = @ \cup {r}]
        /\ UNCHANGED <<logo, shownOnce, leftBehind, replayed>>
        /\ bucket' \in {bucket, bucket \ {k}}
    BY DEF ConfirmImage
  <1>2. /\ confirmedBy' \in [Images -> SUBSET Savers]
        /\ confirmedBy'[k] = confirmedBy[k] \cup {r}
        /\ \A i \in Images \ {k} : confirmedBy'[i] = confirmedBy[i]
    BY <1>1 DEF BrandingInv, BrandingTypeOK
  <1>3. \A i \in Images : ConfirmedAgain(i) => ConfirmedAgain(i)'
    BY <1>2 DEF ConfirmedAgain
  <1>4. (\E s \in Savers : saver[s].key = k) => ConfirmedAgain(k)'
    BY <1>1, LateConfirmation
  <1>5. k \in shownOnce => ConfirmedAgain(k)'
    BY <1>4 DEF BrandingInv, ShownWereWritten
  <1>6. /\ saver' \in [Savers -> Saver]
        /\ \A q \in Savers \ {r} : saver'[q] = saver[q]
        /\ saver'[r].seen = saver[r].seen
        /\ \/ saver'[r].pc = "done" /\ saver'[r].key = saver[r].key
           \/ /\ saver'[r].pc = "set" /\ saver'[r].key = k
              /\ k \in bucket /\ bucket' = bucket
    <2>1. saver[r] \in Saver  BY DEF BrandingInv, BrandingTypeOK
    <2>2. CASE Uploaded(k) /\ ~mismatch
      <3>1. saver' = [saver EXCEPT ![r] = [saver[r] EXCEPT !.pc = "set", !.key = k]]
        BY <2>2 DEF ConfirmImage, BrandingInv, BrandingTypeOK
      <3>2. [saver[r] EXCEPT !.pc = "set", !.key = k] \in Saver
        BY <2>1 DEF Saver
      <3> QED  BY <2>1, <2>2, <3>1, <3>2 DEF ConfirmImage, Uploaded, BrandingInv, BrandingTypeOK, Saver
    <2>3. CASE ~(Uploaded(k) /\ ~mismatch)
      <3>1. saver' = [saver EXCEPT ![r] = [saver[r] EXCEPT !.pc = "done"]]
        BY <2>3 DEF ConfirmImage, SaverDone, BrandingInv, BrandingTypeOK
      <3>2. [saver[r] EXCEPT !.pc = "done"] \in Saver
        BY <2>1 DEF Saver
      <3> QED  BY <2>1, <3>1, <3>2 DEF BrandingInv, BrandingTypeOK, Saver
    <2> QED  BY <2>2, <2>3
  <1>7. BrandingTypeOK'
    BY <1>1, <1>2, <1>6 DEF BrandingInv, BrandingTypeOK
  <1>8. saver[r].key = NoImage
    BY <1>1, SaverType DEF BrandingInv, SaversConfirmed
  <1>9. SaversConfirmed'
    BY <1>2, <1>6, <1>8, NoImageIsNone DEF BrandingInv, SaversConfirmed
  <1>10. ShownWereWritten'
    BY <1>1, <1>6 DEF BrandingInv, ShownWereWritten, PastWrite
  <1>11. SeenWereShown'
    BY <1>1, <1>6 DEF BrandingInv, SeenWereShown
  <1>13. PendingAreStored'
    BY <1>1, <1>3, <1>4, <1>6, <1>8, SaverType DEF BrandingInv, PendingAreStored, Pending
  <1>14. SweptAreHidden'
    BY <1>1, <1>3, <1>6, SaverType DEF BrandingInv, SweptAreHidden
  <1>15. SetAgain'
    BY <1>1, <1>3, <1>6, SaverType DEF BrandingInv, SetAgain
  <1>16. LogoIsStored'
    BY <1>1, <1>3, <1>5 DEF BrandingInv, LogoIsStored, SeenWereShown, BrandingTypeOK
  <1>17. DisplacedAreSwept'
    BY <1>1, <1>3, <1>6 DEF BrandingInv, DisplacedAreSwept, BrandingTypeOK
  <1> QED  BY <1>7, <1>9, <1>10, <1>11, <1>13, <1>14, <1>15, <1>16, <1>17 DEF BrandingInv

\* A request moves on, and nothing else of what is stored and shown changes.
LEMMA Moves ==
    ASSUME BrandingInv, NEW r \in Savers, NEW e \in Saver,
           saver' = [saver EXCEPT ![r] = e], e.pc # "idle", e.key = saver[r].key,
           PastWrite(r) => e.pc = "done",
           e.pc \in {"set", "write"} => Pending(r) \/ e.key = NoImage,
           e.pc # "sweep",
           e.seen # NoImage => e.seen \in shownOnce,
           e.pc = "write" /\ e.seen = e.key /\ e.key # NoImage => ConfirmedAgain(e.key),
           UNCHANGED <<logo, confirmedBy, shownOnce, replayed>>
    PROVE  /\ saver' \in [Savers -> Saver]
           /\ SaversConfirmed' /\ ShownWereWritten' /\ SeenWereShown'
           /\ SweptAreHidden' /\ SetAgain'
           /\ bucket' = bucket => PendingAreStored' /\ LogoIsStored'
  <1>1. /\ saver' \in [Savers -> Saver] /\ saver'[r] = e
        /\ \A q \in Savers \ {r} : saver'[q] = saver[q]
    BY DEF BrandingInv, BrandingTypeOK
  <1>2. \A i : ConfirmedAgain(i)' <=> ConfirmedAgain(i)
    BY DEF ConfirmedAgain
  <1>3. SaversConfirmed'  BY <1>1 DEF BrandingInv, SaversConfirmed
  <1>4. ShownWereWritten'  BY <1>1 DEF BrandingInv, ShownWereWritten, PastWrite
  <1>5. SeenWereShown'  BY <1>1 DEF BrandingInv, SeenWereShown
  <1>6. SweptAreHidden'  BY <1>1, <1>2 DEF BrandingInv, SweptAreHidden
  <1>7. SetAgain'  BY <1>1, <1>2 DEF BrandingInv, SetAgain
  <1>8. ASSUME bucket' = bucket PROVE PendingAreStored' /\ LogoIsStored'
    <2>2. PendingAreStored'  BY <1>1, <1>2, <1>8 DEF BrandingInv, PendingAreStored, Pending
    <2>3. LogoIsStored'  BY <1>2, <1>8 DEF BrandingInv, LogoIsStored
    <2> QED  BY <2>2, <2>3
  <1> QED  BY <1>1, <1>3, <1>4, <1>5, <1>6, <1>7, <1>8

LEMMA InvClearImage ==
    ASSUME BrandingInv, NEW r \in Savers, ClearImage(r)
    PROVE  BrandingInv'
  <1> DEFINE e == [saver[r] EXCEPT !.pc = "set"]
  <1>1. saver[r] \in Saver /\ saver[r].pc = "idle"
    BY DEF ClearImage, BrandingInv, BrandingTypeOK
  <1>2. e \in Saver /\ e.pc = "set" /\ e.key = saver[r].key /\ e.seen = saver[r].seen
    BY <1>1 DEF Saver
  <1>3. saver' = [saver EXCEPT ![r] = e]
    BY DEF ClearImage, BrandingInv, BrandingTypeOK
  <1>4. UNCHANGED <<bucket, logo, confirmedBy, shownOnce, leftBehind, replayed>>
    BY DEF ClearImage
  <1>5. e.key = NoImage
    BY <1>1, <1>2, SaverType DEF BrandingInv, SaversConfirmed
  <1> HIDE DEF e
  <1>6. /\ saver' \in [Savers -> Saver]
        /\ SaversConfirmed' /\ ShownWereWritten' /\ SeenWereShown'
        /\ PendingAreStored' /\ SweptAreHidden' /\ SetAgain' /\ LogoIsStored'
    BY <1>1, <1>2, <1>3, <1>4, <1>5, Moves DEF BrandingInv, SeenWereShown, PastWrite
  <1>7. DisplacedAreSwept'
    BY <1>1, <1>3, <1>4 DEF BrandingInv, DisplacedAreSwept, BrandingTypeOK, ConfirmedAgain
  <1>8. BrandingTypeOK'  BY <1>4, <1>6 DEF BrandingInv, BrandingTypeOK
  <1> QED  BY <1>6, <1>7, <1>8 DEF BrandingInv

LEMMA InvBeginSet ==
    ASSUME BrandingInv, NEW r \in Savers, BeginSet(r)
    PROVE  BrandingInv'
  <1> DEFINE e == [saver[r] EXCEPT !.pc = "write", !.seen = logo]
  <1>1. saver[r] \in Saver /\ saver[r].pc = "set" /\ logo \in Images \cup {NoImage}
    BY DEF BeginSet, BrandingInv, BrandingTypeOK
  <1>2. e \in Saver /\ e.pc = "write" /\ e.key = saver[r].key /\ e.seen = logo
    BY <1>1 DEF Saver
  <1>3. saver' = [saver EXCEPT ![r] = e]
    BY DEF BeginSet, BrandingInv, BrandingTypeOK
  <1>4. UNCHANGED <<bucket, logo, confirmedBy, shownOnce, leftBehind, replayed>>
    BY DEF BeginSet
  <1>5. Pending(r) /\ ~PastWrite(r)  BY <1>1 DEF Pending, PastWrite
  <1>6. logo # NoImage => logo \in shownOnce  BY DEF BrandingInv, SeenWereShown
  <1>7. logo = saver[r].key /\ saver[r].key # NoImage => ConfirmedAgain(saver[r].key)
    BY <1>5, <1>6, SecondConfirmation
  <1> HIDE DEF e
  <1>8. /\ saver' \in [Savers -> Saver]
        /\ SaversConfirmed' /\ ShownWereWritten' /\ SeenWereShown'
        /\ PendingAreStored' /\ SweptAreHidden' /\ SetAgain' /\ LogoIsStored'
    BY <1>2, <1>3, <1>4, <1>5, <1>6, <1>7, Moves
  <1>9. DisplacedAreSwept'
    BY <1>1, <1>3, <1>4 DEF BrandingInv, DisplacedAreSwept, BrandingTypeOK, ConfirmedAgain
  <1>10. BrandingTypeOK'  BY <1>4, <1>8 DEF BrandingInv, BrandingTypeOK
  <1> QED  BY <1>8, <1>9, <1>10 DEF BrandingInv

\* The write shows what is stored, and the request sees to what it displaced
\* if that is what it had seen.
LEMMA InvWriteImage ==
    ASSUME BrandingInv, NEW r \in Savers, WriteImage(r)
    PROVE  BrandingInv'
  <1> DEFINE k == saver[r].key
  <1>1. /\ saver[r] \in Saver /\ saver[r].pc = "write" /\ k \in Images \cup {NoImage}
        /\ Pending(r)
    BY SaverType DEF WriteImage, BrandingInv, Pending
  <1>2. /\ logo' = k /\ shownOnce' = shownOnce \cup ({k} \ {NoImage})
        /\ UNCHANGED <<bucket, confirmedBy, replayed>>
        /\ leftBehind' = IF logo = saver[r].seen THEN leftBehind
                         ELSE leftBehind \cup ({logo} \ {NoImage})
    BY DEF WriteImage
  <1>3. /\ saver' \in [Savers -> Saver]
        /\ saver'[r].pc = "sweep" /\ saver'[r].key = k /\ saver'[r].seen = saver[r].seen
        /\ \A q \in Savers \ {r} : saver'[q] = saver[q]
    <2>1. saver' = [saver EXCEPT ![r] = [saver[r] EXCEPT !.pc = "sweep", !.seen = saver[r].seen]]
      BY DEF WriteImage, Previous, BrandingInv, BrandingTypeOK
    <2>2. [saver[r] EXCEPT !.pc = "sweep", !.seen = saver[r].seen] \in Saver
      BY <1>1 DEF Saver
    <2> QED  BY <1>1, <2>1, <2>2 DEF BrandingInv, BrandingTypeOK, Saver
  <1>4. \A i : ConfirmedAgain(i)' <=> ConfirmedAgain(i)
    BY <1>2 DEF ConfirmedAgain
  <1>5. k \in shownOnce => ConfirmedAgain(k)
    BY <1>1, SecondConfirmation
  <1>6. BrandingTypeOK'
    BY <1>1, <1>2, <1>3 DEF BrandingInv, BrandingTypeOK
  <1>7. SaversConfirmed'
    BY <1>1, <1>2, <1>3 DEF BrandingInv, SaversConfirmed
  <1>8. ShownWereWritten'
    BY <1>1, <1>2, <1>3 DEF BrandingInv, ShownWereWritten, PastWrite
  <1>9. SeenWereShown'
    BY <1>2, <1>3 DEF BrandingInv, SeenWereShown
  <1>11. PendingAreStored'
    BY <1>2, <1>3, <1>4 DEF BrandingInv, PendingAreStored, Pending
  <1>12. SweptAreHidden'
    <2> SUFFICES ASSUME NEW q \in Savers, saver'[q].pc = "sweep", saver'[q].seen # NoImage,
                        saver'[q].seen # saver'[q].key, logo' = saver'[q].seen
                 PROVE  ConfirmedAgain(saver'[q].seen)
      BY <1>4 DEF SweptAreHidden
    <2>1. q # r  BY <1>2, <1>3
    <2>2. saver[q].seen = k /\ k \in shownOnce
      BY <1>2, <1>3, <2>1 DEF BrandingInv, SeenWereShown
    <2> QED  BY <1>3, <1>5, <2>1, <2>2
  <1>13. SetAgain'
    BY <1>1, <1>3, <1>4 DEF BrandingInv, SetAgain
  <1>14. LogoIsStored'
    BY <1>1, <1>2, <1>4 DEF BrandingInv, LogoIsStored, PendingAreStored
  <1>15. DisplacedAreSwept'
    <2> SUFFICES ASSUME NEW i \in (shownOnce' \cap bucket') \ {logo'}
                 PROVE  \/ \E q \in Savers : saver'[q].pc = "sweep" /\ saver'[q].seen = i
                        \/ i \in leftBehind'
                        \/ ConfirmedAgain(i) \/ i \in replayed
      BY <1>2, <1>4 DEF DisplacedAreSwept
    <2>1. i \in shownOnce /\ i \in bucket /\ i # k
      BY <1>2
    <2>2. CASE i = logo
      BY <1>2, <1>3, <2>1, <2>2, NoImageIsNone DEF BrandingInv, BrandingTypeOK
    <2>3. CASE i # logo
      <3>1. \/ \E q \in Savers : saver[q].pc = "sweep" /\ saver[q].seen = i
            \/ i \in leftBehind \/ ConfirmedAgain(i) \/ i \in replayed
        BY <2>1, <2>3 DEF BrandingInv, DisplacedAreSwept
      <3> QED  BY <1>1, <1>2, <1>3, <3>1
    <2> QED  BY <2>2, <2>3
  <1> QED  BY <1>6, <1>7, <1>8, <1>9, <1>11, <1>12, <1>13, <1>14, <1>15 DEF BrandingInv

\* What is swept is on show, or about to be, only if it was confirmed again.
LEMMA InvSweep ==
    ASSUME BrandingInv, NEW r \in Savers, Sweep(r)
    PROVE  BrandingInv'
  <1> DEFINE e == [saver[r] EXCEPT !.pc = "done"]
             k == saver[r].seen
  <1>1. saver[r] \in Saver /\ saver[r].pc = "sweep" /\ PastWrite(r)
    BY DEF Sweep, BrandingInv, BrandingTypeOK, PastWrite
  <1>2. e \in Saver /\ e.pc = "done" /\ e.key = saver[r].key /\ e.seen = saver[r].seen
    BY <1>1 DEF Saver
  <1>3. saver' = [saver EXCEPT ![r] = e]
    BY DEF Sweep, SaverDone, BrandingInv, BrandingTypeOK
  <1>4. /\ UNCHANGED <<logo, confirmedBy, shownOnce, leftBehind, replayed>>
        /\ bucket' = IF k # saver[r].key THEN bucket \ {k} ELSE bucket
    BY DEF Sweep
  <1>5. k # NoImage => k \in shownOnce  BY DEF BrandingInv, SeenWereShown
  <1>6. \A i : ConfirmedAgain(i)' <=> ConfirmedAgain(i)
    BY <1>4 DEF ConfirmedAgain
  <1> HIDE DEF e
  <1>7. /\ saver' \in [Savers -> Saver] /\ saver'[r] = e
        /\ \A q \in Savers \ {r} : saver'[q] = saver[q]
    BY <1>2, <1>3 DEF BrandingInv, BrandingTypeOK
  <1>8. /\ SaversConfirmed' /\ ShownWereWritten' /\ SeenWereShown'
        /\ SweptAreHidden' /\ SetAgain'
    BY <1>1, <1>2, <1>3, <1>4, <1>5, Moves
  <1>10. PendingAreStored'
    <2> SUFFICES ASSUME NEW q \in Savers, Pending(q)', saver'[q].key # NoImage,
                        saver'[q].key \notin bucket'
                 PROVE  ConfirmedAgain(saver'[q].key)
      BY <1>6 DEF PendingAreStored
    <2>1. q # r /\ saver'[q] = saver[q] /\ Pending(q)
      BY <1>2, <1>7 DEF Pending
    <2>2. CASE saver[q].key \notin bucket
      BY <2>1, <2>2 DEF BrandingInv, PendingAreStored
    <2>3. CASE saver[q].key = k
      BY <1>5, <2>1, <2>3, SecondConfirmation
    <2> QED  BY <1>4, <2>1, <2>2, <2>3
  <1>11. LogoIsStored'
    BY <1>1, <1>4, <1>6 DEF BrandingInv, LogoIsStored, SweptAreHidden
  <1>12. DisplacedAreSwept'
    <2> SUFFICES ASSUME NEW i \in (shownOnce \cap bucket') \ {logo}
                 PROVE  \/ \E q \in Savers : saver'[q].pc = "sweep" /\ saver'[q].seen = i
                        \/ i \in leftBehind
                        \/ ConfirmedAgain(i) \/ i \in replayed
      BY <1>4, <1>6 DEF DisplacedAreSwept
    <2>1. i \in bucket /\ i \in Images  BY <1>4 DEF BrandingInv, BrandingTypeOK
    <2>2. CASE i = k
      BY <1>1, <1>4, <2>1, <2>2, NoImageIsNone DEF BrandingInv, SetAgain
    <2>3. CASE i # k
      <3>1. \/ \E q \in Savers : saver[q].pc = "sweep" /\ saver[q].seen = i
            \/ i \in leftBehind \/ ConfirmedAgain(i) \/ i \in replayed
        BY <2>1 DEF BrandingInv, DisplacedAreSwept
      <3> QED  BY <1>7, <2>3, <3>1
    <2> QED  BY <2>2, <2>3
  <1>13. BrandingTypeOK'  BY <1>4, <1>7 DEF BrandingInv, BrandingTypeOK
  <1> QED  BY <1>8, <1>10, <1>11, <1>12, <1>13 DEF BrandingInv

LEMMA InvAbandonSave ==
    ASSUME BrandingInv, NEW r \in Savers, AbandonSave(r)
    PROVE  BrandingInv'
  <1> DEFINE e == [saver[r] EXCEPT !.pc = "done"]
  <1>1. saver[r] \in Saver /\ saver[r].pc \in {"set", "write", "sweep"}
    BY DEF AbandonSave, BrandingInv, BrandingTypeOK
  <1>2. e \in Saver /\ e.pc = "done" /\ e.key = saver[r].key /\ e.seen = saver[r].seen
    BY <1>1 DEF Saver
  <1>3. saver' = [saver EXCEPT ![r] = e]
    BY DEF AbandonSave, SaverDone, BrandingInv, BrandingTypeOK
  <1>4. /\ UNCHANGED <<bucket, logo, confirmedBy, shownOnce, replayed>>
        /\ leftBehind' = IF saver[r].pc = "sweep"
                         THEN leftBehind \cup ({saver[r].seen} \ {NoImage}) ELSE leftBehind
    BY DEF AbandonSave
  <1>5. saver[r].seen # NoImage => saver[r].seen \in shownOnce
    BY DEF BrandingInv, SeenWereShown
  <1> HIDE DEF e
  <1>6. /\ saver' \in [Savers -> Saver]
        /\ SaversConfirmed' /\ ShownWereWritten' /\ SeenWereShown'
        /\ PendingAreStored' /\ SweptAreHidden' /\ SetAgain' /\ LogoIsStored'
    BY <1>2, <1>3, <1>4, <1>5, Moves
  <1>7. DisplacedAreSwept'
    <2> SUFFICES ASSUME NEW i \in (shownOnce \cap bucket) \ {logo}
                 PROVE  \/ \E q \in Savers : saver'[q].pc = "sweep" /\ saver'[q].seen = i
                        \/ i \in leftBehind'
                        \/ ConfirmedAgain(i) \/ i \in replayed
      BY <1>4 DEF DisplacedAreSwept, ConfirmedAgain
    <2>1. \A q \in Savers \ {r} : saver'[q] = saver[q]
      BY <1>3 DEF BrandingInv, BrandingTypeOK
    <2>2. i # NoImage  BY NoImageIsNone DEF BrandingInv, BrandingTypeOK
    <2> QED  BY <1>4, <2>1, <2>2 DEF BrandingInv, DisplacedAreSwept
  <1>8. BrandingTypeOK'
    BY <1>4, <1>6, SaverType DEF BrandingInv, BrandingTypeOK
  <1> QED  BY <1>6, <1>7, <1>8 DEF BrandingInv

LEMMA BrandingInvNext == BrandingInv /\ [BrandingNext]_brandingVars => BrandingInv'
  <1> SUFFICES ASSUME BrandingInv, [BrandingNext]_brandingVars PROVE BrandingInv'
    OBVIOUS
  <1>1. CASE UNCHANGED brandingVars
    BY <1>1 DEF brandingVars, BrandingInv, BrandingTypeOK, SaversConfirmed, ShownWereWritten,
       SeenWereShown, PendingAreStored, SweptAreHidden, SetAgain,
       LogoIsStored, DisplacedAreSwept, Pending, PastWrite, ConfirmedAgain
  <1>2. CASE BrandingNext
    BY <1>2, InvPutImage, InvConfirmImage, InvClearImage, InvBeginSet, InvWriteImage,
       InvSweep, InvAbandonSave DEF BrandingNext
  <1> QED  BY <1>1, <1>2

-----------------------------------------------------------------------------
(* Branding: the theorem. *)

(* The logo on show has its object and what it displaced goes, however many  *)
(* confirmations and clears race: unless a key was confirmed more than once, *)
(* its URL used again after its object was swept, a sweep failed, or a       *)
(* statement began before what it displaced was shown.                       *)
THEOREM LogoAndBucketAgree == BrandingSpec => []ImagesFollowTheLogo
  <1>1. BrandingInv => ImagesFollowTheLogo  BY DEF BrandingInv, ImagesFollowTheLogo
  <1> QED  BY BrandingInvInit, BrandingInvNext, <1>1, PTL DEF BrandingSpec

-----------------------------------------------------------------------------
(* Notifications. *)

LEMMA NotificationsTypesInit == NotificationsInit => NotificationsTypeOK
  BY DEF NotificationsInit, NotificationsTypeOK, Categories, NoToggle

LEMMA NotificationsTypesNext ==
    NotificationsTypeOK /\ [NotificationsNext]_notifyVars => NotificationsTypeOK'
  <1> SUFFICES ASSUME NotificationsTypeOK, [NotificationsNext]_notifyVars
               PROVE  NotificationsTypeOK'
    OBVIOUS
  <1> USE DEF NotificationsTypeOK
  <1>1. ASSUME NEW u \in Recipients, NEW e \in Endpoints, SubscribePush(u, e)
        PROVE  NotificationsTypeOK'
    BY <1>1 DEF SubscribePush
  <1>2. ASSUME NEW u \in Recipients, NEW e \in Endpoints, UnsubscribePush(u, e)
        PROVE  NotificationsTypeOK'
    BY <1>2 DEF UnsubscribePush, RemoveSubscription
  <1>3. ASSUME NEW u \in Recipients, ReadPrefs(u) PROVE NotificationsTypeOK'
    BY <1>3 DEF ReadPrefs
  <1>4. ASSUME NEW u \in Recipients, SetPrefs(u) PROVE NotificationsTypeOK'
    <2>1. PICK kind \in Categories :
            wants' = [wants EXCEPT ![u] = (toggle[u].read \ {kind}) \cup ({kind} \ toggle[u].read)]
      BY <1>4 DEF SetPrefs
    <2>2. toggle[u].read \subseteq Categories /\ NoToggle \in [pc : {"idle", "read"}, read : SUBSET Categories]
      BY DEF NoToggle
    <2> QED  BY <1>4, <2>1, <2>2 DEF SetPrefs
  <1>5. ASSUME NEW u \in Recipients, MarkRead(u) \/ \E kind \in Categories \cup {"eto"} : Notify(u, kind)
        PROVE  NotificationsTypeOK'
    BY <1>5 DEF MarkRead, Notify
  <1>6. CASE UNCHANGED notifyVars
    BY <1>6 DEF notifyVars
  <1> QED  BY <1>1, <1>2, <1>3, <1>4, <1>5, <1>6 DEF NotificationsNext

\* A browser is notified of what concerns its last subscriber: subscribing
\* re-points the endpoint's row, and remove_subscription deletes by user and
\* endpoint, so a late unsubscribe takes nobody else's row.
THEOREM EndpointsFollowTheirUsers ==
    NotificationsSpec => [](NotificationsTypeOK /\ EndpointIsLastSubscribers)
  <1> DEFINE I == NotificationsTypeOK /\ EndpointIsLastSubscribers
  <1>1. NotificationsInit => I
    BY NotificationsTypesInit DEF NotificationsInit, EndpointIsLastSubscribers
  <1>2. I /\ [NotificationsNext]_notifyVars => I'
    <2> SUFFICES ASSUME I, [NotificationsNext]_notifyVars, NEW e \in Endpoints
                 PROVE  subscribed'[e] = lastIn'[e]
      BY NotificationsTypesNext DEF EndpointIsLastSubscribers
    <2>1. /\ subscribed[e] = lastIn[e]
          /\ subscribed \in [Endpoints -> Recipients \cup {NoUser}]
          /\ lastIn \in [Endpoints -> Recipients \cup {NoUser}]
      BY DEF NotificationsTypeOK, EndpointIsLastSubscribers
    <2>2. ASSUME NEW u \in Recipients, NEW f \in Endpoints, SubscribePush(u, f)
          PROVE  subscribed'[e] = lastIn'[e]
      BY <2>1, <2>2 DEF SubscribePush
    <2>3. ASSUME NEW u \in Recipients, NEW f \in Endpoints, UnsubscribePush(u, f)
          PROVE  subscribed'[e] = lastIn'[e]
      <3>1. subscribed[f] = lastIn[f]
        BY DEF EndpointIsLastSubscribers
      <3> QED  BY <2>1, <2>3, <3>1 DEF UnsubscribePush, RemoveSubscription
    <2>4. ASSUME NEW u \in Recipients,
                 \/ ReadPrefs(u) \/ SetPrefs(u) \/ MarkRead(u)
                 \/ \E kind \in Categories \cup {"eto"} : Notify(u, kind)
          PROVE  subscribed'[e] = lastIn'[e]
      BY <2>1, <2>4 DEF ReadPrefs, SetPrefs, MarkRead, Notify
    <2> QED  BY <2>1, <2>2, <2>3, <2>4 DEF NotificationsNext, notifyVars
  <1> QED  BY <1>1, <1>2, PTL DEF NotificationsSpec

-----------------------------------------------------------------------------
(* The weather's limit: the sums of a user's recent calls. *)

Ticks == 0 .. RateWindow - 1

LEMMA LeastOfNumbers ==
    ASSUME NEW S, S # {}, S \subseteq Nat
    PROVE  \E m \in S : \A n \in S : m <= n
  <1>1. IsWellFoundedOn(OpToRel(<, Nat), Nat)
    BY NatLessThanWellFounded, Zenon
  <1>2. PICK m \in S : \A n \in S : ~(<<n, m>> \in OpToRel(<, Nat))
    BY <1>1, WFMin, Zenon
  <1>3. \A n \in S : ~(n < m)
    BY <1>2 DEF OpToRel
  <1> QED  BY <1>3

\* What holds at first and passes on holds throughout.
LEMMA Throughout ==
    ASSUME NEW P, P \subseteq Ticks, 0 \in P,
           \A t \in Ticks \ {0} : t - 1 \in P => t \in P
    PROVE  P = Ticks
  <1> SUFFICES ASSUME P # Ticks PROVE FALSE
    OBVIOUS
  <1> DEFINE S == Ticks \ P
  <1>1. S # {} /\ S \subseteq Nat
    <2>1. S # {}
      OBVIOUS
    <2>2. Ticks \subseteq Nat
      BY LimitsArePositive DEF Ticks
    <2> QED  BY <2>1, <2>2
  <1>2. PICK m \in S : \A n \in S : m <= n
    BY <1>1, LeastOfNumbers
  <1>3. m # 0 /\ m \in Nat /\ m \in Ticks /\ m \notin P /\ m - 1 \in Ticks
    BY LimitsArePositive DEF Ticks
  <1>4. m - 1 \in P
    BY <1>2, <1>3
  <1> QED  BY <1>3, <1>4

SumOf(f, r, n) ==
    f = [t \in 0 .. n |-> IF t = 0 THEN r[0] ELSE f[t - 1] + r[t]]

LEMMA SumsExist ==
    ASSUME NEW r \in [Ticks -> Nat]
    PROVE  \E f : SumOf(f, r, RateWindow - 1)
  <1> DEFINE P == {n \in Ticks : \E f : SumOf(f, r, n)}
  <1>1. 0 \in P
    <2>1. SumOf([t \in 0 .. 0 |-> r[0]], r, 0)
      BY DEF SumOf
    <2> QED  BY <2>1, LimitsArePositive DEF Ticks
  <1>2. ASSUME NEW n \in Ticks \ {0}, n - 1 \in P PROVE n \in P
    <2>1. PICK f : SumOf(f, r, n - 1)
      BY <1>2
    <2> DEFINE g == [t \in 0 .. n |-> IF t = n THEN f[n - 1] + r[n] ELSE f[t]]
    <2>2. n \in Nat /\ n # 0
      BY DEF Ticks
    <2>3. \A t \in 0 .. n - 1 : f[t] = IF t = 0 THEN r[0] ELSE f[t - 1] + r[t]
      BY <2>1 DEF SumOf
    <2>4. \A t \in 0 .. n : g[t] = IF t = 0 THEN r[0] ELSE g[t - 1] + r[t]
      BY <2>2, <2>3
    <2>5. g = [t \in 0 .. n |-> g[t]]
      OBVIOUS
    <2> HIDE DEF g
    <2>6. SumOf(g, r, n)
      BY <2>4, <2>5 DEF SumOf
    <2> QED  BY <2>6
  <1> HIDE DEF P
  <1>3. P = Ticks
    BY <1>1, <1>2, Throughout DEF P
  <1>4. RateWindow - 1 \in Ticks
    BY LimitsArePositive DEF Ticks
  <1> QED  BY <1>3, <1>4 DEF P

LEMMA Sums ==
    ASSUME NEW r \in [Ticks -> Nat]
    PROVE  /\ CallsUpTo(r)[0] = r[0]
           /\ \A t \in Ticks \ {0} : CallsUpTo(r)[t] = CallsUpTo(r)[t - 1] + r[t]
           /\ \A t \in Ticks : CallsUpTo(r)[t] \in Nat
  <1> DEFINE f == CallsUpTo(r)
  <1>1. SumOf(f, r, RateWindow - 1)
    <2>1. f = CHOOSE g : SumOf(g, r, RateWindow - 1)
      BY DEF CallsUpTo, SumOf
    <2> QED  BY <2>1, SumsExist
  <1>2. \A t \in Ticks : f[t] = IF t = 0 THEN r[0] ELSE f[t - 1] + r[t]
    BY <1>1 DEF SumOf, Ticks
  <1> HIDE DEF f
  <1>3. 0 \in Ticks
    BY LimitsArePositive DEF Ticks
  <1> DEFINE P == {t \in Ticks : f[t] \in Nat}
  <1>4. P = Ticks
    <2>1. 0 \in P
      BY <1>2, <1>3
    <2>2. ASSUME NEW t \in Ticks \ {0}, t - 1 \in P PROVE t \in P
      BY <1>2, <2>2
    <2> HIDE DEF P
    <2> QED  BY <2>1, <2>2, Throughout DEF P
  <1> QED  BY <1>2, <1>3, <1>4 DEF f

LEMMA NoSums ==
    ASSUME NEW r \in [Ticks -> Nat], \A t \in Ticks : r[t] = 0
    PROVE  \A t \in Ticks : CallsUpTo(r)[t] = 0
  <1> DEFINE P == {t \in Ticks : CallsUpTo(r)[t] = 0}
  <1>1. 0 \in Ticks
    BY LimitsArePositive DEF Ticks
  <1>2. 0 \in P
    BY <1>1, Sums
  <1>3. ASSUME NEW t \in Ticks \ {0}, t - 1 \in P PROVE t \in P
    BY <1>3, Sums
  <1> HIDE DEF P
  <1>4. P = Ticks
    BY <1>2, <1>3, Throughout DEF P
  <1> QED  BY <1>4 DEF P

\* One more call now is one more in every sum.
LEMMA SumsOfACall ==
    ASSUME NEW r \in [Ticks -> Nat], NEW c \in Nat, NEW s \in [Ticks -> Nat],
           s[0] = r[0] + c, \A t \in Ticks \ {0} : s[t] = r[t]
    PROVE  \A t \in Ticks : CallsUpTo(s)[t] = CallsUpTo(r)[t] + c
  <1>1. 0 \in Ticks
    BY LimitsArePositive DEF Ticks
  <1> DEFINE P == {t \in Ticks : CallsUpTo(s)[t] = CallsUpTo(r)[t] + c}
  <1>2. 0 \in P
    BY <1>1, Sums
  <1>3. ASSUME NEW t \in Ticks \ {0}, t - 1 \in P PROVE t \in P
    <2>1. t - 1 \in Ticks /\ CallsUpTo(s)[t - 1] = CallsUpTo(r)[t - 1] + c
      BY <1>3
    <2>2. CallsUpTo(r)[t - 1] \in Nat /\ r[t] \in Nat
      BY <2>1, Sums
    <2>3. /\ CallsUpTo(s)[t] = CallsUpTo(s)[t - 1] + s[t]
          /\ CallsUpTo(r)[t] = CallsUpTo(r)[t - 1] + r[t]
      BY Sums
    <2> QED  BY <2>1, <2>2, <2>3
  <1> HIDE DEF P
  <1>4. P = Ticks
    BY <1>2, <1>3, Throughout DEF P
  <1> QED  BY <1>4 DEF P

\* A tick later, every sum is what it was a tick earlier.
LEMMA SumsOfATick ==
    ASSUME NEW r \in [Ticks -> Nat], NEW s,
           s = [t \in Ticks |-> IF t = 0 THEN 0 ELSE r[t - 1]]
    PROVE  /\ s \in [Ticks -> Nat] /\ s[0] = 0
           /\ \A t \in Ticks \ {0} : t - 1 \in Ticks /\ s[t] = r[t - 1]
           /\ CallsUpTo(s)[0] = 0
           /\ \A t \in Ticks \ {0} : CallsUpTo(s)[t] = CallsUpTo(r)[t - 1]
  <1>1. 0 \in Ticks
    BY LimitsArePositive DEF Ticks
  <1>2. \A t \in Ticks \ {0} : t - 1 \in Ticks
    BY LimitsArePositive DEF Ticks
  <1>3. s \in [Ticks -> Nat] /\ s[0] = 0 /\ \A t \in Ticks \ {0} : s[t] = r[t - 1]
    BY <1>1, <1>2
  <1>4. CallsUpTo(s)[0] = 0
    BY <1>3, Sums
  <1> DEFINE P == {t \in Ticks : t # 0 => CallsUpTo(s)[t] = CallsUpTo(r)[t - 1]}
  <1>5. 0 \in P
    BY <1>1
  <1>6. ASSUME NEW t \in Ticks \ {0}, t - 1 \in P PROVE t \in P
    <2>1. CallsUpTo(s)[t] = CallsUpTo(s)[t - 1] + r[t - 1]
      BY <1>3, Sums
    <2>2. CASE t - 1 = 0
      <3>1. CallsUpTo(r)[0] = r[0] /\ r[0] \in Nat
        BY <1>1, Sums
      <3> QED  BY <1>4, <2>1, <2>2, <3>1
    <2>3. CASE t - 1 # 0
      <3>1. t - 1 \in Ticks \ {0}
        BY <1>2, <2>3
      <3>2. CallsUpTo(s)[t - 1] = CallsUpTo(r)[t - 1 - 1]
        BY <1>6, <2>3
      <3>3. CallsUpTo(r)[t - 1] = CallsUpTo(r)[t - 1 - 1] + r[t - 1]
        BY <3>1, Sums
      <3> QED  BY <2>1, <3>2, <3>3
    <2> QED  BY <2>2, <2>3
  <1> HIDE DEF P
  <1>7. P = Ticks
    BY <1>5, <1>6, Throughout DEF P
  <1> QED  BY <1>2, <1>3, <1>4, <1>7 DEF P

-----------------------------------------------------------------------------
(* The weather's limit: the inductive invariant. *)

Running(w) == w # NoWindow /\ w.age < RateWindow

\* A user between windows: what their last one admitted has begun to age.
Between(r) == r[0] = 0 /\ CallsUpTo(r)[RateWindow - 1] < RateLimit

\* A user whose window runs: it has counted the calls since it began with one.
WithinOne(r, w) ==
    /\ CallsUpTo(r)[w.age] = w.count /\ 1 <= r[w.age]
    /\ CallsUpTo(r)[RateWindow - 1] - CallsUpTo(r)[w.age] < RateLimit

Counted(r, w) == IF Running(w) THEN WithinOne(r, w) ELSE Between(r)

WeatherInv == WeatherTypeOK /\ \A u \in Callers : Counted(recent[u], window[u])

LEMMA NothingCounted == NoCalls \in [Ticks -> Nat] /\ Between(NoCalls)
  <1>1. NoCalls \in [Ticks -> Nat] /\ \A t \in Ticks : NoCalls[t] = 0
    BY DEF NoCalls, Ticks
  <1>2. 0 \in Ticks /\ RateWindow - 1 \in Ticks
    BY LimitsArePositive DEF Ticks
  <1> HIDE DEF NoCalls
  <1>3. \A t \in Ticks : CallsUpTo(NoCalls)[t] = 0
    BY <1>1, NoSums
  <1> QED  BY <1>1, <1>2, <1>3, LimitsArePositive DEF Between

\* A user who is forgotten, with or without the calls.
LEMMA WeatherInvInit == WeatherInit => WeatherInv
  <1> SUFFICES ASSUME WeatherInit PROVE WeatherInv
    OBVIOUS
  <1>1. WeatherTypeOK
    BY NothingCounted DEF WeatherInit, WeatherTypeOK, Ticks
  <1>2. \A u \in Callers : ~Running(window[u]) /\ recent[u] = NoCalls
    BY DEF WeatherInit, Running
  <1> QED  BY <1>1, <1>2, NothingCounted DEF WeatherInv, Counted

LEMMA WithinTheQuota == WeatherInv => QuotaIsBounded
  <1> SUFFICES ASSUME WeatherInv, NEW u \in Callers
               PROVE  CallsUpTo(recent[u])[RateWindow - 1] < 2 * RateLimit
    BY DEF QuotaIsBounded, CallsAdmitted
  <1> DEFINE r == recent[u]
             w == window[u]
             total == CallsUpTo(r)[RateWindow - 1]
  <1>1. r \in [Ticks -> Nat] /\ w \in Window \cup {NoWindow} /\ Counted(r, w)
    BY DEF WeatherInv, WeatherTypeOK, Ticks
  <1>2. RateWindow - 1 \in Ticks /\ RateLimit \in Nat /\ RateWindow \in Nat
    BY LimitsArePositive DEF Ticks
  <1> HIDE DEF r, w
  <1>3. total \in Nat
    BY <1>1, <1>2, Sums
  <1>4. total < 2 * RateLimit
    <2>1. CASE Running(w)
      <3>1. w.count \in Nat /\ w.count <= RateLimit
        BY <1>1, <1>2, <2>1 DEF Running, Window
      <3>2. total - w.count < RateLimit
        BY <1>1, <2>1 DEF Counted, WithinOne
      <3> HIDE DEF total
      <3> QED  BY <1>2, <1>3, <3>1, <3>2
    <2>2. CASE ~Running(w)
      <3>1. total < RateLimit
        BY <1>1, <2>2 DEF Counted, Between
      <3> HIDE DEF total
      <3> QED  BY <1>2, <1>3, <3>1
    <2> QED  BY <2>1, <2>2
  <1> QED  BY <1>4 DEF r

LEMMA CountedAfterATick ==
    ASSUME NEW r \in [Ticks -> Nat], NEW w \in Window \cup {NoWindow}, Counted(r, w),
           NEW s, s = [t \in Ticks |-> IF t = 0 THEN 0 ELSE r[t - 1]],
           NEW v, v = IF w # NoWindow /\ w.age < RateWindow THEN [w EXCEPT !.age = @ + 1] ELSE w
    PROVE  v \in Window \cup {NoWindow} /\ s \in [Ticks -> Nat] /\ Counted(s, v)
  <1> DEFINE n == RateWindow - 1
             C(t) == CallsUpTo(r)[t]
  <1>1. n \in Ticks /\ 0 \in Ticks /\ RateLimit \in Nat \ {0} /\ RateWindow \in Nat \ {0}
    BY LimitsArePositive DEF Ticks
  <1>2. /\ s \in [Ticks -> Nat] /\ s[0] = 0
        /\ \A t \in Ticks \ {0} : t - 1 \in Ticks /\ s[t] = r[t - 1]
        /\ CallsUpTo(s)[0] = 0
        /\ \A t \in Ticks \ {0} : CallsUpTo(s)[t] = C(t - 1)
    BY SumsOfATick
  <1>3. /\ \A t \in Ticks : C(t) \in Nat
        /\ \A t \in Ticks \ {0} : C(t) = C(t - 1) + r[t]
    BY Sums
  <1>4. CASE ~Running(w)
    <2>1. v = w
      BY <1>4 DEF Running
    <2>2. C(n) < RateLimit
      BY <1>4 DEF Counted, Between
    <2>3. CallsUpTo(s)[n] < RateLimit
      <3>1. CASE n = 0
        BY <1>1, <1>2, <3>1
      <3>2. CASE n # 0
        <4>1. CallsUpTo(s)[n] = C(n - 1) /\ C(n) = C(n - 1) + r[n]
              /\ r[n] \in Nat /\ C(n - 1) \in Nat
          BY <1>1, <1>2, <1>3, <3>2
        <4> QED  BY <1>1, <2>2, <4>1
      <3> QED  BY <3>1, <3>2
    <2>4. Between(s)
      BY <1>2, <2>3 DEF Between
    <2> QED  BY <1>2, <1>4, <2>1, <2>4 DEF Counted
  <1>5. CASE Running(w)
    <2> DEFINE a == w.age
    <2>1. /\ w \in Window /\ a \in Ticks /\ w.count \in 0 .. RateLimit
      BY <1>5, LimitsArePositive DEF Running, Window, Ticks
    <2>2. v = [w EXCEPT !.age = @ + 1]
      BY <1>5 DEF Running
    <2>3. v \in Window /\ v.age = a + 1 /\ v.count = w.count
      BY <1>5, <2>1, <2>2, LimitsArePositive DEF Window, Running
    <2>4. v # NoWindow
      BY <2>3, NoWindowIsNone
    <2>5. C(a) = w.count /\ 1 <= r[a] /\ C(n) - C(a) < RateLimit /\ r[a] \in Nat
      BY <1>5, <2>1 DEF Counted, WithinOne
    <2> HIDE DEF a
    <2>6. CASE a = n
      <3>1. ~Running(v)
        BY <1>1, <2>3, <2>6 DEF Running
      <3>2. CallsUpTo(s)[n] < RateLimit
        <4>1. CASE n = 0
          BY <1>1, <1>2, <4>1
        <4>2. CASE n # 0
          <5>1. CallsUpTo(s)[n] = C(n - 1) /\ C(n) = C(n - 1) + r[n] /\ C(n - 1) \in Nat
            BY <1>1, <1>2, <1>3, <4>2
          <5>2. C(n) <= RateLimit
            BY <2>1, <2>5, <2>6
          <5> QED  BY <1>1, <2>5, <2>6, <5>1, <5>2
        <4> QED  BY <4>1, <4>2
      <3>3. Between(s)
        BY <1>2, <3>2 DEF Between
      <3> QED  BY <1>2, <2>3, <3>1, <3>3 DEF Counted
    <2>7. CASE a # n
      <3> DEFINE b == a + 1
      <3>1. b \in Ticks \ {0} /\ n # 0 /\ b - 1 = a /\ b = a + 1
        BY <1>1, <2>1, <2>7 DEF Ticks
      <3> HIDE DEF b
      <3>2. Running(v)
        BY <1>1, <2>3, <2>4, <3>1 DEF Running, Ticks
      <3>3. CallsUpTo(s)[b] = C(a) /\ s[b] = r[a]
        BY <1>2, <3>1
      <3>4. /\ CallsUpTo(s)[n] = C(n - 1) /\ C(n) = C(n - 1) + r[n]
            /\ C(n - 1) \in Nat /\ r[n] \in Nat
        BY <1>1, <1>2, <1>3, <3>1
      <3>5. C(n - 1) - C(a) < RateLimit
        BY <1>1, <1>3, <2>1, <2>5, <3>4
      <3>6. WithinOne(s, v)
        BY <2>3, <2>5, <3>1, <3>3, <3>4, <3>5 DEF WithinOne
      <3> QED  BY <1>2, <2>3, <3>2, <3>6 DEF Counted
    <2> QED  BY <2>6, <2>7
  <1> QED  BY <1>4, <1>5

LEMMA WeatherInvTick ==
    ASSUME WeatherInv, Tick
    PROVE  WeatherInv'
  <1> DEFINE v(u) == IF window[u] # NoWindow /\ window[u].age < RateWindow
                     THEN [window[u] EXCEPT !.age = @ + 1] ELSE window[u]
             s(u) == [t \in Ticks |-> IF t = 0 THEN 0 ELSE recent[u][t - 1]]
  <1>1. \A u \in Callers : /\ recent[u] \in [Ticks -> Nat] /\ window[u] \in Window \cup {NoWindow}
                           /\ Counted(recent[u], window[u])
    BY DEF WeatherInv, WeatherTypeOK, Ticks
  <1>2. window' = [u \in Callers |-> v(u)] /\ recent' = [u \in Callers |-> s(u)]
    BY DEF Tick, Ticks
  <1>3. \A u \in Callers :
           v(u) \in Window \cup {NoWindow} /\ s(u) \in [Ticks -> Nat] /\ Counted(s(u), v(u))
    BY <1>1, CountedAfterATick
  <1> HIDE DEF v, s
  <1> QED  BY <1>2, <1>3 DEF WeatherInv, WeatherTypeOK, Counted, Ticks

\* A window that starts with a call.
LEMMA CallBegins ==
    ASSUME NEW r \in [Ticks -> Nat], Between(r),
           NEW s \in [Ticks -> Nat], s[0] = r[0] + 1, \A t \in Ticks \ {0} : s[t] = r[t],
           NEW v \in Window, v.age = 0, v.count = 1
    PROVE  Counted(s, v)
  <1> DEFINE n == RateWindow - 1
             after == CallsUpTo(s)[n]
             before == CallsUpTo(r)[n]
             first == CallsUpTo(s)[0]
  <1>1. n \in Ticks /\ 0 \in Ticks /\ RateLimit \in Nat \ {0} /\ RateWindow \in Nat \ {0}
    BY LimitsArePositive DEF Ticks
  <1>2. \A t \in Ticks : CallsUpTo(s)[t] = CallsUpTo(r)[t] + 1
    BY SumsOfACall
  <1>3. r[0] = 0 /\ CallsUpTo(r)[0] = 0 /\ before < RateLimit /\ before \in Nat
    BY <1>1, Sums DEF Between
  <1>4. Running(v)
    BY <1>1, NoWindowIsNone DEF Running
  <1>5. s[0] = 1 /\ first = 1 /\ after = before + 1
    BY <1>1, <1>2, <1>3
  <1>6. first = v.count /\ 1 <= s[v.age]
    BY <1>5
  <1>7. after - first < RateLimit
    <2> HIDE DEF after, before, first
    <2> QED  BY <1>1, <1>3, <1>5
  <1> QED  BY <1>4, <1>6, <1>7 DEF Counted, WithinOne

\* A window that goes on, with a call or a refusal.
LEMMA CallCounts ==
    ASSUME NEW r \in [Ticks -> Nat], NEW w \in Window, Running(w), WithinOne(r, w),
           NEW call \in {0, 1},
           NEW s \in [Ticks -> Nat], s[0] = r[0] + call, \A t \in Ticks \ {0} : s[t] = r[t],
           NEW v \in Window, v.age = w.age, v.count = w.count + call
    PROVE  Counted(s, v)
  <1> DEFINE n == RateWindow - 1
             a == w.age
             c == w.count
             after == CallsUpTo(s)[n]
             before == CallsUpTo(r)[n]
             then == CallsUpTo(s)[a]
             since == CallsUpTo(r)[a]
  <1>1. /\ n \in Ticks /\ 0 \in Ticks /\ a \in Ticks /\ a < RateWindow
        /\ RateLimit \in Nat /\ c \in Nat /\ call \in Nat
    BY LimitsArePositive DEF Ticks, Running, Window
  <1>2. \A t \in Ticks : CallsUpTo(s)[t] = CallsUpTo(r)[t] + call
    BY <1>1, SumsOfACall
  <1>3. Running(v)
    BY <1>1, NoWindowIsNone DEF Running
  <1>4. since = c /\ 1 <= r[a] /\ before - since < RateLimit
    BY DEF WithinOne
  <1>5. r[a] \in Nat /\ before \in Nat /\ since \in Nat
    BY <1>1, Sums
  <1>6. after = before + call /\ then = since + call
    BY <1>1, <1>2
  <1>7. 1 <= s[a]
    <2>1. s[a] = r[a] \/ s[a] = r[a] + call
      BY <1>1
    <2> HIDE DEF a
    <2> QED  BY <1>1, <1>4, <1>5, <2>1
  <1>8. then = c + call /\ after - then < RateLimit
    <2> HIDE DEF after, before, then, since, c
    <2> QED  BY <1>1, <1>4, <1>5, <1>6
  <1>9. WithinOne(s, v)
    BY <1>7, <1>8 DEF WithinOne
  <1> QED  BY <1>3, <1>9 DEF Counted

LEMMA WeatherInvCheckRate ==
    ASSUME WeatherInv, NEW u \in Callers, CheckRate(u)
    PROVE  WeatherInv'
  <1>1. PICK evicted \in Evicted(u) :
           LET left == Untrack(window, evicted)
               mine == IF left[u] = NoWindow \/ left[u].age >= RateWindow THEN NewWindow ELSE left[u]
               call == IF Admitted(mine) THEN 1 ELSE 0
           IN  /\ window' = [left EXCEPT ![u] = [mine EXCEPT !.count = @ + call]]
               /\ recent' = [ForgetCalls(evicted \ Expired(window)) EXCEPT ![u][0] = @ + call]
    BY DEF CheckRate
  <1> DEFINE left == Untrack(window, evicted)
             kept == ForgetCalls(evicted \ Expired(window))
             mine == IF left[u] = NoWindow \/ left[u].age >= RateWindow THEN NewWindow ELSE left[u]
             call == IF Admitted(mine) THEN 1 ELSE 0
             v == [mine EXCEPT !.count = @ + call]
             s == [kept[u] EXCEPT ![0] = kept[u][0] + call]
  <1>2. \A x \in Callers : /\ recent[x] \in [Ticks -> Nat] /\ window[x] \in Window \cup {NoWindow}
                           /\ Counted(recent[x], window[x])
    BY DEF WeatherInv, WeatherTypeOK, Ticks
  <1>3. \A x \in Callers : /\ left[x] = IF x \in evicted THEN NoWindow ELSE window[x]
                           /\ kept[x] = IF x \in evicted \ Expired(window) THEN NoCalls ELSE recent[x]
    BY DEF Untrack, ForgetCalls
  <1>4. left = [x \in Callers |-> left[x]] /\ kept = [x \in Callers |-> kept[x]]
    BY DEF Untrack, ForgetCalls
  <1>5. window' = [left EXCEPT ![u] = v] /\ recent' = [kept EXCEPT ![u] = s]
    BY <1>1, <1>4
  <1> HIDE DEF left, kept
  <1>6. \A x \in Callers : /\ kept[x] \in [Ticks -> Nat] /\ left[x] \in Window \cup {NoWindow}
                           /\ Counted(kept[x], left[x])
    <2> SUFFICES ASSUME NEW x \in Callers
                 PROVE  /\ kept[x] \in [Ticks -> Nat] /\ left[x] \in Window \cup {NoWindow}
                        /\ Counted(kept[x], left[x])
      OBVIOUS
    <2>1. CASE x \notin evicted
      BY <1>2, <1>3, <2>1
    <2>2. CASE x \in evicted /\ x \in Expired(window)
      <3>1. ~Running(window[x])
        BY <1>2, <2>2, LimitsArePositive DEF Expired, Running, Window
      <3>2. left[x] = NoWindow /\ kept[x] = recent[x]
        BY <1>3, <2>2
      <3> QED  BY <1>2, <3>1, <3>2 DEF Counted, Running
    <2>3. CASE x \in evicted /\ x \notin Expired(window)
      <3>1. left[x] = NoWindow /\ kept[x] = NoCalls
        BY <1>3, <2>3
      <3> QED  BY <3>1, NothingCounted DEF Counted, Running
    <2> QED  BY <2>1, <2>2, <2>3
  <1>7. v \in Window /\ s \in [Ticks -> Nat] /\ Counted(s, v)
    <2>1. RateLimit \in Nat \ {0} /\ RateWindow \in Nat \ {0} /\ 0 \in Ticks
      BY LimitsArePositive DEF Ticks
    <2>2. call \in {0, 1}
      OBVIOUS
    <2>3. /\ s \in [Ticks -> Nat] /\ s[0] = kept[u][0] + call
          /\ \A t \in Ticks \ {0} : s[t] = kept[u][t]
      <3> HIDE DEF call
      <3> QED  BY <1>6, <2>1, <2>2
    <2>4. CASE Running(left[u])
      <3>1. left[u] \in Window /\ mine = left[u]
        BY <1>6, <2>1, <2>4 DEF Running, Window
      <3>2. mine.count + call \in 0 .. RateLimit
        BY <2>1, <3>1 DEF Admitted, Window
      <3> HIDE DEF mine, call
      <3>3. /\ v \in Window /\ v.age = left[u].age
            /\ v.count = left[u].count + call
        BY <3>1, <3>2 DEF Window
      <3>4. WithinOne(kept[u], left[u])
        BY <1>6, <2>4 DEF Counted
      <3> HIDE DEF v, s
      <3> QED  BY <1>6, <2>2, <2>3, <2>4, <3>1, <3>3, <3>4, CallCounts
    <2>5. CASE ~Running(left[u])
      <3>1. mine = NewWindow
        BY <1>6, <2>1, <2>5 DEF Running, Window
      <3>2. call = 1
        BY <2>1, <3>1 DEF Admitted, NewWindow
      <3> HIDE DEF mine, call
      <3>3. v \in Window /\ v.age = 0 /\ v.count = 1
        BY <2>1, <3>1, <3>2 DEF NewWindow, Window
      <3>4. Between(kept[u])
        BY <1>6, <2>5 DEF Counted
      <3> HIDE DEF v, s
      <3> QED  BY <1>6, <2>3, <3>2, <3>3, <3>4, CallBegins
    <2> QED  BY <2>4, <2>5
  <1> HIDE DEF v, s
  <1>8. \A x \in Callers : /\ window'[x] = IF x = u THEN v ELSE left[x]
                           /\ recent'[x] = IF x = u THEN s ELSE kept[x]
    BY <1>4, <1>5
  <1>9. window' = [x \in Callers |-> window'[x]] /\ recent' = [x \in Callers |-> recent'[x]]
    BY <1>4, <1>5
  <1>10. \A x \in Callers : /\ recent'[x] \in [Ticks -> Nat] /\ window'[x] \in Window \cup {NoWindow}
                            /\ Counted(recent'[x], window'[x])
    BY <1>6, <1>7, <1>8
  <1> QED  BY <1>9, <1>10 DEF WeatherInv, WeatherTypeOK, Ticks

LEMMA WeatherInvNext == WeatherInv /\ [WeatherNext]_weatherVars => WeatherInv'
  <1> SUFFICES ASSUME WeatherInv, [WeatherNext]_weatherVars PROVE WeatherInv'
    OBVIOUS
  <1>1. CASE UNCHANGED weatherVars
    BY <1>1 DEF weatherVars, WeatherInv, WeatherTypeOK
  <1>2. CASE RestartService
    <2>1. /\ window' = [u \in Callers |-> NoWindow]
          /\ recent' = [u \in Callers |-> NoCalls]
      BY <1>2 DEF RestartService, ForgetCalls
    <2>2. \A u \in Callers : ~Running(window'[u]) /\ recent'[u] = NoCalls
      BY <2>1 DEF Running
    <2>3. \A u \in Callers : Counted(recent'[u], window'[u])
      BY <2>2, NothingCounted DEF Counted
    <2>4. WeatherTypeOK'
      BY <2>1, NothingCounted DEF WeatherTypeOK, Ticks
    <2> QED  BY <2>3, <2>4 DEF WeatherInv
  <1> QED  BY <1>1, <1>2, WeatherInvCheckRate, WeatherInvTick DEF WeatherNext

\* Fewer than twice the limit of lookups are admitted in any stretch as long as
\* a window, however a user times them and whoever is dropped from the map
\* (WeatherService::check_rate).
THEOREM CallsStayWithinQuota == WeatherSpec => [](WeatherTypeOK /\ QuotaIsBounded)
  <1>1. WeatherInv => WeatherTypeOK  BY DEF WeatherInv
  <1> QED  BY <1>1, WithinTheQuota, WeatherInvInit, WeatherInvNext, PTL DEF WeatherSpec


-----------------------------------------------------------------------------
(* Reports: dates are days or not set; every line has passed the service's check. *)

ReportsInv == ReportingTypeOK /\ \A l \in Lines : Validate(line[l])

LEMMA DatesType ==
    \A date \in Dates : IsSet(date) => date \in 1 .. LastDay /\ date \in Int
  BY DatesAreDays DEF Dates, IsSet

LEMMA LineType ==
    ASSUME NEW item \in Line
    PROVE  /\ item.type \in {"HEADER", "TASK", "STAGE_CLAIM"} /\ item.status \in CfStatus
           /\ item.est_start \in Dates /\ item.est_finish \in Dates
           /\ item.actual_start \in Dates /\ item.actual_finish \in Dates
  BY DEF Line

LEMMA EditedField ==
    ASSUME NEW item \in Line, NEW field \in DOMAIN item,
           NEW value \in IF field = "status" THEN CfStatus
                         ELSE IF field = "type" THEN {"HEADER", "TASK", "STAGE_CLAIM"} ELSE Dates
    PROVE  [item EXCEPT ![field] = value] \in Line
  BY DEF Line

LEMMA ReportsInvariance == ReportingSpec => []ReportsInv
  <1>1. ReportingInit => ReportsInv
    BY DatesAreDays DEF ReportingInit, ReportsInv, ReportingTypeOK
  <1>2. ReportsInv /\ [ReportingNext]_reportVars => ReportsInv'
    <2> SUFFICES ASSUME ReportsInv, [ReportingNext]_reportVars PROVE ReportsInv'
      OBVIOUS
    <2>1. ASSUME NEW l \in Edited, EditLine(l) PROVE ReportsInv'
      <3>1. PICK field \in DOMAIN line[l] :
               \E value \in IF field = "status" THEN CfStatus
                            ELSE IF field = "type" THEN {"HEADER", "TASK", "STAGE_CLAIM"}
                            ELSE Dates :
                  /\ line' = [line EXCEPT ![l][field] = value]
                  /\ Validate(line'[l])
        BY <2>1 DEF EditLine
      <3>2. PICK value \in IF field = "status" THEN CfStatus
                           ELSE IF field = "type" THEN {"HEADER", "TASK", "STAGE_CLAIM"}
                           ELSE Dates :
               /\ line' = [line EXCEPT ![l][field] = value]
               /\ Validate(line'[l])
        BY <3>1
      <3>3. l \in Lines /\ line[l] \in Line
        BY EditedAreLines DEF ReportsInv, ReportingTypeOK
      <3>4. [line[l] EXCEPT ![field] = value] \in Line
        BY <3>3, EditedField
      <3>5. line' = [line EXCEPT ![l] = [line[l] EXCEPT ![field] = value]]
        BY <3>2
      <3>6. line' \in [Lines -> Line] /\ \A k \in Lines \ {l} : line'[k] = line[k]
        BY <3>3, <3>4, <3>5 DEF ReportsInv, ReportingTypeOK
      <3> QED  BY <2>1, <3>2, <3>6 DEF EditLine, ReportsInv, ReportingTypeOK
    <2>2. CASE Tomorrow
      BY <2>2, DatesAreDays DEF Tomorrow, ReportsInv, ReportingTypeOK
    <2>3. CASE DatabaseMidnight
      BY <2>3, DatesAreDays DEF DatabaseMidnight, ReportsInv, ReportingTypeOK
    <2>4. CASE UNCHANGED reportVars
      BY <2>4 DEF reportVars, ReportsInv, ReportingTypeOK
    <2> QED  BY <2>1, <2>2, <2>3, <2>4 DEF ReportingNext
  <1> QED  BY <1>1, <1>2, PTL DEF ReportingSpec

-----------------------------------------------------------------------------
(* Reports: the screens. *)

\* Only open, unfinished work past its date is delayed, and by how much.
LEMMA DelayMeaning ==
    ASSUME ReportsInv, NEW l \in Lines
    PROVE  /\ DelayOf(l).delay_status = "delayed"
                <=> ~Closed(l) /\ ~Finished(l) /\ PastFinish(line[l], today)
           /\ DelayOf(l).delay_status = "delayed"
                => DelayOf(l).delay_days = today - line[l].est_finish
  BY DEF DelayOf, ComputeDelayInfo, Plain, DelayedBy, Closed, Finished

(* Every screen that lists late work lists the same work, whatever the       *)
(* lines, the dates and the two clocks are.                                  *)
THEOREM ScreensAgree == ReportingSpec => []OverdueReadsAgree
  <1>1. ReportsInv => OverdueReadsAgree
    <2> SUFFICES ASSUME ReportsInv PROVE OverdueReadsAgree
      OBVIOUS
    <2> DEFINE late == {l \in Lines : IsWork(l) /\ DelayOf(l).delay_status = "delayed"}
    <2>1. \A l \in Lines : l \in late <=> /\ IsWork(l) /\ ~Closed(l) /\ ~Finished(l)
                                          /\ PastFinish(line[l], today)
      BY DelayMeaning
    <2>2. /\ OverdueCallForwards = late /\ Delays = late /\ SupervisorDelayed = late
          /\ dbToday = today => StatsOverdue = late
      <3> HIDE DEF late
      <3>1. late \subseteq Lines  BY DEF late
      <3>2. OverdueCallForwards = late  BY <2>1, <3>1 DEF OverdueCallForwards
      <3>3. Delays = late  BY <2>1, <3>1 DEF Delays
      <3>4. SupervisorDelayed = late  BY <2>1, <3>1 DEF SupervisorDelayed
      <3>5. ASSUME dbToday = today PROVE StatsOverdue = late
        BY <2>1, <3>1, <3>5 DEF StatsOverdue
      <3> QED  BY <3>2, <3>3, <3>4, <3>5
    <2>3. ASSUME NEW l \in late
          PROVE  /\ l \in DOMAIN OverdueDays /\ OverdueDays[l] = DelayOf(l).delay_days
                 /\ l \notin Upcoming /\ l \notin UpcomingTasks
                 /\ l \in OpenCallForwards
                 /\ line[l].type = "STAGE_CLAIM" => l \in UpcomingClaims
      <3>1. /\ l \in Lines /\ IsWork(l) /\ ~Closed(l) /\ ~Finished(l)
            /\ PastFinish(line[l], today) /\ DelayOf(l).delay_days = today - line[l].est_finish
        BY <2>1, DelayMeaning
      <3>2. /\ line[l] \in Line /\ today \in Int
        BY DEF ReportsInv, ReportingTypeOK
      <3>3. /\ line[l].est_finish \in Int /\ IsSet(line[l].est_finish)
            /\ line[l].est_finish < today
        BY <3>1, <3>2, LineType, DatesType DEF PastFinish
      <3>4. IsSet(line[l].est_start) =>
               line[l].est_start \in Int /\ line[l].est_start <= line[l].est_finish
        BY <3>1, <3>2, <3>3, LineType, DatesType DEF ReportsInv, Validate, Ordered
      <3>5. ~DueFrom(line[l].est_finish) /\ ~DueFrom(line[l].est_start)
        BY <3>2, <3>3, <3>4 DEF DueFrom
      <3>6. l \in DOMAIN OverdueDays /\ OverdueDays[l] = DelayOf(l).delay_days
        BY <3>1 DEF OverdueDays
      <3>7. l \notin Upcoming /\ l \notin UpcomingTasks
        BY <3>5 DEF Upcoming, UpcomingTasks
      <3>8. line[l].status \in {"not_started", "in_progress"}
        BY <3>1, <3>2, LineType DEF Closed, CfStatus
      <3>9. l \in OpenCallForwards
        BY <3>1, <3>8 DEF OpenCallForwards
      <3>10. line[l].type = "STAGE_CLAIM" => l \in UpcomingClaims
        BY <3>1, <3>2, <3>3, <3>8, DatesAreDays DEF UpcomingClaims, PastFinish
      <3> QED  BY <3>6, <3>7, <3>9, <3>10
    <2> HIDE DEF late
    <2>4. late \cap (Upcoming \cup UpcomingTasks) = {} /\ late \subseteq OpenCallForwards
      BY <2>3
    <2>5. {l \in late : line[l].type = "STAGE_CLAIM"} \subseteq UpcomingClaims
      BY <2>3
    <2> USE DEF late
    <2> QED  BY <2>2, <2>3, <2>4, <2>5 DEF OverdueReadsAgree
  <1> QED  BY <1>1, ReportsInvariance, PTL

-----------------------------------------------------------------------------
(* Reports: the days. *)

LEMMA GradesNeverImprove ==
    ASSUME NEW n \in Int
    PROVE  Severity(n + 1) >= Severity(n) /\ DelayBucket(n + 1) >= DelayBucket(n)
  BY DEF Severity, DelayBucket

(* A line left alone only gets later, whatever its dates and the day.        *)
THEOREM LatenessOnlyGrows == ReportingSpec => DelaysOnlyGrow
  <1>1. ASSUME ReportsInv, NEW l \in Lines PROVE DelayGrows(l, today)
    <2> DEFINE item == line[l]
    <2>1. item \in Line /\ today \in Int
      BY <1>1 DEF ReportsInv, ReportingTypeOK
    <2>2. IsSet(item.est_finish) => item.est_finish \in Int
      BY <2>1, LineType, DatesType
    <2>3. CASE \/ item.status \in {"on_hold", "completed"} \/ IsSet(item.actual_finish)
               \/ ~IsSet(item.est_finish)
      BY <2>3 DEF DelayGrows, ComputeDelayInfo, Plain, PastFinish
    <2>4. ASSUME item.status \notin {"on_hold", "completed"}, ~IsSet(item.actual_finish),
                 IsSet(item.est_finish)
          PROVE  DelayGrows(l, today)
      <3>1. CASE item.est_finish < today
        <4>1. /\ ComputeDelayInfo(item, today) = DelayedBy(today - item.est_finish)
              /\ ComputeDelayInfo(item, today + 1) = DelayedBy(today + 1 - item.est_finish)
          BY <2>1, <2>2, <2>4, <3>1 DEF ComputeDelayInfo, PastFinish
        <4>2. today - item.est_finish \in Int
              /\ today + 1 - item.est_finish = today - item.est_finish + 1
          BY <2>1, <2>2, <2>4
        <4> QED  BY <4>1, <4>2, GradesNeverImprove DEF DelayGrows, DelayedBy
      <3>2. CASE item.est_finish = today
        <4>1. ComputeDelayInfo(item, today + 1) = DelayedBy(1)
          BY <2>1, <2>2, <2>4, <3>2 DEF ComputeDelayInfo, PastFinish
        <4>2. \/ ComputeDelayInfo(item, today) = Plain("in_progress")
              \/ ComputeDelayInfo(item, today) = Plain("not_started")
          BY <2>1, <2>2, <2>4, <3>2 DEF ComputeDelayInfo, PastFinish
        <4> QED  BY <4>1, <4>2, GradesNeverImprove DEF DelayGrows, DelayedBy, Plain
      <3>3. CASE item.est_finish > today
        BY <2>1, <2>2, <2>4, <3>3 DEF DelayGrows, ComputeDelayInfo, Plain, PastFinish
      <3> QED  BY <2>1, <2>2, <2>4, <3>1, <3>2, <3>3
    <2> QED  BY <2>3, <2>4
  <1>2. ReportsInv => [today' # today => \A l \in Lines : DelayGrows(l, today)]_reportVars
    BY <1>1
  <1> QED  BY <1>2, ReportsInvariance, PTL DEF DelaysOnlyGrow

-----------------------------------------------------------------------------
(* Reports: the calendar. *)

\* Where a bar starts is where the query says it starts, and so it ends.
LEMMA RangeIsEffective ==
    ASSUME NEW item
    PROVE  /\ EffectiveRange(item).start = EffectiveStart(item)
           /\ EffectiveRange(item).finish = EffectiveFinish(item)
           /\ IsSet(EffectiveStart(item)) => IsSet(EffectiveFinish(item))
  BY DEF EffectiveRange, EffectiveStart, EffectiveFinish, Coalesce, IsSet

(* The query behind any calendar window finds exactly the bars that touch it *)
(* and only a line whose actual dates contradict its estimates is drawn      *)
(* backwards.                                                                *)
THEOREM CalendarFindsItsBars == ReportingSpec => []BarsAreFound
  <1>1. ReportsInv => BarsAreFound
    <2> SUFFICES ASSUME ReportsInv, NEW l \in Lines, Drawn(l)
                 PROVE  LET item == line[l]
                            bar  == EffectiveRange(item)
                        IN  \/ /\ bar.start <= bar.finish
                               /\ \A m \in Months :
                                     l \in ItemsInWindow(m)
                                        <=> bar.start <= m.last /\ m.first <= bar.finish
                            \/ /\ IsSet(item.actual_start) /\ ~Finished(l)
                               /\ PastFinish(item, item.actual_start)
                            \/ /\ Finished(l) /\ ~IsSet(item.actual_start)
                               /\ IsSet(item.est_start) /\ item.actual_finish < item.est_start
      BY DEF BarsAreFound
    <2> DEFINE item == line[l]
               start == EffectiveStart(item)
               finish == EffectiveFinish(item)
    <2>1. /\ item.est_start \in Dates /\ item.est_finish \in Dates
          /\ item.actual_start \in Dates /\ item.actual_finish \in Dates
          /\ Validate(item)
      BY LineType DEF ReportsInv, ReportingTypeOK
    <2>2. /\ IsSet(start) /\ IsSet(finish) /\ IsWork(l)
          /\ EffectiveRange(item).start = start /\ EffectiveRange(item).finish = finish
      BY RangeIsEffective DEF Drawn
    <2>3. start \in Int /\ finish \in Int
      BY <2>1, <2>2, DatesType DEF EffectiveStart, EffectiveFinish, Coalesce
    <2>4. \A m \in Months : l \in ItemsInWindow(m) <=> start <= m.last /\ m.first <= finish
      BY <2>2, <2>3, MonthsAreWindows DEF ItemsInWindow
    <2>5. \/ start <= finish
          \/ /\ IsSet(item.actual_start) /\ ~Finished(l)
             /\ PastFinish(item, item.actual_start)
          \/ /\ Finished(l) /\ ~IsSet(item.actual_start)
             /\ IsSet(item.est_start) /\ item.actual_finish < item.est_start
      <3>1. CASE IsSet(item.actual_start) /\ IsSet(item.actual_finish)
        BY <2>1, <3>1 DEF EffectiveStart, EffectiveFinish, Coalesce, Validate, Ordered
      <3>2. CASE IsSet(item.actual_start) /\ ~IsSet(item.actual_finish)
        <4>1. CASE IsSet(item.est_finish)
          BY <2>1, <2>3, <3>2, <4>1, DatesType
             DEF EffectiveStart, EffectiveFinish, Coalesce, PastFinish, Finished
        <4>2. CASE ~IsSet(item.est_finish)
          BY <2>1, <2>3, <3>2, <4>2 DEF EffectiveStart, EffectiveFinish, Coalesce
        <4> QED  BY <4>1, <4>2
      <3>3. CASE ~IsSet(item.actual_start) /\ IsSet(item.actual_finish)
        <4>1. CASE IsSet(item.est_start)
          BY <2>1, <2>3, <3>3, <4>1, DatesType
             DEF EffectiveStart, EffectiveFinish, Coalesce, Finished
        <4>2. CASE ~IsSet(item.est_start)
          BY <2>1, <2>3, <3>3, <4>2 DEF EffectiveStart, EffectiveFinish, Coalesce
        <4> QED  BY <4>1, <4>2
      <3>4. CASE ~IsSet(item.actual_start) /\ ~IsSet(item.actual_finish)
        BY <2>1, <2>2, <2>3, <3>4 DEF EffectiveStart, EffectiveFinish, Coalesce, Validate,
           Ordered
      <3> QED  BY <3>1, <3>2, <3>3, <3>4
    <2> QED  BY <2>2, <2>4, <2>5
  <1> QED  BY <1>1, ReportsInvariance, PTL

-----------------------------------------------------------------------------
(* Job records: the inductive invariant. *)

\* Ids are given out in order.
Unborn == \A i \in Records : i > lastRecord => record[i] = NoRecord

\* A request about a progress record knows its job, and what its user may see
\* while it lasts is what counts as reached.
KnowsItsJob(q) ==
    /\ UnderWay(q) => onJobs[q] \subseteq reached[q]
    /\ change[q].kind = "progress" /\ change[q].pc = "write" => change[q].job \in reached[q]
    /\ change[q].kind = "progress" /\ change[q].op \in {"update", "delete"} =>
         /\ change[q].id <= lastRecord
         /\ Exists(change[q].id) => record[change[q].id].job = change[q].job
    /\ change[q].touched # NoRecord => change[q].touched \in reached[q]

\* The copy of an update that no write has overtaken is the row.
CopyIsCurrent(q) ==
    Copies(q) /\ ~change[q].outdated /\ Exists(change[q].id) =>
        change[q].copy = record[change[q].id].by

RecordsInv ==
    /\ JobRecordsTypeOK
    /\ Unborn
    /\ \A q \in RecordEditors : KnowsItsJob(q) /\ CopyIsCurrent(q)
    /\ RecordsUndoneByRacersOnly

-----------------------------------------------------------------------------
(* Job records, step by step. *)

LEMMA RecordIdsAreNaturals == Records \subseteq Nat
  BY RecordsAreOrdered, FS_CardinalityType

LEMMA LastRecordIsNatural == RecordsInv => lastRecord \in Nat
  <1> SUFFICES ASSUME RecordsInv PROVE lastRecord \in Nat
    OBVIOUS
  <1>1. lastRecord \in {0} \cup Records
    BY DEF RecordsInv, JobRecordsTypeOK
  <1> QED
    BY <1>1, RecordIdsAreNaturals

LEMMA NoChangeIsOne ==
  NoChange \in Change /\ \A job \in RecordJobs \cup {NoRecord} : Ended(job) \in Change
  <1>1. 1 \in Records
    BY RecordsAreOrdered, FS_CardinalityType
  <1>2. WrittenBy(Original) \in [Columns -> Makers]
    BY DEF WrittenBy, Makers
  <1> QED
    BY <1>1, <1>2 DEF NoChange, Change, Ended, RecordKinds

LEMMA RecordsInvInit == JobRecordsInit => RecordsInv
  <1> SUFFICES ASSUME JobRecordsInit PROVE RecordsInv
    OBVIOUS
  <1>1. PICK first \in {NoRecord} \cup [kind : RecordKinds, job : RecordJobs, by : {WrittenBy(Original)}] :
            /\ record = [i \in Records |-> IF i = 1 THEN first ELSE NoRecord]
            /\ lastRecord = IF first = NoRecord THEN 0 ELSE 1
    BY DEF JobRecordsInit
  <1>2. WrittenBy(Original) \in [Columns -> Makers]
    BY DEF WrittenBy, Makers
  <1>3. 1 \in Records /\ Records \subseteq Nat
    BY RecordsAreOrdered, FS_CardinalityType
  <1>4. first \in Record \cup {NoRecord}
    BY <1>2 DEF Record
  <1>5. JobRecordsTypeOK
    BY <1>1, <1>2, <1>3, <1>4, NoChangeIsOne DEF JobRecordsTypeOK, JobRecordsInit
  <1>6. Unborn
    BY <1>1, <1>3 DEF Unborn
  <1>7. ASSUME NEW q \in RecordEditors PROVE KnowsItsJob(q) /\ CopyIsCurrent(q)
    BY DEF JobRecordsInit, KnowsItsJob, CopyIsCurrent, Copies, UnderWay, NoChange
  <1>8. RecordsUndoneByRacersOnly
    <2> SUFFICES ASSUME NEW i \in Records, NEW c \in Columns, Exists(i)
                 PROVE  record[i].by[c] = meant[i][c]
      BY DEF RecordsUndoneByRacersOnly
    <2>1. record[i] = first /\ first # NoRecord
      BY <1>1 DEF Exists
    <2>2. record[i].by = WrittenBy(Original)
      BY <2>1
    <2> QED
      BY <2>2 DEF JobRecordsInit
  <1> QED
    BY <1>5, <1>6, <1>7, <1>8 DEF RecordsInv

\* What a request's start, its looks and its end without a write leave alone.
LEMMA MovesKeepRecords ==
  ASSUME RecordsInv, NEW p \in RecordEditors, RecordsUnchanged, change' \in [RecordEditors -> Change],
         reached' \in [RecordEditors -> SUBSET RecordJobs],
         \A q \in RecordEditors : q # p => change'[q] = change[q] /\ reached'[q] = reached[q],
         KnowsItsJob(p)', CopyIsCurrent(p)'
  PROVE  RecordsInv'
  <1>1. JobRecordsTypeOK'
    BY DEF RecordsInv, JobRecordsTypeOK, RecordsUnchanged
  <1>2. Unborn' /\ RecordsUndoneByRacersOnly'
    BY DEF RecordsInv, Unborn, RecordsUndoneByRacersOnly, RecordsUnchanged, Exists
  <1>3. ASSUME NEW q \in RecordEditors PROVE KnowsItsJob(q)' /\ CopyIsCurrent(q)'
    <2>1. CASE q = p
      BY <2>1
    <2>2. CASE q # p
      <3>1. change'[q] = change[q] /\ reached'[q] = reached[q] /\ KnowsItsJob(q) /\ CopyIsCurrent(q)
        BY <2>2 DEF RecordsInv
      <3> QED
        BY <3>1 DEF KnowsItsJob, CopyIsCurrent, RecordsUnchanged, UnderWay, Copies, Exists
    <2> QED
      BY <2>1, <2>2
  <1> QED
    BY <1>1, <1>2, <1>3 DEF RecordsInv

LEMMA MissedKeepsRecords ==
  ASSUME RecordsInv, NEW p \in RecordEditors, Missed(p), UNCHANGED reached
  PROVE  RecordsInv'
  <1>1. change \in [RecordEditors -> Change] /\ reached \in [RecordEditors -> SUBSET RecordJobs]
    BY DEF RecordsInv, JobRecordsTypeOK
  <1>2. Ended(NoRecord) \in Change
    BY NoChangeIsOne
  <1>3. change'[p] = Ended(NoRecord) /\ change' \in [RecordEditors -> Change]
    BY <1>1, <1>2 DEF Missed
  <1>4. KnowsItsJob(p)' /\ CopyIsCurrent(p)'
    BY <1>3 DEF KnowsItsJob, CopyIsCurrent, Ended, NoChange, UnderWay, Copies
  <1>5. \A q \in RecordEditors : q # p => change'[q] = change[q] /\ reached'[q] = reached[q]
    BY <1>1 DEF Missed
  <1>6. reached' \in [RecordEditors -> SUBSET RecordJobs] /\ RecordsUnchanged
    BY <1>1 DEF Missed
  <1> QED
    BY <1>3, <1>4, <1>5, <1>6, MovesKeepRecords

LEMMA StartsKeepsRecords ==
  ASSUME RecordsInv, NEW p \in RecordEditors, NEW new \in Change, Starts(p, new),
         new.touched = NoRecord,
         new.kind = "progress" /\ new.pc = "write" => new.job \in onJobs[p],
         new.kind = "progress" /\ new.op \in {"update", "delete"} =>
             Exists(new.id) /\ record[new.id].job = new.job,
         new.op = "update" /\ new.kind # "link" => new.copy = record[new.id].by
  PROVE  RecordsInv'
  <1>1. /\ change \in [RecordEditors -> Change] /\ reached \in [RecordEditors -> SUBSET RecordJobs]
        /\ onJobs \in [RecordEditors -> SUBSET RecordJobs] /\ lastRecord \in Nat /\ Unborn
    BY LastRecordIsNatural DEF RecordsInv, JobRecordsTypeOK
  <1>2. change'[p] = new /\ change' \in [RecordEditors -> Change]
    BY <1>1 DEF Starts
  <1>3. reached'[p] = onJobs[p] /\ reached' \in [RecordEditors -> SUBSET RecordJobs]
    BY <1>1 DEF Starts
  <1>4. UNCHANGED <<record, lastRecord, onJobs>> /\ RecordsUnchanged
    BY DEF Starts, RecordsUnchanged
  <1>5. new.id \in Nat /\ new.id \in Records
    BY RecordIdsAreNaturals DEF Change
  <1>6. Exists(new.id) => new.id <= lastRecord
    BY <1>1, <1>5 DEF Unborn, Exists
  <1>7. KnowsItsJob(p)'
    BY <1>2, <1>3, <1>4, <1>6 DEF KnowsItsJob, Exists, UnderWay
  <1>8. CopyIsCurrent(p)'
    BY <1>2, <1>4 DEF CopyIsCurrent, Copies, Exists
  <1>9. \A q \in RecordEditors : q # p => change'[q] = change[q] /\ reached'[q] = reached[q]
    BY <1>1 DEF Starts
  <1> QED
    BY <1>2, <1>3, <1>4, <1>7, <1>8, <1>9, MovesKeepRecords

\* A commit of p on row i.
LEMMA CommittedTells ==
  ASSUME RecordsInv, NEW p \in RecordEditors, NEW i, NEW job \in RecordJobs \cup {NoRecord},
         Committed(p, i, job)
  PROVE  /\ change' \in [RecordEditors -> Change]
         /\ change'[p] = Ended(job)
         /\ \A q \in RecordEditors \ {p} :
               change'[q] = [change[q] EXCEPT !.outdated = @ \/ (Copies(q) /\ change[q].id = i)]
  <1>1. change \in [RecordEditors -> Change] /\ Ended(job) \in Change
    BY NoChangeIsOne DEF RecordsInv, JobRecordsTypeOK
  <1>2. ASSUME NEW q \in RecordEditors
        PROVE  [change[q] EXCEPT !.outdated = @ \/ (Copies(q) /\ change[q].id = i)] \in Change
    <2>1. change[q] \in Change
      BY <1>1
    <2>2. (change[q].outdated \/ (Copies(q) /\ change[q].id = i)) \in BOOLEAN
      OBVIOUS
    <2> QED
      BY <2>1, <2>2 DEF Change
  <1> QED
    BY <1>1, <1>2 DEF Committed

\* What a commit of p on row i leaves of the other requests' knowledge: it gives
\* the row other values or none, under the same job.
LEMMA CommitsKeepOthers ==
  ASSUME RecordsInv, NEW p \in RecordEditors, NEW i \in Records,
         NEW job \in RecordJobs \cup {NoRecord}, Committed(p, i, job),
         UNCHANGED <<onJobs, reached>>, lastRecord' >= lastRecord, lastRecord' \in Nat,
         \A k \in Records \ {i} : record'[k] = record[k],
         i > lastRecord \/ record'[i] = NoRecord \/ (Exists(i) /\ record'[i].job = record[i].job),
         NEW q \in RecordEditors, q # p
  PROVE  KnowsItsJob(q)' /\ CopyIsCurrent(q)'
  <1>1. /\ change[q] \in Change /\ change[q].id \in Records /\ change[q].id \in Nat
        /\ lastRecord \in Nat
    <2>1. change[q] \in Change /\ lastRecord \in {0} \cup Records
      BY DEF RecordsInv, JobRecordsTypeOK
    <2>2. change[q].id \in Records
      BY <2>1 DEF Change
    <2>3. change[q].id \in Nat
      BY <2>2, RecordIdsAreNaturals
    <2>4. lastRecord \in Nat
      BY LastRecordIsNatural
    <2> QED
      BY <2>1, <2>2, <2>3, <2>4
  <1>2. KnowsItsJob(q) /\ CopyIsCurrent(q)
    BY DEF RecordsInv
  <1>3. change'[q] = [change[q] EXCEPT !.outdated = @ \/ (Copies(q) /\ change[q].id = i)]
    BY CommittedTells
  <1>4. /\ \A field \in {"pc", "op", "kind", "job", "id", "sent", "copy", "touched"} :
              change'[q][field] = change[q][field]
        /\ change'[q].outdated = (change[q].outdated \/ (Copies(q) /\ change[q].id = i))
    BY <1>1, <1>3 DEF Change
  <1>5. /\ change'[q].pc = change[q].pc /\ change'[q].op = change[q].op
        /\ change'[q].kind = change[q].kind /\ change'[q].job = change[q].job
        /\ change'[q].id = change[q].id /\ change'[q].copy = change[q].copy
        /\ change'[q].touched = change[q].touched
    BY <1>4
  <1>6. KnowsItsJob(q)'
    <2>1. UnderWay(q)' => UnderWay(q)
      BY <1>5 DEF UnderWay
    <2>2. ASSUME change[q].id <= lastRecord, Exists(change[q].id) => record[change[q].id].job = change[q].job,
                 Exists(change[q].id)'
          PROVE  record'[change[q].id].job = change[q].job
      <3>1. CASE change[q].id = i
        BY <1>1, <1>5, <2>2, <3>1, RecordIdsAreNaturals DEF Exists
      <3>2. CASE change[q].id # i
        BY <1>1, <1>5, <2>2, <3>2 DEF Exists
      <3> QED
        BY <3>1, <3>2
    <2> QED
      BY <1>1, <1>2, <1>5, <2>1, <2>2 DEF KnowsItsJob
  <1>7. CopyIsCurrent(q)'
    <2>1. SUFFICES ASSUME change'[q].op = "update", change'[q].kind # "link",
                          ~change'[q].outdated, record'[change'[q].id] # NoRecord
                   PROVE  change'[q].copy = record'[change'[q].id].by
      BY DEF CopyIsCurrent, Copies, Exists
    <2>2. Copies(q)
      BY <1>5, <2>1 DEF Copies
    <2>3. ~change[q].outdated /\ change[q].id # i
      BY <1>4, <2>1, <2>2
    <2>4. record'[change[q].id] = record[change[q].id]
      BY <1>1, <2>3
    <2>5. change[q].copy = record[change[q].id].by
      BY <1>2, <1>5, <2>1, <2>2, <2>3, <2>4 DEF CopyIsCurrent, Exists
    <2> QED
      BY <1>5, <2>4, <2>5
  <1> QED
    BY <1>6, <1>7

LEMMA CommitsKeepSelf ==
  ASSUME RecordsInv, NEW p \in RecordEditors, NEW i \in Records,
         NEW job \in RecordJobs \cup {NoRecord}, Committed(p, i, job),
         UNCHANGED reached, job # NoRecord => job \in reached[p]
  PROVE  KnowsItsJob(p)' /\ CopyIsCurrent(p)'
  <1>1. change'[p] = Ended(job)
    BY CommittedTells
  <1> QED
    BY <1>1 DEF KnowsItsJob, CopyIsCurrent, Ended, NoChange, UnderWay, Copies

LEMMA WroteKeepsRecords ==
  ASSUME RecordsInv, NEW p \in RecordEditors, NEW by \in [Columns -> Makers],
         NEW sent \in SUBSET Columns, NEW job, Wrote(p, by, sent, job),
         Exists(change[p].id) =>
            /\ job \in RecordJobs \cup {NoRecord} /\ (job # NoRecord => job \in reached[p])
            /\ \A c \in sent : by[c] = p
            /\ ~change[p].outdated =>
                  \A c \in Columns \ sent : by[c] = record[change[p].id].by[c]
  PROVE  RecordsInv'
  <1> DEFINE i == change[p].id
  <1>1. i \in Records /\ JobRecordsTypeOK /\ change[p].outdated \in BOOLEAN
    BY DEF RecordsInv, JobRecordsTypeOK, Change
  <1>2. CASE ~Exists(i)
    BY <1>2, MissedKeepsRecords DEF Wrote
  <1>3. CASE Exists(i)
    <2>1. /\ record' = [record EXCEPT ![i].by = by]
          /\ meant' = [meant EXCEPT ![i] = [c \in Columns |-> IF c \in sent THEN p ELSE @[c]]]
          /\ reverted' = (reverted \ ({i} \X sent))
                         \cup IF change[p].outdated THEN {i} \X (Columns \ sent) ELSE {}
          /\ Committed(p, i, job)
          /\ UNCHANGED <<recordJobs, lastRecord, onJobs, reached>>
      BY <1>3 DEF Wrote
    <2>2. record[i] \in Record
      BY <1>1, <1>3 DEF Exists, JobRecordsTypeOK
    <2>3. [record[i] EXCEPT !.by = by] \in Record
      BY <2>2 DEF Record
    <2>4. /\ record' \in [Records -> Record \cup {NoRecord}]
          /\ record'[i] = [record[i] EXCEPT !.by = by]
          /\ \A k \in Records \ {i} : record'[k] = record[k]
      BY <1>1, <2>1, <2>3 DEF JobRecordsTypeOK
    <2>5. record'[i].by = by /\ record'[i].job = record[i].job /\ record'[i] # NoRecord
      BY <2>2, <2>3, <2>4, NoRecordIsNoRow DEF Record
    <2>6. /\ meant' \in [Records -> [Columns -> Makers]]
          /\ \A c \in Columns : meant'[i][c] = IF c \in sent THEN p ELSE meant[i][c]
          /\ \A k \in Records \ {i} : meant'[k] = meant[k]
      BY <1>1, <2>1 DEF JobRecordsTypeOK, Makers
    <2>7. reverted' \subseteq Records \X Columns
      BY <1>1, <2>1 DEF JobRecordsTypeOK
    <2>8. change' \in [RecordEditors -> Change]
      BY <1>3, <2>1, CommittedTells
    <2>9. JobRecordsTypeOK'
      BY <1>1, <2>1, <2>4, <2>6, <2>7, <2>8 DEF JobRecordsTypeOK
    <2>10. Unborn'
      BY <1>3, <2>1, <2>4 DEF RecordsInv, Unborn, Exists
    <2>11. ASSUME NEW q \in RecordEditors PROVE KnowsItsJob(q)' /\ CopyIsCurrent(q)'
      <3>1. lastRecord \in Nat
        BY LastRecordIsNatural
      <3>2. CASE q = p
        BY <1>1, <1>3, <2>1, <3>2, CommitsKeepSelf
      <3>3. CASE q # p
        BY <1>1, <1>3, <2>1, <2>4, <2>5, <3>1, <3>3, CommitsKeepOthers
      <3> QED
        BY <3>2, <3>3
    <2>12. ASSUME NEW k \in Records, NEW c \in Columns, Exists(k)'
           PROVE  record'[k].by[c] = meant'[k][c] \/ <<k, c>> \in reverted'
      <3>1. Exists(k) => record[k].by[c] = meant[k][c] \/ <<k, c>> \in reverted
        BY DEF RecordsInv, RecordsUndoneByRacersOnly
      <3>2. CASE k # i
        BY <2>1, <2>4, <2>6, <2>12, <3>1, <3>2 DEF Exists
      <3>3. CASE k = i /\ c \in sent
        BY <1>3, <2>5, <2>6, <3>3
      <3>4. CASE k = i /\ c \notin sent /\ change[p].outdated
        BY <2>1, <3>4
      <3>5. CASE k = i /\ c \notin sent /\ ~change[p].outdated
        <4>1. by[c] = record[i].by[c]
          BY <1>3, <3>5
        <4> QED
          BY <1>3, <2>1, <2>5, <2>6, <3>1, <3>5, <4>1
      <3> QED
        BY <3>2, <3>3, <3>4, <3>5
    <2>13. RecordsUndoneByRacersOnly'
      BY <2>12 DEF RecordsUndoneByRacersOnly
    <2> QED
      BY <2>9, <2>10, <2>11, <2>13 DEF RecordsInv
  <1> QED
    BY <1>2, <1>3

LEMMA DeletedKeepsRecords ==
  ASSUME RecordsInv, NEW p \in RecordEditors, NEW job, Deleted(p, job),
         Exists(change[p].id) =>
            job \in RecordJobs \cup {NoRecord} /\ (job # NoRecord => job \in reached[p])
  PROVE  RecordsInv'
  <1> DEFINE i == change[p].id
  <1>1. i \in Records /\ JobRecordsTypeOK /\ lastRecord \in Nat
    BY LastRecordIsNatural DEF RecordsInv, JobRecordsTypeOK, Change
  <1>2. CASE ~Exists(i)
    BY <1>2, MissedKeepsRecords DEF Deleted
  <1>3. CASE Exists(i)
    <2>1. /\ record' = [record EXCEPT ![i] = NoRecord] /\ Committed(p, i, job)
          /\ UNCHANGED <<recordJobs, lastRecord, onJobs, reached, meant, reverted>>
      BY <1>3 DEF Deleted
    <2>2. record'[i] = NoRecord /\ \A k \in Records \ {i} : record'[k] = record[k]
      BY <1>1, <2>1 DEF JobRecordsTypeOK
    <2>3. change' \in [RecordEditors -> Change]
      BY <1>3, <2>1, CommittedTells
    <2>4. JobRecordsTypeOK'
      BY <1>1, <2>1, <2>3 DEF JobRecordsTypeOK
    <2>5. Unborn'
      BY <1>1, <2>1, <2>2 DEF RecordsInv, Unborn
    <2>6. ASSUME NEW q \in RecordEditors PROVE KnowsItsJob(q)' /\ CopyIsCurrent(q)'
      <3>1. CASE q = p
        BY <1>1, <1>3, <2>1, <3>1, CommitsKeepSelf
      <3>2. CASE q # p
        BY <1>1, <1>3, <2>1, <2>2, <3>2, CommitsKeepOthers
      <3> QED
        BY <3>1, <3>2
    <2>7. RecordsUndoneByRacersOnly'
      BY <2>1, <2>2 DEF RecordsInv, RecordsUndoneByRacersOnly, Exists
    <2> QED
      BY <2>4, <2>5, <2>6, <2>7 DEF RecordsInv
  <1> QED
    BY <1>2, <1>3

LEMMA RowInsertedKeepsRecords ==
  ASSUME RecordsInv, NEW p \in RecordEditors, NEW kind \in RecordKinds, NEW job,
         RowInserted(p, kind, job), change[p].job \in RecordJobs,
         job \in RecordJobs \cup {NoRecord}, job # NoRecord => job \in reached[p]
  PROVE  RecordsInv'
  <1> DEFINE i == lastRecord + 1
             row == [kind |-> kind, job |-> change[p].job, by |-> WrittenBy(p)]
  <1>1. JobRecordsTypeOK /\ lastRecord \in Nat /\ Unborn
    BY LastRecordIsNatural DEF RecordsInv
  <1>2. CASE change[p].job \notin recordJobs
    BY <1>2, MissedKeepsRecords DEF RowInserted
  <1>3. CASE change[p].job \in recordJobs
    <2>1. /\ i \in Records /\ record' = [record EXCEPT ![i] = row]
          /\ meant' = [meant EXCEPT ![i] = WrittenBy(p)]
          /\ lastRecord' = i /\ Committed(p, i, job)
          /\ UNCHANGED <<recordJobs, onJobs, reached, reverted>>
      BY <1>3 DEF RowInserted
    <2>2. WrittenBy(p) \in [Columns -> Makers]
      BY DEF WrittenBy, Makers
    <2>3. row \in Record
      BY <2>2 DEF Record
    <2>4. /\ record' \in [Records -> Record \cup {NoRecord}] /\ record'[i] = row
          /\ \A k \in Records \ {i} : record'[k] = record[k]
      BY <1>1, <2>1, <2>3 DEF JobRecordsTypeOK
    <2>5. /\ meant' \in [Records -> [Columns -> Makers]] /\ meant'[i] = WrittenBy(p)
          /\ \A k \in Records \ {i} : meant'[k] = meant[k]
      BY <1>1, <2>1, <2>2 DEF JobRecordsTypeOK
    <2>6. change' \in [RecordEditors -> Change]
      BY <2>1, CommittedTells
    <2>7. JobRecordsTypeOK'
      BY <1>1, <2>1, <2>4, <2>5, <2>6 DEF JobRecordsTypeOK
    <2>8. Unborn'
      <3> SUFFICES ASSUME NEW k \in Records, k > lastRecord' PROVE record'[k] = NoRecord
        BY DEF Unborn
      <3>1. k \in Nat /\ k # i /\ k > lastRecord
        BY <1>1, <2>1, RecordIdsAreNaturals
      <3> QED
        BY <1>1, <2>4, <3>1 DEF Unborn
    <2>9. ASSUME NEW q \in RecordEditors PROVE KnowsItsJob(q)' /\ CopyIsCurrent(q)'
      <3>1. CASE q = p
        BY <2>1, <3>1, CommitsKeepSelf
      <3>2. CASE q # p
        <4>1. lastRecord' >= lastRecord /\ lastRecord' \in Nat /\ i > lastRecord
          BY <1>1, <2>1
        <4> QED
          BY <2>1, <2>4, <3>2, <4>1, CommitsKeepOthers
      <3> QED
        BY <3>1, <3>2
    <2>10. ASSUME NEW k \in Records, NEW c \in Columns, Exists(k)'
           PROVE  record'[k].by[c] = meant'[k][c] \/ <<k, c>> \in reverted'
      <3>1. CASE k = i
        BY <2>4, <2>5, <3>1
      <3>2. CASE k # i
        BY <2>1, <2>4, <2>5, <2>10, <3>2 DEF RecordsInv, RecordsUndoneByRacersOnly, Exists
      <3> QED
        BY <3>1, <3>2
    <2>11. RecordsUndoneByRacersOnly'
      BY <2>10 DEF RecordsUndoneByRacersOnly
    <2> QED
      BY <2>7, <2>8, <2>9, <2>11 DEF RecordsInv
  <1> QED
    BY <1>2, <1>3

LEMMA PutOnJobKeepsRecords ==
  ASSUME RecordsInv, NEW p \in RecordEditors, PutOnJob(p)
  PROVE  RecordsInv'
  <1> DEFINE j == change[p].job
             now == (onJobs[p] \ {j}) \cup ({j} \ onJobs[p])
  <1>1. /\ onJobs' = [onJobs EXCEPT ![p] = now]
        /\ reached' = [reached EXCEPT ![p] = @ \cup onJobs'[p]]
        /\ UNCHANGED <<recordJobs, record, lastRecord, change, meant, reverted>> /\ j # NoRecord
    BY DEF PutOnJob
  <1>2. JobRecordsTypeOK
    BY DEF RecordsInv
  <1>3. j \in RecordJobs
    <2>1. change[p] \in Change
      BY <1>2 DEF JobRecordsTypeOK
    <2> QED
      BY <1>1, <2>1 DEF Change
  <1>4. /\ onJobs[p] \subseteq RecordJobs /\ reached[p] \subseteq RecordJobs
        /\ onJobs'[p] = now /\ reached'[p] = reached[p] \cup now
        /\ \A q \in RecordEditors \ {p} : onJobs'[q] = onJobs[q] /\ reached'[q] = reached[q]
    BY <1>1, <1>2 DEF JobRecordsTypeOK
  <1>5. JobRecordsTypeOK'
    BY <1>1, <1>2, <1>3, <1>4 DEF JobRecordsTypeOK
  <1>6. Unborn' /\ RecordsUndoneByRacersOnly'
    BY <1>1 DEF RecordsInv, Unborn, RecordsUndoneByRacersOnly, Exists
  <1>7. ASSUME NEW q \in RecordEditors PROVE KnowsItsJob(q)' /\ CopyIsCurrent(q)'
    <2>1. KnowsItsJob(q) /\ CopyIsCurrent(q) /\ reached[q] \subseteq reached'[q]
      BY <1>4 DEF RecordsInv
    <2>2. onJobs[q] \subseteq reached[q] => onJobs'[q] \subseteq reached'[q]
      BY <1>4
    <2> QED
      BY <1>1, <2>1, <2>2 DEF KnowsItsJob, CopyIsCurrent, UnderWay, Copies, Exists
  <1> QED
    BY <1>5, <1>6, <1>7 DEF RecordsInv

LEMMA PurgeKeepsRecords ==
  ASSUME RecordsInv, NEW j \in RecordJobs, PurgeRecords(j)
  PROVE  RecordsInv'
  <1>1. /\ recordJobs' = recordJobs \ {j}
        /\ record' = [i \in Records |-> IF Exists(i) /\ record[i].job = j THEN NoRecord ELSE record[i]]
        /\ UNCHANGED <<lastRecord, onJobs, change, reached, meant, reverted>>
    BY DEF PurgeRecords
  <1>2. JobRecordsTypeOK
    BY DEF RecordsInv
  <1>3. \A i \in Records : record'[i] = NoRecord \/ record'[i] = record[i]
    BY <1>1
  <1>4. JobRecordsTypeOK'
    BY <1>1, <1>2 DEF JobRecordsTypeOK
  <1>5. Unborn' /\ RecordsUndoneByRacersOnly'
    BY <1>1, <1>3 DEF RecordsInv, Unborn, RecordsUndoneByRacersOnly, Exists
  <1>6. ASSUME NEW q \in RecordEditors PROVE KnowsItsJob(q)' /\ CopyIsCurrent(q)'
    <2>1. KnowsItsJob(q) /\ CopyIsCurrent(q)
      BY DEF RecordsInv
    <2>2. change[q].id \in Records
      BY <1>2 DEF JobRecordsTypeOK, Change
    <2>3. record'[change[q].id] = NoRecord \/ record'[change[q].id] = record[change[q].id]
      BY <1>3, <2>2
    <2> QED
      BY <1>1, <2>1, <2>3 DEF KnowsItsJob, CopyIsCurrent, UnderWay, Copies, Exists
  <1> QED
    BY <1>4, <1>5, <1>6 DEF RecordsInv

\* Looks that only move a request on.
LEMMA LooksKeepRecords ==
  ASSUME RecordsInv, NEW p \in RecordEditors, AssertJobAccess(p) \/ FindAgain(p)
  PROVE  RecordsInv'
  <1>1. JobRecordsTypeOK /\ KnowsItsJob(p) /\ CopyIsCurrent(p) /\ UnderWay(p)
    BY DEF RecordsInv, AssertJobAccess, FindAgain, UnderWay
  <1>2. CASE Missed(p) /\ UNCHANGED reached
    BY <1>2, MissedKeepsRecords
  <1>3. ASSUME NEW pc \in {"again", "found", "write"}, ChangeTo(p, pc), RecordsUnchanged,
               UNCHANGED reached, pc = "write" => JobFound(p, change[p].job)
        PROVE  RecordsInv'
    <2>1. change[p] \in Change
      BY <1>1 DEF JobRecordsTypeOK
    <2>2. [change[p] EXCEPT !.pc = pc] \in Change
      BY <2>1 DEF Change
    <2>3. change' = [change EXCEPT ![p] = [change[p] EXCEPT !.pc = pc]]
      BY <1>3 DEF ChangeTo
    <2>4. /\ change' \in [RecordEditors -> Change]
          /\ change'[p] = [change[p] EXCEPT !.pc = pc]
          /\ \A q \in RecordEditors : q # p => change'[q] = change[q]
      BY <1>1, <2>2, <2>3 DEF JobRecordsTypeOK
    <2>5. /\ change'[p].pc = pc /\ change'[p].op = change[p].op
          /\ change'[p].kind = change[p].kind /\ change'[p].job = change[p].job
          /\ change'[p].id = change[p].id /\ change'[p].copy = change[p].copy
          /\ change'[p].touched = change[p].touched /\ change'[p].outdated = change[p].outdated
      BY <2>1, <2>4 DEF Change
    <2>6. pc = "write" => change[p].job \in reached[p]
      BY <1>1, <1>3 DEF JobFound, KnowsItsJob
    <2>7. KnowsItsJob(p)'
      BY <1>1, <1>3, <2>5, <2>6 DEF KnowsItsJob, RecordsUnchanged, UnderWay, Exists
    <2>8. CopyIsCurrent(p)'
      BY <1>1, <1>3, <2>5 DEF CopyIsCurrent, RecordsUnchanged, Copies, Exists
    <2>9. reached' \in [RecordEditors -> SUBSET RecordJobs] /\ reached' = reached
      BY <1>1, <1>3 DEF JobRecordsTypeOK
    <2> QED
      BY <1>3, <2>4, <2>7, <2>8, <2>9, MovesKeepRecords
  <1>4. CASE AssertJobAccess(p)
    <2>1. CASE JobFound(p, change[p].job)
      BY <1>3, <1>4, <2>1 DEF AssertJobAccess
    <2>2. CASE ~JobFound(p, change[p].job)
      BY <1>2, <1>4, <2>2 DEF AssertJobAccess
    <2> QED
      BY <2>1, <2>2
  <1>5. CASE FindAgain(p)
    BY <1>2, <1>3, <1>5 DEF FindAgain
  <1> QED
    BY <1>4, <1>5

LEMMA StartingKeepsRecords ==
  ASSUME RecordsInv, NEW p \in RecordEditors,
         CreateFind(p) \/ ReadTask(p) \/ FindLink(p) \/ FindProgress(p)
  PROVE  RecordsInv'
  <1>1. JobRecordsTypeOK /\ NoChange \in Change
    BY NoChangeIsOne DEF RecordsInv
  <1>2. ASSUME NEW i \in Records, Exists(i)
        PROVE  record[i].job \in RecordJobs /\ record[i].by \in [Columns -> Makers]
    BY <1>1, <1>2 DEF JobRecordsTypeOK, Exists, Record
  <1>3. CASE CreateFind(p)
    <2>1. PICK kind \in RecordKinds, j \in RecordJobs :
             /\ JobFound(p, j)
             /\ Starts(p, [NoChange EXCEPT !.op = "create", !.kind = kind, !.pc = "write", !.job = j])
      BY <1>3 DEF CreateFind
    <2>2. [NoChange EXCEPT !.op = "create", !.kind = kind, !.pc = "write", !.job = j] \in Change
      BY <1>1 DEF Change
    <2> DEFINE new == [NoChange EXCEPT !.op = "create", !.kind = kind, !.pc = "write", !.job = j]
    <2>3. /\ new.touched = NoRecord /\ new.op = "create" /\ new.job = j
      BY DEF NoChange
    <2>4. j \in onJobs[p]
      BY <2>1 DEF JobFound
    <2> QED
      BY <2>1, <2>2, <2>3, <2>4, StartsKeepsRecords
  <1>4. CASE ReadTask(p)
    <2>1. PICK i \in Records, op \in {"update", "notes", "delete"}, sent \in SUBSET Columns :
             /\ OfKind(i, "task")
             /\ Starts(p, [NoChange EXCEPT !.op = op, !.kind = "task", !.pc = "write", !.id = i,
                              !.sent = sent, !.copy = record[i].by])
      BY <1>4 DEF ReadTask
    <2> DEFINE new == [NoChange EXCEPT !.op = op, !.kind = "task", !.pc = "write", !.id = i,
                              !.sent = sent, !.copy = record[i].by]
    <2>2. new \in Change
      BY <1>1, <1>2, <2>1 DEF Change, OfKind, RecordKinds
    <2>3. new.touched = NoRecord /\ new.kind = "task" /\ new.copy = record[new.id].by
      BY DEF NoChange
    <2> QED
      BY <2>1, <2>2, <2>3, StartsKeepsRecords
  <1>5. CASE FindLink(p)
    <2>1. PICK i \in Records, j \in RecordJobs, op \in {"update", "delete"}, sent \in SUBSET Columns :
             Starts(p, [NoChange EXCEPT !.op = op, !.kind = "link", !.pc = "write", !.id = i,
                              !.job = j, !.sent = sent])
      BY <1>5 DEF FindLink
    <2> DEFINE new == [NoChange EXCEPT !.op = op, !.kind = "link", !.pc = "write", !.id = i,
                              !.job = j, !.sent = sent]
    <2>2. new \in Change
      BY <1>1 DEF Change, RecordKinds
    <2>3. new.touched = NoRecord /\ new.kind = "link"
      BY DEF NoChange
    <2> QED
      BY <2>1, <2>2, <2>3, StartsKeepsRecords
  <1>6. CASE FindProgress(p)
    <2>1. PICK i \in Records, op \in {"update", "delete"}, sent \in SUBSET Columns :
             /\ OfKind(i, "progress")
             /\ Starts(p, [NoChange EXCEPT !.op = op, !.kind = "progress", !.id = i,
                              !.pc = IF op = "update" THEN "copied" ELSE "found",
                              !.job = record[i].job, !.sent = sent, !.copy = record[i].by])
      BY <1>6 DEF FindProgress
    <2> DEFINE new == [NoChange EXCEPT !.op = op, !.kind = "progress", !.id = i,
                              !.pc = IF op = "update" THEN "copied" ELSE "found",
                              !.job = record[i].job, !.sent = sent, !.copy = record[i].by]
    <2>2. new \in Change
      BY <1>1, <1>2, <2>1 DEF Change, OfKind, RecordKinds
    <2>3. /\ new.touched = NoRecord /\ new.pc # "write" /\ new.job = record[new.id].job
          /\ new.copy = record[new.id].by /\ Exists(new.id)
      BY <2>1 DEF NoChange, OfKind
    <2> QED
      BY <2>1, <2>2, <2>3, StartsKeepsRecords
  <1> QED
    BY <1>3, <1>4, <1>5, <1>6

LEMMA WritingKeepsRecords ==
  ASSUME RecordsInv, NEW p \in RecordEditors,
         \/ UpdateTask(p) \/ UpdateNotes(p) \/ UpdateLink(p) \/ UpdateProgress(p)
         \/ DeleteTask(p) \/ DeleteLink(p) \/ DeleteProgress(p)
         \/ InsertTask(p) \/ InsertLink(p) \/ InsertProgress(p)
  PROVE  RecordsInv'
  <1> DEFINE i == change[p].id
  <1>1. /\ JobRecordsTypeOK /\ KnowsItsJob(p) /\ CopyIsCurrent(p) /\ change[p] \in Change
    BY DEF RecordsInv, JobRecordsTypeOK
  <1>2. /\ i \in Records /\ change[p].sent \in SUBSET Columns
        /\ change[p].copy \in [Columns -> Makers] /\ change[p].job \in RecordJobs \cup {NoRecord}
        /\ p \in Makers
    BY <1>1 DEF Change, Makers
  <1>3. Exists(i) => record[i].job \in RecordJobs /\ record[i].by \in [Columns -> Makers]
    BY <1>1, <1>2 DEF JobRecordsTypeOK, Exists, Record
  <1>4. /\ Patched(p) \in [Columns -> Makers]
        /\ \A c \in change[p].sent : Patched(p)[c] = p
        /\ \A c \in Columns \ change[p].sent : Patched(p)[c] = change[p].copy[c]
    BY <1>2 DEF Patched
  <1>5. CASE UpdateTask(p)
    <2>1. Exists(i) /\ ~change[p].outdated => change[p].copy = record[i].by
      BY <1>1, <1>5 DEF CopyIsCurrent, Copies, UpdateTask, AtChange
    <2> QED
      BY <1>2, <1>4, <1>5, <2>1, WroteKeepsRecords DEF UpdateTask
  <1>6. CASE UpdateNotes(p)
    <2> DEFINE by == [record[i].by EXCEPT !["rest"] = p]
    <2>1. CASE Exists(i)
      <3>1. /\ by \in [Columns -> Makers] /\ \A c \in {"rest"} : by[c] = p
            /\ \A c \in Columns \ {"rest"} : by[c] = record[i].by[c]
        BY <1>2, <1>3, <2>1 DEF Columns
      <3>2. {"rest"} \in SUBSET Columns
        BY DEF Columns
      <3> QED
        BY <1>6, <3>1, <3>2, WroteKeepsRecords DEF UpdateNotes
    <2>2. CASE ~Exists(i)
      BY <1>6, <2>2, MissedKeepsRecords DEF UpdateNotes, Wrote
    <2> QED
      BY <2>1, <2>2
  <1>7. CASE UpdateLink(p)
    <2> DEFINE by == [c \in Columns |-> IF c \in change[p].sent THEN p ELSE record[i].by[c]]
    <2>1. CASE Exists(i)
      <3>1. /\ by \in [Columns -> Makers] /\ \A c \in change[p].sent : by[c] = p
            /\ \A c \in Columns \ change[p].sent : by[c] = record[i].by[c]
        BY <1>2, <1>3, <2>1
      <3> QED
        BY <1>2, <1>7, <3>1, WroteKeepsRecords DEF UpdateLink
    <2>2. CASE ~Exists(i)
      BY <1>7, <2>2, MissedKeepsRecords DEF UpdateLink, Wrote
    <2> QED
      BY <2>1, <2>2
  <1>8. CASE UpdateProgress(p)
    <2>1. Exists(i) /\ ~change[p].outdated => change[p].copy = record[i].by
      BY <1>1, <1>8 DEF CopyIsCurrent, Copies, UpdateProgress, AtChange
    <2>2. Exists(i) => record[i].job \in RecordJobs /\ record[i].job \in reached[p]
      BY <1>1, <1>3, <1>8 DEF KnowsItsJob, UpdateProgress, AtChange
    <2> QED
      BY <1>2, <1>4, <1>8, <2>1, <2>2, WroteKeepsRecords DEF UpdateProgress
  <1>9. CASE DeleteTask(p) \/ DeleteLink(p)
    BY <1>9, DeletedKeepsRecords DEF DeleteTask, DeleteLink
  <1>10. CASE DeleteProgress(p)
    <2>1. Exists(i) => record[i].job \in RecordJobs /\ record[i].job \in reached[p]
      BY <1>1, <1>3, <1>10 DEF KnowsItsJob, DeleteProgress, AtChange
    <2> QED
      BY <1>10, <2>1, DeletedKeepsRecords DEF DeleteProgress
  <1>11. CASE InsertTask(p) \/ InsertLink(p) \/ InsertProgress(p)
    <2>1. PICK kind \in RecordKinds, job \in {NoRecord, change[p].job} :
             /\ RowInserted(p, kind, job)
             /\ job # NoRecord => change[p].kind = "progress" /\ change[p].pc = "write"
      BY <1>11 DEF InsertTask, InsertLink, InsertProgress, AtChange, RecordKinds
    <2>2. job # NoRecord => job \in reached[p]
      BY <1>1, <2>1 DEF KnowsItsJob
    <2>3. CASE change[p].job \in recordJobs
      <3>1. change[p].job \in RecordJobs
        BY <1>1, <2>3 DEF JobRecordsTypeOK
      <3> QED
        BY <2>1, <2>2, <3>1, RowInsertedKeepsRecords
    <2>4. CASE change[p].job \notin recordJobs
      BY <2>1, <2>4, MissedKeepsRecords DEF RowInserted
    <2> QED
      BY <2>3, <2>4
  <1> QED
    BY <1>5, <1>6, <1>7, <1>8, <1>9, <1>10, <1>11

LEMMA RecordsInvNext == RecordsInv /\ [JobRecordsNext]_recordVars => RecordsInv'
  <1> SUFFICES ASSUME RecordsInv, [JobRecordsNext]_recordVars PROVE RecordsInv'
    OBVIOUS
  <1>1. ASSUME NEW p \in RecordEditors,
               CreateFind(p) \/ TaskOrLink(p) \/ Progress(p) \/ PutOnJob(p)
        PROVE  RecordsInv'
    <2>1. CASE CreateFind(p) \/ ReadTask(p) \/ FindLink(p) \/ FindProgress(p)
      BY <2>1, StartingKeepsRecords
    <2>2. CASE \/ UpdateTask(p) \/ UpdateNotes(p) \/ UpdateLink(p) \/ UpdateProgress(p)
               \/ DeleteTask(p) \/ DeleteLink(p) \/ DeleteProgress(p)
               \/ InsertTask(p) \/ InsertLink(p) \/ InsertProgress(p)
      BY <2>2, WritingKeepsRecords
    <2>3. CASE AssertJobAccess(p) \/ FindAgain(p)
      BY <2>3, LooksKeepRecords
    <2>4. CASE RefuseTaskOrLink(p) \/ RefuseProgress(p)
      BY <2>4, MissedKeepsRecords DEF RefuseTaskOrLink, RefuseProgress, Refused
    <2>5. CASE PutOnJob(p)
      BY <2>5, PutOnJobKeepsRecords
    <2> QED
      BY <1>1, <2>1, <2>2, <2>3, <2>4, <2>5 DEF TaskOrLink, Progress
  <1>2. ASSUME NEW j \in RecordJobs, PurgeRecords(j) PROVE RecordsInv'
    BY <1>2, PurgeKeepsRecords
  <1>3. CASE UNCHANGED recordVars
    BY <1>3 DEF recordVars, RecordsInv, JobRecordsTypeOK, Unborn, RecordsUndoneByRacersOnly,
                KnowsItsJob, CopyIsCurrent, UnderWay, Copies, Exists
  <1> QED
    BY <1>1, <1>2, <1>3 DEF JobRecordsNext

\* Every row, copy and request of the tasks, links and progress records holds
\* what its table, its patch and its handler can, whatever is purged, deleted
\* or refused in between.
THEOREM RecordTypes == JobRecordsSpec => []JobRecordsTypeOK
  <1>1. RecordsInv => JobRecordsTypeOK
    BY DEF RecordsInv
  <1> QED
    BY <1>1, RecordsInvInit, RecordsInvNext, PTL DEF JobRecordsSpec

\* A progress record is created, changed and deleted only by somebody who could
\* see its job while asking: owned asks the record's own job, which no update
\* changes and no later id takes over.
THEOREM ProgressStaysWithinReach == JobRecordsSpec => []ProgressWithinReach
  <1>1. RecordsInv => ProgressWithinReach
    BY DEF RecordsInv, KnowsItsJob, ProgressWithinReach
  <1> QED
    BY <1>1, RecordsInvInit, RecordsInvNext, PTL DEF JobRecordsSpec

\* A task, link or progress record loses what was asked of it only to a partial
\* update that overlapped: a copy that no write has overtaken is the row, and
\* links and notes are merged by their statements.
THEOREM RecordsLoseOnlyToRacers == JobRecordsSpec => []RecordsUndoneByRacersOnly
  <1>1. RecordsInv => RecordsUndoneByRacersOnly
    BY DEF RecordsInv
  <1> QED
    BY <1>1, RecordsInvInit, RecordsInvNext, PTL DEF JobRecordsSpec

-----------------------------------------------------------------------------
(* Extras to order: the inductive invariant. *)

\* One request at a time numbers an ETO of a job, and it holds the next number.
OneNumbering ==
    /\ \A r \in Raisers : raising[r] # NotRaising =>
         raising[r].job \in etoJobs /\ raising[r].number = AllocatedNumber(raising[r].job)
    /\ \A r, q \in Raisers :
         /\ raising[r] # NotRaising /\ raising[q] # NotRaising
         /\ raising[r].job = raising[q].job
         => r = q

EtosInv == EtosTypeOK /\ OneNumbering /\ EtoNumbersGapFree

LEMMA RaisingType ==
    ASSUME NEW x \in Raising
    PROVE  x # NotRaising /\ x.job \in EtoJobs /\ x.number \in 1..MaxEtos
  <1>1. x.number # NotRaising.number
    BY DEF Raising, NotRaising
  <1> QED  BY <1>1 DEF Raising

LEMMA EtosInvInit == EtosInit => EtosInv
  BY EtosAreBounded DEF EtosInit, EtosInv, EtosTypeOK, OneNumbering, EtoNumbersGapFree, NoSequence

LEMMA InvEtoAllocate ==
    ASSUME EtosInv, NEW r \in Raisers, NEW j \in EtoJobs, EtoAllocate(r, j)
    PROVE  EtosInv'
  <1> DEFINE x == [job |-> j, number |-> AllocatedNumber(j)]
  <1>1. /\ ~Numbering(j) /\ j \in etoJobs /\ raising[r] = NotRaising
        /\ raising' = [raising EXCEPT ![r] = x]
        /\ UNCHANGED <<etoJobs, nextEto, etos>>
    BY DEF EtoAllocate, Allocates
  <1>2. AllocatedNumber(j) \in 1..MaxEtos
    BY EtosAreBounded DEF EtoAllocate, Allocates, AllocatedNumber, EtosInv, EtosTypeOK, NoSequence
  <1>3. x \in Raising /\ x.job = j /\ x.number = AllocatedNumber(j)
    BY <1>2 DEF Raising
  <1> HIDE DEF x
  <1>4. /\ raising' \in [Raisers -> {NotRaising} \cup Raising] /\ raising'[r] = x
        /\ \A q \in Raisers \ {r} : raising'[q] = raising[q]
    BY <1>1, <1>3 DEF EtosInv, EtosTypeOK
  <1>5. EtosTypeOK' /\ EtoNumbersGapFree'
    BY <1>1, <1>4 DEF EtosInv, EtosTypeOK, EtoNumbersGapFree
  <1>6. \A q \in Raisers \ {r} : raising[q] # NotRaising => raising[q].job # j
    BY <1>1 DEF Numbering
  <1>7. OneNumbering'
    BY <1>1, <1>3, <1>4, <1>6 DEF EtosInv, OneNumbering, AllocatedNumber
  <1> QED  BY <1>5, <1>7 DEF EtosInv

LEMMA InvEtoCommit ==
    ASSUME EtosInv, NEW r \in Raisers, EtoCommit(r)
    PROVE  EtosInv'
  <1> DEFINE j == raising[r].job
             n == raising[r].number
  <1>1. /\ raising[r] \in Raising /\ raising[r] # NotRaising /\ UNCHANGED etoJobs
        /\ nextEto' = [nextEto EXCEPT ![j] = n + 1]
        /\ etos' = [etos EXCEPT ![j] = Append(etos[j], n)]
        /\ raising' = [raising EXCEPT ![r] = NotRaising]
    BY DEF EtoCommit, EtosInv, EtosTypeOK
  <1>2. j \in EtoJobs /\ n \in 1..MaxEtos
    BY <1>1, RaisingType
  <1>3. etos[j] \in Seq(1..MaxEtos) /\ n = Len(etos[j]) + 1
    <2>1. n = AllocatedNumber(j) /\ etos[j] \in Seq(1..MaxEtos)
      BY <1>1, <1>2 DEF EtosInv, OneNumbering, EtosTypeOK
    <2>2. nextEto[j] = IF etos[j] = << >> THEN NoSequence ELSE Len(etos[j]) + 1
      BY <1>2 DEF EtosInv, EtoNumbersGapFree
    <2>3. etos[j] # << >> => Len(etos[j]) + 1 # NoSequence
      BY <2>1 DEF NoSequence
    <2>4. Len(<< >>) = 0
      OBVIOUS
    <2> QED  BY <2>1, <2>2, <2>3, <2>4 DEF AllocatedNumber
  <1> HIDE DEF j, n
  <1>4. /\ nextEto'[j] = n + 1 /\ etos'[j] = Append(etos[j], n)
        /\ \A k \in EtoJobs \ {j} : nextEto'[k] = nextEto[k] /\ etos'[k] = etos[k]
    BY <1>1, <1>2 DEF EtosInv, EtosTypeOK
  <1>5. EtosTypeOK'
    <2>1. nextEto' \in [EtoJobs -> NoSequence..MaxEtos + 1]
      BY <1>1, <1>2, EtosAreBounded DEF EtosInv, EtosTypeOK, NoSequence
    <2>2. Append(etos[j], n) \in Seq(1..MaxEtos)
      BY <1>2, <1>3
    <2>3. etos' \in [EtoJobs -> Seq(1..MaxEtos)]
      BY <1>1, <1>2, <2>2 DEF EtosInv, EtosTypeOK
    <2> QED  BY <1>1, <2>1, <2>3 DEF EtosInv, EtosTypeOK
  <1>6. EtoNumbersGapFree'
    <2>1. Append(etos[j], n) # << >> /\ Len(Append(etos[j], n)) = n
      BY <1>2, <1>3
    <2>2. \A i \in DOMAIN Append(etos[j], n) : Append(etos[j], n)[i] = i
      BY <1>2, <1>3 DEF EtosInv, EtoNumbersGapFree
    <2> QED  BY <1>4, <2>1, <2>2 DEF EtosInv, EtoNumbersGapFree
  <1>7. OneNumbering'
    <2>1. \A q \in Raisers : raising'[q] # NotRaising =>
            raising'[q] = raising[q] /\ raising[q].job # j /\ raising[q].job \in EtoJobs
      BY <1>1, RaisingType DEF EtosInv, EtosTypeOK, OneNumbering, j
    <2> QED  BY <1>1, <1>4, <2>1 DEF EtosInv, OneNumbering, AllocatedNumber
  <1> QED  BY <1>5, <1>6, <1>7 DEF EtosInv

LEMMA InvEtoRollback ==
    ASSUME EtosInv, NEW r \in Raisers, EtoRollback(r)
    PROVE  EtosInv'
  BY DEF EtoRollback, EtosInv, EtosTypeOK, OneNumbering, EtoNumbersGapFree, AllocatedNumber

LEMMA InvEtoJobDelete ==
    ASSUME EtosInv, NEW j \in EtoJobs, EtoJobDelete(j)
    PROVE  EtosInv'
  <1>1. /\ ~Numbering(j) /\ etoJobs' = etoJobs \ {j} /\ UNCHANGED raising
        /\ nextEto' = [nextEto EXCEPT ![j] = NoSequence]
        /\ etos' = [etos EXCEPT ![j] = << >>]
    BY DEF EtoJobDelete
  <1>2. EtosTypeOK'
    BY <1>1, EtosAreBounded DEF EtosInv, EtosTypeOK, NoSequence
  <1>3. EtoNumbersGapFree'
    BY <1>1 DEF EtosInv, EtosTypeOK, EtoNumbersGapFree
  <1>4. \A r \in Raisers : raising[r] # NotRaising =>
          /\ raising[r].job \in EtoJobs /\ raising[r].job # j
          /\ nextEto'[raising[r].job] = nextEto[raising[r].job]
    BY <1>1, RaisingType DEF EtosInv, EtosTypeOK, Numbering
  <1>5. OneNumbering'
    BY <1>1, <1>4 DEF EtosInv, OneNumbering, AllocatedNumber
  <1> QED  BY <1>2, <1>3, <1>5 DEF EtosInv

LEMMA EtosInvNext == EtosInv /\ [EtosNext]_etoVars => EtosInv'
  <1> SUFFICES ASSUME EtosInv, [EtosNext]_etoVars PROVE EtosInv'
    OBVIOUS
  <1>1. CASE UNCHANGED etoVars
    BY <1>1 DEF etoVars, EtosInv, EtosTypeOK, OneNumbering, EtoNumbersGapFree, AllocatedNumber
  <1>2. CASE EtosNext
    BY <1>2, InvEtoAllocate, InvEtoCommit, InvEtoRollback, InvEtoJobDelete DEF EtosNext
  <1> QED  BY <1>1, <1>2

-----------------------------------------------------------------------------
(* Extras to order: the theorem. *)

(* Each job's ETO numbers have no gaps and no repeats, for any number of      *)
(* rivals, of jobs and of extras.                                             *)
THEOREM NumbersGapFree == EtosSpec => [](EtosTypeOK /\ EtoNumbersGapFree)
  <1>1. EtosInv => EtosTypeOK /\ EtoNumbersGapFree  BY DEF EtosInv
  <1> QED  BY EtosInvInit, EtosInvNext, <1>1, PTL DEF EtosSpec

=============================================================================
