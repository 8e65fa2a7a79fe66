---------------------------- MODULE Registration ----------------------------
(***************************************************************************)
(* How companies come to be: the setup of a fresh installation and the     *)
(* public sign-up form, side by side with each other and with the managers *)
(* who add users.  auth_register_company checks and inserts in one         *)
(* SERIALIZABLE transaction; nothing else keeps a company's name unique.   *)
(* Users are deleted in Accounts; here their addresses only accumulate.    *)
(***************************************************************************)
EXTENDS Integers, Sequences, FiniteSets

CONSTANTS
    CompanyNames,   \* as compared: trimmed and in lower case
    Emails,         \* likewise
    Registrants     \* setup and sign-up requests; each is made at most once

VARIABLES
    companies,      \* the companies, in the order of their commits
    accounts,       \* users_email_unique: the addresses of all users
    signup          \* each request: where it stands and what it was told

registrationVars == <<companies, accounts, signup>>

NoAnswer == "none"

Signup == [pc : {"idle", "written", "session", "done"}, setup : BOOLEAN,
           name : CompanyNames, email : Emails,
           overlapped : BOOLEAN,    \* another registration committed since the snapshot
           answer : {NoAnswer, "created", "forbidden", "taken", "busy", "error"}]

Founded == [by : Registrants, setup : BOOLEAN, name : CompanyNames, email : Emails]

NeedsSetup == accounts = {}

NamesTaken == {companies[i].name : i \in DOMAIN companies}

Tell(r, answer) ==
    signup' = [signup EXCEPT ![r].pc = "done", ![r].answer = answer]

RegistrationInit ==
    /\ companies = <<>>
    /\ accounts = {}
    /\ signup \in [Registrants -> {s \in Signup : /\ s.pc = "idle" /\ s.answer = NoAnswer
                                                  /\ ~s.overlapped}]

(* The checks of the function, on the snapshot of its first statement.  A   *)
(* setup without the secret never gets here.                                *)
Register(r) ==
    /\ signup[r].pc = "idle"
    /\ \/ signup[r].setup /\ ~NeedsSetup /\ Tell(r, "forbidden")
       \/ /\ signup[r].setup => NeedsSetup
          /\ IF signup[r].email \in accounts \/ signup[r].name \in NamesTaken
             THEN Tell(r, "taken")
             ELSE signup' = [signup EXCEPT ![r].pc = "written"]
    /\ UNCHANGED <<companies, accounts>>

(* What SERIALIZABLE lets commit.  Every registration reads all companies    *)
(* and adds one, so of two that overlap the later to commit is refused.      *)
ReadCommitted(r) == TRUE

Serializable(r) == ~signup[r].overlapped

CommitRegistration(r) ==
    LET mine == signup[r]
    IN  /\ mine.pc = "written"
        /\ mine.email \notin accounts /\ Serializable(r)
        /\ companies' = Append(companies, [by |-> r, setup |-> mine.setup,
                                           name |-> mine.name, email |-> mine.email])
        /\ accounts' = accounts \cup {mine.email}
        /\ signup' = [q \in Registrants |->
              IF q = r THEN [mine EXCEPT !.pc = "session"]
              ELSE [signup[q] EXCEPT !.overlapped = @ \/ signup[q].pc = "written"]]

(* map_register_error: the address went meanwhile, or the transaction could *)
(* not be serialized; any other error is the server's.                      *)
RefuseRegistration(r) ==
    /\ signup[r].pc = "written"
    /\ \/ signup[r].email \in accounts /\ Tell(r, "taken")
       \/ ~Serializable(r) /\ Tell(r, "busy")
       \/ Tell(r, "error")
    /\ UNCHANGED <<companies, accounts>>

(* issue_session, after the commit: the company is there if it fails.       *)
IssueSession(r) ==
    /\ signup[r].pc = "session"
    /\ \E answer \in {"created", "error"} : Tell(r, answer)
    /\ UNCHANGED <<companies, accounts>>

(* A manager adds a user, in a READ COMMITTED transaction nobody's          *)
(* serialization looks at.                                                  *)
AddUser(email) ==
    /\ companies # <<>>
    /\ email \notin accounts
    /\ accounts' = accounts \cup {email}
    /\ UNCHANGED <<companies, signup>>

RegistrationNext ==
    \/ \E r \in Registrants :
          Register(r) \/ CommitRegistration(r) \/ RefuseRegistration(r) \/ IssueSession(r)
    \/ \E email \in Emails : AddUser(email)

RegistrationSpec == RegistrationInit /\ [][RegistrationNext]_registrationVars

-----------------------------------------------------------------------------
RegistrationTypeOK ==
    /\ companies \in Seq(Founded)
    /\ accounts \subseteq Emails
    /\ signup \in [Registrants -> Signup]

(* "Two people registering at the same moment cannot both see an empty       *)
(* database and both create a company, and the duplicate checks cannot pass  *)
(* for both": no two companies share a name or a founder's address, only the *)
(* first can be the setup's, and what a client was told agrees with what was *)
(* committed for it, except after an error of the server's.                  *)
RegistrationsAreSerial ==
    /\ \A i, j \in DOMAIN companies :
          companies[i].name = companies[j].name \/ companies[i].email = companies[j].email
              => i = j
    /\ \A i \in DOMAIN companies : companies[i].setup => i = 1
    /\ \A r \in Registrants :
          LET mine == {i \in DOMAIN companies : companies[i].by = r}
              told == signup[r].answer
          IN  /\ told = "created" => Cardinality(mine) = 1
              /\ told \in {"forbidden", "taken", "busy"} => mine = {}
              /\ told = "taken" => signup[r].email \in accounts \/ signup[r].name \in NamesTaken

=============================================================================
