------------------------------- MODULE Tenant -------------------------------
(***************************************************************************)
(* One company as every request of its managers sees it: the rows of its   *)
(* users, the billing columns of its own row, and the request itself from  *)
(* the moment its session is resolved.  Accounts and Billing add the       *)
(* handlers; both work on the state declared here.                         *)
(*                                                                         *)
(* Every database call of the code is a transaction of its own, so each is *)
(* a step of its own and requests interleave between any two of them.      *)
(***************************************************************************)
EXTENDS Integers, FiniteSets

CONSTANTS
    Users,          \* user ids; a serial id is never used twice
    Founders,       \* the managers the company has at the start
    Staff,          \* its other users at the start, active or not
    Requests,       \* requests; each is made at most once
    Operations,     \* the operations the requests of this instance perform
    Customers,      \* Stripe's ids for customers
    Sessions,       \* Stripe's ids for checkout sessions
    None,           \* SQL NULL
    Uncapped        \* seat limit of a company whose billing_seat_quantity is NULL

ASSUME FoundersAreUsers ==
    /\ Founders \subseteq Users /\ Founders # {} /\ IsFiniteSet(Users)
    /\ Staff \subseteq Users /\ Staff \cap Founders = {}
ASSUME NoneIsNoId == None \notin Customers \cup Sessions
ASSUME UncappedIsNoNumber == Uncapped \notin Nat

VARIABLES
    users,          \* the users table
    company,        \* the company's billing columns
    call,           \* each request: where it stands and whose it is
    raced,          \* users activated on a seat count already out of date
    deposed         \* a request whose actor was no longer a manager removed one

tenantVars == <<users, company, call, raced, deposed>>

Role == {"MANAGER", "SUPERVISOR", "OFFICE"}

(* A row that was never inserted, is there, or was deleted. *)
Account == [row : {"unborn", "held", "deleted"}, role : Role, active : BOOLEAN]

(* "trial" is whether billing_trial_ends_at still lies ahead. *)
BillingRecord == [trial : BOOLEAN, onboarded : BOOLEAN,
                  customer : Customers \cup {None},
                  subscription : Sessions \cup {None},
                  seats : Nat \cup {Uncapped}]

(* Where a request stands: before or after its handler, or before one of    *)
(* its statements.                                                          *)
Stage == {"idle", "admit", "begin", "existing", "limit", "count", "write",
          "remove", "save", "deleting", "deleted", "active", "stripe",
          "record", "customer", "remember", "session", "subscription",
          "owner", "commit", "done"}

(* A request holds its actor's row as the session read it.  "lapsed" and    *)
(* "overtaken" are history: the actor stopped being an active manager since *)
(* the session was resolved; seats were taken or the limit was set since    *)
(* the request read the limit ("counting").                                 *)
Call == [pc : Stage,
         op : Operations \cup {"none"}, by : Users \cup {None}, manager : BOOLEAN,
         counting : BOOLEAN, overtaken : BOOLEAN, lapsed : BOOLEAN]

Held(u) == users[u].row = "held"

Active == {u \in Users : Held(u) /\ users[u].active}

Manages(table, u) ==
    table[u].row = "held" /\ table[u].active /\ table[u].role = "MANAGER"

At(r, op, pc) == call[r].op = op /\ call[r].pc = pc

InFlight(r) == call[r].pc \notin {"idle", "done"}

Goto(r, pc) == call' = [call EXCEPT ![r].pc = pc]

Idle == [pc |-> "idle", op |-> "none", by |-> None, manager |-> FALSE,
         counting |-> FALSE, overtaken |-> FALSE, lapsed |-> FALSE]

(* The request is answered; nothing of it is read again. *)
Answered == [Idle EXCEPT !.pc = "done"]

Finish(r) == call' = [call EXCEPT ![r] = Answered]

(* What a commit of r that leaves "table" in users does to the histories of *)
(* the requests still under way.                                            *)
Commit(r, table, seats) ==
    call' = [q \in Requests |->
        IF q = r THEN Answered
        ELSE IF ~InFlight(q) THEN call[q]
        ELSE [call[q] EXCEPT
                !.lapsed = @ \/ ~Manages(table, call[q].by),
                !.overtaken = @ \/ (seats /\ call[q].counting)]]

Entitled == company.onboarded \/ company.trial \/ company.subscription # None

HasRoomAtLimit(limit, inUse) == limit = Uncapped \/ inUse <= limit

(* Seats: the limit and in_use may be of different moments. *)
HasRoom(limit, inUse) == limit = Uncapped \/ inUse < limit

-----------------------------------------------------------------------------
(* A company as registration leaves it, and as one that predates billing.   *)
RegisteredUnmapped == [trial |-> TRUE, onboarded |-> FALSE, customer |-> None,
                       subscription |-> None, seats |-> None]

Registered == [trial |-> TRUE, onboarded |-> FALSE, customer |-> None,
               subscription |-> None, seats |-> Uncapped]

Legacy == [Registered EXCEPT !.trial = FALSE, !.onboarded = TRUE]

TenantInit ==
    /\ \E employed \in SUBSET Staff :
          users = [u \in Users |->
                     [row |-> IF u \in Founders \cup Staff THEN "held" ELSE "unborn",
                      role |-> IF u \in Founders THEN "MANAGER" ELSE "OFFICE",
                      active |-> u \in Founders \cup employed]]
    /\ call = [r \in Requests |-> Idle]
    /\ raced = {}
    /\ deposed = FALSE

(* AuthUser: the token's user is read; an inactive or deleted one is 401.   *)
Authenticate(r) ==
    /\ call[r].pc = "idle"
    /\ \E u \in Active, op \in Operations :
          call' = [call EXCEPT ![r].pc = "admit", ![r].op = op, ![r].by = u,
                               ![r].manager = users[u].role = "MANAGER"]
    /\ UNCHANGED <<users, company, raced, deposed>>

(* Entitled, then RequireRole: the entitlement is read after the user.      *)
Admit(r) ==
    /\ call[r].pc = "admit"
    /\ IF Entitled /\ call[r].manager THEN Goto(r, "begin") ELSE Finish(r)
    /\ UNCHANGED <<users, company, raced, deposed>>

(* A request fails on an error of the database or of Stripe, or its process *)
(* dies, between any two of its statements.                                 *)
Abort(r) ==
    /\ InFlight(r)
    /\ Finish(r)
    /\ UNCHANGED <<users, company, raced, deposed>>

(* billing_trial_ends_at passes. *)
TrialEnds ==
    /\ company.trial
    /\ company' = [company EXCEPT !.trial = FALSE]
    /\ UNCHANGED <<users, call, raced, deposed>>

TenantTypeOK ==
    /\ users \in [Users -> Account]
    /\ company \in BillingRecord
    /\ call \in [Requests -> Call]
    /\ raced \subseteq Users
    /\ deposed \in BOOLEAN

=============================================================================
