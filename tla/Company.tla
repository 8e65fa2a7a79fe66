------------------------------- MODULE Company -------------------------------
(***************************************************************************)
(* The two halves of a company's administration on one state: accounts     *)
(* take the seats that billing sells, and both pass the same gate.         *)
(***************************************************************************)
EXTENDS Accounts, Billing

vars == <<tenantVars, accountVars, billingVars>>

CompanyInit == TenantInit /\ BillingInit /\ AccountsInit

Fail(r) ==
    /\ Abort(r) /\ Drop(r) /\ Close(r)
    /\ UNCHANGED <<grants, asked, crossed, saved, mingled,
                   customers, session, paid, displaced>>

CompanyNext ==
    \/ \E r \in Requests :
          \/ (Authenticate(r) \/ Admit(r)) /\ UNCHANGED <<accountVars, billingVars>>
          \/ AccountsStep(r) /\ UNCHANGED billingVars
          \/ BillingStep(r) /\ UNCHANGED accountVars
          \/ Fail(r)
    \/ TrialEnds /\ UNCHANGED <<accountVars, billingVars>>
    \/ \E s \in Sessions : (Pay(s) \/ Bill(s) \/ ChangeQuantity(s)) /\ UNCHANGED accountVars

Spec == CompanyInit /\ [][CompanyNext]_vars

-----------------------------------------------------------------------------
(* Every variable holds what its table, its column or its local can. *)
CompanyTypeOK == TenantTypeOK /\ AccountsTypeOK /\ BillingTypeOK

(* The seat check and the insert or activation are separate transactions.   *)
(* Only a user whose request counted before another took a seat, or before  *)
(* the limit was set, ever sits above the limit.                            *)
SeatsExceededByRacersOnly ==
    company.seats = Uncapped \/ Cardinality(Active \ raced) <= company.seats

(* A company is left without an active manager only by a request whose own  *)
(* actor lost that standing while it ran.                                   *)
LastManagerFallsToRacersOnly ==
    (\E u \in Users : Manages(users, u)) \/ deposed

(* A user is what the last edit naming each field made them, unless an edit *)
(* wrote a copy that another edit had outdated.                             *)
EditsUndoneByRacersOnly ==
    \A u \in Users \ crossed : Held(u) =>
        users[u].role = asked[u].role /\ users[u].active = asked[u].active

(* Once saved, what is in force for a user is exactly the list last saved,  *)
(* empty lists included, unless two saves overlapped.                       *)
EffectiveIsLastSave ==
    \A u \in Users \ mingled : Held(u) /\ saved[u].done =>
        Effective(users[u].role, grants[u]) = saved[u].list

(* No client-named session puts another company's subscription on this one. *)
SubscriptionIsOwn ==
    company.subscription # None => session[company.subscription].customer \in customers

(* What this company pays it can confirm: its sessions carry the customer   *)
(* on its record, unless another first checkout has replaced that customer. *)
CheckoutsConfirmable ==
    \A s \in Sessions : session[s].customer \in Customers =>
        session[s].customer = company.customer \/ session[s].customer \in displaced

=============================================================================
