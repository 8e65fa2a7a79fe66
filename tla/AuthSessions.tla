----------------------------- MODULE AuthSessions -----------------------------
(***************************************************************************)
(* Login, refresh-token rotation, logout, password reset and the writes to  *)
(* the account that end sessions.                                           *)
(*                                                                         *)
(* IdentityService runs each of these as a chain of statements that commit  *)
(* one by one on a pool connection, so requests interleave between any two  *)
(* of them and a crash leaves the chain half done.  A request's slot holds  *)
(* what it has read so far.  A family is named by its first refresh token.  *)
(* Time is left out: a token or code past its expiry is one nobody finds    *)
(* any more, so every run with expiry is a run of this model.               *)
(***************************************************************************)
EXTENDS Naturals, Sequences, FiniteSets

CONSTANTS
    Users,
    Requests,       \* API requests in flight at once (a bound)
    MaxTokens,      \* refresh tokens ever issued (a bound)
    MaxCodes,       \* reset links and recovery codes ever issued (a bound)
    MaxStamp        \* password writes per user (a bound)

ASSUME BoundsAssumption ==
    MaxTokens \in Nat /\ MaxCodes \in Nat /\ MaxStamp \in Nat

ASSUME RequestsAssumption == IsFiniteSet(Requests)

VARIABLES
    account,        \* users: active, password, password_changed_at, bcrypt or not
    tokens,         \* refresh_tokens, in order of issue
    used, revoked,  \* the tokens with used_at, with revoked_at
    codes,          \* password_reset_tokens, in order of issue: whose
    spent,          \* the codes with used_at
    request,        \* what each API request has in flight
    overtaken,      \* history: requests a revocation came too late for
    late,           \* history: tokens those requests issued, and their descendants
    resetAt         \* history: password_changed_at of each user's last whole reset

vars == <<account, tokens, used, revoked, codes, spent, request,
          overtaken, late, resetAt>>

-----------------------------------------------------------------------------

TokenIds == 1..MaxTokens
CodeIds == 1..MaxCodes
Stamps == 0..MaxStamp

Account == [active : BOOLEAN, secret : Stamps, stamp : Stamps, bcrypt : BOOLEAN]

\* since: the password_changed_at the session's login was checked against.
Token == [user : Users, family : TokenIds, parent : TokenIds \cup {0}, since : Stamps]

Idle == [kind |-> "idle"]
Pending ==
    {Idle}
    \cup [kind : {"login", "rehash"}, user : Users, secret : Stamps, stamp : Stamps]
    \cup [kind : {"found", "reuse", "admitted", "spent"}, token : TokenIds]
    \cup [kind : {"evict", "reset"}, user : Users, stamp : Stamps]
    \cup [kind : {"code"}, user : Users, seen : SUBSET CodeIds]
    \cup [kind : {"claim"}, code : CodeIds]

Issued == 1..Len(tokens)
Coded == 1..Len(codes)
Family(i) == tokens[i].family
FamilyOf(i) == {j \in Issued : Family(j) = Family(i)}
OwnedBy(u) == {i \in Issued : tokens[i].user = u}
Children(i) == {j \in Issued : tokens[j].parent = i}
Outstanding(u) == {c \in Coded : codes[c] = u /\ c \notin spent}

\* A refresh that has passed its checks on a token; a login that has passed its.
Refreshing(t) == request[t].kind \in {"found", "admitted", "spent"}
LoggingIn(t) == request[t].kind \in {"login", "rehash"}
RefreshersOf(T) == {t \in Requests : Refreshing(t) /\ request[t].token \in T}
LoginsOf(u) == {t \in Requests : LoggingIn(t) /\ request[t].user = u}

\* Writing a password moves password_changed_at in the same statement.
PasswordWritten(u, s) ==
    /\ account[u].stamp < MaxStamp
    /\ account' = [account EXCEPT ![u].stamp = @ + 1, ![u].secret = s, ![u].bcrypt = FALSE]

NewPassword(u) == PasswordWritten(u, account[u].stamp + 1)

\* A revocation of the tokens T; the requests of R are past their checks.
Revoke(T, R) ==
    /\ revoked' = revoked \cup T
    /\ overtaken' = overtaken \cup R

\* One of the two inserts into refresh_tokens.
Insert(t, row, descends) ==
    /\ Len(tokens) < MaxTokens
    /\ tokens' = Append(tokens, row)
    /\ late' = IF t \in overtaken \/ descends THEN late \cup {Len(tokens) + 1} ELSE late

\* Request t goes on with what it has read, starts out with it, or ends.
Becomes(t, r) == request' = [request EXCEPT ![t] = r]
Begins(t, r) == request[t] = Idle /\ Becomes(t, r) /\ UNCHANGED overtaken
Ends(t) == Becomes(t, Idle) /\ overtaken' = overtaken \ {t}

Init ==
    /\ account \in [Users -> {a \in Account : a.active /\ a.secret = 0 /\ a.stamp = 0}]
    /\ tokens = << >> /\ used = {} /\ revoked = {}
    /\ codes = << >> /\ spent = {}
    /\ request = [t \in Requests |-> Idle]
    /\ overtaken = {} /\ late = {}
    /\ resetAt = [u \in Users |-> 0]

-----------------------------------------------------------------------------
(* Wrong variants of operations below, with which a property must fail. *)

\* used_at is not looked at.
RefreshFindUnchecked(t, i) ==
    /\ i \in Issued \ revoked
    /\ Begins(t, [kind |-> "found", token |-> i])
    /\ UNCHANGED <<account, tokens, used, revoked, codes, spent, late, resetAt>>

\* Reuse revokes the presented token alone.
RefreshReuseRevokesOne(t) ==
    /\ request[t].kind = "reuse"
    /\ Revoke({request[t].token}, RefreshersOf({request[t].token}))
    /\ Becomes(t, Idle)
    /\ UNCHANGED <<account, tokens, used, codes, spent, late, resetAt>>

\* The write of used_at is lost.
RefreshMarkUsedLost(t) ==
    /\ request[t].kind = "admitted"
    /\ request' = [request EXCEPT ![t].kind = "spent"]
    /\ UNCHANGED <<account, tokens, used, revoked, codes, spent, overtaken, late, resetAt>>

\* A reset ends the user's first session only.
RevokeFirstFamilyOfUser(t) ==
    /\ request[t].kind \in {"evict", "reset"}
    /\ LET u == request[t].user
       IN /\ Revoke({i \in OwnedBy(u) : Family(i) = 1}, RefreshersOf(OwnedBy(u)) \cup LoginsOf(u))
          /\ resetAt' = IF request[t].kind = "reset" /\ resetAt[u] < request[t].stamp
                        THEN [resetAt EXCEPT ![u] = request[t].stamp] ELSE resetAt
    /\ Becomes(t, Idle)
    /\ UNCHANGED <<account, tokens, used, codes, spent, late>>

-----------------------------------------------------------------------------
(* login *)

\* find_credential_by_email, the checks, and the password verified.
LoginCheck(t, u) ==
    /\ account[u].active
    /\ Begins(t, [kind |-> IF account[u].bcrypt THEN "rehash" ELSE "login",
                  user |-> u, secret |-> account[u].secret, stamp |-> account[u].stamp])
    /\ UNCHANGED <<account, tokens, used, revoked, codes, spent, late, resetAt>>

\* replace_password_hash: the password just verified, hashed anew, with no
\* look at what is stored by now.  A failure does not fail the login.
LoginRehash(t) ==
    /\ request[t].kind = "rehash"
    /\ PasswordWritten(request[t].user, request[t].secret) \/ UNCHANGED account
    /\ request' = [request EXCEPT ![t].kind = "login"]
    /\ UNCHANGED <<tokens, used, revoked, codes, spent, overtaken, late, resetAt>>

\* issue_session: the access token from the credential read at the start, a
\* refresh token in a new family.
LoginIssue(t) ==
    /\ request[t].kind = "login"
    /\ Insert(t, [user |-> request[t].user, family |-> Len(tokens) + 1, parent |-> 0,
                  since |-> request[t].stamp], FALSE)
    /\ Ends(t)
    /\ UNCHANGED <<account, used, revoked, codes, spent, resetAt>>

-----------------------------------------------------------------------------
(* refresh and logout *)

\* find_by_hash, then the checks on the record as it was read.
RefreshFind(t, i) ==
    /\ i \in Issued \ revoked
    /\ Begins(t, [kind |-> IF i \in used THEN "reuse" ELSE "found", token |-> i])
    /\ UNCHANGED <<account, tokens, used, revoked, codes, spent, late, resetAt>>

\* A used token: the whole family is revoked.
RefreshReuse(t) ==
    /\ request[t].kind = "reuse"
    /\ LET family == FamilyOf(request[t].token)
       IN Revoke(family, RefreshersOf(family))
    /\ Becomes(t, Idle)
    /\ UNCHANGED <<account, tokens, used, codes, spent, late, resetAt>>

\* find_by_id_unscoped: the user as of now, who must be active.
RefreshUser(t) ==
    /\ request[t].kind = "found"
    /\ LET i == request[t].token
           u == tokens[i].user
       IN \/ /\ account[u].active
             /\ Becomes(t, [kind |-> "admitted", token |-> i])
             /\ UNCHANGED overtaken
          \/ /\ ~account[u].active
             /\ Becomes(t, [kind |-> "evict", user |-> u, stamp |-> account[u].stamp])
             /\ overtaken' = overtaken \ {t}
    /\ UNCHANGED <<account, tokens, used, revoked, codes, spent, late, resetAt>>

\* mark_used does not report whether it found the token unused.
RefreshMarkUsed(t) ==
    /\ request[t].kind = "admitted"
    /\ used' = used \cup {request[t].token}
    /\ request' = [request EXCEPT ![t].kind = "spent"]
    /\ UNCHANGED <<account, tokens, revoked, codes, spent, overtaken, late, resetAt>>

\* issue_in_family: the successor is inserted whatever has become of the family.
RefreshIssue(t) ==
    /\ request[t].kind = "spent"
    /\ LET i == request[t].token
       IN Insert(t, [tokens[i] EXCEPT !.parent = i], i \in late)
    /\ Ends(t)
    /\ UNCHANGED <<account, used, revoked, codes, spent, resetAt>>

\* Any known token logs its family out, used or revoked as it may be.
Logout(i) ==
    /\ i \in Issued
    /\ Revoke(FamilyOf(i), RefreshersOf(FamilyOf(i)))
    /\ UNCHANGED <<account, tokens, used, codes, spent, request, late, resetAt>>

\* revoke_all_for_user: an inactive user's refresh, or the end of a reset.
RevokeAllForUser(t) ==
    /\ request[t].kind \in {"evict", "reset"}
    /\ LET u == request[t].user
       IN /\ Revoke(OwnedBy(u), RefreshersOf(OwnedBy(u)) \cup LoginsOf(u))
          /\ resetAt' = IF request[t].kind = "reset" /\ resetAt[u] < request[t].stamp
                        THEN [resetAt EXCEPT ![u] = request[t].stamp] ELSE resetAt
    /\ Becomes(t, Idle)
    /\ UNCHANGED <<account, tokens, used, codes, spent, late>>

-----------------------------------------------------------------------------
(* password reset, and a manager's edits of the account *)

\* store_reset_token and issue_recovery_code: outstanding codes are spent by
\* an UPDATE that sees only what had committed when it began ...
CodeBegin(t, u) ==
    /\ account[u].active
    /\ Begins(t, [kind |-> "code", user |-> u, seen |-> Outstanding(u)])
    /\ UNCHANGED <<account, tokens, used, revoked, codes, spent, late, resetAt>>

\* ... and the new one is inserted and committed with it.
CodeCommit(t) ==
    /\ request[t].kind = "code"
    /\ Len(codes) < MaxCodes
    /\ spent' = spent \cup request[t].seen
    /\ codes' = Append(codes, request[t].user)
    /\ Ends(t)
    /\ UNCHANGED <<account, tokens, used, revoked, late, resetAt>>

\* reset_password up to the claim: the code was good when it was looked up.
ResetFind(t, c) ==
    /\ c \in Coded \ spent
    /\ Begins(t, [kind |-> "claim", code |-> c])
    /\ UNCHANGED <<account, tokens, used, revoked, codes, spent, late, resetAt>>

\* auth_claim_reset: conditional on the code being unspent still; sets the
\* password and spends every other code of the user.
ResetClaim(t) ==
    /\ request[t].kind = "claim"
    /\ LET c == request[t].code
           u == codes[c]
       IN \/ /\ c \in spent
             /\ Ends(t)
             /\ UNCHANGED <<account, spent>>
          \/ /\ c \notin spent
             /\ NewPassword(u)
             /\ spent' = spent \cup Outstanding(u)
             /\ Becomes(t, [kind |-> "reset", user |-> u, stamp |-> account'[u].stamp])
             /\ UNCHANGED overtaken
    /\ UNCHANGED <<tokens, used, revoked, codes, late, resetAt>>

\* UsersService::update: activation, deactivation, or a new password.  None of
\* them touches refresh_tokens.
SetActive(u) ==
    /\ account' = [account EXCEPT ![u].active = ~@]
    /\ UNCHANGED <<tokens, used, revoked, codes, spent, request,
                   overtaken, late, resetAt>>

SetPassword(u) ==
    /\ NewPassword(u)
    /\ UNCHANGED <<tokens, used, revoked, codes, spent, request,
                   overtaken, late, resetAt>>

\* A request fails or its process dies between two statements.
Abort(t) ==
    /\ request[t] # Idle
    /\ Ends(t)
    /\ UNCHANGED <<account, tokens, used, revoked, codes, spent, late, resetAt>>

-----------------------------------------------------------------------------

RequestStep(t) ==
    \/ \E u \in Users : LoginCheck(t, u) \/ CodeBegin(t, u)
    \/ LoginRehash(t) \/ LoginIssue(t)
    \/ \E i \in TokenIds : RefreshFind(t, i)
    \/ RefreshReuse(t) \/ RefreshUser(t) \/ RefreshMarkUsed(t) \/ RefreshIssue(t)
    \/ RevokeAllForUser(t)
    \/ CodeCommit(t)
    \/ \E c \in CodeIds : ResetFind(t, c)
    \/ ResetClaim(t)
    \/ Abort(t)

Next ==
    \/ \E t \in Requests : RequestStep(t)
    \/ \E i \in TokenIds : Logout(i)
    \/ \E u \in Users : SetActive(u) \/ SetPassword(u)

Spec == Init /\ [][Next]_vars

-----------------------------------------------------------------------------
(* Properties. *)

\* The shape of every variable.
TypeOK ==
    /\ account \in [Users -> Account]
    /\ tokens \in Seq(Token) /\ Len(tokens) <= MaxTokens
    /\ used \subseteq Issued /\ revoked \subseteq Issued
    /\ codes \in Seq(Users) /\ Len(codes) <= MaxCodes
    /\ spent \subseteq Coded
    /\ request \in [Requests -> Pending]
    /\ late \subseteq Issued
    /\ overtaken \subseteq Requests
    /\ resetAt \in [Users -> Stamps]

\* Rotation leaves one spendable token per login: a family has at most one
\* unused token, however refreshes, crashes and revocations interleave, unless
\* one of its tokens was exchanged twice (refresh, mark_used, issue_in_family).
OneUnusedToken ==
    \A i, j \in Issued \ used :
        i # j /\ Family(i) = Family(j) =>
            \E k \in FamilyOf(i) : \E m, n \in Children(k) : m # n

\* A token is exchanged more than once only by refreshes that had all found it
\* unused: its successors and the refreshes that still hold it are never more
\* than the requests that can be in flight at once (the check of used_at).
ExchangedByRivalsOnly ==
    \A i \in Issued :
        Cardinality(Children(i)) + Cardinality(RefreshersOf({i})) <= Cardinality(Requests)

\* A family once revoked, by reuse, logout, eviction or a reset, has no token
\* that still refreshes, except what a refresh that had passed its checks
\* before the revocation inserted after it (refresh, issue_in_family).
RevokedStaysRevoked ==
    \A i \in revoked : FamilyOf(i) \subseteq revoked \cup late

\* A completed reset ends every session opened with an older password, except
\* one whose login or refresh had passed its checks before the revocation
\* (reset_password, revoke_all_for_user).
ResetSparesOnlyRacers ==
    \A i \in Issued : tokens[i].since < resetAt[tokens[i].user] => i \in revoked \cup late

\* "Every session ends: whoever triggered the reset may be the person being
\* locked out, or the person locking them out": after a completed reset no
\* session opened with an older password can be refreshed (reset_password).
EverySessionEnds ==
    \A i \in Issued \ (used \cup revoked) : tokens[i].since >= resetAt[tokens[i].user]

\* resolve_session accepts an access token issued with this password_changed_at.
Resolves(u, stamp) == account[u].active /\ account[u].stamp = stamp

\* A login hands out an access token that works, if the account is still
\* active and its password still the one that was checked: the transparent
\* rehash "must not fail the login" (login, resolve_session).
IssuedTokenResolves ==
    [][\A t \in Requests :
         /\ request[t].kind = "login"
         /\ tokens' # tokens /\ request'[t] = Idle
         => LET u == request[t].user
            IN account[u].active /\ account[u].secret = request[t].secret
                 => Resolves(u, request[t].stamp)]_vars

=============================================================================
