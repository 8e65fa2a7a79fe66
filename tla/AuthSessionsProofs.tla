-------------------------- MODULE AuthSessionsProofs --------------------------
(***************************************************************************)
(* What AuthSessions promises for every number of users, requests, tokens,  *)
(* codes and password writes.                                               *)
(***************************************************************************)
EXTENDS AuthSessions, FiniteSetTheorems, TLAPS

-----------------------------------------------------------------------------
(* The inductive invariant. *)

\* A family descends from its first token: one user, one login, and parents
\* that were marked used before their successor was inserted.
Lineage ==
    \A i \in Issued :
        /\ Family(i) \in Issued
        /\ tokens[i].user = tokens[Family(i)].user
        /\ tokens[i].parent # 0 =>
             /\ tokens[i].parent \in used
             /\ Family(tokens[i].parent) = Family(i)

\* A request in flight holds tokens and codes that exist, a token marked used
\* once it says so.
Holding ==
    \A t \in Requests :
        /\ request[t].kind \in {"found", "reuse", "admitted", "spent"} =>
             request[t].token \in Issued
        /\ request[t].kind = "spent" => request[t].token \in used
        /\ request[t].kind = "claim" => request[t].code \in Coded
        /\ request[t].kind = "code" => request[t].seen \subseteq Coded

Childless(i) == Children(i) = {}
Forked(i) == \E k \in FamilyOf(i) : \E m, n \in Children(k) : m # n

\* A family that has not forked ends in one token.
OneTip ==
    \A i, j \in Issued :
        i # j /\ Family(i) = Family(j) /\ Childless(i) /\ Childless(j) => Forked(i)

\* A refresh that holds a token of a revoked family is known to be a racer.
RacersKnown ==
    \A t \in Requests :
        Refreshing(t) /\ FamilyOf(request[t].token) \cap revoked # {} =>
            t \in overtaken \/ request[t].token \in late

\* So is a login checked against a password that a completed reset replaced.
LoginsKnown ==
    \A t \in Requests :
        LoggingIn(t) /\ request[t].stamp < resetAt[request[t].user] => t \in overtaken

\* password_changed_at never falls behind a reset, finished or under way.
StampsAhead ==
    /\ \A u \in Users : resetAt[u] <= account[u].stamp
    /\ \A t \in Requests :
         request[t].kind = "reset" => request[t].stamp <= account[request[t].user].stamp

Inv ==
    /\ TypeOK
    /\ Lineage
    /\ Holding
    /\ OneTip
    /\ RacersKnown
    /\ LoginsKnown
    /\ StampsAhead
    /\ RevokedStaysRevoked
    /\ ResetSparesOnlyRacers

-----------------------------------------------------------------------------
(* What the type invariant says of requests and tokens. *)

\* The fields a request has at each stage.
LEMMA RequestFields ==
    ASSUME TypeOK, NEW t \in Requests
    PROVE  /\ LoggingIn(t) => /\ request[t].user \in Users
                              /\ request[t].secret \in Stamps
                              /\ request[t].stamp \in Stamps
           /\ request[t].kind \in {"found", "reuse", "admitted", "spent"} =>
                request[t].token \in TokenIds
           /\ request[t].kind \in {"evict", "reset"} =>
                request[t].user \in Users /\ request[t].stamp \in Stamps
           /\ request[t].kind = "code" =>
                request[t].user \in Users /\ request[t].seen \subseteq CodeIds
           /\ request[t].kind = "claim" => request[t].code \in CodeIds
  <1>1. request[t] \in Pending  BY DEF TypeOK
  <1> QED  BY <1>1 DEF Pending, Idle, LoggingIn

\* The fields of a token row.
LEMMA TokenFields ==
    ASSUME TypeOK, NEW i \in Issued
    PROVE  /\ tokens[i] \in Token
           /\ tokens[i].user \in Users /\ Family(i) \in TokenIds
           /\ tokens[i].parent \in TokenIds \cup {0} /\ tokens[i].since \in Stamps
           /\ i \in TokenIds
  <1>1. tokens[i] \in Token  BY DEF TypeOK, Issued
  <1>2. i \in TokenIds  BY BoundsAssumption DEF TypeOK, Issued, TokenIds
  <1> QED  BY <1>1, <1>2 DEF Token, Family

\* A request that moves on to a stage with the right fields keeps the type.
LEMMA BecomesType ==
    ASSUME TypeOK, NEW t \in Requests, NEW r \in Pending, Becomes(t, r)
    PROVE  /\ request' \in [Requests -> Pending]
           /\ request'[t] = r
           /\ \A s \in Requests \ {t} : request'[s] = request[s]
  BY DEF TypeOK, Becomes

\* A login's slot changes its kind only.
LEMMA RehashType ==
    ASSUME TypeOK, NEW t \in Requests, request[t].kind = "rehash",
           request' = [request EXCEPT ![t].kind = "login"]
    PROVE  /\ request' \in [Requests -> Pending]
           /\ request'[t] = [kind |-> "login", user |-> request[t].user,
                             secret |-> request[t].secret, stamp |-> request[t].stamp]
           /\ \A s \in Requests \ {t} : request'[s] = request[s]
  <1>1. request[t] \in [kind : {"login", "rehash"}, user : Users, secret : Stamps, stamp : Stamps]
    BY DEF TypeOK, Pending, Idle
  <1>2. request'[t] = [request[t] EXCEPT !.kind = "login"]  BY DEF TypeOK
  <1>3. request'[t] = [kind |-> "login", user |-> request[t].user,
                       secret |-> request[t].secret, stamp |-> request[t].stamp]
    BY <1>1, <1>2
  <1>4. request'[t] \in Pending  BY <1>1, <1>3 DEF Pending
  <1> QED  BY <1>3, <1>4 DEF TypeOK

\* So does the slot of a refresh that marks its token used.
LEMMA MarkType ==
    ASSUME TypeOK, NEW t \in Requests, request[t].kind = "admitted",
           request' = [request EXCEPT ![t].kind = "spent"]
    PROVE  /\ request' \in [Requests -> Pending]
           /\ request'[t] = [kind |-> "spent", token |-> request[t].token]
           /\ \A s \in Requests \ {t} : request'[s] = request[s]
  <1>1. request[t] \in [kind : {"found", "reuse", "admitted", "spent"}, token : TokenIds]
    BY DEF TypeOK, Pending, Idle
  <1>2. request'[t] = [request[t] EXCEPT !.kind = "spent"]  BY DEF TypeOK
  <1>3. request'[t] = [kind |-> "spent", token |-> request[t].token]  BY <1>1, <1>2
  <1>4. request'[t] \in Pending  BY <1>1, <1>3 DEF Pending
  <1> QED  BY <1>3, <1>4 DEF TypeOK

\* A password write keeps the accounts' type and moves one user's stamp on.
LEMMA PasswordType ==
    ASSUME TypeOK, NEW u \in Users, NEW s \in Stamps, PasswordWritten(u, s)
    PROVE  /\ account' \in [Users -> Account]
           /\ account'[u].stamp = account[u].stamp + 1
           /\ account'[u].stamp \in Stamps
           /\ \A v \in Users : account[v].stamp <= account'[v].stamp
  <1>1. account[u] \in Account  BY DEF TypeOK
  <1>2. account[u].stamp + 1 \in Stamps
    BY <1>1, BoundsAssumption DEF PasswordWritten, Account, Stamps
  <1>3. account'[u] = [account[u] EXCEPT !.stamp = @ + 1, !.secret = s, !.bcrypt = FALSE]
    BY DEF TypeOK, PasswordWritten
  <1>4. account'[u].stamp = account[u].stamp + 1 /\ account'[u] \in Account
    BY <1>1, <1>2, <1>3 DEF Account
  <1>5. \A v \in Users \ {u} : account'[v] = account[v]
    BY DEF TypeOK, PasswordWritten
  <1>6. \A v \in Users : account[v].stamp \in Nat
    BY BoundsAssumption DEF TypeOK, Account, Stamps
  <1>7. account' \in [Users -> Account]  BY <1>4, <1>5 DEF TypeOK, PasswordWritten
  <1> QED  BY <1>2, <1>4, <1>5, <1>6, <1>7

LEMMA NewPasswordType ==
    ASSUME TypeOK, NEW u \in Users, NewPassword(u)
    PROVE  /\ account' \in [Users -> Account]
           /\ account'[u].stamp \in Stamps
           /\ \A v \in Users : account[v].stamp <= account'[v].stamp
  <1>1. account[u].stamp + 1 \in Stamps
    BY BoundsAssumption DEF TypeOK, Account, Stamps, NewPassword, PasswordWritten
  <1> QED  BY <1>1, PasswordType DEF NewPassword

\* An insert adds one row and leaves the others.
LEMMA Inserted ==
    ASSUME TypeOK, NEW t, NEW row \in Token, NEW descends, Insert(t, row, descends)
    PROVE  /\ tokens' \in Seq(Token) /\ Len(tokens') = Len(tokens) + 1
           /\ Len(tokens') <= MaxTokens
           /\ Len(tokens) \in Nat
           /\ Issued' = Issued \cup {Len(tokens) + 1}
           /\ Len(tokens) + 1 \notin Issued
           /\ Len(tokens) + 1 \in TokenIds
           /\ tokens'[Len(tokens) + 1] = row
           /\ \A i \in Issued : tokens'[i] = tokens[i]
           /\ late \subseteq late' /\ late' \subseteq Issued'
           /\ (t \in overtaken \/ descends) => Len(tokens) + 1 \in late'
  <1>1. tokens \in Seq(Token) /\ Len(tokens) < MaxTokens /\ MaxTokens \in Nat
    BY BoundsAssumption DEF TypeOK, Insert
  <1>2. Len(tokens) \in Nat  BY <1>1
  <1>3. tokens' = Append(tokens, row)  BY DEF Insert
  <1>4. /\ tokens' \in Seq(Token) /\ Len(tokens') = Len(tokens) + 1
        /\ tokens'[Len(tokens) + 1] = row
        /\ \A i \in 1..Len(tokens) : tokens'[i] = tokens[i]
    BY <1>1, <1>3
  <1>5. Issued' = Issued \cup {Len(tokens) + 1} /\ Len(tokens) + 1 \notin Issued
    BY <1>2, <1>4 DEF Issued
  <1>6. Len(tokens) + 1 \in TokenIds /\ Len(tokens') <= MaxTokens
    BY <1>1, <1>2, <1>4 DEF TokenIds
  <1>7. late \subseteq late' /\ late' \subseteq Issued'
    BY <1>5 DEF Insert, TypeOK
  <1> QED  BY <1>2, <1>4, <1>5, <1>6, <1>7 DEF Issued, Insert

-----------------------------------------------------------------------------
(* The invariant step by step. *)

USE DEF Family

LEMMA InvInit == Init => Inv
  <1> SUFFICES ASSUME Init PROVE Inv
    OBVIOUS
  <1>1. Len(tokens) = 0 /\ Len(codes) = 0 /\ Issued = {}
    BY DEF Init, Issued
  <1>2. \A u \in Users : account[u].stamp = 0 /\ resetAt[u] = 0
    BY DEF Init
  <1>3. \A t \in Requests : request[t] = Idle
    BY DEF Init
  <1>4. TypeOK
    <2>1. tokens \in Seq(Token) /\ codes \in Seq(Users)  BY DEF Init
    <2>2. account \in [Users -> Account] /\ resetAt \in [Users -> Stamps]
      BY BoundsAssumption DEF Init, Stamps
    <2>3. request \in [Requests -> Pending]  BY DEF Init, Pending
    <2> QED  BY <1>1, <2>1, <2>2, <2>3, BoundsAssumption DEF Init, TypeOK, Coded
  <1>5. Holding /\ RacersKnown /\ LoginsKnown
    BY <1>3 DEF Holding, RacersKnown, LoginsKnown, Refreshing, LoggingIn, Idle
  <1>6. StampsAhead  BY <1>2, <1>3 DEF StampsAhead, Idle
  <1>7. Lineage /\ OneTip /\ RevokedStaysRevoked /\ ResetSparesOnlyRacers
    BY <1>1 DEF Init, Lineage, OneTip, RevokedStaysRevoked, ResetSparesOnlyRacers
  <1> QED  BY <1>4, <1>5, <1>6, <1>7 DEF Inv

\* Marking tokens used disturbs neither the shape of a family nor its tip.
LEMMA ShapeKept ==
    ASSUME Inv, UNCHANGED tokens, used \subseteq used'
    PROVE  Lineage' /\ OneTip'
  BY DEF Inv, Lineage, OneTip, Childless, Forked, Children, FamilyOf, Issued

\* A step on one request's slot that neither issues nor revokes.
LEMMA Local ==
    ASSUME Inv, TypeOK', NEW t \in Requests,
           UNCHANGED <<tokens, revoked, late, resetAt>>,
           used \subseteq used', Coded \subseteq Coded',
           \A u \in Users : account[u].stamp <= account'[u].stamp,
           \A s \in Requests \ {t} : request'[s] = request[s],
           overtaken \ {t} \subseteq overtaken',
           request'[t].kind \in {"found", "reuse", "admitted", "spent"} =>
             request'[t].token \in Issued,
           request'[t].kind = "spent" => request'[t].token \in used',
           request'[t].kind = "claim" => request'[t].code \in Coded',
           request'[t].kind = "code" => request'[t].seen \subseteq Coded',
           Refreshing(t)' /\ FamilyOf(request'[t].token) \cap revoked # {} =>
             t \in overtaken' \/ request'[t].token \in late,
           LoggingIn(t)' /\ request'[t].stamp < resetAt[request'[t].user] => t \in overtaken',
           request'[t].kind = "reset" =>
             request'[t].stamp <= account'[request'[t].user].stamp
    PROVE  Inv'
  <1>1. Issued' = Issued /\ \A i \in Issued : FamilyOf(i)' = FamilyOf(i)
    BY DEF Issued, FamilyOf
  <1>2. Lineage' /\ OneTip'  BY ShapeKept
  <1>3. Holding'
    BY <1>1 DEF Inv, Holding
  <1>4. RacersKnown'
    <2> SUFFICES ASSUME NEW s \in Requests, Refreshing(s)',
                        (FamilyOf(request[s].token) \cap revoked # {})'
                 PROVE  s \in overtaken' \/ request'[s].token \in late'
      BY DEF RacersKnown
    <2>1. CASE s = t  BY <2>1, <1>1 DEF Refreshing, FamilyOf
    <2>2. CASE s # t  BY <2>2, <1>1 DEF Inv, Holding, RacersKnown, Refreshing, FamilyOf
    <2> QED  BY <2>1, <2>2
  <1>5. LoginsKnown'
    <2> SUFFICES ASSUME NEW s \in Requests, LoggingIn(s)',
                        request'[s].stamp < resetAt'[request'[s].user]
                 PROVE  s \in overtaken'
      BY DEF LoginsKnown
    <2>1. CASE s = t  BY <2>1
    <2>2. CASE s # t  BY <2>2 DEF Inv, LoginsKnown, LoggingIn
    <2> QED  BY <2>1, <2>2
  <1>6. StampsAhead'
    <2>1. \A u \in Users : /\ account[u].stamp \in Nat /\ account'[u].stamp \in Nat
                           /\ resetAt[u] \in Nat
      BY BoundsAssumption DEF Inv, TypeOK, Account, Stamps
    <2>2. \A u \in Users : resetAt'[u] <= account'[u].stamp
      BY <2>1 DEF Inv, StampsAhead
    <2>3. ASSUME NEW s \in Requests, request'[s].kind = "reset"
          PROVE  request'[s].stamp <= account'[request'[s].user].stamp
      <3>1. CASE s = t  BY <2>3, <3>1
      <3>2. CASE s # t
        <4>1. request[s].kind = "reset" /\ request'[s] = request[s]  BY <2>3, <3>2
        <4>2. request[s].user \in Users /\ request[s].stamp \in Nat
          BY <4>1, RequestFields, BoundsAssumption DEF Inv, Stamps
        <4>3. request[s].stamp <= account[request[s].user].stamp
          BY <4>1 DEF Inv, StampsAhead
        <4> QED  BY <4>1, <4>2, <4>3, <2>1
      <3> QED  BY <3>1, <3>2
    <2> QED  BY <2>2, <2>3 DEF StampsAhead
  <1>7. RevokedStaysRevoked' /\ ResetSparesOnlyRacers'
    BY <1>1 DEF Inv, TypeOK, RevokedStaysRevoked, ResetSparesOnlyRacers, FamilyOf, Issued
  <1> QED  BY <1>2, <1>3, <1>4, <1>5, <1>6, <1>7 DEF Inv

\* A write to an account outside every request.
LEMMA AccountOnly ==
    ASSUME Inv, UNCHANGED <<tokens, used, revoked, codes, spent, request, overtaken, late, resetAt>>,
           account' \in [Users -> Account],
           \A u \in Users : account[u].stamp <= account'[u].stamp
    PROVE  Inv'
  <1>1. TypeOK'  BY DEF Inv, TypeOK, Issued, Coded
  <1>2. Lineage' /\ OneTip'  BY ShapeKept
  <1>3. Holding' /\ RacersKnown' /\ LoginsKnown'
    BY DEF Inv, Holding, RacersKnown, LoginsKnown, Refreshing, LoggingIn, FamilyOf, Issued, Coded
  <1>4. StampsAhead'
    <2>1. \A u \in Users : /\ account[u].stamp \in Nat /\ account'[u].stamp \in Nat
                           /\ resetAt[u] \in Nat
      BY BoundsAssumption DEF Inv, TypeOK, Account, Stamps
    <2>2. \A t \in Requests : request[t].kind = "reset" =>
            request[t].user \in Users /\ request[t].stamp \in Nat
      BY RequestFields, BoundsAssumption DEF Inv, Stamps
    <2> QED  BY <2>1, <2>2 DEF Inv, StampsAhead
  <1>5. RevokedStaysRevoked' /\ ResetSparesOnlyRacers'
    BY DEF Inv, RevokedStaysRevoked, ResetSparesOnlyRacers, FamilyOf, Issued
  <1> QED  BY <1>1, <1>2, <1>3, <1>4, <1>5 DEF Inv

LEMMA InvLoginCheck ==
    ASSUME Inv, NEW t \in Requests, NEW u \in Users, LoginCheck(t, u)
    PROVE  Inv'
  <1> DEFINE r == [kind |-> IF account[u].bcrypt THEN "rehash" ELSE "login",
                   user |-> u, secret |-> account[u].secret, stamp |-> account[u].stamp]
  <1>1. account[u] \in Account  BY DEF Inv, TypeOK
  <1>2. r \in Pending  BY <1>1 DEF Pending, Account
  <1>3. Becomes(t, r)  BY DEF LoginCheck, Begins
  <1>4. /\ request' \in [Requests -> Pending] /\ request'[t] = r
        /\ \A s \in Requests \ {t} : request'[s] = request[s]
    BY <1>2, <1>3, BecomesType DEF Inv
  <1>5. TypeOK'  BY <1>4 DEF Inv, TypeOK, LoginCheck, Begins, Issued, Coded
  <1>6. ~(r.stamp < resetAt[r.user])
    BY <1>1, BoundsAssumption DEF Inv, StampsAhead, TypeOK, Account, Stamps
  <1>7. \A v \in Users : account[v].stamp <= account[v].stamp
    BY BoundsAssumption DEF Inv, TypeOK, Account, Stamps
  <1>8. r.kind \in {"rehash", "login"}  OBVIOUS
  <1> HIDE DEF r
  <1> QED  BY <1>4, <1>5, <1>6, <1>7, <1>8, Local
           DEF LoginCheck, Begins, Refreshing, LoggingIn, Coded

LEMMA InvLoginRehash ==
    ASSUME Inv, NEW t \in Requests, LoginRehash(t)
    PROVE  Inv'
  <1>1. /\ request[t].kind = "rehash" /\ request[t].user \in Users
        /\ request[t].secret \in Stamps /\ request[t].stamp \in Stamps
    BY RequestFields DEF Inv, LoginRehash, LoggingIn
  <1>2. /\ request' \in [Requests -> Pending]
        /\ request'[t] = [kind |-> "login", user |-> request[t].user,
                          secret |-> request[t].secret, stamp |-> request[t].stamp]
        /\ \A s \in Requests \ {t} : request'[s] = request[s]
    BY <1>1, RehashType DEF Inv, LoginRehash
  <1>3. /\ account' \in [Users -> Account]
        /\ \A v \in Users : account[v].stamp <= account'[v].stamp
    <2>1. CASE PasswordWritten(request[t].user, request[t].secret)
      BY <1>1, <2>1, PasswordType DEF Inv
    <2>2. CASE UNCHANGED account
      BY <2>2, BoundsAssumption DEF Inv, TypeOK, Account, Stamps
    <2> QED  BY <2>1, <2>2 DEF LoginRehash
  <1>4. TypeOK'  BY <1>2, <1>3 DEF Inv, TypeOK, LoginRehash, Issued, Coded
  <1>5. request[t].stamp < resetAt[request[t].user] => t \in overtaken
    BY <1>1 DEF Inv, LoginsKnown, LoggingIn
  <1> QED  BY <1>2, <1>3, <1>4, <1>5, Local DEF LoginRehash, Refreshing, LoggingIn, Coded

LEMMA InvRefreshFind ==
    ASSUME Inv, NEW t \in Requests, NEW i \in TokenIds, RefreshFind(t, i)
    PROVE  Inv'
  <1> DEFINE r == [kind |-> IF i \in used THEN "reuse" ELSE "found", token |-> i]
  <1>1. r \in Pending  BY DEF Pending
  <1>2. Becomes(t, r)  BY DEF RefreshFind, Begins
  <1>3. /\ request' \in [Requests -> Pending] /\ request'[t] = r
        /\ \A s \in Requests \ {t} : request'[s] = request[s]
    BY <1>1, <1>2, BecomesType DEF Inv
  <1>4. TypeOK'  BY <1>3 DEF Inv, TypeOK, RefreshFind, Begins, Issued, Coded
  <1>5. i \in Issued /\ i \notin revoked  BY DEF RefreshFind
  <1>6. FamilyOf(i) \cap revoked # {} => i \in late
    BY <1>5 DEF Inv, RevokedStaysRevoked, FamilyOf
  <1>7. \A v \in Users : account[v].stamp <= account[v].stamp
    BY BoundsAssumption DEF Inv, TypeOK, Account, Stamps
  <1>8. r.kind \in {"reuse", "found"} /\ r.token = i  OBVIOUS
  <1> HIDE DEF r
  <1> QED  BY <1>3, <1>4, <1>5, <1>6, <1>7, <1>8, Local
           DEF RefreshFind, Begins, Refreshing, LoggingIn, Coded

LEMMA InvRefreshUser ==
    ASSUME Inv, NEW t \in Requests, RefreshUser(t)
    PROVE  Inv'
  <1> DEFINE i == request[t].token
             u == tokens[i].user
             r == IF account[u].active
                  THEN [kind |-> "admitted", token |-> i]
                  ELSE [kind |-> "evict", user |-> u, stamp |-> account[u].stamp]
  <1>1. request[t].kind = "found" /\ i \in Issued  BY DEF RefreshUser, Inv, Holding
  <1>2. i \in TokenIds /\ u \in Users  BY <1>1, TokenFields DEF Inv
  <1>3. account[u] \in Account  BY <1>2 DEF Inv, TypeOK
  <1>4. r \in Pending  BY <1>2, <1>3 DEF Pending, Account
  <1>5. Becomes(t, r)  BY DEF RefreshUser
  <1>6. /\ request' \in [Requests -> Pending] /\ request'[t] = r
        /\ \A s \in Requests \ {t} : request'[s] = request[s]
    BY <1>4, <1>5, BecomesType DEF Inv
  <1>7. /\ overtaken \ {t} \subseteq overtaken' /\ overtaken' \subseteq overtaken
        /\ UNCHANGED <<account, tokens, used, revoked, codes, spent, late, resetAt>>
    BY DEF RefreshUser
  <1>8. TypeOK'  BY <1>6, <1>7 DEF Inv, TypeOK, Issued, Coded
  <1>9. FamilyOf(i) \cap revoked # {} => t \in overtaken \/ i \in late
    BY <1>1 DEF Inv, RacersKnown, Refreshing
  <1>10. r.kind = "admitted" => r.token = i /\ overtaken' = overtaken
    BY <1>6 DEF RefreshUser
  <1>11. \A v \in Users : account[v].stamp <= account[v].stamp
    BY BoundsAssumption DEF Inv, TypeOK, Account, Stamps
  <1>12. r.kind \in {"admitted", "evict"}  OBVIOUS
  <1> HIDE DEF i, r
  <1> QED  BY <1>1, <1>6, <1>7, <1>8, <1>9, <1>10, <1>11, <1>12, Local
           DEF Refreshing, LoggingIn, Coded

LEMMA InvRefreshMarkUsed ==
    ASSUME Inv, NEW t \in Requests, RefreshMarkUsed(t)
    PROVE  Inv'
  <1>1. request[t].kind = "admitted" /\ request[t].token \in Issued
    BY DEF RefreshMarkUsed, Inv, Holding
  <1>2. /\ request' \in [Requests -> Pending]
        /\ request'[t] = [kind |-> "spent", token |-> request[t].token]
        /\ \A s \in Requests \ {t} : request'[s] = request[s]
    BY <1>1, MarkType DEF Inv, RefreshMarkUsed
  <1>3. TypeOK'  BY <1>1, <1>2 DEF Inv, TypeOK, RefreshMarkUsed, Issued, Coded
  <1>4. FamilyOf(request[t].token) \cap revoked # {} =>
          t \in overtaken \/ request[t].token \in late
    BY <1>1 DEF Inv, RacersKnown, Refreshing
  <1>5. \A v \in Users : account[v].stamp <= account[v].stamp
    BY BoundsAssumption DEF Inv, TypeOK, Account, Stamps
  <1> QED  BY <1>1, <1>2, <1>3, <1>4, <1>5, Local
           DEF RefreshMarkUsed, Refreshing, LoggingIn, Coded

LEMMA InvCodeBegin ==
    ASSUME Inv, NEW t \in Requests, NEW u \in Users, CodeBegin(t, u)
    PROVE  Inv'
  <1> DEFINE r == [kind |-> "code", user |-> u, seen |-> Outstanding(u)]
  <1>1. r \in Pending
    BY BoundsAssumption DEF Pending, Outstanding, Inv, TypeOK, Coded, CodeIds
  <1>2. Becomes(t, r)  BY DEF CodeBegin, Begins
  <1>3. /\ request' \in [Requests -> Pending] /\ request'[t] = r
        /\ \A s \in Requests \ {t} : request'[s] = request[s]
    BY <1>1, <1>2, BecomesType DEF Inv
  <1>4. TypeOK'  BY <1>3 DEF Inv, TypeOK, CodeBegin, Begins, Issued, Coded
  <1>5. \A v \in Users : account[v].stamp <= account[v].stamp
    BY BoundsAssumption DEF Inv, TypeOK, Account, Stamps
  <1>6. r.kind = "code" /\ r.seen \subseteq Coded  BY DEF Outstanding
  <1> HIDE DEF r
  <1> QED  BY <1>3, <1>4, <1>5, <1>6, Local
           DEF CodeBegin, Begins, Refreshing, LoggingIn, Coded

\* A request that ends leaves nothing of itself to account for.
LEMMA Ended ==
    ASSUME Inv, NEW t \in Requests, Ends(t)
    PROVE  /\ request' \in [Requests -> Pending] /\ request'[t] = Idle
           /\ Idle.kind = "idle"
           /\ \A s \in Requests \ {t} : request'[s] = request[s]
           /\ overtaken \ {t} \subseteq overtaken' /\ overtaken' \subseteq overtaken
           /\ \A v \in Users : account[v].stamp <= account[v].stamp
  <1>1. Idle \in Pending  BY DEF Pending
  <1>2. /\ request' \in [Requests -> Pending] /\ request'[t] = Idle
        /\ \A s \in Requests \ {t} : request'[s] = request[s]
    BY <1>1, BecomesType DEF Inv, Ends
  <1>3. \A v \in Users : account[v].stamp <= account[v].stamp
    BY BoundsAssumption DEF Inv, TypeOK, Account, Stamps
  <1> QED  BY <1>2, <1>3 DEF Idle, Ends

LEMMA InvAbort ==
    ASSUME Inv, NEW t \in Requests, Abort(t)
    PROVE  Inv'
  <1>1. /\ request' \in [Requests -> Pending] /\ request'[t] = Idle
        /\ Idle.kind = "idle"
        /\ \A s \in Requests \ {t} : request'[s] = request[s]
        /\ overtaken \ {t} \subseteq overtaken' /\ overtaken' \subseteq overtaken
        /\ \A v \in Users : account[v].stamp <= account[v].stamp
    BY Ended DEF Abort
  <1>2. TypeOK'  BY <1>1 DEF Inv, TypeOK, Abort, Issued, Coded
  <1> QED  BY <1>1, <1>2, Local DEF Abort, Refreshing, LoggingIn, Coded

LEMMA InvCodeCommit ==
    ASSUME Inv, NEW t \in Requests, CodeCommit(t)
    PROVE  Inv'
  <1>1. /\ request' \in [Requests -> Pending] /\ request'[t] = Idle
        /\ Idle.kind = "idle"
        /\ \A s \in Requests \ {t} : request'[s] = request[s]
        /\ overtaken \ {t} \subseteq overtaken' /\ overtaken' \subseteq overtaken
        /\ \A v \in Users : account[v].stamp <= account[v].stamp
    BY Ended DEF CodeCommit
  <1>2. request[t].kind = "code" /\ request[t].user \in Users /\ request[t].seen \subseteq Coded
    BY RequestFields DEF Inv, Holding, CodeCommit
  <1>3. codes \in Seq(Users) /\ Len(codes) \in Nat /\ Len(codes) < MaxCodes /\ MaxCodes \in Nat
    BY BoundsAssumption DEF Inv, TypeOK, CodeCommit
  <1>4. codes' = Append(codes, request[t].user)  BY DEF CodeCommit
  <1>5. codes' \in Seq(Users) /\ Len(codes') = Len(codes) + 1  BY <1>2, <1>3, <1>4
  <1>6. Coded \subseteq Coded' /\ Len(codes') <= MaxCodes  BY <1>3, <1>5 DEF Coded
  <1>7. spent' \subseteq Coded'  BY <1>2, <1>6 DEF Inv, TypeOK, CodeCommit
  <1>8. TypeOK'  BY <1>1, <1>5, <1>6, <1>7 DEF Inv, TypeOK, CodeCommit, Issued
  <1> QED  BY <1>1, <1>6, <1>8, Local DEF CodeCommit, Refreshing, LoggingIn

LEMMA InvResetFind ==
    ASSUME Inv, NEW t \in Requests, NEW c \in CodeIds, ResetFind(t, c)
    PROVE  Inv'
  <1> DEFINE r == [kind |-> "claim", code |-> c]
  <1>1. r \in Pending  BY DEF Pending
  <1>2. Becomes(t, r)  BY DEF ResetFind, Begins
  <1>3. /\ request' \in [Requests -> Pending] /\ request'[t] = r
        /\ \A s \in Requests \ {t} : request'[s] = request[s]
    BY <1>1, <1>2, BecomesType DEF Inv
  <1>4. TypeOK'  BY <1>3 DEF Inv, TypeOK, ResetFind, Begins, Issued, Coded
  <1>5. \A v \in Users : account[v].stamp <= account[v].stamp
    BY BoundsAssumption DEF Inv, TypeOK, Account, Stamps
  <1>6. r.kind = "claim" /\ r.code \in Coded  BY DEF ResetFind
  <1> HIDE DEF r
  <1> QED  BY <1>3, <1>4, <1>5, <1>6, Local
           DEF ResetFind, Begins, Refreshing, LoggingIn, Coded

LEMMA InvResetClaim ==
    ASSUME Inv, NEW t \in Requests, ResetClaim(t)
    PROVE  Inv'
  <1> DEFINE c == request[t].code
             u == codes[c]
             r == [kind |-> "reset", user |-> u, stamp |-> account'[u].stamp]
  <1>1. request[t].kind = "claim" /\ c \in Coded  BY DEF ResetClaim, Inv, Holding
  <1>2. u \in Users  BY <1>1 DEF Inv, TypeOK, Coded
  <1>3. CASE c \in spent /\ Ends(t) /\ UNCHANGED <<account, spent>>
    <2>1. /\ request' \in [Requests -> Pending] /\ request'[t] = Idle
          /\ Idle.kind = "idle"
          /\ \A s \in Requests \ {t} : request'[s] = request[s]
          /\ overtaken \ {t} \subseteq overtaken' /\ overtaken' \subseteq overtaken
          /\ \A v \in Users : account[v].stamp <= account[v].stamp
      BY <1>3, Ended
    <2>2. TypeOK'  BY <1>3, <2>1 DEF Inv, TypeOK, ResetClaim, Issued, Coded
    <2> QED  BY <1>3, <2>1, <2>2, Local DEF ResetClaim, Refreshing, LoggingIn, Coded
  <1>4. CASE /\ NewPassword(u) /\ spent' = spent \cup Outstanding(u)
             /\ Becomes(t, r) /\ UNCHANGED overtaken
    <2>1. /\ account' \in [Users -> Account] /\ account'[u].stamp \in Stamps
          /\ \A v \in Users : account[v].stamp <= account'[v].stamp
      BY <1>2, <1>4, NewPasswordType DEF Inv
    <2>2. r \in Pending  BY <1>2, <2>1 DEF Pending
    <2>3. /\ request' \in [Requests -> Pending] /\ request'[t] = r
          /\ \A s \in Requests \ {t} : request'[s] = request[s]
      BY <1>4, <2>2, BecomesType DEF Inv
    <2>4. spent' \subseteq Coded  BY <1>4 DEF Inv, TypeOK, Outstanding
    <2>5. TypeOK'  BY <1>4, <2>1, <2>3, <2>4 DEF Inv, TypeOK, ResetClaim, Issued, Coded
    <2>6. /\ request'[t].kind = "reset" /\ request'[t].user = u
          /\ request'[t].stamp = account'[u].stamp
      BY <2>3
    <2>7. request'[t].stamp <= account'[request'[t].user].stamp
      BY <2>1, <2>6, BoundsAssumption DEF Stamps
    <2> HIDE DEF r, u
    <2> QED  BY <1>4, <2>1, <2>3, <2>5, <2>6, <2>7, Local
             DEF ResetClaim, Refreshing, LoggingIn, Coded
  <1> QED  BY <1>3, <1>4 DEF ResetClaim

LEMMA InvSetActive ==
    ASSUME Inv, NEW u \in Users, SetActive(u)
    PROVE  Inv'
  <1>1. account[u] \in Account  BY DEF Inv, TypeOK
  <1>2. account'[u] = [account[u] EXCEPT !.active = ~@]  BY DEF Inv, TypeOK, SetActive
  <1>3. account'[u] \in Account /\ account'[u].stamp = account[u].stamp
    BY <1>1, <1>2 DEF Account
  <1>4. \A v \in Users \ {u} : account'[v] = account[v]  BY DEF Inv, TypeOK, SetActive
  <1>5. \A v \in Users : account[v].stamp \in Nat
    BY BoundsAssumption DEF Inv, TypeOK, Account, Stamps
  <1>6. account' \in [Users -> Account]  BY <1>3, <1>4 DEF Inv, TypeOK, SetActive
  <1>7. \A v \in Users : account[v].stamp <= account'[v].stamp  BY <1>3, <1>4, <1>5
  <1> QED  BY <1>6, <1>7, AccountOnly DEF SetActive

LEMMA InvSetPassword ==
    ASSUME Inv, NEW u \in Users, SetPassword(u)
    PROVE  Inv'
  <1>1. /\ account' \in [Users -> Account]
        /\ \A v \in Users : account[v].stamp <= account'[v].stamp
    BY NewPasswordType DEF Inv, SetPassword
  <1> QED  BY <1>1, AccountOnly DEF SetPassword

-----------------------------------------------------------------------------
(* Revocations. *)

\* Every revocation covers whole families and every refresh that holds one of
\* their tokens; a completed reset covers every login of its user as well.
LEMMA Covered ==
    ASSUME Inv, TypeOK', NEW T \in SUBSET Issued,
           \A i \in T : FamilyOf(i) \subseteq T,
           revoked' = revoked \cup T,
           UNCHANGED <<account, tokens, used, codes, late>>,
           \A s \in Requests : request'[s] \in {request[s], Idle},
           overtaken \cup RefreshersOf(T) \subseteq overtaken',
           \A u \in Users : \/ resetAt'[u] = resetAt[u]
                            \/ /\ OwnedBy(u) \subseteq T
                               /\ LoginsOf(u) \subseteq overtaken'
                               /\ resetAt'[u] <= account[u].stamp
    PROVE  Inv'
  <1>1. Issued' = Issued /\ Coded' = Coded
    BY DEF Issued, Coded
  <1>2. Lineage' /\ OneTip'  BY ShapeKept
  <1>3. Idle.kind = "idle"  BY DEF Idle
  <1>4. \A s \in Requests : request'[s] = request[s] \/ request'[s].kind = "idle"
    BY <1>3
  <1>5. Holding'  BY <1>1, <1>4 DEF Inv, Holding
  <1>6. RacersKnown'
    <2> SUFFICES ASSUME NEW s \in Requests, Refreshing(s)',
                        (FamilyOf(request[s].token) \cap revoked # {})'
                 PROVE  s \in overtaken' \/ request'[s].token \in late'
      BY DEF RacersKnown
    <2>1. request'[s] = request[s] /\ Refreshing(s)
      BY <1>4 DEF Refreshing
    <2>2. PICK k \in FamilyOf(request[s].token) : k \in revoked \/ k \in T
      BY <1>1, <2>1 DEF FamilyOf
    <2>3. request[s].token \in Issued  BY <2>1 DEF Inv, Holding, Refreshing
    <2>4. CASE k \in revoked
      BY <2>1, <2>2, <2>4 DEF Inv, RacersKnown
    <2>5. CASE k \in T
      <3>1. request[s].token \in FamilyOf(k)  BY <2>2, <2>3 DEF FamilyOf
      <3>2. s \in RefreshersOf(T)  BY <2>1, <2>5, <3>1 DEF RefreshersOf
      <3> QED  BY <3>2
    <2> QED  BY <2>2, <2>4, <2>5
  <1>7. LoginsKnown'
    <2> SUFFICES ASSUME NEW s \in Requests, LoggingIn(s)',
                        request'[s].stamp < resetAt'[request'[s].user]
                 PROVE  s \in overtaken'
      BY DEF LoginsKnown
    <2>1. request'[s] = request[s] /\ LoggingIn(s)  BY <1>4 DEF LoggingIn
    <2>2. request[s].user \in Users  BY <2>1, RequestFields DEF Inv
    <2>3. CASE resetAt'[request[s].user] = resetAt[request[s].user]
      BY <2>1, <2>3 DEF Inv, LoginsKnown
    <2>4. CASE LoginsOf(request[s].user) \subseteq overtaken'
      BY <2>1, <2>4 DEF LoginsOf
    <2> QED  BY <2>2, <2>3, <2>4
  <1>8. StampsAhead'  BY <1>4 DEF Inv, StampsAhead
  <1>9. RevokedStaysRevoked'
    <2> SUFFICES ASSUME NEW i \in revoked'
                 PROVE  FamilyOf(i) \subseteq revoked' \cup late
      BY <1>1 DEF RevokedStaysRevoked, FamilyOf
    <2> QED  BY DEF Inv, RevokedStaysRevoked
  <1>10. ResetSparesOnlyRacers'
    <2> SUFFICES ASSUME NEW i \in Issued, tokens[i].since < resetAt'[tokens[i].user]
                 PROVE  i \in revoked' \cup late
      BY <1>1 DEF ResetSparesOnlyRacers
    <2>1. tokens[i].user \in Users  BY TokenFields DEF Inv
    <2>2. CASE resetAt'[tokens[i].user] = resetAt[tokens[i].user]
      BY <2>2 DEF Inv, ResetSparesOnlyRacers
    <2>3. CASE OwnedBy(tokens[i].user) \subseteq T
      BY <2>3 DEF OwnedBy
    <2> QED  BY <2>1, <2>2, <2>3
  <1> QED  BY <1>2, <1>5, <1>6, <1>7, <1>8, <1>9, <1>10 DEF Inv

\* A family is whole, and so is everything a user owns.
LEMMA WholeFamily ==
    ASSUME NEW i \in Issued
    PROVE  FamilyOf(i) \subseteq Issued /\ \A j \in FamilyOf(i) : FamilyOf(j) \subseteq FamilyOf(i)
  BY DEF FamilyOf

LEMMA WholeOwner ==
    ASSUME Inv, NEW u \in Users
    PROVE  OwnedBy(u) \subseteq Issued /\ \A j \in OwnedBy(u) : FamilyOf(j) \subseteq OwnedBy(u)
  BY DEF Inv, Lineage, OwnedBy, FamilyOf

LEMMA InvLogout ==
    ASSUME Inv, NEW i \in TokenIds, Logout(i)
    PROVE  Inv'
  <1>1. i \in Issued  BY DEF Logout
  <1>2. /\ FamilyOf(i) \subseteq Issued
        /\ \A j \in FamilyOf(i) : FamilyOf(j) \subseteq FamilyOf(i)
    BY <1>1, WholeFamily
  <1>3. /\ revoked' = revoked \cup FamilyOf(i)
        /\ overtaken' = overtaken \cup RefreshersOf(FamilyOf(i))
    BY DEF Logout, Revoke
  <1>4. TypeOK'
    BY <1>2, <1>3 DEF Inv, TypeOK, Logout, Issued, Coded, RefreshersOf
  <1> QED  BY <1>2, <1>3, <1>4, Covered DEF Logout

LEMMA InvRefreshReuse ==
    ASSUME Inv, NEW t \in Requests, RefreshReuse(t)
    PROVE  Inv'
  <1> DEFINE T == FamilyOf(request[t].token)
  <1>1. request[t].token \in Issued  BY DEF RefreshReuse, Inv, Holding
  <1>2. T \subseteq Issued /\ \A j \in T : FamilyOf(j) \subseteq T  BY <1>1, WholeFamily
  <1>3. revoked' = revoked \cup T /\ overtaken' = overtaken \cup RefreshersOf(T)
    BY DEF RefreshReuse, Revoke
  <1>4. /\ request' \in [Requests -> Pending]
        /\ \A s \in Requests : request'[s] \in {request[s], Idle}
    BY BecomesType DEF RefreshReuse, Inv, Pending
  <1>5. TypeOK'
    BY <1>2, <1>3, <1>4 DEF Inv, TypeOK, RefreshReuse, Issued, Coded, RefreshersOf
  <1> HIDE DEF T
  <1> QED  BY <1>2, <1>3, <1>4, <1>5, Covered DEF RefreshReuse

LEMMA InvRevokeAllForUser ==
    ASSUME Inv, NEW t \in Requests, RevokeAllForUser(t)
    PROVE  Inv'
  <1> DEFINE u == request[t].user
             T == OwnedBy(u)
  <1>1. /\ request[t].kind \in {"evict", "reset"}
        /\ u \in Users /\ request[t].stamp \in Stamps
    BY RequestFields DEF Inv, RevokeAllForUser
  <1>2. T \subseteq Issued /\ \A j \in T : FamilyOf(j) \subseteq T  BY <1>1, WholeOwner
  <1>3. /\ revoked' = revoked \cup T
        /\ overtaken' = overtaken \cup (RefreshersOf(T) \cup LoginsOf(u))
    BY DEF RevokeAllForUser, Revoke
  <1>4. /\ request' \in [Requests -> Pending]
        /\ \A s \in Requests : request'[s] \in {request[s], Idle}
    BY BecomesType DEF RevokeAllForUser, Inv, Pending
  <1>5. /\ resetAt' \in [Users -> Stamps]
        /\ \A v \in Users : \/ resetAt'[v] = resetAt[v]
                            \/ v = u /\ resetAt'[v] = request[t].stamp
                                     /\ request[t].kind = "reset"
    BY <1>1 DEF RevokeAllForUser, Inv, TypeOK
  <1>6. request[t].kind = "reset" => request[t].stamp <= account[u].stamp
    BY DEF Inv, StampsAhead
  <1>7. TypeOK'
    BY <1>2, <1>3, <1>4, <1>5
       DEF Inv, TypeOK, RevokeAllForUser, Issued, Coded, RefreshersOf, LoginsOf
  <1>8. UNCHANGED <<account, tokens, used, codes, late>>  BY DEF RevokeAllForUser
  <1> HIDE DEF u
  <1> QED  BY <1>2, <1>3, <1>4, <1>5, <1>6, <1>7, <1>8, Covered

-----------------------------------------------------------------------------
(* The two inserts. *)

\* A login opens a family of its own.
LEMMA InvLoginIssue ==
    ASSUME Inv, NEW t \in Requests, LoginIssue(t)
    PROVE  Inv'
  <1>0. PICK new : new = Len(tokens) + 1  OBVIOUS
  <1> DEFINE row == [user |-> request[t].user, family |-> new, parent |-> 0,
                     since |-> request[t].stamp]
  <1>1. /\ request[t].kind = "login" /\ request[t].user \in Users
        /\ request[t].stamp \in Stamps
    BY RequestFields DEF Inv, LoginIssue, LoggingIn
  <1>2. /\ request' \in [Requests -> Pending] /\ request'[t] = Idle
        /\ Idle.kind = "idle"
        /\ \A s \in Requests \ {t} : request'[s] = request[s]
        /\ overtaken \ {t} \subseteq overtaken' /\ overtaken' \subseteq overtaken
    BY Ended DEF LoginIssue
  <1>3. Insert(t, row, FALSE)  BY <1>0 DEF LoginIssue
  <1>4. row \in Token
    <2>1. Len(tokens) \in Nat /\ Len(tokens) < MaxTokens  BY <1>3 DEF Insert, Inv, TypeOK
    <2>2. new \in TokenIds  BY <1>0, <2>1, BoundsAssumption DEF TokenIds
    <2> QED  BY <1>1, <2>2 DEF Token
  <1>5. /\ tokens' \in Seq(Token) /\ Len(tokens') <= MaxTokens
        /\ Issued' = Issued \cup {new} /\ new \notin Issued /\ new \in TokenIds
        /\ tokens'[new] = row /\ \A i \in Issued : tokens'[i] = tokens[i]
        /\ late \subseteq late' /\ late' \subseteq Issued'
        /\ t \in overtaken => new \in late'
    BY <1>0, <1>3, <1>4, Inserted DEF Inv
  <1>6. UNCHANGED <<account, used, revoked, codes, spent, resetAt>>  BY DEF LoginIssue
  <1>7. TypeOK'
    <2>1. used' \subseteq Issued' /\ revoked' \subseteq Issued'
      BY <1>5, <1>6 DEF Inv, TypeOK
    <2> QED  BY <1>2, <1>5, <1>6, <2>1 DEF Inv, TypeOK, Coded
  <1>8. \A i \in Issued : tokens[i].family \in Issued /\ tokens[i].family # new
    BY <1>5 DEF Inv, Lineage
  <1>9. row.user = request[t].user /\ row.family = new /\ row.parent = 0
        /\ row.since = request[t].stamp
    OBVIOUS
  <1> HIDE DEF row
  <1>10. new # 0  BY <1>5 DEF TokenIds
  <1>11. \A i \in Issued : FamilyOf(i)' = FamilyOf(i)
    BY <1>5, <1>8, <1>9 DEF FamilyOf
  <1>12. FamilyOf(new)' = {new}  BY <1>5, <1>8, <1>9 DEF FamilyOf
  <1>13. \A i \in Issued : Children(i)' = Children(i)
    BY <1>5, <1>9, BoundsAssumption DEF Children, Issued
  <1>14. Lineage'
    <2>1. \A i \in Issued : tokens[i].parent # 0 => tokens[i].parent \in Issued
      BY DEF Inv, Lineage, TypeOK
    <2> QED  BY <1>5, <1>6, <1>8, <1>9, <2>1 DEF Inv, Lineage
  <1>15. Holding'  BY <1>2, <1>5, <1>6 DEF Inv, Holding, Coded
  <1>16. OneTip'
    <2> SUFFICES ASSUME NEW i \in Issued', NEW j \in Issued', i # j,
                        (Family(i) = Family(j) /\ Childless(i) /\ Childless(j))'
                 PROVE  Forked(i)'
      BY DEF OneTip
    <2>1. i \in Issued /\ j \in Issued  BY <1>5, <1>8, <1>9
    <2>2. Forked(i)
      BY <1>5, <1>13, <2>1 DEF Inv, OneTip, Childless
    <2>3. FamilyOf(i) \subseteq Issued  BY DEF FamilyOf
    <2> QED  BY <1>11, <1>13, <2>1, <2>2, <2>3 DEF Forked
  <1>17. RacersKnown'
    <2> SUFFICES ASSUME NEW s \in Requests, Refreshing(s)',
                        (FamilyOf(request[s].token) \cap revoked # {})'
                 PROVE  s \in overtaken' \/ request'[s].token \in late'
      BY DEF RacersKnown
    <2>1. s # t /\ request'[s] = request[s] /\ Refreshing(s)
      BY <1>2 DEF Refreshing
    <2>2. request[s].token \in Issued  BY <2>1 DEF Inv, Holding, Refreshing
    <2>3. FamilyOf(request[s].token) \cap revoked # {}
      BY <1>5, <1>6, <1>8, <1>9, <2>1, <2>2 DEF FamilyOf, Inv, TypeOK
    <2> QED  BY <1>2, <1>5, <2>1, <2>3 DEF Inv, RacersKnown
  <1>18. LoginsKnown'  BY <1>2, <1>6 DEF Inv, LoginsKnown, LoggingIn
  <1>19. StampsAhead'  BY <1>2, <1>6 DEF Inv, StampsAhead
  <1>20. RevokedStaysRevoked'
    <2> SUFFICES ASSUME NEW i \in revoked
                 PROVE  FamilyOf(i)' \subseteq revoked \cup late'
      BY <1>6 DEF RevokedStaysRevoked
    <2>1. i \in Issued  BY DEF Inv, TypeOK
    <2> QED  BY <1>5, <1>11, <2>1 DEF Inv, RevokedStaysRevoked
  <1>21. ResetSparesOnlyRacers'
    <2> SUFFICES ASSUME NEW i \in Issued', tokens'[i].since < resetAt[tokens'[i].user]
                 PROVE  i \in revoked \cup late'
      BY <1>6 DEF ResetSparesOnlyRacers
    <2>1. CASE i \in Issued  BY <1>5, <2>1 DEF Inv, ResetSparesOnlyRacers
    <2>2. CASE i = new
      <3>1. request[t].stamp < resetAt[request[t].user]  BY <1>5, <1>9, <2>2
      <3>2. t \in overtaken  BY <1>1, <3>1 DEF Inv, LoginsKnown, LoggingIn
      <3> QED  BY <1>5, <2>2, <3>2
    <2> QED  BY <1>5, <2>1, <2>2
  <1> QED  BY <1>7, <1>14, <1>15, <1>16, <1>17, <1>18, <1>19, <1>20, <1>21 DEF Inv

\* A refresh adds a child to the token it holds.
LEMMA InvRefreshIssue ==
    ASSUME Inv, NEW t \in Requests, RefreshIssue(t)
    PROVE  Inv'
  <1>0. PICK new, p : new = Len(tokens) + 1 /\ p = request[t].token  OBVIOUS
  <1> DEFINE row == [tokens[p] EXCEPT !.parent = p]
  <1>1. request[t].kind = "spent" /\ p \in Issued /\ p \in used
    BY <1>0 DEF Inv, Holding, RefreshIssue
  <1>2. /\ request' \in [Requests -> Pending] /\ request'[t] = Idle
        /\ Idle.kind = "idle"
        /\ \A s \in Requests \ {t} : request'[s] = request[s]
        /\ overtaken \ {t} \subseteq overtaken' /\ overtaken' \subseteq overtaken
    BY Ended DEF RefreshIssue
  <1>3. Insert(t, row, p \in late)  BY <1>0 DEF RefreshIssue
  <1>4. tokens[p] \in Token /\ p \in TokenIds  BY <1>1, TokenFields DEF Inv
  <1>5. /\ row \in Token /\ row.user = tokens[p].user /\ row.family = tokens[p].family
        /\ row.since = tokens[p].since /\ row.parent = p
    BY <1>4 DEF Token
  <1>6. /\ tokens' \in Seq(Token) /\ Len(tokens') <= MaxTokens
        /\ Issued' = Issued \cup {new} /\ new \notin Issued /\ new \in TokenIds
        /\ tokens'[new] = row /\ \A i \in Issued : tokens'[i] = tokens[i]
        /\ late \subseteq late' /\ late' \subseteq Issued'
        /\ (t \in overtaken \/ p \in late) => new \in late'
    BY <1>0, <1>3, <1>5, Inserted DEF Inv
  <1>7. UNCHANGED <<account, used, revoked, codes, spent, resetAt>>  BY DEF RefreshIssue
  <1>8. TypeOK'
    <2>1. used' \subseteq Issued' /\ revoked' \subseteq Issued'
      BY <1>6, <1>7 DEF Inv, TypeOK
    <2> QED  BY <1>2, <1>6, <1>7, <2>1 DEF Inv, TypeOK, Coded
  <1> HIDE DEF row
  <1>9. p # 0  BY <1>4 DEF TokenIds
  <1>10. \A i \in Issued : FamilyOf(i) \subseteq FamilyOf(i)'
    BY <1>6 DEF FamilyOf
  <1>11. \A i \in Issued : FamilyOf(i)' \subseteq FamilyOf(i) \cup {new}
    BY <1>6 DEF FamilyOf
  <1>12. Children(p)' = Children(p) \cup {new}
    BY <1>5, <1>6 DEF Children
  <1>13. \A i \in Issued : Children(i) \subseteq Children(i)'
    BY <1>6 DEF Children
  <1>14. Lineage'
    <2>1. \A i \in Issued : tokens[i].parent # 0 => tokens[i].parent \in Issued
      BY DEF Inv, Lineage, TypeOK
    <2>2. \A i \in Issued : tokens[i].family \in Issued  BY DEF Inv, Lineage
    <2> SUFFICES ASSUME NEW i \in Issued'
                 PROVE  /\ tokens'[i].family \in Issued'
                        /\ tokens'[i].user = tokens'[tokens'[i].family].user
                        /\ tokens'[i].parent # 0 =>
                             /\ tokens'[i].parent \in used'
                             /\ tokens'[tokens'[i].parent].family = tokens'[i].family
      BY DEF Lineage
    <2>3. CASE i \in Issued
      BY <1>6, <1>7, <2>1, <2>2, <2>3 DEF Inv, Lineage
    <2>4. CASE i = new
      BY <1>1, <1>5, <1>6, <1>7, <2>2, <2>4 DEF Inv, Lineage
    <2> QED  BY <1>6, <2>3, <2>4
  <1>15. Holding'  BY <1>2, <1>6, <1>7 DEF Inv, Holding, Coded
  <1>16. OneTip'
    <2> SUFFICES ASSUME NEW i \in Issued', NEW j \in Issued', i # j,
                        (Family(i) = Family(j) /\ Childless(i) /\ Childless(j))'
                 PROVE  Forked(i)'
      BY DEF OneTip
    <2>1. i # p /\ j # p  BY <1>12 DEF Childless
    <2>2. ASSUME NEW a \in Issued, NEW b \in Issued, a # b,
                 tokens[a].family = tokens[b].family, Childless(a), Childless(b)
          PROVE  Forked(a)'
      <3>1. Forked(a)  BY <2>2 DEF Inv, OneTip
      <3>2. FamilyOf(a) \subseteq Issued  BY DEF FamilyOf
      <3> QED  BY <1>10, <1>13, <3>1, <3>2 DEF Forked
    <2>3. ASSUME NEW a \in Issued, a # p, Childless(a), tokens[a].family = tokens[p].family
          PROVE  Forked(a)' /\ Forked(new)'
      <3>1. p \in FamilyOf(a)' /\ p \in FamilyOf(new)'
        BY <1>1, <1>5, <1>6, <2>3 DEF FamilyOf
      <3>2. CASE Childless(p)
        <4>1. Forked(a)  BY <1>1, <2>3, <3>2 DEF Inv, OneTip
        <4>2. FamilyOf(a) \subseteq Issued  BY DEF FamilyOf
        <4>3. FamilyOf(a) \subseteq FamilyOf(new)'
          BY <1>5, <1>6, <2>3 DEF FamilyOf
        <4> QED  BY <1>10, <1>13, <4>1, <4>2, <4>3 DEF Forked
      <3>3. CASE ~Childless(p)
        <4>1. PICK c \in Children(p) : TRUE  BY <3>3 DEF Childless
        <4>2. c # new  BY <1>6, <4>1 DEF Children
        <4>3. c \in Children(p)' /\ new \in Children(p)'  BY <1>12, <4>1
        <4> QED  BY <3>1, <4>2, <4>3 DEF Forked
      <3> QED  BY <3>2, <3>3
    <2>4. \A a \in Issued : Childless(a)' => Childless(a)
      BY <1>13 DEF Childless
    <2>5. CASE i \in Issued /\ j \in Issued
      BY <1>6, <2>2, <2>4, <2>5
    <2>6. CASE i \in Issued /\ j = new
      BY <1>5, <1>6, <2>1, <2>3, <2>4, <2>6
    <2>7. CASE i = new /\ j \in Issued
      BY <1>5, <1>6, <2>1, <2>3, <2>4, <2>7
    <2> QED  BY <1>6, <2>5, <2>6, <2>7
  <1>17. \A i \in Issued : FamilyOf(i)' \cap revoked \subseteq FamilyOf(i) \cap revoked
    BY <1>6, <1>11 DEF Inv, TypeOK
  <1>18. RacersKnown'
    <2> SUFFICES ASSUME NEW s \in Requests, Refreshing(s)',
                        (FamilyOf(request[s].token) \cap revoked # {})'
                 PROVE  s \in overtaken' \/ request'[s].token \in late'
      BY DEF RacersKnown
    <2>1. s # t /\ request'[s] = request[s] /\ Refreshing(s)
      BY <1>2 DEF Refreshing
    <2>2. request[s].token \in Issued  BY <2>1 DEF Inv, Holding, Refreshing
    <2>3. FamilyOf(request[s].token) \cap revoked # {}
      BY <1>6, <1>7, <2>1, <2>2 DEF FamilyOf, Inv, TypeOK
    <2> QED  BY <1>2, <1>6, <2>1, <2>3 DEF Inv, RacersKnown
  <1>19. LoginsKnown'  BY <1>2, <1>7 DEF Inv, LoginsKnown, LoggingIn
  <1>20. StampsAhead'  BY <1>2, <1>7 DEF Inv, StampsAhead
  <1>21. FamilyOf(p) \cap revoked # {} => new \in late'
    BY <1>0, <1>1, <1>6 DEF Inv, RacersKnown, Refreshing
  <1>22. RevokedStaysRevoked'
    <2> SUFFICES ASSUME NEW i \in revoked, NEW j \in FamilyOf(i)'
                 PROVE  j \in revoked \cup late'
      BY <1>7 DEF RevokedStaysRevoked
    <2>1. i \in Issued  BY DEF Inv, TypeOK
    <2>2. CASE j \in FamilyOf(i)
      BY <1>6, <2>2 DEF Inv, RevokedStaysRevoked
    <2>3. CASE j = new
      <3>1. i \in FamilyOf(p)  BY <1>5, <1>6, <2>1, <2>3 DEF FamilyOf
      <3> QED  BY <1>21, <2>3, <3>1
    <2> QED  BY <1>11, <2>1, <2>2, <2>3
  <1>23. ResetSparesOnlyRacers'
    <2> SUFFICES ASSUME NEW i \in Issued', tokens'[i].since < resetAt[tokens'[i].user]
                 PROVE  i \in revoked \cup late'
      BY <1>7 DEF ResetSparesOnlyRacers
    <2>1. CASE i \in Issued  BY <1>6, <2>1 DEF Inv, ResetSparesOnlyRacers
    <2>2. CASE i = new
      <3>1. p \in revoked \cup late
        BY <1>1, <1>5, <1>6, <2>2 DEF Inv, ResetSparesOnlyRacers
      <3>2. p \in FamilyOf(p)  BY <1>1 DEF FamilyOf
      <3> QED  BY <1>6, <1>21, <2>2, <3>1, <3>2
    <2> QED  BY <1>6, <2>1, <2>2
  <1> QED  BY <1>8, <1>14, <1>15, <1>16, <1>18, <1>19, <1>20, <1>22, <1>23 DEF Inv

-----------------------------------------------------------------------------
(* The theorems. *)

LEMMA InvNext == Inv /\ [Next]_vars => Inv'
  <1> SUFFICES ASSUME Inv, [Next]_vars PROVE Inv'
    OBVIOUS
  <1>1. ASSUME NEW t \in Requests, RequestStep(t) PROVE Inv'
    BY <1>1, InvLoginCheck, InvCodeBegin, InvLoginRehash, InvLoginIssue, InvRefreshFind,
       InvRefreshReuse, InvRefreshUser, InvRefreshMarkUsed, InvRefreshIssue,
       InvRevokeAllForUser, InvCodeCommit, InvResetFind, InvResetClaim, InvAbort
       DEF RequestStep
  <1>2. ASSUME NEW i \in TokenIds, Logout(i) PROVE Inv'
    BY <1>2, InvLogout
  <1>3. ASSUME NEW u \in Users, SetActive(u) \/ SetPassword(u) PROVE Inv'
    BY <1>3, InvSetActive, InvSetPassword
  <1>4. CASE UNCHANGED vars
    <2>1. \A u \in Users : account[u].stamp <= account[u].stamp
      BY BoundsAssumption DEF Inv, TypeOK, Account, Stamps
    <2> QED  BY <1>4, <2>1, AccountOnly DEF vars, Inv, TypeOK
  <1> QED  BY <1>1, <1>2, <1>3, <1>4 DEF Next

\* Every reachable state satisfies the inductive invariant.
THEOREM Invariance == Spec => []Inv
  <1> QED  BY InvInit, InvNext, PTL DEF Spec

\* Every request's slot, token and code keeps its shape, whatever is in flight.
THEOREM TypeCorrect == Spec => []TypeOK
  <1>1. Inv => TypeOK  BY DEF Inv
  <1> QED  BY <1>1, Invariance, PTL

\* Rotation leaves one unused token per family that has not forked.
THEOREM OneUnused == Spec => []OneUnusedToken
  <1>1. Inv => OneUnusedToken
    <2> SUFFICES ASSUME Inv, NEW i \in Issued \ used, NEW j \in Issued \ used,
                        i # j, Family(i) = Family(j)
                 PROVE  Forked(i)
      BY DEF OneUnusedToken, Forked
    <2>1. \A k \in Issued \ used : Childless(k)
      <3> SUFFICES ASSUME NEW k \in Issued \ used, NEW c \in Children(k) PROVE FALSE
        BY DEF Childless
      <3>1. c \in Issued /\ tokens[c].parent = k  BY DEF Children
      <3>2. k # 0  BY DEF Issued
      <3> QED  BY <3>1, <3>2 DEF Inv, Lineage
    <2> QED  BY <2>1 DEF Inv, OneTip
  <1> QED  BY <1>1, Invariance, PTL

-----------------------------------------------------------------------------
(* Exchanges are counted.  An exchange turns a refresh that holds the token  *)
(* into a successor of it, and nobody takes hold of a token that has one.    *)
Rivals(i) == RefreshersOf({i})

Exchanges(i) == Cardinality(Children(i)) + Cardinality(Rivals(i))

\* Successors and rivals can be counted, and the rivals are requests.
LEMMA ExchangesCounted ==
    ASSUME TypeOK, NEW i
    PROVE  /\ IsFiniteSet(Children(i)) /\ Cardinality(Children(i)) \in Nat
           /\ IsFiniteSet(Rivals(i)) /\ Cardinality(Rivals(i)) \in Nat
           /\ Cardinality(Requests) \in Nat
           /\ Cardinality(Rivals(i)) <= Cardinality(Requests)
  <1>1. Len(tokens) \in Nat  BY DEF TypeOK
  <1>2. IsFiniteSet(1..Len(tokens))  BY <1>1, FS_Interval
  <1>3. Children(i) \in SUBSET (1..Len(tokens))  BY DEF Children, Issued
  <1>4. IsFiniteSet(Children(i))  BY <1>2, <1>3, FS_Subset
  <1>5. Rivals(i) \in SUBSET Requests  BY DEF Rivals, RefreshersOf
  <1>6. IsFiniteSet(Rivals(i)) /\ Cardinality(Rivals(i)) <= Cardinality(Requests)
    BY <1>5, RequestsAssumption, FS_Subset
  <1> QED  BY <1>4, <1>6, RequestsAssumption, FS_CardinalityType

\* A token left without a successor is within the bound, whoever holds it.
LEMMA UnexchangedBounded ==
    ASSUME NEW i, Children(i)' = {}
    PROVE  Exchanges(i)' <= Cardinality(Requests)
  <1>1. Cardinality(Children(i)') = 0  BY FS_EmptySet
  <1>2. Rivals(i)' \in SUBSET Requests  BY DEF Rivals, RefreshersOf
  <1>3. /\ Cardinality(Rivals(i)') <= Cardinality(Requests)
        /\ Cardinality(Rivals(i)') \in Nat /\ Cardinality(Requests) \in Nat
    BY <1>2, RequestsAssumption, FS_Subset, FS_CardinalityType
  <1>4. Exchanges(i)' = Cardinality(Children(i)') + Cardinality(Rivals(i)')
    BY DEF Exchanges
  <1> QED  BY <1>1, <1>3, <1>4

\* No new successor and no new rival: the bound stays.
LEMMA ExchangesKept ==
    ASSUME TypeOK, TypeOK', NEW i, Exchanges(i) <= Cardinality(Requests),
           Children(i)' = Children(i), Rivals(i)' \subseteq Rivals(i)
    PROVE  Exchanges(i)' <= Cardinality(Requests)
  <1>1. Cardinality(Rivals(i)') <= Cardinality(Rivals(i)) /\ Cardinality(Rivals(i)') \in Nat
    BY ExchangesCounted, FS_Subset, FS_CardinalityType
  <1>2. Cardinality(Children(i)') = Cardinality(Children(i))  OBVIOUS
  <1> QED  BY <1>1, <1>2, ExchangesCounted DEF Exchanges

\* The rivals of a token, one slot changed.
LEMMA RivalsKept ==
    ASSUME NEW i, NEW t \in Requests, \A s \in Requests \ {t} : request'[s] = request[s],
           t \in Rivals(i)' => t \in Rivals(i)
    PROVE  Rivals(i)' \subseteq Rivals(i)
  BY DEF Rivals, RefreshersOf, Refreshing

\* A step of a request that issues no token adds no rival, except for the
\* token a refresh finds unused, which has no successor.
LEMMA ExchangesByRequest ==
    ASSUME Inv, TypeOK', NEW t \in Requests, RequestStep(t), UNCHANGED tokens,
           NEW i \in Issued, Exchanges(i) <= Cardinality(Requests)
    PROVE  Exchanges(i)' <= Cardinality(Requests)
  <1>1. TypeOK  BY DEF Inv
  <1>2. Children(i)' = Children(i)  BY DEF Children, Issued
  <1>3. \A s \in Requests \ {t} : request'[s] = request[s]
    BY <1>1 DEF RequestStep, LoginCheck, CodeBegin, LoginRehash, LoginIssue, RefreshFind,
       RefreshReuse, RefreshUser, RefreshMarkUsed, RefreshIssue, RevokeAllForUser, CodeCommit,
       ResetFind, ResetClaim, Abort, Begins, Ends, Becomes, TypeOK
  <1>4. ASSUME NEW k \in TokenIds, RefreshFind(t, k) PROVE Exchanges(i)' <= Cardinality(Requests)
    <2>1. request'[t].token = k /\ (k \in used => request'[t].kind = "reuse")
      BY <1>1, <1>4 DEF RefreshFind, Begins, Becomes, TypeOK
    <2>2. CASE k = i /\ k \notin used
      <3>1. Children(i) = {}
        <4> SUFFICES ASSUME NEW c \in Children(i) PROVE FALSE
          OBVIOUS
        <4>1. c \in Issued /\ tokens[c].parent = i /\ i # 0  BY DEF Children, Issued
        <4> QED  BY <2>2, <4>1 DEF Inv, Lineage
      <3> QED  BY <1>2, <3>1, UnexchangedBounded
    <2>3. CASE k # i \/ k \in used
      <3>1. t \notin Rivals(i)'
        BY <2>1, <2>3 DEF Rivals, RefreshersOf, Refreshing
      <3> QED  BY <1>1, <1>2, <1>3, <3>1, RivalsKept, ExchangesKept
    <2> QED  BY <2>2, <2>3
  <1>5. CASE RefreshUser(t) \/ RefreshMarkUsed(t)
    <2>1. t \in Rivals(i)' => t \in Rivals(i)
      <3>1. CASE RefreshUser(t)
        <4>1. request[t].kind = "found"  BY <3>1 DEF RefreshUser
        <4>2. \/ request'[t] = [kind |-> "admitted", token |-> request[t].token]
              \/ request'[t].kind = "evict"
          BY <1>1, <3>1 DEF RefreshUser, Becomes, TypeOK
        <4> QED  BY <4>1, <4>2 DEF Rivals, RefreshersOf, Refreshing
      <3>2. CASE RefreshMarkUsed(t)
        <4>1. request'[t].token = request[t].token
          BY <1>1, <3>2, MarkType DEF RefreshMarkUsed
        <4> QED  BY <3>2, <4>1 DEF RefreshMarkUsed, Rivals, RefreshersOf, Refreshing
      <3> QED  BY <1>5, <3>1, <3>2
    <2> QED  BY <1>1, <1>2, <1>3, <2>1, RivalsKept, ExchangesKept
  <1>6. CASE ~Refreshing(t)'
    <2>1. t \notin Rivals(i)'  BY <1>6 DEF Rivals, RefreshersOf
    <2> QED  BY <1>1, <1>2, <1>3, <2>1, RivalsKept, ExchangesKept
  <1>7. \/ \E k \in TokenIds : RefreshFind(t, k)
        \/ RefreshUser(t) \/ RefreshMarkUsed(t) \/ ~Refreshing(t)'
    <2>1. ASSUME NEW r \in Pending, Becomes(t, r), r.kind \notin {"found", "admitted", "spent"}
          PROVE  ~Refreshing(t)'
      BY <1>1, <2>1, BecomesType DEF Refreshing
    <2>2. CASE LoginRehash(t)
      BY <1>1, <2>2, RehashType DEF LoginRehash, Refreshing
    <2>3. ASSUME NEW u \in Users, LoginCheck(t, u) PROVE ~Refreshing(t)'
      BY <1>1, <2>3 DEF LoginCheck, Begins, Becomes, Refreshing, TypeOK
    <2>4. ASSUME NEW u \in Users, CodeBegin(t, u) PROVE ~Refreshing(t)'
      BY <1>1, <2>4 DEF CodeBegin, Begins, Becomes, Refreshing, TypeOK
    <2>5. ASSUME NEW c \in CodeIds, ResetFind(t, c) PROVE ~Refreshing(t)'
      BY <1>1, <2>5 DEF ResetFind, Begins, Becomes, Refreshing, TypeOK
    <2>6. CASE ResetClaim(t)
      BY <1>1, <2>6 DEF ResetClaim, Ends, Becomes, Idle, Refreshing, TypeOK
    <2>7. CASE \/ LoginIssue(t) \/ RefreshReuse(t) \/ RefreshIssue(t)
               \/ RevokeAllForUser(t) \/ CodeCommit(t) \/ Abort(t)
      <3>1. Idle \in Pending /\ Idle.kind = "idle"  BY DEF Pending, Idle
      <3>2. Becomes(t, Idle)
        BY <2>7 DEF LoginIssue, RefreshReuse, RefreshIssue, RevokeAllForUser, CodeCommit,
           Abort, Ends
      <3> QED  BY <2>1, <3>1, <3>2
    <2> QED  BY <2>2, <2>3, <2>4, <2>5, <2>6, <2>7 DEF RequestStep
  <1> QED  BY <1>4, <1>5, <1>6, <1>7

\* An exchange: the refresh that held the token is replaced by its successor.
LEMMA ExchangesByIssue ==
    ASSUME Inv, TypeOK', NEW t \in Requests, LoginIssue(t) \/ RefreshIssue(t),
           \A k \in Issued : Exchanges(k) <= Cardinality(Requests),
           NEW i \in Issued'
    PROVE  Exchanges(i)' <= Cardinality(Requests)
  <1> DEFINE new == Len(tokens) + 1
             p   == IF RefreshIssue(t) THEN request[t].token ELSE 0
             row == tokens'[new]
  <1>1. TypeOK  BY DEF Inv
  <1>2. /\ \A s \in Requests \ {t} : request'[s] = request[s]
        /\ t \notin Rivals(i)'
    BY <1>1, Ended DEF LoginIssue, RefreshIssue, Rivals, RefreshersOf, Refreshing, Idle
  <1>3. /\ Issued' = Issued \cup {new} /\ new \notin Issued /\ new # 0
        /\ \A k \in Issued : tokens'[k] = tokens[k]
        /\ row.parent = p
    <2>1. CASE RefreshIssue(t)
      <3>1. request[t].token \in Issued  BY <2>1 DEF Inv, Holding, RefreshIssue
      <3>2. tokens[request[t].token] \in Token /\ request[t].token \in TokenIds
        BY <1>1, <3>1, TokenFields
      <3>3. [tokens[request[t].token] EXCEPT !.parent = request[t].token] \in Token
        BY <3>2 DEF Token
      <3>4. Insert(t, [tokens[request[t].token] EXCEPT !.parent = request[t].token],
                   request[t].token \in late)
        BY <2>1 DEF RefreshIssue
      <3>5. [tokens[request[t].token] EXCEPT !.parent = request[t].token].parent = request[t].token
        BY <3>2 DEF Token
      <3>6. p = request[t].token  BY <2>1
      <3>7. /\ Issued' = Issued \cup {new} /\ new \notin Issued /\ Len(tokens) \in Nat
            /\ \A k \in Issued : tokens'[k] = tokens[k]
            /\ row = [tokens[request[t].token] EXCEPT !.parent = request[t].token]
        BY <1>1, <3>3, <3>4, Inserted
      <3> QED  BY <3>5, <3>6, <3>7
    <2>2. CASE LoginIssue(t) /\ ~RefreshIssue(t)
      <3>1. request[t].user \in Users /\ request[t].stamp \in Stamps
        BY <1>1, <2>2, RequestFields DEF LoginIssue, LoggingIn
      <3>2. Len(tokens) + 1 \in TokenIds /\ Len(tokens) \in Nat
        BY <1>1, <2>2, BoundsAssumption DEF LoginIssue, Insert, TypeOK, TokenIds
      <3>3. [user |-> request[t].user, family |-> Len(tokens) + 1, parent |-> 0,
             since |-> request[t].stamp] \in Token
        BY <3>1, <3>2 DEF Token
      <3>4. Insert(t, [user |-> request[t].user, family |-> Len(tokens) + 1, parent |-> 0,
                       since |-> request[t].stamp], FALSE)
        BY <2>2 DEF LoginIssue
      <3>5. p = 0  BY <2>2
      <3>6. /\ Issued' = Issued \cup {new} /\ new \notin Issued /\ Len(tokens) \in Nat
            /\ \A k \in Issued : tokens'[k] = tokens[k]
            /\ row = [user |-> request[t].user, family |-> Len(tokens) + 1, parent |-> 0,
                      since |-> request[t].stamp]
        BY <1>1, <3>3, <3>4, Inserted
      <3> QED  BY <3>5, <3>6
    <2> QED  BY <2>1, <2>2
  <1>4. p # 0 => p \in Issued /\ t \in Rivals(p)
    BY DEF Inv, Holding, RefreshIssue, Rivals, RefreshersOf, Refreshing
  <1>5. CASE i = new
    <2>1. Children(i)' = {}
      <3> SUFFICES ASSUME NEW c \in Children(i)' PROVE FALSE
        OBVIOUS
      <3>1. c \in Issued' /\ tokens'[c].parent = new  BY <1>5 DEF Children
      <3>2. CASE c = new
        BY <1>3, <1>4, <3>1, <3>2
      <3>3. CASE c \in Issued
        BY <1>1, <1>3, <3>1, <3>3 DEF Inv, Lineage, TypeOK
      <3> QED  BY <1>3, <3>1, <3>2, <3>3
    <2> QED  BY <2>1, UnexchangedBounded
  <1>6. CASE i \in Issued /\ i # p
    <2>1. Children(i)' = Children(i)
      BY <1>3, <1>6 DEF Children
    <2> QED  BY <1>1, <1>2, <1>6, <2>1, RivalsKept, ExchangesKept
  <1>7. CASE i \in Issued /\ i = p
    <2>1. i # 0  BY <1>7 DEF Issued
    <2>2. Children(i)' = Children(i) \cup {new} /\ new \notin Children(i)
      BY <1>3, <1>7 DEF Children
    <2>3. Rivals(i)' = Rivals(i) \ {t}
      BY <1>2 DEF Rivals, RefreshersOf, Refreshing
    <2>4. Cardinality(Children(i)') = Cardinality(Children(i)) + 1
      BY <1>1, <2>2, ExchangesCounted, FS_AddElement
    <2>5. Cardinality(Rivals(i)') = Cardinality(Rivals(i)) - 1
      BY <1>1, <1>4, <1>7, <2>1, <2>3, ExchangesCounted, FS_RemoveElement
    <2> QED  BY <1>1, <1>7, <2>4, <2>5, ExchangesCounted DEF Exchanges
  <1> QED  BY <1>3, <1>5, <1>6, <1>7

\* A token is exchanged by refreshes that all held it at once, each once.
THEOREM ExchangedByRivals == Spec => []ExchangedByRivalsOnly
  <1>1. Init => ExchangedByRivalsOnly
    <2> SUFFICES ASSUME Init PROVE ExchangedByRivalsOnly
      OBVIOUS
    <2>1. Issued = {}  BY DEF Init, Issued
    <2> QED  BY <2>1 DEF ExchangedByRivalsOnly
  <1>2. Inv /\ TypeOK' /\ ExchangedByRivalsOnly /\ [Next]_vars => ExchangedByRivalsOnly'
    <2> SUFFICES ASSUME Inv, TypeOK', [Next]_vars, NEW i \in Issued',
                        \A k \in Issued : Exchanges(k) <= Cardinality(Requests)
                 PROVE  Exchanges(i)' <= Cardinality(Requests)
      BY DEF ExchangedByRivalsOnly, Exchanges, Rivals
    <2>1. TypeOK  BY DEF Inv
    <2>2. ASSUME NEW t \in Requests, LoginIssue(t) \/ RefreshIssue(t)
          PROVE  Exchanges(i)' <= Cardinality(Requests)
      BY <2>2, ExchangesByIssue
    <2>3. ASSUME NEW t \in Requests, RequestStep(t), ~LoginIssue(t), ~RefreshIssue(t)
          PROVE  Exchanges(i)' <= Cardinality(Requests)
      <3>1. UNCHANGED tokens
        BY <2>3 DEF RequestStep, LoginCheck, CodeBegin, LoginRehash, RefreshFind,
           RefreshReuse, RefreshUser, RefreshMarkUsed, RevokeAllForUser, CodeCommit,
           ResetFind, ResetClaim, Abort
      <3>2. i \in Issued  BY <3>1 DEF Issued
      <3> QED  BY <2>3, <3>1, <3>2, ExchangesByRequest
    <2>4. CASE UNCHANGED <<tokens, request>>
      <3>1. i \in Issued /\ Children(i)' = Children(i) /\ Rivals(i)' = Rivals(i)
        BY <2>4 DEF Issued, Children, Rivals, RefreshersOf, Refreshing
      <3> QED  BY <2>1, <3>1, ExchangesKept
    <2>5. \/ \E t \in Requests : RequestStep(t)
          \/ UNCHANGED <<tokens, request>>
      BY DEF Next, Logout, SetActive, SetPassword, vars
    <2> QED  BY <2>2, <2>3, <2>4, <2>5
  <1>3. Inv => TypeOK  BY DEF Inv
  <1> QED  BY <1>1, <1>2, <1>3, Invariance, PTL DEF Spec

\* A revoked family refreshes no more, but for the racers.
THEOREM RevocationLasts == Spec => []RevokedStaysRevoked
  <1>1. Inv => RevokedStaysRevoked  BY DEF Inv
  <1> QED  BY <1>1, Invariance, PTL

\* A completed reset ends every older session, but for the racers.
THEOREM ResetEnds == Spec => []ResetSparesOnlyRacers
  <1>1. Inv => ResetSparesOnlyRacers  BY DEF Inv
  <1> QED  BY <1>1, Invariance, PTL

=============================================================================
