---------------------------- MODULE LoginsProofs ----------------------------
(***************************************************************************)
(* Theorems about Logins, for any number of handlers, tenants, users and   *)
(* tokens.                                                                 *)
(***************************************************************************)
EXTENDS Logins, TLAPS

-----------------------------------------------------------------------------
\* The inductive invariant.

\* What a request has read determines what it may do next.
RequestOK ==
    \A h \in Handlers :
        /\ pc[h] = "user" => req[h].tenant \in Tenants /\ req[h].name # None
        /\ pc[h] = "label" => req[h].tenant \in Tenants
        /\ pc[h] = "delete" => req[h].user \in UserIds
        /\ pc[h] \in {"expire", "rotate", "issue"} =>
              req[h].user \in UserIds /\ users[req[h].user].row # "none"
        /\ pc[h] \in {"expire", "rotate"} =>
              req[h].kind = "refresh" /\ req[h].token \in TokenIds
        /\ Exchanging(h) => req[h].family \in TokenIds
        /\ pc[h] = "issue" => /\ req[h].kind \in {"login", "refresh"}
                              /\ req[h].kind = "login" => req[h].generation = 1
                              /\ req[h].issued <= now

\* A token that has been issued has an owner and a session.
TokensOK ==
    \A t \in TokenIds : tokens[t].row # "none" =>
        tokens[t].user \in UserIds /\ tokens[t].family \in TokenIds

\* No access token outlives its user by more than its own life.
AccessOK ==
    \A u \in UserIds :
        /\ users[u].access <= now + AccessLife
        /\ users[u].row = "deleted" => users[u].access <= users[u].left + AccessLife

TypeInv == TypeOK /\ RequestOK /\ TokensOK /\ TokensHaveUsers /\ AccessOK

\* The session of an issued token, or of a token that is being exchanged, began with
\* a token that has been issued, and an exchange continues from a generation that
\* has been issued.
SessionInv ==
    /\ \A t \in TokenIds : tokens[t].row # "none" => tokens[tokens[t].family].row # "none"
    /\ \A h \in Handlers : Exchanging(h) =>
          /\ tokens[req[h].family].row # "none"
          /\ \E g \in Generations[req[h].family] :
                req[h].generation = IF pc[h] = "rotate" THEN g ELSE g + 1

-----------------------------------------------------------------------------
\* The record of an idle handler is a request record.
LEMMA NoRequestType == NoRequest \in RequestType
BY DEF NoRequest, RequestType

\* The initial state satisfies the invariant.
LEMMA InitType == Init => TypeInv
BY NoRequestType, LoginsAssumption
   DEF Init, TypeInv, TypeOK, RequestOK, TokensOK, TokensHaveUsers, AccessOK, HasToken, HasUser,
       NoUser, UserType, NoToken, TokenType, Pcs, Exchanging

\* A handler that returns or goes on to its next await leaves the others alone.
LEMMA ReturnType ==
    ASSUME TypeInv, NEW h \in Handlers, Return(h)
    PROVE  /\ pc' \in [Handlers -> Pcs] /\ req' \in [Handlers -> RequestType]
           /\ todo' \in [Handlers -> SUBSET DefaultLabels]
           /\ pc'[h] = "idle"
           /\ \A k \in Handlers : k # h => pc'[k] = pc[k] /\ req'[k] = req[k]
BY NoRequestType DEF TypeInv, TypeOK, Return, Pcs

LEMMA GotoType ==
    ASSUME TypeInv, NEW h \in Handlers, NEW at \in Pcs, NEW r \in RequestType, Goto(h, at, r)
    PROVE  /\ pc' \in [Handlers -> Pcs] /\ req' \in [Handlers -> RequestType]
           /\ todo' \in [Handlers -> SUBSET DefaultLabels]
           /\ pc'[h] = at /\ req'[h] = r
           /\ \A k \in Handlers : k # h => pc'[k] = pc[k] /\ req'[k] = req[k]
BY DEF TypeInv, TypeOK, Goto

\* The reads and the insert that begin a request keep the invariant.
LEMMA BeginType ==
    ASSUME TypeInv, NEW h \in Handlers, Begin(h)
    PROVE  TypeInv'
<1> USE LoginsAssumption
<1>1. ASSUME NEW s \in Tenants, CreateTenant(h, s)
      PROVE  TypeInv'
  <2> DEFINE r == [NoRequest EXCEPT !.kind = "tenant", !.tenant = s, !.name = Admin]
  <2>1. r \in RequestType /\ r.tenant = s /\ r.name = Admin
    BY DEF NoRequest, RequestType, Kinds
  <2>2. TypeOK'
    BY <1>1, <2>1 DEF CreateTenant, TypeInv, TypeOK, Pcs
  <2>3. RequestOK'
    BY <1>1, <2>1 DEF CreateTenant, TypeInv, TypeOK, RequestOK, Exchanging
  <2> QED
    BY <1>1, <2>2, <2>3 DEF CreateTenant, TypeInv, TokensOK, TokensHaveUsers, AccessOK, HasToken, HasUser
<1>2. ASSUME NEW a \in UserIds, NEW s \in Tenants, NEW n \in Names, CreateMember(h, a, s, n)
      PROVE  TypeInv'
  <2> DEFINE r == [NoRequest EXCEPT !.kind = "member", !.tenant = s, !.name = n]
  <2>1. r \in RequestType /\ r.tenant = s /\ r.name = n
    BY DEF NoRequest, RequestType, Kinds
  <2>2. Goto(h, "user", r) /\ UNCHANGED <<tables, now>>
    BY <1>2 DEF CreateMember
  <2> HIDE DEF r
  <2>3. TypeOK' /\ RequestOK'
    BY <2>1, <2>2, GotoType DEF TypeInv, TypeOK, RequestOK, Exchanging, tables, Pcs
  <2> QED
    BY <2>2, <2>3 DEF TypeInv, TokensOK, TokensHaveUsers, AccessOK, HasToken, HasUser, tables
<1>3. ASSUME NEW a \in UserIds, NEW u \in UserIds, DeleteMember(h, a, u)
      PROVE  TypeInv'
  <2> DEFINE r == [NoRequest EXCEPT !.kind = "remove", !.user = u]
  <2>1. r \in RequestType /\ r.user = u
    BY DEF NoRequest, RequestType, Kinds
  <2>2. Goto(h, "delete", r) /\ UNCHANGED <<tables, now>>
    BY <1>3 DEF DeleteMember
  <2> HIDE DEF r
  <2>3. TypeOK' /\ RequestOK'
    BY <2>1, <2>2, GotoType DEF TypeInv, TypeOK, RequestOK, Exchanging, tables, Pcs
  <2> QED
    BY <2>2, <2>3 DEF TypeInv, TokensOK, TokensHaveUsers, AccessOK, HasToken, HasUser, tables
<1>4. ASSUME NEW u \in UserIds, Login(h, u)
      PROVE  TypeInv'
  <2> DEFINE r == [NoRequest EXCEPT !.kind = "login", !.user = u, !.generation = 1, !.issued = now]
  <2>1. r \in RequestType /\ r.kind = "login" /\ r.user = u /\ r.generation = 1 /\ r.issued = now
    BY DEF NoRequest, RequestType, Kinds, TypeInv, TypeOK
  <2>2. Goto(h, "issue", r) /\ HasUser(u) /\ UNCHANGED <<tables, now>>
    BY <1>4 DEF Login
  <2> HIDE DEF r
  <2>3. TypeOK' /\ RequestOK'
    BY <2>1, <2>2, GotoType DEF TypeInv, TypeOK, RequestOK, Exchanging, tables, Pcs, HasUser
  <2> QED
    BY <2>2, <2>3 DEF TypeInv, TokensOK, TokensHaveUsers, AccessOK, HasToken, HasUser, tables
<1>5. ASSUME NEW t \in TokenIds, RefreshRead(h, t)
      PROVE  TypeInv'
  <2> DEFINE old == tokens[t]
             at == IF old.expires < now THEN "expire" ELSE "rotate"
             r == [NoRequest EXCEPT !.kind = "refresh", !.user = old.user, !.token = t,
                                    !.family = old.family, !.generation = old.generation]
  <2>1. /\ old \in TokenType /\ old.row # "none"
        /\ old.user \in UserIds /\ old.family \in TokenIds
    BY <1>5 DEF RefreshRead, HasToken, TypeInv, TypeOK, TokensOK
  <2>2. /\ r \in RequestType /\ r.kind = "refresh" /\ r.user = old.user /\ r.token = t
        /\ r.family = old.family
    BY <2>1 DEF NoRequest, RequestType, Kinds, TokenType
  <2>3. Goto(h, at, r) /\ HasUser(old.user) /\ UNCHANGED <<tables, now>>
    BY <1>5 DEF RefreshRead
  <2>4. at \in {"expire", "rotate"}
    OBVIOUS
  <2> HIDE DEF r, old, at
  <2>5. TypeOK' /\ RequestOK'
    BY <2>1, <2>2, <2>3, <2>4, GotoType
       DEF TypeInv, TypeOK, RequestOK, Exchanging, tables, Pcs, HasUser
  <2> QED
    BY <2>3, <2>5 DEF TypeInv, TokensOK, TokensHaveUsers, AccessOK, HasToken, HasUser, tables
<1> QED
  BY <1>1, <1>2, <1>3, <1>4, <1>5 DEF Begin

\* A step that at most takes tokens out of the table.
TokensShrink ==
    /\ tokens' \in [TokenIds -> TokenType]
    /\ \A t \in TokenIds :
          /\ tokens'[t].user = tokens[t].user
          /\ tokens'[t].family = tokens[t].family
          /\ tokens'[t].generation = tokens[t].generation
          /\ tokens'[t].row = "none" <=> tokens[t].row = "none"
          /\ tokens'[t].row = "stored" => tokens[t].row = "stored"

LEMMA UnchangedShrinks ==
    ASSUME TypeInv, tokens' = tokens
    PROVE  TokensShrink
BY DEF TypeInv, TypeOK, TokensShrink

\* What taking one token out of the table makes of its row.
LEMMA GoneRow ==
    ASSUME TypeInv, NEW t \in TokenIds
    PROVE  LET r == [tokens[t] EXCEPT !.row = "gone"]
           IN  /\ tokens[t] \in TokenType /\ r \in TokenType
               /\ r.row = "gone" /\ r.user = tokens[t].user
               /\ r.family = tokens[t].family /\ r.generation = tokens[t].generation
BY DEF TypeInv, TypeOK, TokenType

\* delete_refresh_token
LEMMA GoneShrinks ==
    ASSUME TypeInv, NEW t \in TokenIds, tokens' = Gone(t)
    PROVE  TokensShrink /\ tokens'[t].row # "stored"
<1>1. CASE HasToken(t)
  <2> DEFINE r == [tokens[t] EXCEPT !.row = "gone"]
  <2>1. /\ tokens[t] \in TokenType /\ r \in TokenType /\ r.row = "gone"
        /\ r.user = tokens[t].user /\ r.family = tokens[t].family
        /\ r.generation = tokens[t].generation
    BY GoneRow
  <2>2. tokens' = [tokens EXCEPT ![t] = r] /\ tokens \in [TokenIds -> TokenType]
    BY <1>1 DEF Gone, TypeInv, TypeOK
  <2> HIDE DEF r
  <2> QED
    BY <1>1, <2>1, <2>2 DEF TokensShrink, HasToken
<1>2. CASE ~HasToken(t)
  BY <1>2, UnchangedShrinks DEF Gone, HasToken
<1> QED
  BY <1>1, <1>2

\* The cascade of user_repo.delete
LEMMA WithoutShrinks ==
    ASSUME TypeInv, NEW u \in UserIds, tokens' = TokensWithout(u)
    PROVE  /\ TokensShrink
           /\ \A t \in TokenIds : tokens'[t].row = "stored" => tokens'[t].user # u
<1>1. \A t \in TokenIds :
          /\ tokens[t] \in TokenType
          /\ [tokens[t] EXCEPT !.row = "gone"] \in TokenType
          /\ [tokens[t] EXCEPT !.row = "gone"].row = "gone"
          /\ [tokens[t] EXCEPT !.row = "gone"].user = tokens[t].user
          /\ [tokens[t] EXCEPT !.row = "gone"].family = tokens[t].family
          /\ [tokens[t] EXCEPT !.row = "gone"].generation = tokens[t].generation
  BY DEF TypeInv, TypeOK, TokenType
<1>2. /\ tokens' \in [TokenIds -> TokenType]
      /\ \A t \in TokenIds : tokens'[t] =
            IF HasToken(t) /\ tokens[t].user = u
            THEN [tokens[t] EXCEPT !.row = "gone"] ELSE tokens[t]
  BY <1>1 DEF TokensWithout
<1> QED
  BY <1>1, <1>2 DEF TokensShrink, HasToken

\* A request that returns and at most takes tokens out of the table keeps the invariant.
LEMMA ReturnKeeps ==
    ASSUME TypeInv, NEW h \in Handlers, Return(h), TokensShrink,
           tenants' = tenants, labels' = labels, users' = users, now' = now
    PROVE  TypeInv'
<1>1. TypeOK' /\ RequestOK'
  BY ReturnType DEF TypeInv, TypeOK, RequestOK, Exchanging, TokensShrink
<1> QED
  BY <1>1 DEF TypeInv, TokensShrink, TokensOK, TokensHaveUsers, AccessOK, HasToken, HasUser

\* The steps of a request in flight keep the invariant.
LEMMA ContinueType ==
    ASSUME TypeInv, NEW h \in Handlers, Continue(h)
    PROVE  TypeInv'
<1> USE LoginsAssumption
<1>1. ASSUME NEW u \in UserIds, InsertUser(h, u)
      PROVE  TypeInv'
  <2> DEFINE r == req[h]
             row == [NoUser EXCEPT !.row = "stored", !.tenant = r.tenant, !.name = r.name]
  <2>1. /\ r \in RequestType /\ r.tenant \in Tenants /\ pc[h] = "user" /\ users[u].row = "none"
        /\ UNCHANGED <<tenants, labels, tokens, now>>
    BY <1>1 DEF InsertUser, TypeInv, TypeOK, RequestOK
  <2>2. row \in UserType /\ row.row = "stored" /\ row.access = 0 /\ row.left = 0
    BY <2>1 DEF NoUser, UserType, RequestType
  <2>3. \/ users' = [users EXCEPT ![u] = row] /\ (Goto(h, "label", r) \/ Return(h))
        \/ users' = users /\ Return(h)
    BY <1>1 DEF InsertUser
  <2> HIDE DEF row, r
  <2>4. /\ pc' \in [Handlers -> Pcs] /\ req' \in [Handlers -> RequestType]
        /\ todo' \in [Handlers -> SUBSET DefaultLabels]
        /\ pc'[h] = "idle" \/ (pc'[h] = "label" /\ req'[h] = r)
        /\ \A k \in Handlers : k # h => pc'[k] = pc[k] /\ req'[k] = req[k]
    <3>1. "label" \in Pcs
      BY DEF Pcs
    <3>2. CASE Goto(h, "label", r)
      BY <2>1, <3>1, <3>2, GotoType
    <3>3. CASE Return(h)
      BY <3>3, ReturnType
    <3> QED
      BY <2>3, <3>2, <3>3
  <2>5. /\ users' \in [UserIds -> UserType]
        /\ users'[u] = users[u] \/ users'[u] = row
        /\ \A v \in UserIds : v # u => users'[v] = users[v]
    BY <2>2, <2>3 DEF TypeInv, TypeOK
  <2>6. TypeOK' /\ RequestOK'
    BY <2>1, <2>2, <2>4, <2>5 DEF TypeInv, TypeOK, RequestOK, Exchanging
  <2>7. TokensOK' /\ TokensHaveUsers'
    BY <2>1, <2>2, <2>5 DEF TypeInv, TokensOK, TokensHaveUsers, HasToken, HasUser
  <2>8. AccessOK'
    BY <2>1, <2>2, <2>5 DEF TypeInv, TypeOK, AccessOK
  <2> QED
    BY <2>6, <2>7, <2>8 DEF TypeInv
<1>2. ASSUME NEW l \in DefaultLabels, InsertLabel(h, l)
      PROVE  TypeInv'
  <2>1. TypeOK'
    BY <1>2 DEF InsertLabel, TypeInv, TypeOK, RequestOK
  <2> QED
    BY <1>2, <2>1 DEF InsertLabel, TypeInv, RequestOK, TokensOK, TokensHaveUsers, AccessOK,
                      HasToken, HasUser, Exchanging
<1>3. ASSUME TenantCreated(h)
      PROVE  TypeInv'
  <2>1. Return(h) /\ UNCHANGED <<tenants, labels, users, now, tokens>>
    BY <1>3 DEF TenantCreated, tables
  <2> QED
    BY <2>1, UnchangedShrinks, ReturnKeeps
<1>4. ASSUME RemoveUser(h)
      PROVE  TypeInv'
  <2> DEFINE u == req[h].user
             row == [users[u] EXCEPT !.row = "deleted", !.left = now]
  <2>1. u \in UserIds
    BY <1>4 DEF RemoveUser, TypeInv, RequestOK
  <2>2. CASE ~HasUser(u)
    <3>1. Return(h) /\ UNCHANGED <<tenants, labels, users, now, tokens>>
      BY <1>4, <2>2 DEF RemoveUser
    <3> QED
      BY <3>1, UnchangedShrinks, ReturnKeeps
  <2>3. CASE HasUser(u)
    <3>1. /\ users' = [users EXCEPT ![u] = row] /\ tokens' = TokensWithout(u)
          /\ Return(h) /\ UNCHANGED <<tenants, labels, now>>
      BY <1>4, <2>3 DEF RemoveUser
    <3>2. /\ row \in UserType /\ row.row = "deleted" /\ row.left = now
          /\ row.access = users[u].access
      BY <2>1 DEF TypeInv, TypeOK, UserType
    <3> HIDE DEF row, u
    <3>3. /\ users' \in [UserIds -> UserType] /\ users'[u] = row
          /\ \A v \in UserIds : v # u => users'[v] = users[v]
      BY <2>1, <3>1, <3>2 DEF TypeInv, TypeOK
    <3>4. /\ TokensShrink
          /\ \A t \in TokenIds : tokens'[t].row = "stored" => tokens'[t].user # u
      BY <2>1, <3>1, WithoutShrinks
    <3>7. TypeOK' /\ RequestOK'
      BY <2>1, <3>1, <3>2, <3>3, <3>4, ReturnType
         DEF TypeInv, TypeOK, RequestOK, Exchanging, TokensShrink
    <3>8. TokensOK' /\ TokensHaveUsers'
      BY <3>3, <3>4 DEF TypeInv, TokensShrink, TokensOK, TokensHaveUsers, HasToken, HasUser
    <3>9. AccessOK'
      BY <3>1, <3>2, <3>3 DEF TypeInv, TypeOK, AccessOK
    <3> QED
      BY <3>7, <3>8, <3>9 DEF TypeInv
  <2> QED
    BY <2>2, <2>3
<1>5. ASSUME Expire(h)
      PROVE  TypeInv'
  <2>1. req[h].token \in TokenIds
    BY <1>5 DEF Expire, TypeInv, RequestOK
  <2> QED
    BY <1>5, <2>1, GoneShrinks, ReturnKeeps DEF Expire
<1>6. ASSUME Rotate(h)
      PROVE  TypeInv'
  <2> DEFINE r == [req[h] EXCEPT !.generation = req[h].generation + 1, !.issued = now]
  <2>0. /\ req[h] \in RequestType /\ now \in Nat
        /\ req[h].generation \in Nat /\ req[h].generation + 1 \in Nat
    BY DEF TypeInv, TypeOK, RequestType
  <2>1. /\ r \in RequestType /\ r.kind = req[h].kind /\ r.user = req[h].user
        /\ r.family = req[h].family /\ r.issued = now
    BY <2>0 DEF RequestType
  <2>2. /\ pc[h] = "rotate" /\ req[h].token \in TokenIds
        /\ tokens' = Gone(req[h].token) /\ Goto(h, "issue", r)
        /\ UNCHANGED <<tenants, labels, users, now>>
    BY <1>6 DEF Rotate, TypeInv, RequestOK
  <2> HIDE DEF r
  <2>3. TokensShrink
    BY <2>2, GoneShrinks
  <2>5. req[h].kind = "refresh"
    BY <2>2 DEF TypeInv, RequestOK
  <2>6. TypeOK' /\ RequestOK'
    BY <2>1, <2>2, <2>3, <2>5, GotoType DEF TypeInv, TypeOK, RequestOK, Exchanging, Pcs, TokensShrink
  <2> QED
    BY <2>2, <2>3, <2>6 DEF TypeInv, TokensShrink, TokensOK, TokensHaveUsers, AccessOK, HasToken, HasUser
<1>7. ASSUME NEW t \in TokenIds, IssueTokenPair(h, t)
      PROVE  TypeInv'
  <2> DEFINE u == req[h].user
             row == [users[u] EXCEPT !.access = Later(users[u].access, req[h].issued + AccessLife)]
  <2>1. /\ u \in UserIds /\ req[h] \in RequestType /\ users[u] \in UserType
        /\ pc[h] = "issue" /\ tokens[t].row = "none" /\ req[h].issued <= now
        /\ req[h].kind \in {"login", "refresh"}
        /\ req[h].kind = "refresh" => req[h].family \in TokenIds
        /\ now \in Nat
    BY <1>7 DEF IssueTokenPair, TypeInv, TypeOK, RequestOK, Exchanging
  <2>2. CASE ~HasUser(u)
    <3>1. Return(h) /\ UNCHANGED <<tenants, labels, users, now, tokens>>
      BY <1>7, <2>2 DEF IssueTokenPair
    <3> QED
      BY <3>1, UnchangedShrinks, ReturnKeeps
  <2>3. CASE HasUser(u)
    <3>1. /\ users' = [users EXCEPT ![u] = row] /\ tokens' = [tokens EXCEPT ![t] = NewToken(h, t)]
          /\ Return(h) /\ UNCHANGED <<tenants, labels, now>>
      BY <1>7, <2>3 DEF IssueTokenPair
    <3>2. /\ row \in UserType /\ row.row = "stored"
          /\ row.access <= now + AccessLife
      BY <2>1, <2>3 DEF UserType, RequestType, Later, HasUser, TypeInv, AccessOK
    <3>3. /\ NewToken(h, t) \in TokenType /\ NewToken(h, t).user = u
          /\ NewToken(h, t).family \in TokenIds
      BY <2>1 DEF NewToken, TokenType, RequestType
    <3> HIDE DEF row, u
    <3>4. /\ users' \in [UserIds -> UserType] /\ users'[u] = row
          /\ \A v \in UserIds : v # u => users'[v] = users[v]
      BY <2>1, <3>1, <3>2 DEF TypeInv, TypeOK
    <3>5. /\ tokens' \in [TokenIds -> TokenType] /\ tokens'[t] = NewToken(h, t)
          /\ \A x \in TokenIds : x # t => tokens'[x] = tokens[x]
      BY <3>1, <3>3 DEF TypeInv, TypeOK
    <3>6. TypeOK' /\ RequestOK'
      BY <3>1, <3>2, <3>4, <3>5, ReturnType DEF TypeInv, TypeOK, RequestOK, Exchanging
    <3>7. TokensOK' /\ TokensHaveUsers'
      BY <2>1, <3>2, <3>3, <3>4, <3>5 DEF TypeInv, TokensOK, TokensHaveUsers, HasToken, HasUser
    <3>8. AccessOK'
      BY <3>1, <3>2, <3>4 DEF TypeInv, TypeOK, AccessOK
    <3> QED
      BY <3>6, <3>7, <3>8 DEF TypeInv
  <2> QED
    BY <2>2, <2>3
<1> QED
  BY <1>1, <1>2, <1>3, <1>4, <1>5, <1>6, <1>7 DEF Continue

\* logout, a failing request and the clock keep the invariant, and so does a step
\* that changes nothing.
LEMMA OtherType ==
    ASSUME TypeInv,
           \/ \E t \in TokenIds : Logout(t)
           \/ \E h \in Handlers : Fail(h)
           \/ Tick
           \/ UNCHANGED vars
    PROVE  TypeInv'
<1> USE LoginsAssumption
<1>0. tokens \in [TokenIds -> TokenType] /\ now \in Nat
  BY DEF TypeInv, TypeOK
<1>1. ASSUME NEW t \in TokenIds, Logout(t)
      PROVE  TypeInv'
  <2>1. tokens' = Gone(t) /\ UNCHANGED <<tenants, labels, users, now, pc, req, todo>>
    BY <1>1 DEF Logout, locals
  <2>2. TokensShrink
    BY <2>1, GoneShrinks
  <2>3. TypeOK'
    BY <2>1, <2>2 DEF TypeInv, TypeOK, TokensShrink
  <2> QED
    BY <2>1, <2>2, <2>3 DEF TypeInv, TokensShrink, RequestOK, Exchanging, TokensOK,
                            TokensHaveUsers, AccessOK, HasToken, HasUser
<1>2. ASSUME NEW h \in Handlers, Fail(h)
      PROVE  TypeInv'
  <2>1. Return(h) /\ UNCHANGED <<tenants, labels, users, now, tokens>>
    BY <1>2 DEF Fail, tables
  <2> QED
    BY <2>1, UnchangedShrinks, ReturnKeeps
<1>3. ASSUME Tick
      PROVE  TypeInv'
  <2>1. now' = now + 1 /\ UNCHANGED <<tenants, labels, users, tokens, pc, req, todo>>
    BY <1>3 DEF Tick, tables, locals
  <2>2. TypeOK'
    BY <1>0, <2>1 DEF TypeInv, TypeOK
  <2>3. \A h \in Handlers : req[h].issued \in Nat
    BY DEF TypeInv, TypeOK, RequestType
  <2>4. RequestOK'
    BY <1>0, <2>1, <2>3 DEF TypeInv, RequestOK, Exchanging
  <2>5. \A u \in UserIds : users[u].access \in Nat
    BY DEF TypeInv, TypeOK, UserType
  <2>6. AccessOK'
    BY <1>0, <2>1, <2>5 DEF TypeInv, AccessOK
  <2> QED
    BY <2>1, <2>2, <2>4, <2>6 DEF TypeInv, TokensOK, TokensHaveUsers, HasToken, HasUser
<1>4. ASSUME UNCHANGED vars
      PROVE  TypeInv'
  BY <1>4 DEF vars, tables, locals, TypeInv, TypeOK, RequestOK, Exchanging, TokensOK,
              TokensHaveUsers, AccessOK, HasToken, HasUser
<1> QED
  BY <1>1, <1>2, <1>3, <1>4

\* Every step keeps the invariant.
LEMMA NextType == TypeInv /\ [Next]_vars => TypeInv'
BY BeginType, ContinueType, OtherType DEF Next

LEMMA TypeInvariant == Spec => []TypeInv
BY InitType, NextType, PTL DEF Spec

-----------------------------------------------------------------------------
\* The tables of tenants, users and tokens hold rows of their types, and requests
\* keep only such rows across their awaits.
THEOREM LoginsTypeCorrect == Spec => []TypeOK
<1>1. TypeInv => TypeOK
  BY DEF TypeInv
<1> QED
  BY <1>1, TypeInvariant, PTL

\* delete_member, logins and refreshes in any order leave no token without its user.
THEOREM TokensKeepTheirUsers == Spec => []TokensHaveUsers
<1>1. TypeInv => TokensHaveUsers
  BY DEF TypeInv
<1> QED
  BY <1>1, TypeInvariant, PTL

\* Whatever login or refresh of a member is under way when delete_member runs, the
\* member is shut out one access-token life later.
THEOREM DeletedMemberShutOut == Spec => []FormerMemberShutOut
<1>1. TypeInv => FormerMemberShutOut
  <2> SUFFICES ASSUME TypeInv, NEW u \in UserIds, users[u].row = "deleted", users[u].access > now
               PROVE  now < users[u].left + AccessLife
    BY DEF FormerMemberShutOut, Authenticated
  <2>1. users[u].access \in Nat /\ users[u].left \in Nat /\ now \in Nat /\ AccessLife \in Nat
    BY LoginsAssumption DEF TypeInv, TypeOK, UserType
  <2>2. users[u].access <= users[u].left + AccessLife
    BY DEF TypeInv, AccessOK
  <2> QED
    BY <2>1, <2>2
<1> QED
  BY <1>1, TypeInvariant, PTL

-----------------------------------------------------------------------------
\* Logins implements LoginSessions.

\* A step that hands out no refresh token: tokens leave the table at most, no
\* session gets a user back, and an exchange begins with a token of the table or
\* goes on from the generation it has read.
Quiet ==
    /\ TokensShrink
    /\ \A u \in UserIds : users[u].row # "none" /\ HasUser(u)' => HasUser(u)
    /\ \A h \in Handlers : Exchanging(h)' =>
          \/ /\ Exchanging(h)
             /\ req'[h].family = req[h].family /\ req'[h].user = req[h].user
             /\ req'[h].token = req[h].token
             /\ \/ pc'[h] = pc[h] /\ req'[h].generation = req[h].generation
                \/ /\ pc[h] = "rotate" /\ pc'[h] = "issue"
                   /\ req'[h].generation = req[h].generation + 1
                   /\ tokens'[req[h].token].row # "stored"
          \/ /\ pc'[h] = "rotate" /\ req'[h].token \in TokenIds /\ HasToken(req'[h].token)
             /\ req'[h].family = tokens[req'[h].token].family
             /\ req'[h].generation = tokens[req'[h].token].generation

\* A step in which h is given the refresh token t
Issues(h, t) == IssueTokenPair(h, t) /\ HasUser(req[h].user)

\* Requests that do not move go on as they are.
LEMMA ReturnQuiet ==
    ASSUME TypeInv, NEW h \in Handlers, Return(h), TokensShrink,
           \A u \in UserIds : users[u].row # "none" /\ HasUser(u)' => HasUser(u)
    PROVE  Quiet
BY ReturnType DEF Quiet, Exchanging

LEMMA BeginQuiet ==
    ASSUME TypeInv, NEW h \in Handlers, Begin(h)
    PROVE  Quiet
<1>0. \A at \in Pcs, r \in RequestType :
        /\ Goto(h, at, r) /\ UNCHANGED <<tables, now>>
        /\ at \in {"rotate", "issue"} /\ r.kind = "refresh" =>
              /\ at = "rotate" /\ r.token \in TokenIds /\ HasToken(r.token)
              /\ r.family = tokens[r.token].family
              /\ r.generation = tokens[r.token].generation
        => Quiet
  <2> SUFFICES ASSUME NEW at \in Pcs, NEW r \in RequestType,
                      Goto(h, at, r), UNCHANGED <<tables, now>>,
                      at \in {"rotate", "issue"} /\ r.kind = "refresh" =>
                        /\ at = "rotate" /\ r.token \in TokenIds /\ HasToken(r.token)
                        /\ r.family = tokens[r.token].family
                        /\ r.generation = tokens[r.token].generation
               PROVE  Quiet
    OBVIOUS
  <2>1. /\ pc'[h] = at /\ req'[h] = r
        /\ \A k \in Handlers : k # h => pc'[k] = pc[k] /\ req'[k] = req[k]
    BY GotoType
  <2>2. TokensShrink
    BY UnchangedShrinks DEF tables
  <2>3. \A u \in UserIds : HasUser(u)' => HasUser(u)
    BY DEF tables, HasUser
  <2> QED
    BY <2>1, <2>2, <2>3 DEF Quiet, Exchanging
<1>1. ASSUME NEW s \in Tenants, CreateTenant(h, s)
      PROVE  Quiet
  <2> DEFINE r == [NoRequest EXCEPT !.kind = "tenant", !.tenant = s, !.name = Admin]
  <2>1. pc' = [pc EXCEPT ![h] = "user"] /\ req' = [req EXCEPT ![h] = r]
        /\ UNCHANGED <<users, tokens>>
    BY <1>1 DEF CreateTenant
  <2> HIDE DEF r
  <2>2. /\ pc'[h] = "user"
        /\ \A k \in Handlers : k # h => pc'[k] = pc[k] /\ req'[k] = req[k]
    BY <2>1 DEF TypeInv, TypeOK
  <2>3. TokensShrink
    BY <2>1, UnchangedShrinks
  <2>4. \A u \in UserIds : HasUser(u)' => HasUser(u)
    BY <2>1 DEF HasUser
  <2> QED
    BY <2>2, <2>3, <2>4 DEF Quiet, Exchanging
<1>2. ASSUME NEW a \in UserIds, NEW s \in Tenants, NEW n \in Names, CreateMember(h, a, s, n)
      PROVE  Quiet
  <2> DEFINE r == [NoRequest EXCEPT !.kind = "member", !.tenant = s, !.name = n]
  <2>1. r \in RequestType /\ r.kind = "member" /\ "user" \in Pcs
    BY DEF NoRequest, RequestType, Kinds, Pcs
  <2>2. Goto(h, "user", r) /\ UNCHANGED <<tables, now>>
    BY <1>2 DEF CreateMember
  <2> HIDE DEF r
  <2> QED
    BY <1>0, <2>1, <2>2
<1>3. ASSUME NEW a \in UserIds, NEW u \in UserIds, DeleteMember(h, a, u)
      PROVE  Quiet
  <2> DEFINE r == [NoRequest EXCEPT !.kind = "remove", !.user = u]
  <2>1. r \in RequestType /\ r.kind = "remove" /\ "delete" \in Pcs
    BY DEF NoRequest, RequestType, Kinds, Pcs
  <2>2. Goto(h, "delete", r) /\ UNCHANGED <<tables, now>>
    BY <1>3 DEF DeleteMember
  <2> HIDE DEF r
  <2> QED
    BY <1>0, <2>1, <2>2
<1>4. ASSUME NEW u \in UserIds, Login(h, u)
      PROVE  Quiet
  <2> DEFINE r == [NoRequest EXCEPT !.kind = "login", !.user = u, !.generation = 1, !.issued = now]
  <2>1. r \in RequestType /\ r.kind = "login" /\ "issue" \in Pcs
    BY DEF NoRequest, RequestType, Kinds, Pcs, TypeInv, TypeOK
  <2>2. Goto(h, "issue", r) /\ UNCHANGED <<tables, now>>
    BY <1>4 DEF Login
  <2> HIDE DEF r
  <2> QED
    BY <1>0, <2>1, <2>2
<1>5. ASSUME NEW t \in TokenIds, RefreshRead(h, t)
      PROVE  Quiet
  <2> DEFINE old == tokens[t]
             at == IF old.expires < now THEN "expire" ELSE "rotate"
             r == [NoRequest EXCEPT !.kind = "refresh", !.user = old.user, !.token = t,
                                    !.family = old.family, !.generation = old.generation]
  <2>1. old \in TokenType
    BY DEF TypeInv, TypeOK
  <2>2. /\ r \in RequestType /\ r.token = t /\ r.family = old.family
        /\ r.generation = old.generation
    BY <2>1 DEF NoRequest, RequestType, Kinds, TokenType
  <2>3. Goto(h, at, r) /\ HasToken(t) /\ UNCHANGED <<tables, now>>
    BY <1>5 DEF RefreshRead
  <2>4. at \in {"expire", "rotate"} /\ at \in Pcs
    BY DEF Pcs
  <2> HIDE DEF r, at
  <2> QED
    BY <1>0, <2>2, <2>3, <2>4
<1> QED
  BY <1>1, <1>2, <1>3, <1>4, <1>5 DEF Begin

\* Of the steps of a request in flight only issue_token_pair hands out a token.
LEMMA ContinueQuiet ==
    ASSUME TypeInv, NEW h \in Handlers, Continue(h)
    PROVE  Quiet \/ \E t \in TokenIds : Issues(h, t)
<1>1. ASSUME NEW u \in UserIds, InsertUser(h, u)
      PROVE  Quiet
  <2>1. /\ req[h] \in RequestType /\ pc[h] = "user" /\ users[u].row = "none"
        /\ tokens' = tokens /\ users \in [UserIds -> UserType]
        /\ Goto(h, "label", req[h]) \/ Return(h)
    BY <1>1 DEF InsertUser, TypeInv, TypeOK
  <2>2. \A v \in UserIds : v # u => users'[v] = users[v]
    BY <1>1, <2>1 DEF InsertUser
  <2>3. \A v \in UserIds : users[v].row # "none" /\ HasUser(v)' => HasUser(v)
    BY <2>1, <2>2 DEF HasUser
  <2>4. TokensShrink
    BY <2>1, UnchangedShrinks
  <2>5. CASE Return(h)
    BY <2>3, <2>4, <2>5, ReturnQuiet
  <2>6. CASE Goto(h, "label", req[h])
    <3>1. "label" \in Pcs
      BY DEF Pcs
    <3>2. /\ pc'[h] = "label"
          /\ \A k \in Handlers : k # h => pc'[k] = pc[k] /\ req'[k] = req[k]
      BY <2>1, <2>6, <3>1, GotoType
    <3> QED
      BY <2>3, <2>4, <3>2 DEF Quiet, Exchanging
  <2> QED
    BY <2>1, <2>5, <2>6
<1>2. ASSUME NEW l \in DefaultLabels, InsertLabel(h, l)
      PROVE  Quiet
  <2>1. UNCHANGED <<users, tokens, pc, req>>
    BY <1>2 DEF InsertLabel
  <2> QED
    BY <2>1, UnchangedShrinks DEF Quiet, Exchanging, HasUser
<1>3. ASSUME TenantCreated(h)
      PROVE  Quiet
  <2>1. Return(h) /\ UNCHANGED <<users, tokens>>
    BY <1>3 DEF TenantCreated, tables
  <2> QED
    BY <2>1, UnchangedShrinks, ReturnQuiet DEF HasUser
<1>4. ASSUME RemoveUser(h)
      PROVE  Quiet
  <2> DEFINE u == req[h].user
             row == [users[u] EXCEPT !.row = "deleted", !.left = now]
  <2>1. u \in UserIds /\ users \in [UserIds -> UserType]
    BY <1>4 DEF RemoveUser, TypeInv, TypeOK, RequestOK
  <2>2. CASE ~HasUser(u)
    <3>1. Return(h) /\ UNCHANGED <<users, tokens>>
      BY <1>4, <2>2 DEF RemoveUser
    <3> QED
      BY <3>1, UnchangedShrinks, ReturnQuiet DEF HasUser
  <2>3. CASE HasUser(u)
    <3>1. Return(h) /\ users' = [users EXCEPT ![u] = row] /\ tokens' = TokensWithout(u)
      BY <1>4, <2>3 DEF RemoveUser
    <3> HIDE DEF u, row
    <3>2. TokensShrink
      BY <2>1, <3>1, WithoutShrinks
    <3>3. \A v \in UserIds : HasUser(v)' => HasUser(v)
      BY <2>1, <2>3, <3>1 DEF HasUser
    <3> QED
      BY <3>1, <3>2, <3>3, ReturnQuiet
  <2> QED
    BY <2>2, <2>3
<1>5. ASSUME Expire(h)
      PROVE  Quiet
  <2>1. req[h].token \in TokenIds /\ tokens' = Gone(req[h].token) /\ Return(h) /\ users' = users
    BY <1>5 DEF Expire, TypeInv, RequestOK
  <2>2. TokensShrink
    BY <2>1, GoneShrinks
  <2> QED
    BY <2>1, <2>2, ReturnQuiet DEF HasUser
<1>6. ASSUME Rotate(h)
      PROVE  Quiet
  <2> DEFINE r == [req[h] EXCEPT !.generation = req[h].generation + 1, !.issued = now]
  <2>0. /\ req[h] \in RequestType /\ now \in Nat
        /\ req[h].generation \in Nat /\ req[h].generation + 1 \in Nat
    BY DEF TypeInv, TypeOK, RequestType
  <2>1. /\ r \in RequestType /\ r.kind = req[h].kind /\ r.user = req[h].user
        /\ r.family = req[h].family /\ r.generation = req[h].generation + 1
        /\ r.token = req[h].token
        /\ "issue" \in Pcs
    BY <2>0 DEF RequestType, Pcs
  <2>2. /\ pc[h] = "rotate" /\ req[h].token \in TokenIds /\ req[h].kind = "refresh"
        /\ tokens' = Gone(req[h].token) /\ Goto(h, "issue", r)
        /\ users' = users
    BY <1>6 DEF Rotate, TypeInv, RequestOK
  <2> HIDE DEF r
  <2>3. TokensShrink /\ tokens'[req[h].token].row # "stored"
    BY <2>2, GoneShrinks
  <2>4. /\ pc'[h] = "issue" /\ req'[h] = r
        /\ \A k \in Handlers : k # h => pc'[k] = pc[k] /\ req'[k] = req[k]
    BY <2>1, <2>2, GotoType
  <2> QED
    BY <2>1, <2>2, <2>3, <2>4 DEF Quiet, Exchanging, HasUser
<1>7. ASSUME NEW t \in TokenIds, IssueTokenPair(h, t), ~HasUser(req[h].user)
      PROVE  Quiet
  <2>1. Return(h) /\ UNCHANGED <<users, tokens>>
    BY <1>7 DEF IssueTokenPair
  <2> QED
    BY <2>1, UnchangedShrinks, ReturnQuiet DEF HasUser
<1> QED
  BY <1>1, <1>2, <1>3, <1>4, <1>5, <1>6, <1>7 DEF Continue, Issues

\* Every step is quiet or hands out one refresh token.
LEMMA NextQuiet ==
    ASSUME TypeInv, [Next]_vars
    PROVE  Quiet \/ \E h \in Handlers, t \in TokenIds : Issues(h, t)
<1>1. ASSUME NEW t \in TokenIds, Logout(t)
      PROVE  Quiet
  <2>1. tokens' = Gone(t) /\ UNCHANGED <<users, pc, req>>
    BY <1>1 DEF Logout, locals
  <2>2. TokensShrink
    BY <2>1, GoneShrinks
  <2> QED
    BY <2>1, <2>2 DEF Quiet, Exchanging, HasUser
<1>2. ASSUME NEW h \in Handlers, Fail(h)
      PROVE  Quiet
  <2>1. Return(h) /\ UNCHANGED <<users, tokens>>
    BY <1>2 DEF Fail, tables
  <2> QED
    BY <2>1, UnchangedShrinks, ReturnQuiet DEF HasUser
<1>3. ASSUME Tick \/ UNCHANGED vars
      PROVE  Quiet
  <2>1. UNCHANGED <<users, tokens, pc, req>>
    BY <1>3 DEF Tick, tables, locals, vars
  <2> QED
    BY <2>1, UnchangedShrinks DEF Quiet, Exchanging, HasUser
<1> QED
  BY <1>1, <1>2, <1>3, BeginQuiet, ContinueQuiet DEF Next

\* A quiet step closes sessions at most.
LEMMA QuietKeeps ==
    ASSUME TypeInv, SessionInv, Quiet, TypeInv'
    PROVE  /\ SessionInv'
           /\ Generations' = Generations
           /\ OpenSessions' \subseteq OpenSessions
<1>1. \A f \in TokenIds : Issued(f)' = Issued(f)
  BY DEF Issued, Quiet, TokensShrink
<1>2. Generations' = Generations
  BY <1>1 DEF Generations, Issued, Quiet, TokensShrink
<1>3. ASSUME NEW f \in TokenIds, f \in OpenSessions'
      PROVE  f \in OpenSessions
  <2>1. CASE \E t \in TokenIds : HasToken(t)' /\ tokens'[t].family = f
    BY <2>1 DEF OpenSessions, HasToken, Quiet, TokensShrink
  <2>2. ASSUME NEW h \in Handlers, Exchanging(h)', req'[h].family = f, HasUser(req[h].user)'
        PROVE  f \in OpenSessions
    <3>1. CASE /\ Exchanging(h)
               /\ req'[h].family = req[h].family /\ req'[h].user = req[h].user
      <4>1. req[h].user \in UserIds /\ users[req[h].user].row # "none"
        BY <3>1 DEF TypeInv, RequestOK, Exchanging
      <4>2. HasUser(req[h].user)
        BY <2>2, <3>1, <4>1 DEF Quiet, HasUser
      <4> QED
        BY <2>2, <3>1, <4>2 DEF OpenSessions
    <3>2. CASE /\ req'[h].token \in TokenIds /\ HasToken(req'[h].token)
               /\ req'[h].family = tokens[req'[h].token].family
      BY <2>2, <3>2 DEF OpenSessions
    <3> QED
      BY <2>2, <3>1, <3>2 DEF Quiet
  <2> QED
    BY <1>3, <2>1, <2>2 DEF OpenSessions
<1>4. SessionInv'
  <2>1. \A t \in TokenIds : tokens'[t].row # "none" =>
            tokens'[t].family \in TokenIds /\ tokens'[tokens'[t].family].row # "none"
    BY DEF SessionInv, Quiet, TokensShrink, TypeInv, TokensOK
  <2>2. ASSUME NEW h \in Handlers, Exchanging(h)'
        PROVE  /\ tokens'[req'[h].family].row # "none"
               /\ \E g \in Generations'[req'[h].family] :
                     req'[h].generation = IF pc'[h] = "rotate" THEN g ELSE g + 1
    <3>1. req'[h].family \in TokenIds
      BY <2>2 DEF TypeInv, RequestOK, Exchanging
    <3>2. CASE /\ Exchanging(h) /\ req'[h].family = req[h].family
               /\ \/ pc'[h] = pc[h] /\ req'[h].generation = req[h].generation
                  \/ /\ pc[h] = "rotate" /\ pc'[h] = "issue"
                     /\ req'[h].generation = req[h].generation + 1
      BY <1>2, <2>2, <3>1, <3>2 DEF SessionInv, Quiet, TokensShrink, Exchanging
    <3>3. CASE /\ pc'[h] = "rotate" /\ req'[h].token \in TokenIds /\ HasToken(req'[h].token)
               /\ req'[h].family = tokens[req'[h].token].family
               /\ req'[h].generation = tokens[req'[h].token].generation
      <4>1. tokens[req'[h].family].row # "none"
        BY <3>3 DEF SessionInv, HasToken
      <4>2. req'[h].generation \in Generations[req'[h].family]
        BY <3>1, <3>3 DEF Generations, Issued, HasToken
      <4> QED
        BY <1>2, <3>1, <3>3, <4>1, <4>2 DEF Quiet, TokensShrink
    <3> QED
      BY <2>2, <3>2, <3>3 DEF Quiet
  <2> QED
    BY <2>1, <2>2 DEF SessionInv
<1> QED
  BY <1>2, <1>3, <1>4 DEF OpenSessions

\* What handing out t to h changes.
LEMMA IssueEffect ==
    ASSUME TypeInv, NEW h \in Handlers, NEW t \in TokenIds, Issues(h, t)
    PROVE  LET f == IF req[h].kind = "login" THEN t ELSE req[h].family
           IN  /\ pc[h] = "issue" /\ req[h].kind \in {"login", "refresh"} /\ f \in TokenIds
               /\ HasUser(req[h].user) /\ tokens[t].row = "none"
               /\ tokens'[t].row = "stored" /\ tokens'[t].family = f
               /\ tokens'[t].generation = req[h].generation
               /\ \A x \in TokenIds : x # t => tokens'[x] = tokens[x]
               /\ \A u \in UserIds : HasUser(u)' <=> HasUser(u)
               /\ pc'[h] = "idle"
               /\ \A k \in Handlers : k # h => pc'[k] = pc[k] /\ req'[k] = req[k]
<1> DEFINE u == req[h].user
           row == [users[u] EXCEPT !.access = Later(users[u].access, req[h].issued + AccessLife)]
<1>1. /\ pc[h] = "issue" /\ tokens[t].row = "none" /\ HasUser(u) /\ Return(h)
      /\ tokens' = [tokens EXCEPT ![t] = NewToken(h, t)]
      /\ users' = [users EXCEPT ![u] = row]
  BY DEF Issues, IssueTokenPair
<1>2. /\ u \in UserIds /\ users \in [UserIds -> UserType] /\ tokens \in [TokenIds -> TokenType]
      /\ req[h].kind \in {"login", "refresh"}
      /\ req[h].kind = "refresh" => req[h].family \in TokenIds
  BY <1>1 DEF TypeInv, TypeOK, RequestOK, Exchanging
<1>3. row.row = users[u].row
  BY <1>2 DEF UserType
<1>4. /\ NewToken(h, t).row = "stored"
      /\ NewToken(h, t).family = IF req[h].kind = "login" THEN t ELSE req[h].family
      /\ NewToken(h, t).generation = req[h].generation
  BY DEF NewToken
<1>5. /\ pc'[h] = "idle"
      /\ \A k \in Handlers : k # h => pc'[k] = pc[k] /\ req'[k] = req[k]
  BY <1>1, ReturnType
<1> HIDE DEF row
<1>6. \A v \in UserIds : HasUser(v)' <=> HasUser(v)
  BY <1>1, <1>2, <1>3 DEF HasUser
<1>7. tokens'[t] = NewToken(h, t) /\ \A x \in TokenIds : x # t => tokens'[x] = tokens[x]
  BY <1>1, <1>2
<1> QED
  BY <1>1, <1>2, <1>4, <1>5, <1>6, <1>7

\* Handing out a token opens a session or renews one that is open.
LEMMA IssueImplements ==
    ASSUME TypeInv, SessionInv, NEW h \in Handlers, NEW t \in TokenIds, Issues(h, t)
    PROVE  SessionInv' /\ Promise!Next
<1>0. PICK f \in TokenIds : f = IF req[h].kind = "login" THEN t ELSE req[h].family
  BY IssueEffect
<1>1. /\ pc[h] = "issue" /\ req[h].kind \in {"login", "refresh"} /\ f \in TokenIds
      /\ HasUser(req[h].user) /\ tokens[t].row = "none"
      /\ tokens'[t].row = "stored" /\ tokens'[t].family = f
      /\ tokens'[t].generation = req[h].generation
      /\ \A x \in TokenIds : x # t => tokens'[x] = tokens[x]
      /\ \A u \in UserIds : HasUser(u)' <=> HasUser(u)
      /\ pc'[h] = "idle"
      /\ \A k \in Handlers : k # h => pc'[k] = pc[k] /\ req'[k] = req[k]
  BY <1>0, IssueEffect
<1>2. /\ req[h].kind = "login" => f = t /\ req[h].generation = 1
      /\ req[h].kind = "refresh" => f = req[h].family /\ Exchanging(h)
  BY <1>0, <1>1 DEF TypeInv, RequestOK, Exchanging
<1>3. \A k \in Handlers :
          Exchanging(k) => req[k].family \in TokenIds /\ req[k].user \in UserIds
  BY DEF TypeInv, RequestOK, Exchanging
<1>4. \A x \in TokenIds : tokens[x].row # "none" => tokens[x].family \in TokenIds
  BY DEF TypeInv, TokensOK
<1>5. Generations' = [Generations EXCEPT ![f] = Generations[f] \cup {req[h].generation}]
  <2>1. Issued(f)' = Issued(f) \cup {t} /\ t \notin Issued(f)
    BY <1>1 DEF Issued
  <2>2. \A e \in TokenIds : e # f => Issued(e)' = Issued(e) /\ t \notin Issued(e)
    BY <1>1 DEF Issued
  <2>3. Generations'[f] = Generations[f] \cup {req[h].generation}
    BY <1>1, <2>1 DEF Generations, Issued
  <2>4. \A e \in TokenIds : e # f => Generations'[e] = Generations[e]
    BY <1>1, <2>2 DEF Generations, Issued
  <2> QED
    BY <1>1, <2>3, <2>4 DEF Generations
<1>6. \A k \in Handlers : Exchanging(k)' <=> Exchanging(k) /\ k # h
  BY <1>1 DEF Exchanging
<1>7. SessionInv'
  <2>1. \A x \in TokenIds : tokens'[x].row # "none" => tokens'[tokens'[x].family].row # "none"
    BY <1>1, <1>2, <1>4 DEF SessionInv
  <2>2. ASSUME NEW k \in Handlers, Exchanging(k)'
        PROVE  /\ tokens'[req'[k].family].row # "none"
               /\ \E g \in Generations'[req'[k].family] :
                     req'[k].generation = IF pc'[k] = "rotate" THEN g ELSE g + 1
    <3>1. Exchanging(k) /\ pc'[k] = pc[k] /\ req'[k] = req[k] /\ req[k].family \in TokenIds
      BY <1>1, <1>3, <1>6, <2>2
    <3>2. Generations[req[k].family] \subseteq Generations'[req[k].family]
      BY <1>1, <1>5, <3>1 DEF Generations
    <3> QED
      BY <1>1, <3>1, <3>2 DEF SessionInv
  <2> QED
    BY <2>1, <2>2 DEF SessionInv
<1>8. OpenSessions' = OpenSessions \cup {f}
  <2>1. f \in OpenSessions'
    BY <1>1 DEF OpenSessions, HasToken
  <2>2. ASSUME NEW e \in OpenSessions'
        PROVE  e \in OpenSessions \cup {f}
    BY <1>1, <1>3, <1>6, <2>2 DEF OpenSessions, HasToken
  <2>3. ASSUME NEW e \in OpenSessions
        PROVE  e \in OpenSessions'
    <3>1. CASE \E x \in TokenIds : HasToken(x) /\ tokens[x].family = e
      BY <1>1, <2>3, <3>1 DEF OpenSessions, HasToken
    <3>2. ASSUME NEW k \in Handlers, Exchanging(k), req[k].family = e, HasUser(req[k].user)
          PROVE  e \in OpenSessions'
      <4>1. CASE k = h
        <5>1. req[h].kind = "refresh"
          BY <3>2, <4>1 DEF Exchanging
        <5> QED
          BY <1>2, <2>1, <3>2, <4>1, <5>1
      <4>2. CASE k # h
        <5>1. Exchanging(k)' /\ req'[k] = req[k] /\ HasUser(req[k].user)'
          BY <1>1, <1>3, <1>6, <3>2, <4>2 DEF HasUser
        <5> QED
          BY <2>3, <3>2, <5>1 DEF OpenSessions
      <4> QED
        BY <4>1, <4>2
    <3> QED
      BY <2>3, <3>1, <3>2 DEF OpenSessions
  <2> QED
    BY <2>1, <2>2, <2>3
<1>9. CASE req[h].kind = "login"
  <2>1. f = t /\ req[h].generation = 1
    BY <1>2, <1>9
  <2>2. t \notin OpenSessions
    BY <1>1 DEF OpenSessions, SessionInv, HasToken
  <2>3. Generations[t] = {}
    BY <1>1 DEF Generations, Issued, SessionInv
  <2>4. Generations' = [Generations EXCEPT ![t] = {1}]
    BY <1>5, <2>1, <2>3
  <2>5. Promise!Open(t)
    BY <1>8, <2>1, <2>2, <2>3, <2>4 DEF Promise!Open
  <2> QED
    BY <1>7, <2>5 DEF Promise!Next
<1>10. CASE req[h].kind = "refresh"
  <2>1. f \in OpenSessions
    BY <1>1, <1>2, <1>10 DEF OpenSessions
  <2>2. PICK g \in Generations[f] : req[h].generation = g + 1
    BY <1>1, <1>2, <1>10 DEF SessionInv
  <2>3. Promise!Renew(f)
    BY <1>5, <1>8, <2>1, <2>2 DEF Promise!Renew
  <2> QED
    BY <1>1, <1>7, <2>3 DEF Promise!Next
<1> QED
  BY <1>1, <1>9, <1>10

\* A quiet step is a step of LoginSessions that closes the sessions that are gone.
LEMMA QuietImplements ==
    ASSUME TypeInv, SessionInv, Quiet, TypeInv'
    PROVE  SessionInv' /\ Promise!Next
<1>1. SessionInv' /\ Generations' = Generations /\ OpenSessions' \subseteq OpenSessions
  BY QuietKeeps
<1>2. Promise!Close(OpenSessions \ OpenSessions')
  BY <1>1 DEF Promise!Close
<1> QED
  BY <1>1, <1>2 DEF Promise!Next

\* login, refresh, logout and delete_member, in any number and interleaved in any
\* way, keep the promise of LoginSessions.
THEOREM LoginsImplementLoginSessions == Spec => ImplementsLoginSessions
<1>1. Init => SessionInv
  BY DEF Init, SessionInv, NoToken, Exchanging
<1>2. Init => Promise!Init
  BY DEF Init, Promise!Init, OpenSessions, Generations, Issued, HasToken, NoToken, Exchanging
<1>3. TypeInv /\ SessionInv /\ [Next]_vars /\ TypeInv' => SessionInv' /\ Promise!Next
  BY NextQuiet, QuietImplements, IssueImplements
<1>4. TypeInv /\ SessionInv /\ [Next]_vars /\ TypeInv' => [Promise!Next]_(Promise!vars)
  BY <1>3
<1> QED
  BY <1>1, <1>2, <1>3, <1>4, TypeInvariant, PTL DEF Spec, ImplementsLoginSessions, Promise!Spec

-----------------------------------------------------------------------------
\* A session has one token in the table unless its exchanges have raced.

Raced(f) == \E c, d \in Issued(f) : c # d /\ tokens[c].generation = tokens[d].generation

\* The generations issued in a session have no gap; an exchange that has not deleted
\* its token yet holds one that was issued, with the session and generation it read.
ChainOK ==
    /\ \A x \in TokenIds : tokens[x].row # "none" =>
          /\ tokens[x].generation \in Nat /\ tokens[x].generation >= 1
          /\ \A n \in 1..tokens[x].generation :
                \E y \in Issued(tokens[x].family) : tokens[y].generation = n
    /\ \A h \in Handlers : Exchanging(h) /\ pc[h] = "rotate" =>
          /\ req[h].token \in Issued(req[h].family)
          /\ req[h].generation = tokens[req[h].token].generation

\* As long as no two tokens of a session have the same generation, the token in the
\* table is the newest, and what an exchange under way is about to issue is no newer.
Newest(f) == ~Raced(f) =>
    \A a \in TokenIds : HasToken(a) /\ tokens[a].family = f =>
        /\ \A b \in Issued(f) : b # a => tokens[b].generation < tokens[a].generation
        /\ \A h \in Handlers : Exchanging(h) /\ pc[h] = "issue" /\ req[h].family = f =>
              req[h].generation <= tokens[a].generation

NewestInv == ChainOK /\ \A f \in TokenIds : Newest(f)

\* A quiet step keeps it: a token that an exchange has deleted is older than one that
\* is still in the table.
LEMMA QuietNewest ==
    ASSUME TypeInv, SessionInv, NewestInv, Quiet, TypeInv'
    PROVE  NewestInv'
<1>0. /\ \A x \in TokenIds :
             /\ tokens'[x].family = tokens[x].family
             /\ tokens'[x].generation = tokens[x].generation
             /\ tokens'[x].row = "none" <=> tokens[x].row = "none"
             /\ HasToken(x)' => HasToken(x)
             /\ tokens[x].generation \in Nat
      /\ \A h \in Handlers : req[h].generation \in Nat
  BY DEF Quiet, TokensShrink, HasToken, TypeInv, TypeOK, TokenType, RequestType
<1>1. \A f : Issued(f)' = Issued(f)
  BY <1>0 DEF Issued
<1>2. \A x \in TokenIds : HasToken(x) => x \in Issued(tokens[x].family)
  BY DEF Issued, HasToken
<1>3. ChainOK'
  <2>1. ASSUME NEW x \in TokenIds, tokens'[x].row # "none"
        PROVE  /\ tokens'[x].generation \in Nat /\ tokens'[x].generation >= 1
               /\ \A n \in 1..tokens'[x].generation :
                     \E y \in Issued(tokens[x].family)' : tokens'[y].generation = n
    BY <1>0, <1>1, <2>1 DEF NewestInv, ChainOK, Issued
  <2>2. ASSUME NEW h \in Handlers, Exchanging(h)', pc'[h] = "rotate"
        PROVE  /\ req'[h].token \in Issued(req[h].family)'
               /\ req'[h].generation = tokens'[req'[h].token].generation
    <3>1. CASE /\ Exchanging(h) /\ pc'[h] = pc[h] /\ req'[h].token = req[h].token
               /\ req'[h].family = req[h].family /\ req'[h].generation = req[h].generation
      BY <1>0, <2>2, <3>1 DEF NewestInv, ChainOK, Issued
    <3>2. CASE /\ req'[h].token \in TokenIds /\ HasToken(req'[h].token)
               /\ req'[h].family = tokens[req'[h].token].family
               /\ req'[h].generation = tokens[req'[h].token].generation
      BY <1>0, <3>2 DEF Issued, HasToken
    <3> QED
      BY <2>2, <3>1, <3>2 DEF Quiet
  <2> QED
    BY <2>1, <2>2 DEF ChainOK
<1>4. ASSUME NEW f \in TokenIds
      PROVE  Newest(f)'
  <2> SUFFICES ASSUME ~Raced(f)', NEW a \in TokenIds, HasToken(a)', tokens'[a].family = f
               PROVE  /\ \A b \in Issued(f)' : b # a => tokens'[b].generation < tokens'[a].generation
                      /\ \A h \in Handlers :
                            Exchanging(h)' /\ pc'[h] = "issue" /\ req'[h].family = f =>
                               req'[h].generation <= tokens'[a].generation
    BY DEF Newest
  <2>1. ~Raced(f)
    BY <1>0, <1>1 DEF Raced, Issued
  <2>2. /\ HasToken(a) /\ tokens[a].family = f
        /\ \A b \in Issued(f) : b # a => tokens[b].generation < tokens[a].generation
        /\ \A h \in Handlers : Exchanging(h) /\ pc[h] = "issue" /\ req[h].family = f =>
              req[h].generation <= tokens[a].generation
    BY <1>0, <2>1 DEF NewestInv, Newest
  <2>3. \A b \in Issued(f)' : b # a => tokens'[b].generation < tokens'[a].generation
    BY <1>0, <1>1, <2>2 DEF Issued
  <2>4. ASSUME NEW h \in Handlers, Exchanging(h)', pc'[h] = "issue", req'[h].family = f
        PROVE  req'[h].generation <= tokens'[a].generation
    <3>1. CASE /\ Exchanging(h) /\ pc'[h] = pc[h] /\ req'[h].family = req[h].family
               /\ req'[h].generation = req[h].generation
      BY <1>0, <2>2, <2>4, <3>1
    <3>2. CASE /\ Exchanging(h) /\ pc[h] = "rotate" /\ req'[h].family = req[h].family
               /\ req'[h].generation = req[h].generation + 1
               /\ tokens'[req[h].token].row # "stored"
      <4>1. /\ req[h].token \in Issued(f) /\ req[h].token # a
            /\ req[h].generation = tokens[req[h].token].generation
        BY <2>4, <3>2 DEF NewestInv, ChainOK, HasToken
      <4>2. req[h].generation < tokens[a].generation
        BY <2>2, <4>1
      <4> QED
        BY <1>0, <3>2, <4>2
    <3> QED
      BY <2>4, <3>1, <3>2 DEF Quiet
  <2> QED
    BY <2>3, <2>4
<1> QED
  BY <1>3, <1>4 DEF NewestInv

\* Handing out a token keeps it: the token is the newest of its session, or has the
\* generation of one that was issued before.
LEMMA IssueNewest ==
    ASSUME TypeInv, SessionInv, NewestInv, NEW h \in Handlers, NEW t \in TokenIds, Issues(h, t)
    PROVE  NewestInv'
<1> DEFINE G == req[h].generation
<1>0. PICK f \in TokenIds : f = IF req[h].kind = "login" THEN t ELSE req[h].family
  BY IssueEffect
<1>1. /\ pc[h] = "issue" /\ req[h].kind \in {"login", "refresh"}
      /\ tokens[t].row = "none"
      /\ tokens'[t].row = "stored" /\ tokens'[t].family = f
      /\ tokens'[t].generation = req[h].generation
      /\ \A x \in TokenIds : x # t => tokens'[x] = tokens[x]
      /\ pc'[h] = "idle"
      /\ \A k \in Handlers : k # h => pc'[k] = pc[k] /\ req'[k] = req[k]
  BY <1>0, IssueEffect
<1>2. /\ req[h].kind = "login" => f = t /\ req[h].generation = 1
      /\ req[h].kind = "refresh" => f = req[h].family /\ Exchanging(h)
  BY <1>0, <1>1 DEF TypeInv, RequestOK, Exchanging
<1>3. /\ \A x \in TokenIds : tokens[x].generation \in Nat
      /\ \A x \in TokenIds : tokens[x].row # "none" => tokens[x].family \in TokenIds
      /\ \A k \in Handlers : Exchanging(k) => req[k].family \in TokenIds
      /\ \A k \in Handlers : req[k].generation \in Nat
  BY DEF TypeInv, TypeOK, TokenType, RequestType, TokensOK, RequestOK, Exchanging
<1>4. /\ Issued(f)' = Issued(f) \cup {t} /\ t \notin Issued(f)
      /\ \A e : e # f => Issued(e)' = Issued(e) /\ t \notin Issued(e)
      /\ \A e : Issued(e) \subseteq TokenIds
  BY <1>1 DEF Issued
<1>5. \A k \in Handlers : Exchanging(k)' => Exchanging(k) /\ k # h
  BY <1>1 DEF Exchanging
\* what has been issued in f is numbered without gap up to G
<1>6. /\ G \in Nat /\ G >= 1
      /\ \A n \in 1..G : n = G \/ \E y \in Issued(f) : tokens[y].generation = n
  <2>1. CASE req[h].kind = "login"
    BY <1>2, <2>1
  <2>2. CASE req[h].kind = "refresh"
    <3>1. PICK g \in Generations[f] : G = g + 1
      BY <1>1, <1>2, <2>2 DEF SessionInv
    <3>2. PICK x \in Issued(f) : tokens[x].generation = g
      BY <3>1 DEF Generations
    <3>3. /\ g \in Nat /\ g >= 1
          /\ \A n \in 1..g : \E y \in Issued(f) : tokens[y].generation = n
      BY <3>2 DEF NewestInv, ChainOK, Issued
    <3> HIDE DEF G
    <3>4. \A n \in 1..G : n = G \/ n \in 1..g
      BY <3>1, <3>3
    <3> QED
      BY <3>1, <3>3, <3>4
  <2> QED
    BY <1>1, <2>1, <2>2
<1> HIDE DEF G
<1>7. ChainOK'
  <2>1. ASSUME NEW x \in TokenIds, tokens'[x].row # "none"
        PROVE  /\ tokens'[x].generation \in Nat /\ tokens'[x].generation >= 1
               /\ \A n \in 1..tokens'[x].generation :
                     \E y \in Issued(tokens[x].family)' : tokens'[y].generation = n
    <3>1. CASE x = t
      <4>1. tokens'[x].family = f /\ tokens'[x].generation = G
        BY <1>1, <3>1 DEF G
      <4>2. \A n \in 1..G : \E y \in Issued(f)' : tokens'[y].generation = n
        BY <1>1, <1>4, <1>6, <4>1, <3>1
      <4>3. Issued(tokens[x].family)' = Issued(f)'
        BY <4>1 DEF Issued
      <4> QED
        BY <1>6, <4>1, <4>2, <4>3
    <3>2. CASE x # t
      <4>1. tokens'[x] = tokens[x]
        BY <1>1, <3>2
      <4>2. /\ tokens[x].generation \in Nat /\ tokens[x].generation >= 1
            /\ \A n \in 1..tokens[x].generation :
                  \E y \in Issued(tokens[x].family) : tokens[y].generation = n
        BY <2>1, <4>1 DEF NewestInv, ChainOK
      <4>3. \A y \in Issued(tokens[x].family) :
                y \in Issued(tokens[x].family)' /\ tokens'[y] = tokens[y]
        BY <1>1, <4>1 DEF Issued
      <4> QED
        BY <4>1, <4>2, <4>3
    <3> QED
      BY <3>1, <3>2
  <2>2. ASSUME NEW k \in Handlers, Exchanging(k)', pc'[k] = "rotate"
        PROVE  /\ req'[k].token \in Issued(req[k].family)'
               /\ req'[k].generation = tokens'[req'[k].token].generation
    <3>1. Exchanging(k) /\ k # h /\ pc[k] = "rotate" /\ req'[k] = req[k]
      BY <1>1, <1>5, <2>2
    <3>2. req[k].token \in Issued(req[k].family) /\ req[k].generation = tokens[req[k].token].generation
      BY <3>1 DEF NewestInv, ChainOK
    <3> QED
      BY <1>1, <3>1, <3>2 DEF Issued
  <2> QED
    BY <2>1, <2>2 DEF ChainOK
<1>8. Newest(f)'
  <2> SUFFICES ASSUME ~Raced(f)', NEW a \in TokenIds, HasToken(a)', tokens'[a].family = f
               PROVE  /\ \A b \in Issued(f)' : b # a => tokens'[b].generation < tokens'[a].generation
                      /\ \A k \in Handlers :
                            Exchanging(k)' /\ pc'[k] = "issue" /\ req'[k].family = f =>
                               req'[k].generation <= tokens'[a].generation
    BY DEF Newest
  <2>1. \A b \in Issued(f) : tokens'[b] = tokens[b] /\ b \in Issued(f)' /\ b # t
    BY <1>1, <1>4
  <2>2. ~Raced(f)
    BY <2>1 DEF Raced
  <2>3. \A b \in Issued(f) : tokens[b].generation # G
    BY <1>1, <1>4, <2>1 DEF Raced, G
  <2>4. \A b \in Issued(f) : tokens[b].generation < G
    <3> SUFFICES ASSUME NEW b \in Issued(f), tokens[b].generation >= G
                 PROVE  FALSE
      BY <1>3, <1>4, <1>6
    <3>1. \E y \in Issued(f) : tokens[y].generation = G
      BY <1>3, <1>6 DEF NewestInv, ChainOK, Issued
    <3> QED
      BY <2>3, <3>1
  <2>5. a = t
    <3> SUFFICES ASSUME a # t PROVE FALSE
      OBVIOUS
    <3>2. HasToken(a) /\ tokens[a].family = f /\ a \in Issued(f)
      BY <1>1 DEF HasToken, Issued
    <3>3. CASE req[h].kind = "login"
      BY <1>1, <1>2, <3>2, <3>3 DEF SessionInv, HasToken
    <3>4. CASE req[h].kind = "refresh"
      <4>1. G <= tokens[a].generation
        BY <1>1, <1>2, <2>2, <3>2, <3>4 DEF NewestInv, Newest, G
      <4> QED
        BY <1>3, <1>6, <2>4, <3>2, <4>1
    <3> QED
      BY <1>1, <3>3, <3>4
  <2>6. tokens'[a].generation = G
    BY <1>1, <2>5 DEF G
  <2>7. \A b \in Issued(f)' : b # a => tokens'[b].generation < tokens'[a].generation
    BY <1>4, <2>1, <2>4, <2>5, <2>6
  <2>8. ASSUME NEW k \in Handlers, Exchanging(k)', pc'[k] = "issue", req'[k].family = f
        PROVE  req'[k].generation <= tokens'[a].generation
    <3>1. Exchanging(k) /\ k # h /\ pc[k] = "issue" /\ req'[k] = req[k]
      BY <1>1, <1>5, <2>8
    <3>2. PICK g \in Generations[f] : req[k].generation = g + 1
      BY <2>8, <3>1 DEF SessionInv
    <3>3. PICK b \in Issued(f) : tokens[b].generation = g
      BY <3>2 DEF Generations
    <3>4. g \in Nat /\ g < G
      BY <1>3, <1>4, <2>4, <3>3
    <3> QED
      BY <1>6, <2>6, <3>1, <3>2, <3>4
  <2> QED
    BY <2>7, <2>8
<1>9. ASSUME NEW e \in TokenIds, e # f
      PROVE  Newest(e)'
  <2> SUFFICES ASSUME ~Raced(e)', NEW a \in TokenIds, HasToken(a)', tokens'[a].family = e
               PROVE  /\ \A b \in Issued(e)' : b # a => tokens'[b].generation < tokens'[a].generation
                      /\ \A k \in Handlers :
                            Exchanging(k)' /\ pc'[k] = "issue" /\ req'[k].family = e =>
                               req'[k].generation <= tokens'[a].generation
    BY DEF Newest
  <2>1. Issued(e)' = Issued(e) /\ \A b \in Issued(e) : tokens'[b] = tokens[b]
    BY <1>1, <1>4, <1>9
  <2>2. ~Raced(e)
    BY <2>1 DEF Raced
  <2>3. a # t /\ tokens'[a] = tokens[a] /\ HasToken(a)
    BY <1>1, <1>9 DEF HasToken
  <2>4. /\ \A b \in Issued(e) : b # a => tokens[b].generation < tokens[a].generation
        /\ \A k \in Handlers : Exchanging(k) /\ pc[k] = "issue" /\ req[k].family = e =>
              req[k].generation <= tokens[a].generation
    BY <2>2, <2>3 DEF NewestInv, Newest
  <2> QED
    BY <1>1, <1>5, <2>1, <2>3, <2>4
<1> QED
  BY <1>7, <1>8, <1>9 DEF NewestInv

\* Overlapping exchanges leave a session more than one token in the table only after
\* two of them have issued tokens of the same generation.
THEOREM OneTokenUnlessExchangesRace == Spec => []OneTokenUnlessRaced
<1>1. Init => SessionInv /\ NewestInv
  BY DEF Init, SessionInv, NewestInv, ChainOK, Newest, NoToken, Exchanging, HasToken
<1>2. TypeInv /\ SessionInv /\ NewestInv /\ [Next]_vars /\ TypeInv' => SessionInv' /\ NewestInv'
  BY NextQuiet, QuietKeeps, QuietNewest, IssueImplements, IssueNewest
<1>3. TypeInv /\ NewestInv => OneTokenUnlessRaced
  <2> SUFFICES ASSUME TypeInv, NewestInv, NEW a \in TokenIds, NEW b \in TokenIds,
                      a # b, HasToken(a), HasToken(b), tokens[a].family = tokens[b].family,
                      ~Raced(tokens[a].family)
               PROVE  FALSE
    BY DEF OneTokenUnlessRaced, Raced
  <2>1. /\ tokens[a].family \in TokenIds
        /\ tokens[a].generation \in Nat /\ tokens[b].generation \in Nat
    BY DEF TypeInv, TypeOK, TokenType, TokensOK, HasToken
  <2>2. a \in Issued(tokens[a].family) /\ b \in Issued(tokens[a].family)
    BY DEF Issued, HasToken
  <2>3. tokens[a].generation < tokens[b].generation /\ tokens[b].generation < tokens[a].generation
    BY <2>1, <2>2 DEF NewestInv, Newest
  <2> QED
    BY <2>1, <2>3
<1> QED
  BY <1>1, <1>2, <1>3, TypeInvariant, PTL DEF Spec
=============================================================================
