------------------------------- MODULE Logins -------------------------------
(***************************************************************************)
(* Tenants, their users and the refresh tokens of logged-in users          *)
(* (api/handlers/auth.rs, member.rs and tenant.rs,                         *)
(* domain/services/auth_service.rs, api/extractors/auth.rs).               *)
(*                                                                         *)
(* As in Booking, a free element of Handlers takes the next request, each  *)
(* step ends at an await, and consecutive reads that decide nothing        *)
(* between them are one step.  Nothing here uses a transaction.            *)
(* Access tokens are signed and not stored, so a handler cannot take one   *)
(* back; users[u].access is the time up to which some access token of u is *)
(* accepted.                                                               *)
(***************************************************************************)
EXTENDS Naturals, FiniteSets

CONSTANTS
    Handlers,       \* request tasks
    Tenants,        \* slugs; a tenant row is never deleted and keeps its slug
    UserIds,        \* the UUIDs User::new may draw; bounds the users created
    Names,          \* usernames that create_member is asked for
    Admin,          \* the username "admin"
    TokenIds,       \* refresh tokens that may be drawn; bounds the logins and refreshes
    DefaultLabels,  \* labels create_tenant adds, in the code three
    None,           \* no user, no token, no name, no tenant
    AccessLife,     \* validity of an access token, 15 minutes and the leeway of decode
    RefreshLife,    \* validity of a refresh token, 7 days
    Failures,       \* TRUE: a statement may fail
    LastTime        \* bound on the clock

ASSUME LoginsAssumption ==
    /\ None \notin Tenants /\ None \notin UserIds /\ None \notin TokenIds
    /\ None \notin Names \cup {Admin} /\ None \notin DefaultLabels
    /\ AccessLife \in Nat /\ RefreshLife \in Nat
    /\ Failures \in BOOLEAN
    /\ LastTime \in Nat

VARIABLES
    tenants,   \* tenants with a row
    labels,    \* booking_labels: <<tenant, name>>
    users,     \* table users; row "none": id not drawn yet, "deleted": row removed
    tokens,    \* table refresh_tokens, with the rows that are gone
    now,       \* Utc::now()
    pc,        \* what each handler does next
    req,       \* the request it works on and what it has read for it
    todo       \* labels create_tenant has still to add

tables == <<tenants, labels, users, tokens>>
locals == <<pc, req, todo>>
vars == <<tables, now, locals>>

-----------------------------------------------------------------------------
Kinds == {"tenant", "member", "remove", "login", "refresh"}
Pcs == {"idle", "user", "label", "delete", "expire", "rotate", "issue"}

\* access, left: until when access tokens are valid, when the row was deleted
UserType ==
    [row : {"none", "stored", "deleted"}, tenant : Tenants \cup {None},
     name : Names \cup {Admin, None}, access : Nat, left : Nat]

\* A family is named after the token it began with.
TokenType ==
    [row : {"none", "stored", "gone"}, user : UserIds \cup {None},
     family : TokenIds \cup {None}, generation : Nat, expires : Nat]

RequestType ==
    [kind : Kinds \cup {"none"}, tenant : Tenants \cup {None},
     user : UserIds \cup {None}, name : Names \cup {Admin, None},
     token : TokenIds \cup {None}, family : TokenIds \cup {None}, generation : Nat,
     issued : Nat]

\* The type of the tables and of what requests keep across awaits.
TypeOK ==
    /\ tenants \in SUBSET Tenants
    /\ labels \in SUBSET (Tenants \X DefaultLabels)
    /\ users \in [UserIds -> UserType]
    /\ tokens \in [TokenIds -> TokenType]
    /\ now \in Nat
    /\ pc \in [Handlers -> Pcs]
    /\ req \in [Handlers -> RequestType]
    /\ todo \in [Handlers -> SUBSET DefaultLabels]

NoUser == [row |-> "none", tenant |-> None, name |-> None, access |-> 0, left |-> 0]

NoToken ==
    [row |-> "none", user |-> None, family |-> None, generation |-> 0, expires |-> 0]

NoRequest ==
    [kind |-> "none", tenant |-> None, user |-> None, name |-> None, token |-> None,
     family |-> None, generation |-> 0, issued |-> 0]

Init ==
    /\ tenants = {}
    /\ labels = {}
    /\ users = [u \in UserIds |-> NoUser]
    /\ tokens = [t \in TokenIds |-> NoToken]
    /\ now = 0
    /\ pc = [h \in Handlers |-> "idle"]
    /\ req = [h \in Handlers |-> NoRequest]
    /\ todo = [h \in Handlers |-> {}]

-----------------------------------------------------------------------------
Idle(h) == pc[h] = "idle"

HasUser(u) == users[u].row = "stored"
HasToken(t) == tokens[t].row = "stored"

\* find_by_username, and the constraint UNIQUE(tenant_id, username)
NameTaken(tenant, name) ==
    \E u \in UserIds : HasUser(u) /\ users[u].tenant = tenant /\ users[u].name = name

Goto(h, at, request) ==
    /\ pc' = [pc EXCEPT ![h] = at]
    /\ req' = [req EXCEPT ![h] = request]
    /\ UNCHANGED todo

\* The request of h returns to its client, with a result or an error.
Return(h) ==
    /\ pc' = [pc EXCEPT ![h] = "idle"]
    /\ req' = [req EXCEPT ![h] = NoRequest]
    /\ todo' = [todo EXCEPT ![h] = {}]

\* AuthUser: the access token alone decides; the users table is not asked.
Authenticated(u) == users[u].access > now

-----------------------------------------------------------------------------
\* Tenants and members.

\* create_tenant: the unique slug refuses a second tenant.
CreateTenant(h, s) ==
    /\ Idle(h) /\ s \notin tenants
    /\ tenants' = tenants \cup {s}
    /\ pc' = [pc EXCEPT ![h] = "user"]
    /\ req' = [req EXCEPT ![h] = [NoRequest EXCEPT !.kind = "tenant", !.tenant = s, !.name = Admin]]
    /\ todo' = [todo EXCEPT ![h] = DefaultLabels]
    /\ UNCHANGED <<labels, users, tokens, now>>

\* create_member, up to find_by_username
CreateMember(h, actor, s, name) ==
    /\ Idle(h) /\ Authenticated(actor) /\ s \in tenants
    /\ ~NameTaken(s, name)
    /\ Goto(h, "user", [NoRequest EXCEPT !.kind = "member", !.tenant = s, !.name = name])
    /\ UNCHANGED <<tables, now>>

\* user_repo.create; create_tenant goes on to its labels.
InsertUser(h, u) ==
    LET r == req[h]
        row == [NoUser EXCEPT !.row = "stored", !.tenant = r.tenant, !.name = r.name]
    IN  /\ pc[h] = "user" /\ users[u].row = "none"
        /\ \/ /\ ~NameTaken(r.tenant, r.name)
              /\ users' = [users EXCEPT ![u] = row]
              /\ IF r.kind = "tenant" THEN Goto(h, "label", r) ELSE Return(h)
           \/ /\ NameTaken(r.tenant, r.name)
              /\ Return(h)
              /\ UNCHANGED users
        /\ UNCHANGED <<tenants, labels, tokens, now>>

\* One label of create_tenant; the result of the insert is ignored.
InsertLabel(h, l) ==
    /\ pc[h] = "label" /\ l \in todo[h]
    /\ \/ labels' = labels \cup {<<req[h].tenant, l>>}
       \/ Failures /\ UNCHANGED labels
    /\ todo' = [todo EXCEPT ![h] = todo[h] \ {l}]
    /\ UNCHANGED <<tenants, users, tokens, now, pc, req>>

TenantCreated(h) ==
    /\ pc[h] = "label" /\ todo[h] = {}
    /\ Return(h)
    /\ UNCHANGED <<tables, now>>

\* delete_member, up to find_by_id
DeleteMember(h, actor, u) ==
    /\ Idle(h) /\ Authenticated(actor) /\ actor # u
    /\ HasUser(u)
    /\ Goto(h, "delete", [NoRequest EXCEPT !.kind = "remove", !.user = u])
    /\ UNCHANGED <<tables, now>>

\* mutant: the refresh tokens of a deleted user stay
TokensKept(u) == tokens

\* refresh_tokens.user_id: ON DELETE CASCADE
TokensWithout(u) ==
    [t \in TokenIds |-> IF HasToken(t) /\ tokens[t].user = u
                        THEN [tokens[t] EXCEPT !.row = "gone"] ELSE tokens[t]]

\* user_repo.delete: nothing happens if the row is gone.
RemoveUser(h) ==
    LET u == req[h].user
    IN  /\ pc[h] = "delete"
        /\ IF HasUser(u)
           THEN /\ users' = [users EXCEPT ![u] =
                                [users[u] EXCEPT !.row = "deleted", !.left = now]]
                /\ tokens' = TokensWithout(u)
           ELSE UNCHANGED <<users, tokens>>
        /\ Return(h)
        /\ UNCHANGED <<tenants, labels, now>>

-----------------------------------------------------------------------------
\* Logins and refresh tokens.

\* login: find_by_username and the password; a new family at generation 1
Login(h, u) ==
    /\ Idle(h) /\ HasUser(u)
    /\ Goto(h, "issue", [NoRequest EXCEPT !.kind = "login", !.user = u, !.generation = 1,
                                          !.issued = now])
    /\ UNCHANGED <<tables, now>>

\* refresh: the token, its user, the token again and its expiry
RefreshRead(h, t) ==
    LET r == tokens[t]
        at == IF r.expires < now THEN "expire" ELSE "rotate"
    IN  /\ Idle(h) /\ HasToken(t) /\ HasUser(r.user)
        /\ Goto(h, at, [NoRequest EXCEPT !.kind = "refresh", !.user = r.user, !.token = t,
                                         !.family = r.family, !.generation = r.generation])
        /\ UNCHANGED <<tables, now>>

\* mutant: a misspelt state
GoneMisspelt(t) ==
    IF HasToken(t) THEN [tokens EXCEPT ![t] = [tokens[t] EXCEPT !.row = "deleted"]] ELSE tokens

\* delete_refresh_token: no matter whether the row is still there
Gone(t) == IF HasToken(t) THEN [tokens EXCEPT ![t] = [tokens[t] EXCEPT !.row = "gone"]] ELSE tokens

Expire(h) ==
    /\ pc[h] = "expire"
    /\ tokens' = Gone(req[h].token)
    /\ Return(h)
    /\ UNCHANGED <<tenants, labels, users, now>>

\* mutant: the old token is left in the table
RotateKeep(h) ==
    /\ pc[h] = "rotate"
    /\ Goto(h, "issue", [req[h] EXCEPT !.generation = req[h].generation + 1, !.issued = now])
    /\ UNCHANGED <<tables, now>>

\* The old token goes before the new one is issued, one generation later.
Rotate(h) ==
    /\ pc[h] = "rotate"
    /\ tokens' = Gone(req[h].token)
    /\ Goto(h, "issue", [req[h] EXCEPT !.generation = req[h].generation + 1, !.issued = now])
    /\ UNCHANGED <<tenants, labels, users, now>>

\* mutant: every exchange begins a family of its own
NewTokenOwnFamily(h, t) ==
    [row |-> "stored", user |-> req[h].user, family |-> t,
     generation |-> req[h].generation, expires |-> req[h].issued + RefreshLife]

\* The refresh token of the pair that the request of h is given.
NewToken(h, t) ==
    LET r == req[h]
    IN  [row |-> "stored", user |-> r.user,
         family |-> IF r.kind = "login" THEN t ELSE r.family,
         generation |-> r.generation, expires |-> r.issued + RefreshLife]

Later(a, b) == IF a > b THEN a ELSE b

\* mutant: the access token is handed out before the refresh token is stored
IssueAccessFirst(h, t) ==
    LET u == req[h].user
    IN  /\ pc[h] = "issue" /\ tokens[t].row = "none"
        /\ tokens' = IF HasUser(u) THEN [tokens EXCEPT ![t] = NewToken(h, t)] ELSE tokens
        /\ users' = [users EXCEPT ![u].access = Later(@, req[h].issued + AccessLife)]
        /\ Return(h)
        /\ UNCHANGED <<tenants, labels, now>>

\* issue_token_pair: the client gets the two tokens if the refresh token could
\* be stored; refresh_tokens.user_id refuses one of a user who is gone.
IssueTokenPair(h, t) ==
    LET u == req[h].user
    IN  /\ pc[h] = "issue" /\ tokens[t].row = "none"
        /\ IF HasUser(u)
           THEN /\ tokens' = [tokens EXCEPT ![t] = NewToken(h, t)]
                /\ users' = [users EXCEPT ![u] =
                        [users[u] EXCEPT !.access = Later(users[u].access, req[h].issued + AccessLife)]]
           ELSE UNCHANGED <<tokens, users>>
        /\ Return(h)
        /\ UNCHANGED <<tenants, labels, now>>

\* logout: one statement, whose error is ignored
Logout(t) ==
    /\ \E h \in Handlers : Idle(h)
    /\ HasToken(t)
    /\ tokens' = Gone(t)
    /\ UNCHANGED <<tenants, labels, users, now, locals>>

\* A statement fails, or the client goes away; what has been written stays.
Fail(h) ==
    /\ Failures /\ ~Idle(h)
    /\ Return(h)
    /\ UNCHANGED <<tables, now>>

Tick ==
    /\ now < LastTime
    /\ now' = now + 1
    /\ UNCHANGED <<tables, locals>>

-----------------------------------------------------------------------------
Begin(h) ==
    \/ \E s \in Tenants : CreateTenant(h, s)
    \/ \E a \in UserIds, s \in Tenants, n \in Names : CreateMember(h, a, s, n)
    \/ \E a, u \in UserIds : DeleteMember(h, a, u)
    \/ \E u \in UserIds : Login(h, u)
    \/ \E t \in TokenIds : RefreshRead(h, t)

Continue(h) ==
    \/ \E u \in UserIds : InsertUser(h, u)
    \/ \E l \in DefaultLabels : InsertLabel(h, l)
    \/ TenantCreated(h) \/ RemoveUser(h) \/ Expire(h) \/ Rotate(h)
    \/ \E t \in TokenIds : IssueTokenPair(h, t)

Next ==
    \/ \E h \in Handlers : Begin(h) \/ Continue(h) \/ Fail(h)
    \/ \E t \in TokenIds : Logout(t)
    \/ Tick

Spec == Init /\ [][Next]_vars

-----------------------------------------------------------------------------
\* Properties

\* The sessions that have not ended: those with a token in the table, and those one
\* of whose tokens has been found by a refresh that is still under way, for a user who
\* exists.  A logout does not end the latter: refresh does not look at how many rows
\* its delete removed and issues the next token all the same.
Exchanging(h) == pc[h] \in {"rotate", "issue"} /\ req[h].kind = "refresh"

OpenSessions ==
    {f \in TokenIds :
        \/ \E t \in TokenIds : HasToken(t) /\ tokens[t].family = f
        \/ \E h \in Handlers : Exchanging(h) /\ req[h].family = f /\ HasUser(req[h].user)}

Issued(f) == {t \in TokenIds : tokens[t].row # "none" /\ tokens[t].family = f}

Generations == [f \in TokenIds |-> {tokens[t].generation : t \in Issued(f)}]

Promise == INSTANCE LoginSessions WITH
    Families <- TokenIds, open <- OpenSessions, generations <- Generations

\* login, refresh, logout and delete_member keep what LoginSessions promises: a
\* session without a token in the table and without an exchange under way, after a
\* logout, an expiry, a failed exchange or the removal of its user, is never continued
\* and its family never reused, and generations follow one another ("1, 2, 3...
\* increments on rotation").  A logout stops the refreshes that begin after it, not
\* one that had found the token before.
ImplementsLoginSessions == Promise!Spec

\* A member who has been deleted can act for AccessLife at most, although AuthUser
\* does not look at the users table and a login or a refresh of that member may be
\* under way when delete_member runs.
FormerMemberShutOut ==
    \A u \in UserIds :
        users[u].row = "deleted" /\ Authenticated(u) => now < users[u].left + AccessLife

\* A session has one token in the table, unless two requests have exchanged the
\* same token for two of the same generation (refresh does not look at how many
\* rows its delete removed).
OneTokenUnlessRaced ==
    \A a, b \in TokenIds :
        a # b /\ HasToken(a) /\ HasToken(b) /\ tokens[a].family = tokens[b].family =>
            \E c, d \in Issued(tokens[a].family) :
                c # d /\ tokens[c].generation = tokens[d].generation

\* A token in the table belongs to a user in the table, whichever of delete_member
\* and an exchange in flight comes first; refresh finds the user of every token.
TokensHaveUsers == \A t \in TokenIds : HasToken(t) => HasUser(tokens[t].user)
=============================================================================
