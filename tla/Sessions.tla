------------------------------ MODULE Sessions ------------------------------
(***************************************************************************)
(* internal/handlers/auth.go, internal/auth/jwt.go, the token, key and     *)
(* user statements of internal/database: logins, refresh-token rotation,   *)
(* API keys, and the guarded changes of user accounts.                     *)
(*                                                                         *)
(* A request is a sequence of steps, one per database statement, and       *)
(* requests interleave.  A refresh token is its number; the family of a    *)
(* token is the login it descends from.  An access token is the user and   *)
(* the role it was issued with: the role in it may be out of date.         *)
(***************************************************************************)
EXTENDS Integers, FiniteSets

CONSTANTS
    Accounts,       \* user accounts
    AuthRequests,   \* requests that may be under way together
    StartRole,      \* the role each account starts with, NotYet: it will be created
    GrantRoles,     \* roles the requests ask for
    NoAccount,
    MaxTokens,      \* bound: refresh tokens and API keys made
    MaxKeys,        \* bound: API keys created
    MaxAuthErrors,  \* bound: statements that fail and tokens that expire
    MaxChanges      \* bound: account changes

\* auth.roleWeight: viewer 1, dept_admin 2, network_admin 3, admin 4, super_admin 5.
RoleWeights == 1..5

\* An account (users.id, a BIGSERIAL that tokens refer to) that is not there yet,
\* and one whose row was deleted: its number is not given out again.
NotYet == 0
Gone == -1

ASSUME SessionsAssumption ==
    /\ NoAccount \notin Accounts
    /\ StartRole \in [Accounts -> {NotYet} \cup RoleWeights] /\ GrantRoles \subseteq RoleWeights
    /\ {MaxTokens, MaxKeys, MaxAuthErrors, MaxChanges} \subseteq Nat

RefreshTokens == 1..MaxTokens
ApiKeys == 1..MaxKeys

VARIABLES
    role,       \* users.role, NotYet or Gone
    enabled,    \* users.enabled
    stored,     \* refresh_tokens
    keys,       \* api_keys: the owner of each key that exists
    tok,        \* what a refresh token says: its user and its family (a login)
    minted,     \* number of refresh tokens signed so far
    minted2,    \* number of API keys made so far
    access,     \* access tokens that are still valid
    expired,    \* refresh tokens past their expiry
    req,        \* the requests
    changes,    \* account changes so far (history)
    errors,     \* failed statements and expired tokens (history)
    shown,      \* refresh tokens presented so far (history)
    upset       \* accounts with a replay, an expiry, a change or a failure (history)

sessionVars == <<role, enabled, stored, keys, tok, minted, minted2, access, expired, req,
                 changes, errors, shown, upset>>

NoRequest == [pc |-> "idle", user |-> NoAccount, tok |-> 0, weight |-> 0,
              patch |-> <<"none", 0>>, barred |-> FALSE]

Patches == ({"role"} \X RoleWeights) \cup ({"enabled"} \X {0, 1}) \cup {<<"none", 0>>}

SessionsTypeOK ==
    /\ role \in [Accounts -> {Gone, NotYet} \cup RoleWeights] /\ enabled \in [Accounts -> BOOLEAN]
    /\ stored \subseteq 1..minted /\ minted \in 0..MaxTokens /\ minted2 \in 0..MaxKeys
    /\ keys \in [ApiKeys -> Accounts \cup {NoAccount}]
    /\ tok \in [RefreshTokens -> [user : Accounts \cup {NoAccount}, family : 0..MaxTokens]]
    /\ access \subseteq Accounts \X RoleWeights
    /\ expired \subseteq RefreshTokens /\ shown \subseteq RefreshTokens /\ upset \subseteq Accounts
    /\ \A q \in AuthRequests :
          /\ req[q].pc \in {"idle", "store", "lookup", "reuse", "user", "disabled", "claim",
                            "replay", "rotate", "key", "change", "remove"}
          /\ req[q].patch \in Patches

SessionsInit ==
    /\ role = StartRole /\ enabled = [u \in Accounts |-> TRUE]
    /\ stored = {} /\ keys = [k \in ApiKeys |-> NoAccount]
    /\ tok = [t \in RefreshTokens |-> [user |-> NoAccount, family |-> 0]]
    /\ minted = 0 /\ minted2 = 0 /\ access = {} /\ expired = {}
    /\ req = [q \in AuthRequests |-> NoRequest]
    /\ changes = 0 /\ errors = 0 /\ shown = {} /\ upset = {}

tokenVars == <<stored, tok, minted, expired, shown>>
userVars == <<role, enabled, changes>>
keyVars == <<keys, minted2>>

\* The users row is there.
Exists(u) == role[u] \in RoleWeights

Fails == errors < MaxAuthErrors /\ errors' = errors + 1
Works == UNCHANGED errors
Answer(q) == req' = [req EXCEPT ![q] = NoRequest]
Goto(q, pc) == req' = [req EXCEPT ![q].pc = pc]

-----------------------------------------------------------------------------
\* DeleteRefreshToken, DeleteRefreshTokensByUser.
DeleteRefreshToken(t) == stored' = stored \ {t}
DeleteRefreshTokensByUser(u) == stored' = {t \in stored : tok[t].user # u}

\* GenerateTokenPairWithPerms: sign an access and a refresh token; family 0
\* starts a new one.
GenerateTokenPair(u, weight, family) ==
    /\ minted + minted2 < MaxTokens /\ minted' = minted + 1
    /\ tok' = [tok EXCEPT ![minted + 1] =
                 [user |-> u, family |-> IF family = 0 THEN minted + 1 ELSE family]]
    /\ access' = access \cup {<<u, weight>>}

\* CreateRefreshToken: the row refers to the users row.
CreateRefreshToken(t, u) == Exists(u) /\ stored' = stored \cup {t}

\* authenticate: the account exists, the password is right and the account
\* is enabled.
Login(q, u) ==
    /\ req[q].pc = "idle" /\ Exists(u) /\ enabled[u]
    /\ req' = [req EXCEPT ![q] = [NoRequest EXCEPT !.pc = "store", !.user = u, !.weight = role[u]]]
    /\ UNCHANGED <<tokenVars, userVars, keyVars, access, errors, upset>>

\* ... and the token is stored; when that fails nothing is handed out.
StoreLogin(q) ==
    /\ req[q].pc = "store" /\ Answer(q)
    /\ \/ /\ GenerateTokenPair(req[q].user, req[q].weight, 0)
          /\ CreateRefreshToken(minted + 1, req[q].user) /\ Works
       \/ /\ IF Exists(req[q].user) THEN Fails ELSE Works
          /\ UNCHANGED <<minted, tok, access, stored>>
    /\ UNCHANGED <<expired, shown, userVars, keyVars, upset>>

\* ValidateRefreshToken: a signature by this server, not expired, typ refresh.
ValidateRefreshToken(t) == t <= minted /\ t \notin expired

\* Refresh begins.  A token shown twice upsets its account.
Refresh(q, t) ==
    /\ req[q].pc = "idle" /\ ValidateRefreshToken(t)
    /\ req' = [req EXCEPT ![q] = [NoRequest EXCEPT !.pc = "lookup", !.user = tok[t].user, !.tok = t,
                                    !.barred = ~Exists(tok[t].user) \/ ~enabled[tok[t].user]]]
    /\ shown' = shown \cup {t}
    /\ upset' = IF t \in shown \/ t \notin stored THEN upset \cup {tok[t].user} ELSE upset
    /\ UNCHANGED <<stored, tok, minted, expired, userVars, keyVars, access, errors>>

\* GetRefreshToken; a token that is signed but not stored was used before.
GetRefreshToken(q) ==
    /\ req[q].pc = "lookup"
    /\ \/ Works /\ Goto(q, IF req[q].tok \in stored THEN "user" ELSE "reuse") /\ UNCHANGED upset
       \/ Fails /\ Goto(q, "reuse") /\ upset' = upset \cup {req[q].user}
    /\ UNCHANGED <<tokenVars, userVars, keyVars, access>>

\* The token family is revoked: every session of the user.
RevokeFamily(q) ==
    /\ req[q].pc \in {"reuse", "replay"} /\ Answer(q)
    /\ \/ Works /\ DeleteRefreshTokensByUser(req[q].user)
       \/ Fails /\ UNCHANGED stored
    /\ UNCHANGED <<tok, minted, expired, shown, userVars, keyVars, access, upset>>

\* GetUserByID: the account may be gone or disabled.
GetUserForRefresh(q) ==
    /\ req[q].pc = "user"
    /\ LET u == req[q].user
       IN \/ Works /\ ~Exists(u) /\ Answer(q) /\ UNCHANGED upset
          \/ Works /\ Exists(u) /\ ~enabled[u] /\ Goto(q, "disabled") /\ UNCHANGED upset
          \/ /\ Works /\ Exists(u) /\ enabled[u]
             /\ req' = [req EXCEPT ![q].pc = "claim", ![q].weight = role[u]] /\ UNCHANGED upset
          \/ Fails /\ Answer(q) /\ upset' = upset \cup {u}
    /\ UNCHANGED <<tokenVars, userVars, keyVars, access>>

DropDisabled(q) ==
    /\ req[q].pc = "disabled" /\ Answer(q)
    /\ DeleteRefreshToken(req[q].tok)
    /\ UNCHANGED <<tok, minted, expired, shown, userVars, keyVars, access, errors, upset>>

\* Seeded fault: the number of deleted rows is not looked at.
ClaimAlways(q) ==
    /\ req[q].pc = "claim" /\ Works /\ UNCHANGED upset
    /\ DeleteRefreshToken(req[q].tok) /\ Goto(q, "rotate")
    /\ UNCHANGED <<tok, minted, expired, shown, userVars, keyVars, access>>

\* ClaimRefreshToken deletes the row; only one request can.
ClaimRefreshToken(q) ==
    /\ req[q].pc = "claim"
    /\ LET t == req[q].tok
       IN \/ /\ Works /\ t \in stored \ expired /\ DeleteRefreshToken(t) /\ Goto(q, "rotate")
             /\ UNCHANGED upset
          \/ Works /\ t \notin stored \ expired /\ Goto(q, "replay") /\ UNCHANGED <<stored, upset>>
          \/ Fails /\ Answer(q) /\ upset' = upset \cup {req[q].user} /\ UNCHANGED stored
    /\ UNCHANGED <<tok, minted, expired, shown, userVars, keyVars, access>>

\* A new pair with the role just read.  That the row cannot be stored is
\* ignored: the client gets a token that will be taken for a replay.
Rotate(q) ==
    /\ req[q].pc = "rotate" /\ Answer(q)
    /\ GenerateTokenPair(req[q].user, req[q].weight, tok[req[q].tok].family)
    /\ \/ CreateRefreshToken(minted + 1, req[q].user) /\ Works /\ UNCHANGED upset
       \/ /\ IF Exists(req[q].user) THEN Fails ELSE Works
          /\ upset' = upset \cup {req[q].user} /\ UNCHANGED stored
    /\ UNCHANGED <<expired, shown, userVars, keyVars>>

\* Logout and V1Logout.  A logout that meets a refresh of the same token
\* makes it look replayed.
Logout(t) ==
    /\ t \in stored
    /\ DeleteRefreshToken(t) /\ shown' = shown \cup {t}
    /\ upset' = IF t \in shown THEN upset \cup {tok[t].user} ELSE upset
    /\ UNCHANGED <<tok, minted, expired, userVars, keyVars, access, req, errors>>

\* Time passes: a refresh token runs out.  (An access token that runs out is
\* one that is not used any more.)
ExpireRefresh(t) ==
    /\ t <= minted /\ t \notin expired /\ Fails
    /\ expired' = expired \cup {t} /\ upset' = upset \cup {tok[t].user}
    /\ UNCHANGED <<stored, tok, minted, shown, userVars, keyVars, access, req>>

-----------------------------------------------------------------------------
\* RequireAuth: the caller's account and role, from its access token.
Callers == access

\* canGrantRole, outranksOrEqual.
CanGrantRole(weight, r) == r <= weight

Outranks(weight, r) == r <= weight

\* CreateUser: the requested role is at or below the caller's; the username
\* is free and a concurrent insert of it fails.
CreateUser(c, u, r) ==
    /\ role[u] = NotYet /\ CanGrantRole(c[2], r) /\ changes < MaxChanges
    /\ role' = [role EXCEPT ![u] = r] /\ enabled' = [enabled EXCEPT ![u] = TRUE]
    /\ changes' = changes + 1
    /\ UNCHANGED <<tokenVars, keyVars, access, req, errors, upset>>

\* GuardUserUpdate reads the target and checks the patch ...
GuardUserUpdate(q, c, u, patch) ==
    /\ req[q].pc = "idle" /\ Exists(u) /\ changes < MaxChanges
    /\ Outranks(c[2], role[u]) /\ c[1] # u
    /\ patch[1] = "role" => CanGrantRole(c[2], patch[2])
    /\ req' = [req EXCEPT ![q] = [NoRequest EXCEPT !.pc = "change", !.user = u, !.patch = patch]]
    /\ changes' = changes + 1
    /\ UNCHANGED <<tokenVars, role, enabled, keyVars, access, errors, upset>>

\* ... and the update is a later statement.  A barred request stays barred
\* only while the account is.
UpdateUser(q) ==
    /\ req[q].pc = "change"
    /\ LET u == req[q].user p == req[q].patch
       IN /\ role' = IF p[1] = "role" /\ Exists(u) THEN [role EXCEPT ![u] = p[2]] ELSE role
          /\ enabled' = IF p[1] = "enabled" THEN [enabled EXCEPT ![u] = (p[2] = 1)] ELSE enabled
          /\ upset' = IF p[1] = "enabled" THEN upset \cup {u} ELSE upset
          /\ req' = [r \in AuthRequests |->
                       IF r = q THEN NoRequest
                       ELSE IF req[r].user = u /\ enabled'[u] THEN [req[r] EXCEPT !.barred = FALSE]
                       ELSE req[r]]
    /\ UNCHANGED <<tokenVars, changes, keyVars, access, errors>>

\* DeleteUser: not oneself, not a super admin, nobody of a higher role.
DeleteUser(q, c, u) ==
    /\ req[q].pc = "idle" /\ Exists(u) /\ c[1] # u /\ changes < MaxChanges
    /\ role[u] # 5 /\ Outranks(c[2], role[u])
    /\ req' = [req EXCEPT ![q] = [NoRequest EXCEPT !.pc = "remove", !.user = u]]
    /\ changes' = changes + 1
    /\ UNCHANGED <<tokenVars, role, enabled, keyVars, access, errors, upset>>

\* The row goes, and with it the user's tokens and keys.
RemoveUser(q) ==
    /\ req[q].pc = "remove" /\ Answer(q)
    /\ LET u == req[q].user
       IN /\ role' = [role EXCEPT ![u] = Gone]
          /\ DeleteRefreshTokensByUser(u)
          /\ keys' = [k \in ApiKeys |-> IF keys[k] = u THEN NoAccount ELSE keys[k]]
          /\ upset' = upset \cup {u}
    /\ UNCHANGED <<enabled, tok, minted, expired, shown, changes, minted2, access, errors>>

\* CreateAPIKey for the caller's account, which must still exist.
CreateAPIKey(c) ==
    /\ Exists(c[1]) /\ minted2 < MaxKeys /\ minted + minted2 < MaxTokens
    /\ minted2' = minted2 + 1 /\ keys' = [keys EXCEPT ![minted2 + 1] = c[1]]
    /\ UNCHANGED <<tokenVars, userVars, access, req, errors, upset>>

\* DeleteAPIKey: only by its owner.
DeleteAPIKey(c, k) ==
    /\ keys[k] = c[1]
    /\ keys' = [keys EXCEPT ![k] = NoAccount]
    /\ UNCHANGED <<tokenVars, userVars, minted2, access, req, errors, upset>>

\* apiKeyLookup finds the key ...
LookupAPIKey(q, k) ==
    /\ req[q].pc = "idle" /\ keys[k] # NoAccount
    /\ req' = [req EXCEPT ![q] = [NoRequest EXCEPT !.pc = "key", !.user = keys[k],
                                    !.barred = ~enabled[keys[k]]]]
    /\ UNCHANGED <<tokenVars, userVars, keyVars, access, errors, upset>>

\* ... and then its owner: a request of the key runs with the current role.
AuthenticateKey(q) ==
    /\ req[q].pc = "key"
    /\ LET u == req[q].user
       IN \/ /\ Exists(u) /\ enabled[u] /\ Answer(q)
             /\ access' = access \cup {<<u, role[u]>>}
          \/ ~(Exists(u) /\ enabled[u]) /\ Answer(q) /\ UNCHANGED access
    /\ UNCHANGED <<tokenVars, userVars, keyVars, errors, upset>>

SessionsNext ==
    \/ \E q \in AuthRequests :
          \/ \E u \in Accounts : Login(q, u)
          \/ \E t \in RefreshTokens : Refresh(q, t)
          \/ \E k \in ApiKeys : LookupAPIKey(q, k)
          \/ \E c \in Callers, u \in Accounts :
                \/ DeleteUser(q, c, u)
                \/ \E p \in ({"role"} \X GrantRoles) \cup ({"enabled"} \X {0, 1}) :
                      GuardUserUpdate(q, c, u, p)
          \/ StoreLogin(q) \/ GetRefreshToken(q) \/ RevokeFamily(q) \/ GetUserForRefresh(q)
          \/ DropDisabled(q) \/ ClaimRefreshToken(q) \/ Rotate(q)
          \/ UpdateUser(q) \/ RemoveUser(q) \/ AuthenticateKey(q)
    \/ \E t \in RefreshTokens : Logout(t) \/ ExpireRefresh(t)
    \/ \E c \in Callers : \/ CreateAPIKey(c)
                          \/ \E k \in ApiKeys : DeleteAPIKey(c, k)
                          \/ \E u \in Accounts, r \in GrantRoles : CreateUser(c, u, r)

SessionsSpec == SessionsInit /\ [][SessionsNext]_sessionVars

-----------------------------------------------------------------------------
(***************************************************************************)
(* Properties.                                                             *)
(***************************************************************************)
Family(f) == {t \in 1..minted : tok[t].family = f}
Rotating(f) == {q \in AuthRequests : req[q].pc = "rotate" /\ tok[req[q].tok].family = f}

\* "... rather than forking it" (auth.go:216-218): however refreshes of one
\* token interleave, a login has at most one usable refresh token, counting
\* the one a request that claimed its predecessor is about to store.
FamilyNotForked ==
    \A f \in 1..minted : Cardinality(Family(f) \cap stored) + Cardinality(Rotating(f)) <= 1

\* A session nobody logged out, replayed, let expire or disabled is kept:
\* its login has a usable refresh token or a request about to store one
\* (auth.go:156-256).
SessionKept ==
    \A f \in 1..minted :
        (tok[f].user \notin upset /\ tok[f].family = f)
        => \/ Family(f) \cap stored # {} \/ Rotating(f) # {}
           \/ \E t \in Family(f) : t \in shown /\ \A s \in Family(f) : s <= t  \* logged out

\* An account that was disabled or deleted before a refresh began, and
\* stayed so, gets no token from it (auth.go:192-203).
BarredGetsNothing ==
    \A q \in AuthRequests : req[q].barred => req[q].pc \notin {"claim", "rotate"}

\* No sequence of account changes, with roles read before they changed or
\* taken from old access tokens, makes a role higher than the highest there
\* was (auth.go:492-570).
NoRoleAboveTheHighest ==
    /\ \A u \in Accounts : \E v \in Accounts : role[u] <= StartRole[v]
    /\ \A c \in access : \E v \in Accounts : c[2] <= StartRole[v]

\* The promises of sign-in (auth.go) together: sessions neither fork nor get
\* lost, and neither barred accounts nor old roles gain anything by a race.
SessionsSafe ==
    /\ SessionsTypeOK
    /\ FamilyNotForked
    /\ SessionKept
    /\ BarredGetsNothing
    /\ NoRoleAboveTheHighest
=============================================================================
