---------------------------- MODULE AccessProofs ----------------------------
(***************************************************************************)
(* Proofs that sign-in (SessionsSafe), kept secrets (SecretsKept) and the  *)
(* limits on logins and requests (LoginLimiterSafe) are safe, for any      *)
(* accounts, requests, tokens, administrators, clients and secrets, and    *)
(* every bound on what they do.                                            *)
(*                                                                         *)
(* Sessions: whatever a refresh does wrong to its session it does to an    *)
(* account that is already upset.  The invariant says which requests can   *)
(* miss their token, and that a family lives in one place.                 *)
(* Secrets: without an overlap at most one actor is between two steps, and *)
(* what it has read is still what is stored.                               *)
(* Limits: every login let through in the window is a recorded attempt of  *)
(* its own, and what counts against a user only one address has tried      *)
(* counts against the pair.                                                *)
(***************************************************************************)
EXTENDS Sessions, Secrets, LoginLimiter, FiniteSetTheorems, SequenceTheorems, WellFoundedInduction, TLAPS

-----------------------------------------------------------------------------
(***************************************************************************)
(* Sign-in.                                                                *)
(***************************************************************************)
Pcs == {"idle", "store", "lookup", "reuse", "user", "disabled", "claim",
        "replay", "rotate", "key", "change", "remove"}
Req == [pc : Pcs, user : Accounts \cup {NoAccount}, tok : 0..MaxTokens,
        weight : {0} \cup RoleWeights, patch : Patches, barred : BOOLEAN]

\* A refresh is under way.
RefreshPcs == {"lookup", "reuse", "user", "disabled", "claim", "replay", "rotate"}
\* ... and expects to find its token stored.
Expecting == {"lookup", "user", "disabled", "claim"}

\* A role that some account started with, or less.
Below(w) == \E v \in Accounts : w <= StartRole[v]

\* A token belongs to an account that has been there, descends from a login of
\* the same account, and upsets it by expiring.
TokenOK(t) ==
    /\ tok[t].user \in Accounts /\ role[tok[t].user] # NotYet
    /\ tok[t].family \in 1..t
    /\ tok[tok[t].family].family = tok[t].family
    /\ tok[tok[t].family].user = tok[t].user
    /\ t \in expired => tok[t].user \in upset

TokensOK == expired \subseteq 1..minted /\ \A t \in 1..minted : TokenOK(t)

\* A refresh that misses its token, or takes it for a replay, is one of an
\* upset account; roles on their way are bounded; a barred request cannot
\* become the request of an account that may sign in.
RequestOK(q) ==
    /\ req[q].pc \in RefreshPcs => /\ req[q].tok \in 1..minted /\ req[q].tok \in shown
                                   /\ req[q].user = tok[req[q].tok].user
    /\ req[q].pc \in Expecting /\ req[q].tok \notin stored => req[q].user \in upset
    /\ req[q].pc \in {"reuse", "replay"} => req[q].user \in upset
    /\ req[q].pc \in {"store", "key", "change", "remove"} => req[q].user \in Accounts
    /\ req[q].pc \in {"store", "claim", "rotate"} =>
           req[q].weight \in RoleWeights /\ Below(req[q].weight)
    /\ req[q].pc = "change" /\ req[q].patch[1] = "role" => Below(req[q].patch[2])
    /\ req[q].barred => /\ req[q].pc \notin {"claim", "rotate"}
                        /\ req[q].pc \in {"lookup", "user"} =>
                               ~(Exists(req[q].user) /\ enabled[req[q].user])

\* Two refreshes of one token upset its account.
NoTwins ==
    \A q, r \in AuthRequests :
        /\ q # r /\ req[q].pc \in RefreshPcs /\ req[r].pc \in RefreshPcs
        /\ req[q].tok = req[r].tok
        => req[q].user \in upset

\* A family lives in one stored token or in one request.
OneHolder ==
    /\ \A s, t \in stored : tok[s].family = tok[t].family => s = t
    /\ \A s \in stored, q \in AuthRequests :
           req[q].pc = "rotate" => tok[s].family # tok[req[q].tok].family
    /\ \A q, r \in AuthRequests :
           /\ req[q].pc = "rotate" /\ req[r].pc = "rotate"
           /\ tok[req[q].tok].family = tok[req[r].tok].family
           => q = r

\* The last token of a family.
IsNewest(t) == \A s \in 1..minted : tok[s].family = tok[t].family => s <= t

\* Every login has one, and it is stored until someone shows it.
NewestKept ==
    /\ \A f \in 1..minted : tok[f].family = f => \E t \in Family(f) : IsNewest(t)
    /\ \A t \in 1..minted : IsNewest(t) /\ tok[t].user \notin upset /\ t \notin shown => t \in stored

SessionInv ==
    /\ SessionsTypeOK /\ req \in [AuthRequests -> Req]
    /\ TokensOK /\ (\A q \in AuthRequests : RequestOK(q)) /\ NoTwins
    /\ OneHolder /\ NewestKept /\ NoRoleAboveTheHighest

-----------------------------------------------------------------------------
\* Numbers and records.
LEMMA SessionNumbers ==
    /\ MaxTokens \in Nat /\ MaxKeys \in Nat /\ RoleWeights \subseteq Nat
    /\ \A v \in Accounts : StartRole[v] \in Nat
  BY SessionsAssumption DEF RoleWeights, NotYet

LEMMA NoRequestIsReq ==
    /\ NoRequest \in Req /\ NoRequest.pc = "idle" /\ NoRequest.patch = <<"none", 0>>
    /\ ~NoRequest.barred
  <1>1. PICK b \in BOOLEAN : b = FALSE
    OBVIOUS
  <1>2. NoRequest = [pc |-> "idle", user |-> NoAccount, tok |-> 0, weight |-> 0,
                     patch |-> <<"none", 0>>, barred |-> b]
    BY <1>1, Zenon DEF NoRequest
  <1>3. <<"none", 0>> \in Patches
    BY DEF Patches
  <1>4. 0 \in 0..MaxTokens
    BY SessionNumbers
  <1> QED
    BY <1>1, <1>2, <1>3, <1>4 DEF Req, Pcs

\* What is known of a token and of a request, by type.
LEMMA SessionTypes ==
    ASSUME SessionInv
    PROVE  /\ minted \in Nat /\ minted <= MaxTokens /\ 1..minted \subseteq RefreshTokens
           /\ \A q \in AuthRequests : req[q] \in Req
           /\ \A u \in Accounts : role[u] \in {Gone, NotYet} \cup RoleWeights /\ role[u] \in Int
           /\ \A t \in 1..minted : tok[t].user \in Accounts
           /\ stored \subseteq 1..minted
  <1>1. minted \in Nat /\ minted <= MaxTokens /\ 1..minted \subseteq RefreshTokens
    BY SessionNumbers DEF SessionInv, SessionsTypeOK, RefreshTokens
  <1>2. \A q \in AuthRequests : req[q] \in Req
    BY DEF SessionInv
  <1>3. \A u \in Accounts : role[u] \in {Gone, NotYet} \cup RoleWeights
    BY DEF SessionInv, SessionsTypeOK
  <1>4. \A u \in Accounts : role[u] \in Int
    BY <1>3, SessionNumbers DEF Gone, NotYet
  <1>5. \A t \in 1..minted : tok[t].user \in Accounts
    BY DEF SessionInv, TokensOK, TokenOK
  <1>6. stored \subseteq 1..minted
    BY DEF SessionInv, SessionsTypeOK
  <1> QED
    BY <1>1, <1>2, <1>3, <1>4, <1>5, <1>6

-----------------------------------------------------------------------------
(***************************************************************************)
(* A step that signs no token.  Q holds the request that moves, if any.    *)
(***************************************************************************)
UsersStep ==
    /\ role' \in [Accounts -> {Gone, NotYet} \cup RoleWeights]
    /\ enabled' \in [Accounts -> BOOLEAN]
    /\ \A u \in Accounts : role'[u] = NotYet => role[u] = NotYet
    /\ \A u \in Accounts : Below(role'[u])

KeysStep ==
    /\ keys' \in [ApiKeys -> Accounts \cup {NoAccount}]
    /\ minted2' \in 0..MaxKeys

AccessStep == access' \subseteq Accounts \X RoleWeights /\ \A c \in access' : Below(c[2])

HistoryStep ==
    /\ stored' \subseteq stored
    /\ shown \subseteq shown' /\ shown' \subseteq RefreshTokens
    /\ upset \subseteq upset' /\ upset' \subseteq Accounts
    /\ expired' \subseteq 1..minted /\ \A t \in expired' : tok[t].user \in upset'

\* A request that does not move may only lose its bar.
SameRequest(r) ==
    /\ req'[r].pc = req[r].pc /\ req'[r].user = req[r].user /\ req'[r].tok = req[r].tok
    /\ req'[r].weight = req[r].weight /\ req'[r].patch = req[r].patch
    /\ req'[r].barred =>
           /\ req[r].barred
           /\ req[r].pc \in {"lookup", "user"} =>
                  ~(role'[req[r].user] \in RoleWeights /\ enabled'[req[r].user])

RequestStep(Q) ==
    /\ req' \in [AuthRequests -> Req]
    /\ \A r \in AuthRequests \ Q : SameRequest(r)
    /\ \A q \in Q : RequestOK(q)'
    /\ \A q \in Q, r \in AuthRequests :
           /\ q # r /\ req'[q].pc \in RefreshPcs /\ req[r].pc \in RefreshPcs
           /\ req[r].tok = req'[q].tok
           => req'[q].user \in upset'
    /\ \A q \in Q : req'[q].pc = "rotate" => req'[q].tok \in stored \ stored'

\* A row goes because its token was shown or its account is upset, and no
\* other refresh misses it unless the account is.
Removed(Q) ==
    \A t \in stored \ stored' :
        /\ t \in shown' \/ tok[t].user \in upset'
        /\ \A r \in AuthRequests \ Q :
               req[r].pc \in Expecting /\ req[r].tok = t => tok[t].user \in upset'

Unsigned(Q) ==
    /\ UNCHANGED <<tok, minted>>
    /\ UsersStep /\ KeysStep /\ AccessStep /\ HistoryStep /\ RequestStep(Q) /\ Removed(Q)

LEMMA UnsignedKeeps ==
    ASSUME SessionInv, NEW Q \in SUBSET AuthRequests, \A q, r \in Q : q = r, Unsigned(Q)
    PROVE  SessionInv'
  <1> USE DEF Unsigned
  <1>1. /\ minted' = minted /\ tok' = tok /\ stored \subseteq 1..minted /\ minted \in Nat
        /\ \A t \in 1..minted : TokenOK(t)
        /\ \A q \in AuthRequests : RequestOK(q)
    BY SessionTypes DEF SessionInv, TokensOK
  <1>2. SessionsTypeOK'
    <2>1. /\ stored' \subseteq 1..minted' /\ minted' \in 0..MaxTokens
          /\ tok' \in [RefreshTokens -> [user : Accounts \cup {NoAccount}, family : 0..MaxTokens]]
          /\ expired' \subseteq RefreshTokens
      BY <1>1, SessionTypes DEF SessionInv, SessionsTypeOK, HistoryStep
    <2>2. \A q \in AuthRequests : req'[q].pc \in Pcs /\ req'[q].patch \in Patches
      BY DEF RequestStep, Req
    <2> QED
      BY <2>1, <2>2 DEF SessionsTypeOK, UsersStep, KeysStep, AccessStep, HistoryStep, Pcs
  <1>3. TokensOK'
    <2>1. \A t \in 1..minted : TokenOK(t)'
      BY <1>1 DEF TokenOK, UsersStep, HistoryStep
    <2> QED
      BY <1>1, <2>1 DEF TokensOK, HistoryStep
  <1>4. ASSUME NEW r \in AuthRequests \ Q PROVE RequestOK(r)'
    <2>1. SameRequest(r) /\ RequestOK(r) /\ req[r] \in Req
      BY <1>1, SessionTypes DEF RequestStep
    <2>2. req[r].pc \in RefreshPcs => /\ req[r].tok \in 1..minted /\ req[r].tok \in shown'
                                      /\ req[r].user = tok[req[r].tok].user
      BY <2>1 DEF RequestOK, HistoryStep
    <2>3. req[r].pc \in Expecting /\ req[r].tok \notin stored' => req[r].user \in upset'
      BY <2>1, <2>2 DEF RequestOK, HistoryStep, Removed, Expecting, RefreshPcs
    <2>4. req[r].pc \in {"reuse", "replay"} => req[r].user \in upset'
      BY <2>1 DEF RequestOK, HistoryStep
    <2>5. req'[r].barred => /\ req[r].pc \notin {"claim", "rotate"}
                            /\ req[r].pc \in {"lookup", "user"} =>
                                  ~(role'[req[r].user] \in RoleWeights /\ enabled'[req[r].user])
      BY <2>1 DEF RequestOK, SameRequest
    <2> QED
      BY <1>1, <2>1, <2>2, <2>3, <2>4, <2>5 DEF RequestOK, SameRequest, Exists
  <1>5. \A q \in AuthRequests : RequestOK(q)'
    BY <1>4 DEF RequestStep
  <1>6. NoTwins'
    <2> SUFFICES ASSUME NEW q \in AuthRequests, NEW r \in AuthRequests, q # r,
                        req'[q].pc \in RefreshPcs, req'[r].pc \in RefreshPcs,
                        req'[q].tok = req'[r].tok
                 PROVE  req'[q].user \in upset'
      BY DEF NoTwins
    <2>1. req'[q].user = req'[r].user
      BY <1>5 DEF RequestOK
    <2>2. CASE q \in Q
      <3>1. r \notin Q
        BY <2>2
      <3>2. req[r].pc = req'[r].pc /\ req[r].tok = req'[r].tok
        BY <3>1 DEF RequestStep, SameRequest
      <3> QED
        BY <2>2, <3>2 DEF RequestStep
    <2>3. CASE r \in Q
      <3>1. q \notin Q
        BY <2>3
      <3>2. req[q].pc = req'[q].pc /\ req[q].tok = req'[q].tok
        BY <3>1 DEF RequestStep, SameRequest
      <3> QED
        BY <2>1, <2>3, <3>2 DEF RequestStep
    <2>4. CASE q \notin Q /\ r \notin Q
      <3>1. /\ req[r].pc = req'[r].pc /\ req[r].tok = req'[r].tok
            /\ req[q].pc = req'[q].pc /\ req[q].tok = req'[q].tok /\ req[q].user = req'[q].user
        BY <2>4 DEF RequestStep, SameRequest
      <3> QED
        BY <3>1 DEF SessionInv, NoTwins, HistoryStep
    <2> QED
      BY <2>2, <2>3, <2>4
  <1>7. OneHolder'
    <2>1. ASSUME NEW q \in AuthRequests, req'[q].pc = "rotate"
          PROVE  \/ q \notin Q /\ req[q].pc = "rotate" /\ req'[q].tok = req[q].tok
                 \/ q \in Q /\ req'[q].tok \in stored \ stored'
      BY <2>1 DEF RequestStep, SameRequest
    <2>2. \A s, t \in stored' : tok'[s].family = tok'[t].family => s = t
      BY <1>1 DEF SessionInv, OneHolder, HistoryStep
    <2>3. ASSUME NEW s \in stored', NEW q \in AuthRequests, req'[q].pc = "rotate"
          PROVE  tok'[s].family # tok'[req'[q].tok].family
      BY <1>1, <2>1, <2>3 DEF SessionInv, OneHolder, HistoryStep
    <2>4. ASSUME NEW q \in AuthRequests, NEW r \in AuthRequests, req'[q].pc = "rotate",
                 req'[r].pc = "rotate", tok'[req'[q].tok].family = tok'[req'[r].tok].family
          PROVE  q = r
      <3>1. PICK s, t : s = req'[q].tok /\ t = req'[r].tok
        OBVIOUS
      <3>2. tok[s].family = tok[t].family
        BY <1>1, <2>4, <3>1
      <3>3. OneHolder
        BY DEF SessionInv
      <3>4. CASE q \in Q
        <4>1. s \in stored
          BY <2>1, <2>4, <3>1, <3>4
        <4>2. CASE r \in Q
          BY <3>4, <4>2
        <4>3. CASE r \notin Q
          <5>1. req[r].pc = "rotate" /\ req[r].tok = t
            BY <2>1, <2>4, <3>1, <4>3
          <5> QED
            BY <3>2, <3>3, <4>1, <5>1 DEF OneHolder
        <4> QED
          BY <4>2, <4>3
      <3>5. CASE q \notin Q
        <4>1. req[q].pc = "rotate" /\ req[q].tok = s
          BY <2>1, <2>4, <3>1, <3>5
        <4>2. CASE r \in Q
          <5>1. t \in stored
            BY <2>1, <2>4, <3>1, <4>2
          <5> QED
            BY <3>2, <3>3, <4>1, <5>1 DEF OneHolder
        <4>3. CASE r \notin Q
          <5>1. req[r].pc = "rotate" /\ req[r].tok = t
            BY <2>1, <2>4, <3>1, <4>3
          <5> QED
            BY <3>2, <3>3, <4>1, <5>1 DEF OneHolder
        <4> QED
          BY <4>2, <4>3
      <3> QED
        BY <3>4, <3>5
    <2> QED
      BY <2>2, <2>3, <2>4 DEF OneHolder
  <1>8. NewestKept'
    <2>1. \A t \in 1..minted : IsNewest(t)' <=> IsNewest(t)
      BY <1>1 DEF IsNewest
    <2>2. \A f : Family(f)' = Family(f)
      BY <1>1 DEF Family
    <2>3. \A f \in 1..minted : tok[f].family = f => \E t \in Family(f) : IsNewest(t)'
      BY <2>1 DEF SessionInv, NewestKept, Family
    <2>4. ASSUME NEW t \in 1..minted, IsNewest(t), tok[t].user \notin upset', t \notin shown'
          PROVE  t \in stored'
      BY <2>4 DEF SessionInv, NewestKept, HistoryStep, Removed
    <2> QED
      BY <1>1, <2>1, <2>2, <2>3, <2>4 DEF NewestKept
  <1>9. NoRoleAboveTheHighest'
    BY DEF NoRoleAboveTheHighest, UsersStep, AccessStep, Below
  <1> QED
    BY <1>2, <1>3, <1>5, <1>6, <1>7, <1>8, <1>9 DEF SessionInv, RequestStep

-----------------------------------------------------------------------------
(***************************************************************************)
(* The parts of a step that most actions share.                            *)
(***************************************************************************)
LEMMA UsersSame ==
    ASSUME SessionInv, UNCHANGED <<role, enabled>>
    PROVE  UsersStep
  BY DEF SessionInv, SessionsTypeOK, NoRoleAboveTheHighest, UsersStep, Below

LEMMA KeysSame ==
    ASSUME SessionInv, UNCHANGED <<keys, minted2>>
    PROVE  KeysStep
  BY DEF SessionInv, SessionsTypeOK, KeysStep

LEMMA AccessSame ==
    ASSUME SessionInv, UNCHANGED access
    PROVE  AccessStep
  BY DEF SessionInv, SessionsTypeOK, NoRoleAboveTheHighest, AccessStep, Below

LEMMA HistorySame ==
    ASSUME SessionInv, UNCHANGED <<shown, expired>>, stored' \subseteq stored,
           upset \subseteq upset', upset' \subseteq Accounts
    PROVE  HistoryStep
  <1>1. shown \subseteq RefreshTokens
    BY DEF SessionInv, SessionsTypeOK
  <1>2. expired \subseteq 1..minted /\ \A t \in expired : tok[t].user \in upset
    BY DEF SessionInv, TokensOK, TokenOK
  <1> QED
    BY <1>1, <1>2 DEF HistoryStep

\* One request moves to x.
LEMMA OneMoves ==
    ASSUME SessionInv, UNCHANGED <<role, enabled>>, NEW q \in AuthRequests, NEW x \in Req,
           req' = [req EXCEPT ![q] = x]
    PROVE  /\ req' \in [AuthRequests -> Req] /\ req'[q] = x
           /\ \A r \in AuthRequests \ {q} : req'[r] = req[r] /\ SameRequest(r)
  <1>1. /\ req' \in [AuthRequests -> Req] /\ req'[q] = x
        /\ \A r \in AuthRequests \ {q} : req'[r] = req[r]
    BY DEF SessionInv
  <1>2. \A r \in AuthRequests : RequestOK(r)
    BY DEF SessionInv
  <1>3. \A r \in AuthRequests \ {q} : SameRequest(r)
    BY <1>1, <1>2 DEF SameRequest, RequestOK, Exists
  <1> QED
    BY <1>1, <1>3

\* It is not a refresh, or not any more.
LEMMA NotRefreshing ==
    ASSUME SessionInv, UNCHANGED <<role, enabled>>, NEW q \in AuthRequests, NEW x \in Req,
           req' = [req EXCEPT ![q] = x], x.pc \notin RefreshPcs, RequestOK(q)'
    PROVE  RequestStep({q})
  BY OneMoves DEF RequestStep, RefreshPcs

\* It answers.
LEMMA Answered ==
    ASSUME SessionInv, UNCHANGED <<role, enabled>>, NEW q \in AuthRequests, Answer(q)
    PROVE  RequestStep({q})
  <1>1. req' = [req EXCEPT ![q] = NoRequest]
    BY DEF Answer
  <1>2. req'[q] = NoRequest
    BY <1>1, OneMoves, NoRequestIsReq
  <1>3. RequestOK(q)'
    BY <1>2, NoRequestIsReq DEF RequestOK, RefreshPcs, Expecting
  <1> QED
    BY <1>1, <1>3, NotRefreshing, NoRequestIsReq DEF RefreshPcs

\* A refresh goes on with its token.
LEMMA Refreshing ==
    ASSUME SessionInv, UNCHANGED <<role, enabled>>, NEW q \in AuthRequests, NEW x \in Req,
           req' = [req EXCEPT ![q] = x], req[q].pc \in RefreshPcs, x.tok = req[q].tok,
           x.user = req[q].user, upset \subseteq upset', RequestOK(q)',
           x.pc = "rotate" => x.tok \in stored \ stored'
    PROVE  RequestStep({q})
  <1>1. /\ req' \in [AuthRequests -> Req] /\ req'[q] = x
        /\ \A r \in AuthRequests \ {q} : SameRequest(r)
    BY OneMoves
  <1>2. \A r \in AuthRequests :
           q # r /\ req[r].pc \in RefreshPcs /\ req[r].tok = x.tok => x.user \in upset'
    BY DEF SessionInv, NoTwins
  <1> QED
    BY <1>1, <1>2 DEF RequestStep

LEMMA GotoIs ==
    ASSUME SessionInv, NEW q \in AuthRequests, NEW pc \in Pcs, Goto(q, pc)
    PROVE  \E x \in Req : /\ req' = [req EXCEPT ![q] = x] /\ x.pc = pc /\ x.tok = req[q].tok
                          /\ x.user = req[q].user /\ x.weight = req[q].weight
                          /\ x.patch = req[q].patch /\ x.barred = req[q].barred
  <1>1. req[q] \in Req
    BY DEF SessionInv
  <1>2. PICK x : x = [req[q] EXCEPT !.pc = pc]
    OBVIOUS
  <1>3. req' = [req EXCEPT ![q] = x]
    BY <1>2 DEF Goto, SessionInv
  <1>4. /\ x \in Req /\ x.pc = pc /\ x.tok = req[q].tok
        /\ x.user = req[q].user /\ x.weight = req[q].weight
        /\ x.patch = req[q].patch /\ x.barred = req[q].barred
    BY <1>1, <1>2 DEF Req
  <1> QED
    BY <1>3, <1>4

-----------------------------------------------------------------------------
(***************************************************************************)
(* The actions.                                                            *)
(***************************************************************************)
LEMMA LoginKeeps ==
    ASSUME SessionInv, NEW q \in AuthRequests, NEW u \in Accounts, Login(q, u)
    PROVE  SessionInv'
  <1>1. /\ Exists(u)
        /\ UNCHANGED <<tok, minted, stored, shown, upset, expired, role, enabled, keys, minted2, access>>
    BY DEF Login, tokenVars, userVars, keyVars
  <1>2. PICK x : x = [NoRequest EXCEPT !.pc = "store", !.user = u, !.weight = role[u]]
    OBVIOUS
  <1>3. req' = [req EXCEPT ![q] = x]
    BY <1>2 DEF Login
  <1>4. x \in Req /\ x.pc = "store" /\ x.user = u /\ x.weight = role[u] /\ ~x.barred
    BY <1>1, <1>2, NoRequestIsReq DEF Req, Pcs, Exists
  <1>5. Below(role[u])
    BY DEF SessionInv, NoRoleAboveTheHighest, Below
  <1>6. req'[q] = x
    BY <1>1, <1>3, <1>4, OneMoves
  <1>7. RequestOK(q)'
    BY <1>1, <1>4, <1>5, <1>6 DEF RequestOK, RefreshPcs, Expecting, Exists
  <1>8. RequestStep({q})
    BY <1>1, <1>3, <1>4, <1>7, NotRefreshing DEF RefreshPcs
  <1>9. HistoryStep
    BY <1>1, HistorySame DEF SessionInv, SessionsTypeOK
  <1>10. Unsigned({q})
    BY <1>1, <1>8, <1>9, UsersSame, KeysSame, AccessSame DEF Unsigned, Removed
  <1> QED
    BY <1>10, UnsignedKeeps

LEMMA RefreshKeeps ==
    ASSUME SessionInv, NEW q \in AuthRequests, NEW t \in RefreshTokens, Refresh(q, t)
    PROVE  SessionInv'
  <1> DEFINE u == tok[t].user
  <1>1. /\ t \in 1..minted /\ t \notin expired /\ shown' = shown \cup {t}
        /\ upset' = IF t \in shown \/ t \notin stored THEN upset \cup {u} ELSE upset
        /\ UNCHANGED <<tok, minted, stored, expired, role, enabled, keys, minted2, access>>
    BY SessionTypes DEF Refresh, ValidateRefreshToken, userVars, keyVars, RefreshTokens
  <1>2. u \in Accounts
    BY <1>1, SessionTypes
  <1>3. PICK b \in BOOLEAN : b = (~Exists(u) \/ ~enabled[u])
    BY Zenon
  <1>4. PICK x : x = [NoRequest EXCEPT !.pc = "lookup", !.user = u, !.tok = t, !.barred = b]
    OBVIOUS
  <1>5. req' = [req EXCEPT ![q] = x]
    BY <1>3, <1>4 DEF Refresh
  <1>6. t \in 0..MaxTokens
    BY SessionNumbers DEF RefreshTokens
  <1>7. x \in Req /\ x.pc = "lookup" /\ x.user = u /\ x.tok = t /\ x.barred = b
    BY <1>2, <1>4, <1>6, NoRequestIsReq DEF Req, Pcs
  <1> HIDE DEF u
  <1>8. /\ req' \in [AuthRequests -> Req] /\ req'[q] = x
        /\ \A r \in AuthRequests \ {q} : SameRequest(r)
    BY <1>1, <1>5, <1>7, OneMoves
  <1>9. RequestOK(q)'
    BY <1>1, <1>2, <1>3, <1>7, <1>8 DEF RequestOK, RefreshPcs, Expecting, Exists, u
  <1>10. ASSUME NEW r \in AuthRequests, req[r].pc \in RefreshPcs, req[r].tok = t
         PROVE  u \in upset'
    <2>1. t \in shown
      BY <1>10 DEF SessionInv, RequestOK
    <2> QED
      BY <1>1, <2>1
  <1>11. RequestStep({q})
    BY <1>7, <1>8, <1>9, <1>10 DEF RequestStep
  <1>12. HistoryStep
    <2>1. shown \subseteq RefreshTokens /\ upset \subseteq Accounts
      BY DEF SessionInv, SessionsTypeOK
    <2>2. expired \subseteq 1..minted /\ \A s \in expired : tok[s].user \in upset
      BY DEF SessionInv, TokensOK, TokenOK
    <2> QED
      BY <1>1, <1>2, <2>1, <2>2 DEF HistoryStep
  <1>13. Unsigned({q})
    BY <1>1, <1>11, <1>12, UsersSame, KeysSame, AccessSame DEF Unsigned, Removed
  <1> QED
    BY <1>13, UnsignedKeeps

\* A refresh that goes on within its request, removes at most the token it
\* holds, and upsets at most its account.
LEMMA ContinueKeeps ==
    ASSUME SessionInv, NEW q \in AuthRequests, RequestStep({q}), req[q].pc \in RefreshPcs,
           UNCHANGED <<tok, minted, shown, expired, role, enabled, keys, minted2, access>>,
           stored' = stored \/ stored' = stored \ {req[q].tok},
           upset' = upset \/ upset' = upset \cup {req[q].user}
    PROVE  SessionInv'
  <1>1. /\ req[q].tok \in 1..minted /\ req[q].tok \in shown
        /\ req[q].user = tok[req[q].tok].user /\ req[q].user \in Accounts
    BY SessionTypes DEF SessionInv, RequestOK
  <1>2. HistoryStep
    BY <1>1, HistorySame DEF SessionInv, SessionsTypeOK
  <1>3. Removed({q})
    <2> SUFFICES ASSUME NEW t \in stored \ stored'
                 PROVE  /\ t \in shown' \/ tok[t].user \in upset'
                        /\ \A r \in AuthRequests \ {q} :
                              req[r].pc \in Expecting /\ req[r].tok = t => tok[t].user \in upset'
      BY DEF Removed
    <2>1. t = req[q].tok
      OBVIOUS
    <2>2. \A r \in AuthRequests \ {q} :
             req[r].pc \in Expecting /\ req[r].tok = t => tok[t].user \in upset'
      BY <1>1, <2>1 DEF SessionInv, NoTwins, Expecting, RefreshPcs
    <2> QED
      BY <1>1, <2>1, <2>2
  <1>4. Unsigned({q})
    BY <1>2, <1>3, UsersSame, KeysSame, AccessSame DEF Unsigned
  <1> QED
    BY <1>4, UnsignedKeeps

LEMMA GetRefreshTokenKeeps ==
    ASSUME SessionInv, NEW q \in AuthRequests, GetRefreshToken(q)
    PROVE  SessionInv'
  <1>1. /\ req[q].pc = "lookup"
        /\ UNCHANGED <<tok, minted, stored, shown, expired, role, enabled, keys, minted2, access>>
        /\ upset' = upset \/ upset' = upset \cup {req[q].user}
    BY DEF GetRefreshToken, tokenVars, userVars, keyVars
  <1>2. PICK pc \in {"user", "reuse"} :
            Goto(q, pc) /\ (pc = "user" => req[q].tok \in stored)
                        /\ (pc = "reuse" => req[q].tok \notin stored \/ req[q].user \in upset')
    BY DEF GetRefreshToken
  <1>3. PICK x \in Req : /\ req' = [req EXCEPT ![q] = x] /\ x.pc = pc /\ x.tok = req[q].tok
                         /\ x.user = req[q].user /\ x.barred = req[q].barred
    BY <1>2, GotoIs DEF Pcs
  <1>4. req'[q] = x
    BY <1>1, <1>3, OneMoves
  <1>5. RequestOK(q)
    BY DEF SessionInv
  <1>6. pc = "reuse" => req[q].user \in upset'
    BY <1>1, <1>2, <1>5 DEF RequestOK, Expecting
  <1>7. RequestOK(q)'
    BY <1>1, <1>2, <1>3, <1>4, <1>5, <1>6 DEF RequestOK, RefreshPcs, Expecting, Exists
  <1>8. RequestStep({q})
    BY <1>1, <1>2, <1>3, <1>7, Refreshing DEF RefreshPcs
  <1> QED
    BY <1>1, <1>8, ContinueKeeps DEF RefreshPcs

LEMMA RevokeFamilyKeeps ==
    ASSUME SessionInv, NEW q \in AuthRequests, RevokeFamily(q)
    PROVE  SessionInv'
  <1>1. /\ Answer(q) /\ req[q].pc \in {"reuse", "replay"}
        /\ UNCHANGED <<tok, minted, shown, expired, role, enabled, keys, minted2, access, upset>>
        /\ stored' \subseteq stored /\ \A t \in stored \ stored' : tok[t].user = req[q].user
    BY DEF RevokeFamily, DeleteRefreshTokensByUser, userVars, keyVars
  <1>2. req[q].user \in upset
    BY <1>1 DEF SessionInv, RequestOK
  <1>3. Removed({q})
    BY <1>1, <1>2 DEF Removed
  <1>4. HistoryStep
    BY <1>1, HistorySame DEF SessionInv, SessionsTypeOK
  <1>5. Unsigned({q})
    BY <1>1, <1>3, <1>4, Answered, UsersSame, KeysSame, AccessSame DEF Unsigned
  <1> QED
    BY <1>5, UnsignedKeeps

LEMMA GetUserForRefreshKeeps ==
    ASSUME SessionInv, NEW q \in AuthRequests, GetUserForRefresh(q)
    PROVE  SessionInv'
  <1>1. /\ req[q].pc = "user"
        /\ UNCHANGED <<tok, minted, stored, shown, expired, role, enabled, keys, minted2, access>>
        /\ upset' = upset \/ upset' = upset \cup {req[q].user}
    BY DEF GetUserForRefresh, tokenVars, userVars, keyVars
  <1>2. RequestOK(q) /\ req[q] \in Req /\ req[q].user \in Accounts
    BY <1>1, SessionTypes DEF SessionInv, RequestOK, RefreshPcs
  <1>3. CASE Answer(q)
    BY <1>1, <1>3, Answered, ContinueKeeps DEF RefreshPcs
  <1>4. CASE Goto(q, "disabled")
    <2>1. PICK x \in Req : /\ req' = [req EXCEPT ![q] = x] /\ x.pc = "disabled"
                           /\ x.tok = req[q].tok /\ x.user = req[q].user
      BY <1>4, GotoIs DEF Pcs
    <2>2. req'[q] = x
      BY <1>1, <2>1, OneMoves
    <2>3. RequestOK(q)'
      BY <1>1, <1>2, <2>1, <2>2 DEF RequestOK, RefreshPcs, Expecting
    <2>4. RequestStep({q})
      BY <1>1, <2>1, <2>3, Refreshing DEF RefreshPcs
    <2> QED
      BY <1>1, <2>4, ContinueKeeps DEF RefreshPcs
  <1>5. CASE /\ Exists(req[q].user) /\ enabled[req[q].user]
             /\ req' = [req EXCEPT ![q].pc = "claim", ![q].weight = role[req[q].user]]
    <2>1. PICK x : x = [req[q] EXCEPT !.pc = "claim", !.weight = role[req[q].user]]
      OBVIOUS
    <2>2. req' = [req EXCEPT ![q] = x]
      BY <1>5, <2>1 DEF SessionInv
    <2>3. /\ x \in Req /\ x.pc = "claim" /\ x.tok = req[q].tok /\ x.user = req[q].user
          /\ x.weight = role[req[q].user] /\ x.barred = req[q].barred
      BY <1>2, <1>5, <2>1 DEF Req, Pcs, Exists
    <2>4. req'[q] = x
      BY <1>1, <2>2, <2>3, OneMoves
    <2>5. ~req[q].barred
      BY <1>1, <1>2, <1>5 DEF RequestOK
    <2>6. Below(role[req[q].user])
      BY <1>2 DEF SessionInv, NoRoleAboveTheHighest, Below
    <2>7. RequestOK(q)'
      BY <1>1, <1>2, <1>5, <2>3, <2>4, <2>5, <2>6 DEF RequestOK, RefreshPcs, Expecting, Exists
    <2>8. RequestStep({q})
      BY <1>1, <2>2, <2>3, <2>7, Refreshing DEF RefreshPcs
    <2> QED
      BY <1>1, <2>8, ContinueKeeps DEF RefreshPcs
  <1> QED
    BY <1>3, <1>4, <1>5 DEF GetUserForRefresh

LEMMA DropDisabledKeeps ==
    ASSUME SessionInv, NEW q \in AuthRequests, DropDisabled(q)
    PROVE  SessionInv'
  <1>1. /\ req[q].pc = "disabled" /\ Answer(q) /\ stored' = stored \ {req[q].tok}
        /\ UNCHANGED <<tok, minted, shown, expired, role, enabled, keys, minted2, access, upset>>
    BY DEF DropDisabled, DeleteRefreshToken, userVars, keyVars
  <1> QED
    BY <1>1, Answered, ContinueKeeps DEF RefreshPcs

LEMMA ClaimKeeps ==
    ASSUME SessionInv, NEW q \in AuthRequests, ClaimRefreshToken(q)
    PROVE  SessionInv'
  <1>1. /\ req[q].pc = "claim"
        /\ UNCHANGED <<tok, minted, shown, expired, role, enabled, keys, minted2, access>>
        /\ upset' = upset \/ upset' = upset \cup {req[q].user}
        /\ stored' = stored \/ stored' = stored \ {req[q].tok}
    BY DEF ClaimRefreshToken, DeleteRefreshToken, userVars, keyVars
  <1>2. RequestOK(q)
    BY DEF SessionInv
  <1>3. CASE Answer(q)
    BY <1>1, <1>3, Answered, ContinueKeeps DEF RefreshPcs
  <1>4. CASE /\ Goto(q, "rotate") /\ req[q].tok \in stored /\ stored' = stored \ {req[q].tok}
             /\ UNCHANGED upset
    <2>1. PICK x \in Req : /\ req' = [req EXCEPT ![q] = x] /\ x.pc = "rotate"
                           /\ x.tok = req[q].tok /\ x.user = req[q].user
                           /\ x.weight = req[q].weight /\ x.barred = req[q].barred
      BY <1>4, GotoIs DEF Pcs
    <2>2. req'[q] = x
      BY <1>1, <2>1, OneMoves
    <2>3. RequestOK(q)'
      BY <1>1, <1>2, <1>4, <2>1, <2>2 DEF RequestOK, RefreshPcs, Expecting
    <2>4. RequestStep({q})
      BY <1>1, <1>4, <2>1, <2>3, Refreshing DEF RefreshPcs
    <2> QED
      BY <1>1, <2>4, ContinueKeeps DEF RefreshPcs
  <1>5. CASE Goto(q, "replay") /\ req[q].tok \notin stored \ expired /\ UNCHANGED <<stored, upset>>
    <2>1. PICK x \in Req : /\ req' = [req EXCEPT ![q] = x] /\ x.pc = "replay"
                           /\ x.tok = req[q].tok /\ x.user = req[q].user
      BY <1>5, GotoIs DEF Pcs
    <2>2. req'[q] = x
      BY <1>1, <2>1, OneMoves
    <2>3. req[q].user \in upset
      BY <1>1, <1>2, <1>5 DEF RequestOK, RefreshPcs, Expecting, SessionInv, TokensOK, TokenOK
    <2>4. RequestOK(q)'
      BY <1>1, <1>2, <1>5, <2>1, <2>2, <2>3 DEF RequestOK, RefreshPcs, Expecting
    <2>5. RequestStep({q})
      BY <1>1, <1>5, <2>1, <2>4, Refreshing DEF RefreshPcs
    <2> QED
      BY <1>1, <2>5, ContinueKeeps DEF RefreshPcs
  <1> QED
    BY <1>3, <1>4, <1>5 DEF ClaimRefreshToken, DeleteRefreshToken

\* A step of no request: unless it changes accounts, every request stays.
LEMMA NobodyMoves ==
    ASSUME SessionInv, UNCHANGED <<role, enabled, req>>
    PROVE  RequestStep({})
  <1>1. \A r \in AuthRequests : RequestOK(r)
    BY DEF SessionInv
  <1>2. \A r \in AuthRequests : SameRequest(r)
    BY <1>1 DEF SameRequest, RequestOK, Exists
  <1> QED
    BY <1>2 DEF RequestStep, SessionInv

LEMMA LogoutKeeps ==
    ASSUME SessionInv, NEW t \in RefreshTokens, Logout(t)
    PROVE  SessionInv'
  <1>1. /\ t \in stored /\ stored' = stored \ {t} /\ shown' = shown \cup {t}
        /\ upset' = IF t \in shown THEN upset \cup {tok[t].user} ELSE upset
        /\ UNCHANGED <<tok, minted, expired, role, enabled, keys, minted2, access, req>>
    BY DEF Logout, DeleteRefreshToken, userVars, keyVars
  <1>2. tok[t].user \in Accounts
    BY <1>1, SessionTypes
  <1>3. HistoryStep
    <2>1. shown \subseteq RefreshTokens /\ upset \subseteq Accounts
      BY DEF SessionInv, SessionsTypeOK
    <2>2. expired \subseteq 1..minted /\ \A s \in expired : tok[s].user \in upset
      BY DEF SessionInv, TokensOK, TokenOK
    <2> QED
      BY <1>1, <1>2, <2>1, <2>2 DEF HistoryStep
  <1>4. Removed({})
    <2>1. ASSUME NEW r \in AuthRequests, req[r].pc \in Expecting, req[r].tok = t
          PROVE  tok[t].user \in upset'
      <3>1. t \in shown
        BY <2>1 DEF SessionInv, RequestOK, Expecting, RefreshPcs
      <3> QED
        BY <1>1, <3>1
    <2> QED
      BY <1>1, <2>1 DEF Removed
  <1>5. Unsigned({})
    BY <1>1, <1>3, <1>4, NobodyMoves, UsersSame, KeysSame, AccessSame DEF Unsigned
  <1> QED
    BY <1>5, UnsignedKeeps

LEMMA ExpireKeeps ==
    ASSUME SessionInv, NEW t \in RefreshTokens, ExpireRefresh(t)
    PROVE  SessionInv'
  <1>1. /\ t \in 1..minted /\ expired' = expired \cup {t} /\ upset' = upset \cup {tok[t].user}
        /\ UNCHANGED <<tok, minted, stored, shown, role, enabled, keys, minted2, access, req>>
    BY SessionTypes DEF ExpireRefresh, userVars, keyVars, RefreshTokens
  <1>2. tok[t].user \in Accounts
    BY <1>1, SessionTypes
  <1>3. HistoryStep
    <2>1. shown \subseteq RefreshTokens /\ upset \subseteq Accounts
      BY DEF SessionInv, SessionsTypeOK
    <2>2. expired \subseteq 1..minted /\ \A s \in expired : tok[s].user \in upset
      BY DEF SessionInv, TokensOK, TokenOK
    <2> QED
      BY <1>1, <1>2, <2>1, <2>2 DEF HistoryStep
  <1>4. Unsigned({})
    BY <1>1, <1>3, NobodyMoves, UsersSame, KeysSame, AccessSame DEF Unsigned, Removed
  <1> QED
    BY <1>4, UnsignedKeeps

\* What a caller may grant is bounded by what it was given.
LEMMA GrantBelow ==
    ASSUME SessionInv, NEW c \in access, NEW r \in RoleWeights, r <= c[2]
    PROVE  Below(r)
  <1>1. c[2] \in RoleWeights /\ Below(c[2])
    BY DEF SessionInv, SessionsTypeOK, NoRoleAboveTheHighest, Below
  <1>2. PICK w \in RoleWeights : w = c[2]
    BY <1>1
  <1>3. PICK v \in Accounts : w <= StartRole[v]
    BY <1>1, <1>2 DEF Below
  <1>4. r <= w /\ r \in Nat /\ w \in Nat /\ StartRole[v] \in Nat
    BY <1>2, SessionNumbers
  <1>5. r <= StartRole[v]
    BY <1>3, <1>4
  <1> QED
    BY <1>5 DEF Below

\* A guarded change of an account waits for its second statement.
LEMMA GuardKeeps ==
    ASSUME SessionInv, NEW q \in AuthRequests, NEW c \in access, NEW u \in Accounts,
           \/ DeleteUser(q, c, u)
           \/ \E p \in ({"role"} \X GrantRoles) \cup ({"enabled"} \X {0, 1}) :
                  GuardUserUpdate(q, c, u, p)
    PROVE  SessionInv'
  <1>1. UNCHANGED <<tok, minted, stored, shown, expired, upset, role, enabled, keys, minted2, access>>
    BY DEF DeleteUser, GuardUserUpdate, tokenVars, keyVars
  <1>2. \E x \in Req : /\ req' = [req EXCEPT ![q] = x] /\ x.pc \in {"change", "remove"}
                       /\ x.user = u /\ ~x.barred
                       /\ x.pc = "change" /\ x.patch[1] = "role" => Below(x.patch[2])
    <2>1. CASE DeleteUser(q, c, u)
      <3>1. PICK x : x = [NoRequest EXCEPT !.pc = "remove", !.user = u]
        OBVIOUS
      <3>2. x \in Req /\ x.pc = "remove" /\ x.user = u /\ ~x.barred
        BY <3>1, NoRequestIsReq DEF Req, Pcs
      <3>3. req' = [req EXCEPT ![q] = x]
        BY <2>1, <3>1 DEF DeleteUser
      <3> QED
        BY <3>2, <3>3
    <2>2. CASE \E p \in ({"role"} \X GrantRoles) \cup ({"enabled"} \X {0, 1}) :
                  GuardUserUpdate(q, c, u, p)
      <3>0. PICK p \in ({"role"} \X GrantRoles) \cup ({"enabled"} \X {0, 1}) :
                  GuardUserUpdate(q, c, u, p)
        BY <2>2
      <3>1. PICK x : x = [NoRequest EXCEPT !.pc = "change", !.user = u, !.patch = p]
        OBVIOUS
      <3>2. p \in Patches /\ (p[1] = "role" => p[2] \in RoleWeights)
        BY SessionsAssumption DEF Patches
      <3>3. x \in Req /\ x.pc = "change" /\ x.user = u /\ x.patch = p /\ ~x.barred
        BY <3>1, <3>2, NoRequestIsReq DEF Req, Pcs
      <3>4. req' = [req EXCEPT ![q] = x]
        BY <3>0, <3>1 DEF GuardUserUpdate
      <3>5. p[1] = "role" => Below(p[2])
        BY <3>0, <3>2, GrantBelow DEF GuardUserUpdate, CanGrantRole
      <3> QED
        BY <3>3, <3>4, <3>5
    <2> QED
      BY <2>1, <2>2
  <1>3. PICK x \in Req : /\ req' = [req EXCEPT ![q] = x] /\ x.pc \in {"change", "remove"}
                         /\ x.user = u /\ ~x.barred
                         /\ x.pc = "change" /\ x.patch[1] = "role" => Below(x.patch[2])
    BY <1>2
  <1>4. req'[q] = x
    BY <1>1, <1>3, OneMoves
  <1>5. RequestOK(q)'
    BY <1>1, <1>3, <1>4 DEF RequestOK, RefreshPcs, Expecting
  <1>6. RequestStep({q})
    BY <1>1, <1>3, <1>5, NotRefreshing DEF RefreshPcs
  <1>7. HistoryStep
    BY <1>1, HistorySame DEF SessionInv, SessionsTypeOK
  <1>8. Unsigned({q})
    BY <1>1, <1>6, <1>7, UsersSame, KeysSame, AccessSame DEF Unsigned, Removed
  <1> QED
    BY <1>8, UnsignedKeeps

LEMMA LookupAPIKeyKeeps ==
    ASSUME SessionInv, NEW q \in AuthRequests, NEW k \in ApiKeys, LookupAPIKey(q, k)
    PROVE  SessionInv'
  <1>1. /\ keys[k] # NoAccount
        /\ UNCHANGED <<tok, minted, stored, shown, expired, upset, role, enabled, keys, minted2, access>>
    BY DEF LookupAPIKey, tokenVars, userVars, keyVars
  <1>2. keys[k] \in Accounts
    BY <1>1 DEF SessionInv, SessionsTypeOK
  <1>3. PICK b \in BOOLEAN : b = ~enabled[keys[k]]
    BY Zenon
  <1>4. PICK x : x = [NoRequest EXCEPT !.pc = "key", !.user = keys[k], !.barred = b]
    OBVIOUS
  <1>5. req' = [req EXCEPT ![q] = x]
    BY <1>3, <1>4 DEF LookupAPIKey
  <1>6. x \in Req /\ x.pc = "key" /\ x.user = keys[k]
    BY <1>2, <1>4, NoRequestIsReq DEF Req, Pcs
  <1>7. req'[q] = x
    BY <1>1, <1>5, <1>6, OneMoves
  <1>8. RequestOK(q)'
    BY <1>2, <1>6, <1>7 DEF RequestOK, RefreshPcs, Expecting
  <1>9. RequestStep({q})
    BY <1>1, <1>5, <1>6, <1>8, NotRefreshing DEF RefreshPcs
  <1>10. HistoryStep
    BY <1>1, HistorySame DEF SessionInv, SessionsTypeOK
  <1>11. Unsigned({q})
    BY <1>1, <1>9, <1>10, UsersSame, KeysSame, AccessSame DEF Unsigned, Removed
  <1> QED
    BY <1>11, UnsignedKeeps

LEMMA AuthenticateKeyKeeps ==
    ASSUME SessionInv, NEW q \in AuthRequests, AuthenticateKey(q)
    PROVE  SessionInv'
  <1>1. /\ req[q].pc = "key" /\ Answer(q)
        /\ UNCHANGED <<tok, minted, stored, shown, expired, upset, role, enabled, keys, minted2>>
        /\ \/ UNCHANGED access
           \/ Exists(req[q].user) /\ access' = access \cup {<<req[q].user, role[req[q].user]>>}
    BY DEF AuthenticateKey, tokenVars, userVars, keyVars
  <1>2. req[q].user \in Accounts
    BY <1>1 DEF SessionInv, RequestOK
  <1>3. AccessStep
    <2>1. /\ access \subseteq Accounts \X RoleWeights /\ \A c \in access : Below(c[2])
          /\ Below(role[req[q].user])
      BY <1>2 DEF SessionInv, SessionsTypeOK, NoRoleAboveTheHighest, Below
    <2> QED
      BY <1>1, <1>2, <2>1 DEF AccessStep, Exists
  <1>4. HistoryStep
    BY <1>1, HistorySame DEF SessionInv, SessionsTypeOK
  <1>5. Unsigned({q})
    BY <1>1, <1>3, <1>4, Answered, UsersSame, KeysSame DEF Unsigned, Removed
  <1> QED
    BY <1>5, UnsignedKeeps

LEMMA APIKeysKeep ==
    ASSUME SessionInv, NEW c \in access,
           CreateAPIKey(c) \/ \E k \in ApiKeys : DeleteAPIKey(c, k)
    PROVE  SessionInv'
  <1>1. UNCHANGED <<tok, minted, stored, shown, expired, upset, role, enabled, access, req>>
    BY DEF CreateAPIKey, DeleteAPIKey, tokenVars, userVars
  <1>2. c[1] \in Accounts
    BY DEF SessionInv, SessionsTypeOK
  <1>3. keys \in [ApiKeys -> Accounts \cup {NoAccount}] /\ minted2 \in 0..MaxKeys
    BY DEF SessionInv, SessionsTypeOK
  <1>4. KeysStep
    <2>1. CASE CreateAPIKey(c)
      <3>1. minted2' \in 0..MaxKeys /\ keys' = [keys EXCEPT ![minted2 + 1] = c[1]]
        BY <1>3, <2>1, SessionNumbers DEF CreateAPIKey
      <3> QED
        BY <1>2, <1>3, <3>1 DEF KeysStep
    <2>2. CASE \E k \in ApiKeys : DeleteAPIKey(c, k)
      BY <1>3, <2>2 DEF DeleteAPIKey, KeysStep
    <2> QED
      BY <2>1, <2>2
  <1>5. HistoryStep
    BY <1>1, HistorySame DEF SessionInv, SessionsTypeOK
  <1>6. Unsigned({})
    BY <1>1, <1>4, <1>5, NobodyMoves, UsersSame, AccessSame DEF Unsigned, Removed
  <1> QED
    BY <1>6, UnsignedKeeps

LEMMA CreateUserKeeps ==
    ASSUME SessionInv, NEW c \in access, NEW u \in Accounts, NEW w \in GrantRoles,
           CreateUser(c, u, w)
    PROVE  SessionInv'
  <1>1. /\ role[u] = NotYet /\ w <= c[2] /\ role' = [role EXCEPT ![u] = w]
        /\ UNCHANGED <<tok, minted, stored, shown, expired, upset, keys, minted2, access, req>>
    BY DEF CreateUser, CanGrantRole, tokenVars, keyVars
  <1>2. w \in RoleWeights /\ w # NotYet
    BY SessionsAssumption DEF RoleWeights, NotYet
  <1>3. Below(w)
    BY <1>1, <1>2, GrantBelow
  <1>4. \A v \in Accounts : v # u => role'[v] = role[v] /\ enabled'[v] = enabled[v]
    BY <1>1 DEF SessionInv, SessionsTypeOK, CreateUser
  <1>5. UsersStep
    <2>1. role' \in [Accounts -> {Gone, NotYet} \cup RoleWeights] /\ role'[u] = w
      BY <1>1, <1>2 DEF SessionInv, SessionsTypeOK
    <2>2. enabled' \in [Accounts -> BOOLEAN]
      <3>1. PICK b \in BOOLEAN : b = TRUE
        OBVIOUS
      <3>2. enabled' = [enabled EXCEPT ![u] = b] /\ enabled \in [Accounts -> BOOLEAN]
        BY <3>1 DEF CreateUser, SessionInv, SessionsTypeOK
      <3> QED
        BY <3>2
    <2>3. \A v \in Accounts : Below(role[v])
      BY DEF SessionInv, NoRoleAboveTheHighest, Below
    <2> QED
      BY <1>1, <1>2, <1>3, <1>4, <2>1, <2>2, <2>3 DEF UsersStep
  <1>6. RequestStep({})
    <2>1. ASSUME NEW r \in AuthRequests PROVE SameRequest(r)
      <3>1. RequestOK(r)
        BY DEF SessionInv
      <3>2. req[r].pc \in {"lookup", "user"} => req[r].user \in Accounts /\ req[r].user # u
        BY <1>1, <3>1 DEF SessionInv, RequestOK, RefreshPcs, TokensOK, TokenOK
      <3> QED
        BY <1>1, <1>4, <3>1, <3>2 DEF SameRequest, RequestOK, Exists
    <2> QED
      BY <1>1, <2>1 DEF RequestStep, SessionInv
  <1>7. HistoryStep
    BY <1>1, HistorySame DEF SessionInv, SessionsTypeOK
  <1>8. Unsigned({})
    BY <1>1, <1>5, <1>6, <1>7, KeysSame, AccessSame DEF Unsigned, Removed
  <1> QED
    BY <1>8, UnsignedKeeps

\* The second statement of a change: an account that may sign in again
\* unbars its requests.
LEMMA UpdateUserKeeps ==
    ASSUME SessionInv, NEW q \in AuthRequests, UpdateUser(q)
    PROVE  SessionInv'
  <1> DEFINE u == req[q].user
             p == req[q].patch
  <1>1. /\ req[q].pc = "change"
        /\ UNCHANGED <<tok, minted, stored, shown, expired, keys, minted2, access>>
        /\ role' = IF p[1] = "role" /\ Exists(u) THEN [role EXCEPT ![u] = p[2]] ELSE role
        /\ enabled' = IF p[1] = "enabled" THEN [enabled EXCEPT ![u] = (p[2] = 1)] ELSE enabled
        /\ upset' = IF p[1] = "enabled" THEN upset \cup {u} ELSE upset
        /\ req' = [r \in AuthRequests |->
                      IF r = q THEN NoRequest
                      ELSE IF req[r].user = u /\ enabled'[u] THEN [req[r] EXCEPT !.barred = FALSE]
                      ELSE req[r]]
    BY DEF UpdateUser, tokenVars, keyVars
  <1>2. /\ u \in Accounts /\ p \in Patches /\ (p[1] = "role" => Below(p[2]))
        /\ req[q] \in Req /\ \A r \in AuthRequests : req[r] \in Req /\ RequestOK(r)
    BY <1>1 DEF SessionInv, RequestOK, Req
  <1>3. p[1] = "role" => p[2] \in RoleWeights
    BY <1>2 DEF Patches
  <1> HIDE DEF u, p
  <1>4. /\ role' \in [Accounts -> {Gone, NotYet} \cup RoleWeights]
        /\ \A v \in Accounts : role'[v] = role[v] \/ (v = u /\ p[1] = "role" /\ Exists(u) /\ role'[v] = p[2])
    <2>1. role \in [Accounts -> {Gone, NotYet} \cup RoleWeights]
      BY DEF SessionInv, SessionsTypeOK
    <2>2. CASE p[1] = "role" /\ Exists(u)
      <3>1. role' = [role EXCEPT ![u] = p[2]] /\ p[2] \in RoleWeights
        BY <1>1, <1>3, <2>2
      <3> QED
        BY <1>2, <2>1, <2>2, <3>1
    <2>3. CASE ~(p[1] = "role" /\ Exists(u))
      BY <1>1, <2>1, <2>3
    <2> QED
      BY <2>2, <2>3
  <1>5. /\ enabled' \in [Accounts -> BOOLEAN]
        /\ \A v \in Accounts : v # u => enabled'[v] = enabled[v]
    <2>1. enabled \in [Accounts -> BOOLEAN]
      BY DEF SessionInv, SessionsTypeOK
    <2>2. PICK b \in BOOLEAN : b = (p[2] = 1)
      BY Zenon
    <2>3. CASE p[1] = "enabled"
      <3>1. enabled' = [enabled EXCEPT ![u] = b]
        BY <1>1, <2>2, <2>3
      <3> QED
        BY <1>2, <2>1, <3>1
    <2>4. CASE p[1] # "enabled"
      BY <1>1, <2>1, <2>4
    <2> QED
      BY <2>3, <2>4
  <1>6. UsersStep
    <2>1. \A v \in Accounts : Below(role[v])
      BY DEF SessionInv, NoRoleAboveTheHighest, Below
    <2>2. \A v \in Accounts : role'[v] = NotYet => role[v] = NotYet
      <3>1. NotYet \notin RoleWeights
        BY DEF NotYet, RoleWeights
      <3> QED
        BY <1>3, <1>4, <3>1
    <2>3. \A v \in Accounts : Below(role'[v])
      BY <1>2, <1>4, <2>1
    <2> QED
      BY <1>4, <1>5, <2>2, <2>3 DEF UsersStep
  <1>7. ASSUME NEW r \in AuthRequests \ {q} PROVE req'[r] \in Req /\ SameRequest(r)
    <2>1. CASE req[r].user = u /\ enabled'[u]
      <3>1. PICK b \in BOOLEAN : b = FALSE
        OBVIOUS
      <3>2. req'[r] = [req[r] EXCEPT !.barred = b]
        BY <1>1, <2>1, <3>1
      <3>3. /\ req'[r] \in Req /\ ~req'[r].barred
            /\ req'[r].pc = req[r].pc /\ req'[r].user = req[r].user /\ req'[r].tok = req[r].tok
            /\ req'[r].weight = req[r].weight /\ req'[r].patch = req[r].patch
        BY <1>2, <3>1, <3>2 DEF Req
      <3> QED
        BY <3>3 DEF SameRequest
    <2>2. CASE ~(req[r].user = u /\ enabled'[u])
      <3>1. req'[r] = req[r]
        BY <1>1, <2>2
      <3>2. req[r].pc \in {"lookup", "user"} => req[r].user \in Accounts
        BY <1>2, SessionTypes DEF RequestOK, RefreshPcs
      <3>3. req[r].barred /\ req[r].pc \in {"lookup", "user"} =>
               ~(role'[req[r].user] \in RoleWeights /\ enabled'[req[r].user])
        <4> SUFFICES ASSUME req[r].barred, req[r].pc \in {"lookup", "user"},
                            role'[req[r].user] \in RoleWeights, enabled'[req[r].user]
                     PROVE  FALSE
          OBVIOUS
        <4>1. req[r].user # u
          BY <2>2
        <4>2. role'[req[r].user] = role[req[r].user] /\ enabled'[req[r].user] = enabled[req[r].user]
          BY <1>4, <1>5, <3>2, <4>1
        <4> QED
          BY <1>2, <4>2 DEF RequestOK, Exists
      <3> QED
        BY <1>2, <3>1, <3>3 DEF SameRequest
    <2> QED
      BY <2>1, <2>2
  <1>8. req'[q] = NoRequest
    BY <1>1
  <1>9. RequestOK(q)'
    BY <1>8, NoRequestIsReq DEF RequestOK, RefreshPcs, Expecting
  <1>10. req' \in [AuthRequests -> Req]
    <2>1. \A r \in AuthRequests : req'[r] \in Req
      BY <1>7, <1>8, NoRequestIsReq
    <2>2. req' = [r \in AuthRequests |-> req'[r]]
      BY <1>1
    <2> QED
      BY <2>1, <2>2
  <1>11. RequestStep({q})
    BY <1>7, <1>8, <1>9, <1>10, NoRequestIsReq DEF RequestStep, RefreshPcs
  <1>12. HistoryStep
    BY <1>1, <1>2, HistorySame DEF SessionInv, SessionsTypeOK
  <1>13. Unsigned({q})
    BY <1>1, <1>6, <1>11, <1>12, KeysSame, AccessSame DEF Unsigned, Removed
  <1> QED
    BY <1>13, UnsignedKeeps

LEMMA RemoveUserKeeps ==
    ASSUME SessionInv, NEW q \in AuthRequests, RemoveUser(q)
    PROVE  SessionInv'
  <1> DEFINE u == req[q].user
  <1>1. /\ req[q].pc = "remove" /\ Answer(q) /\ role' = [role EXCEPT ![u] = Gone]
        /\ stored' = {t \in stored : tok[t].user # u} /\ upset' = upset \cup {u}
        /\ keys' = [k \in ApiKeys |-> IF keys[k] = u THEN NoAccount ELSE keys[k]]
        /\ UNCHANGED <<enabled, tok, minted, shown, expired, minted2, access>>
    BY DEF RemoveUser, DeleteRefreshTokensByUser
  <1>2. u \in Accounts
    BY <1>1 DEF SessionInv, RequestOK
  <1> HIDE DEF u
  <1>3. Gone # NotYet /\ Gone \notin RoleWeights /\ Below(Gone)
    <2>1. StartRole[u] \in Nat
      BY <1>2, SessionNumbers
    <2>2. Gone <= StartRole[u]
      BY <2>1 DEF Gone
    <2> QED
      BY <1>2, <2>2 DEF Gone, NotYet, RoleWeights, Below
  <1>4. /\ role' \in [Accounts -> {Gone, NotYet} \cup RoleWeights] /\ role'[u] = Gone
        /\ \A v \in Accounts : v # u => role'[v] = role[v]
    BY <1>1, <1>2 DEF SessionInv, SessionsTypeOK
  <1>5. UsersStep
    <2>1. \A v \in Accounts : Below(role[v])
      BY DEF SessionInv, NoRoleAboveTheHighest, Below
    <2>2. enabled' \in [Accounts -> BOOLEAN]
      BY <1>1 DEF SessionInv, SessionsTypeOK
    <2> QED
      BY <1>3, <1>4, <2>1, <2>2 DEF UsersStep
  <1>6. KeysStep
    BY <1>1 DEF SessionInv, SessionsTypeOK, KeysStep
  <1>7. req' = [req EXCEPT ![q] = NoRequest]
    BY <1>1 DEF Answer
  <1>8. /\ req' \in [AuthRequests -> Req] /\ req'[q] = NoRequest
        /\ \A r \in AuthRequests \ {q} : req'[r] = req[r]
    BY <1>7, NoRequestIsReq DEF SessionInv
  <1>9. ASSUME NEW r \in AuthRequests \ {q} PROVE SameRequest(r)
    <2>1. RequestOK(r)
      BY DEF SessionInv
    <2>2. req[r].pc \in {"lookup", "user"} => req[r].user \in Accounts
      BY <2>1, SessionTypes DEF RequestOK, RefreshPcs
    <2> QED
      BY <1>1, <1>3, <1>4, <1>8, <2>1, <2>2 DEF SameRequest, RequestOK, Exists
  <1>10. RequestOK(q)'
    BY <1>8, NoRequestIsReq DEF RequestOK, RefreshPcs, Expecting
  <1>11. RequestStep({q})
    BY <1>8, <1>9, <1>10, NoRequestIsReq DEF RequestStep, RefreshPcs
  <1>12. HistoryStep
    BY <1>1, <1>2, HistorySame DEF SessionInv, SessionsTypeOK
  <1>13. Removed({q})
    BY <1>1 DEF Removed
  <1>14. Unsigned({q})
    BY <1>1, <1>5, <1>6, <1>11, <1>12, <1>13, AccessSame DEF Unsigned
  <1> QED
    BY <1>14, UnsignedKeeps

-----------------------------------------------------------------------------
(***************************************************************************)
(* A step that signs the token minted + 1 of account u and family f, which *)
(* no other token or request holds, and stores it or upsets the account.   *)
(***************************************************************************)
Signed(q, u, f) ==
    /\ minted' = minted + 1 /\ minted + 1 \in RefreshTokens
    /\ tok' = [tok EXCEPT ![minted + 1] = [user |-> u, family |-> f]]
    /\ role[u] # NotYet
    /\ \/ f = minted + 1
       \/ /\ f \in 1..minted /\ tok[f].family = f /\ tok[f].user = u
          /\ \A s \in stored : tok[s].family # f
          /\ \A r \in AuthRequests \ {q} : req[r].pc = "rotate" => tok[req[r].tok].family # f
    /\ \/ stored' = stored \cup {minted + 1} /\ upset' = upset
       \/ stored' = stored /\ upset' = upset \cup {u}
    /\ AccessStep /\ Answer(q)
    /\ UNCHANGED <<role, enabled, keys, minted2, expired, shown>>

LEMMA SignedKeeps ==
    ASSUME SessionInv, NEW q \in AuthRequests, NEW u \in Accounts, NEW f, Signed(q, u, f)
    PROVE  SessionInv'
  <1>1. PICK n : n = minted + 1
    OBVIOUS
  <1>2. /\ n \in RefreshTokens /\ n \in Nat /\ minted \in Nat /\ minted' = n
        /\ 1..n = (1..minted) \cup {n} /\ n \notin 1..minted /\ n <= MaxTokens
        /\ \A t \in 1..minted : t < n
    BY <1>1, SessionTypes, SessionNumbers DEF Signed, RefreshTokens
  <1>3. f \in 1..n /\ f \in 0..MaxTokens
    BY <1>1, <1>2, SessionNumbers DEF Signed
  <1>4. /\ tok' \in [RefreshTokens -> [user : Accounts \cup {NoAccount}, family : 0..MaxTokens]]
        /\ tok'[n].user = u /\ tok'[n].family = f
        /\ \A t \in 1..minted : tok'[t] = tok[t]
    BY <1>1, <1>2, <1>3, SessionTypes DEF Signed, SessionInv, SessionsTypeOK
  <1>5. /\ req' \in [AuthRequests -> Req] /\ req'[q] = NoRequest
        /\ \A r \in AuthRequests \ {q} : req'[r] = req[r]
    BY NoRequestIsReq DEF Signed, Answer, SessionInv
  <1>6. /\ stored \subseteq stored' /\ stored' \subseteq stored \cup {n} /\ stored \subseteq 1..minted
        /\ upset \subseteq upset' /\ upset' \subseteq upset \cup {u}
        /\ n \in stored' \/ u \in upset'
    BY <1>1, SessionTypes DEF Signed
  <1>7. UNCHANGED <<role, enabled, keys, minted2, expired, shown>> /\ AccessStep /\ role[u] # NotYet
    BY DEF Signed
  <1>8. \/ f = n
        \/ /\ f \in 1..minted /\ tok[f].family = f /\ tok[f].user = u
           /\ \A s \in stored : tok[s].family # f
           /\ \A r \in AuthRequests \ {q} : req[r].pc = "rotate" => tok[req[r].tok].family # f
    BY <1>1 DEF Signed
  <1>9. SessionsTypeOK'
    <2>1. stored' \subseteq 1..minted' /\ minted' \in 0..MaxTokens /\ upset' \subseteq Accounts
      BY <1>2, <1>6 DEF SessionInv, SessionsTypeOK
    <2>2. \A r \in AuthRequests : req'[r].pc \in Pcs /\ req'[r].patch \in Patches
      BY <1>5 DEF Req
    <2> QED
      BY <1>4, <1>7, <2>1, <2>2 DEF SessionInv, SessionsTypeOK, AccessStep, Pcs
  <1>10. TokensOK'
    <2>1. expired \subseteq 1..minted /\ \A t \in 1..minted : TokenOK(t)
      BY DEF SessionInv, TokensOK
    <2>2. ASSUME NEW t \in 1..minted PROVE TokenOK(t)'
      <3>1. TokenOK(t) /\ tok[t].family \in 1..minted
        BY <1>2, <2>1 DEF TokenOK
      <3> QED
        BY <1>4, <1>6, <1>7, <3>1 DEF TokenOK
    <2>3. TokenOK(n)'
      <3>1. tok'[f].family = f /\ tok'[f].user = u
        BY <1>4, <1>8
      <3>2. n \notin expired
        BY <1>2, <2>1
      <3> QED
        BY <1>3, <1>4, <1>7, <3>1, <3>2 DEF TokenOK
    <2> QED
      BY <1>2, <1>7, <2>1, <2>2, <2>3 DEF TokensOK
  <1>11. ASSUME NEW r \in AuthRequests PROVE RequestOK(r)'
    <2>1. CASE r = q
      BY <1>5, <2>1, NoRequestIsReq DEF RequestOK, RefreshPcs, Expecting
    <2>2. CASE r # q
      <3>1. req'[r] = req[r] /\ RequestOK(r)
        BY <1>5, <2>2 DEF SessionInv
      <3>2. req[r].pc \in RefreshPcs => /\ req[r].tok \in 1..minted' /\ req[r].tok \in shown'
                                        /\ req[r].user = tok'[req[r].tok].user
        BY <1>2, <1>4, <1>7, <3>1 DEF RequestOK
      <3>3. /\ req[r].pc \in Expecting /\ req[r].tok \notin stored' => req[r].user \in upset'
            /\ req[r].pc \in {"reuse", "replay"} => req[r].user \in upset'
        BY <1>6, <3>1 DEF RequestOK
      <3> QED
        BY <1>7, <3>1, <3>2, <3>3 DEF RequestOK, Exists
    <2> QED
      BY <2>1, <2>2
  <1>12. NoTwins'
    BY <1>5, <1>6, NoRequestIsReq DEF SessionInv, NoTwins, RefreshPcs
  <1>13. ASSUME NEW r \in AuthRequests, req'[r].pc = "rotate"
         PROVE  /\ r # q /\ req[r].pc = "rotate" /\ req'[r].tok = req[r].tok
                /\ req[r].tok \in 1..minted /\ tok'[req[r].tok] = tok[req[r].tok]
                /\ tok[req[r].tok].family # f
    <2>1. r # q /\ req'[r] = req[r]
      BY <1>5, <1>13, NoRequestIsReq
    <2>2. req[r].tok \in 1..minted
      BY <1>13, <2>1 DEF SessionInv, RequestOK, RefreshPcs
    <2>3. tok[req[r].tok].family \in 1..minted
      BY <1>2, <2>2 DEF SessionInv, TokensOK, TokenOK
    <2> QED
      BY <1>2, <1>4, <1>8, <1>13, <2>1, <2>2, <2>3
  <1>14. OneHolder'
    <2>1. ASSUME NEW s \in stored PROVE s \in 1..minted /\ tok'[s] = tok[s] /\ tok[s].family # f
      <3>1. s \in 1..minted /\ tok[s].family \in 1..minted
        BY <1>2, <1>6 DEF SessionInv, TokensOK, TokenOK
      <3> QED
        BY <1>2, <1>4, <1>8, <3>1
    <2>2. ASSUME NEW s \in stored', NEW t \in stored', tok'[s].family = tok'[t].family
          PROVE  s = t
      <3>1. (s \in stored \/ s = n) /\ (t \in stored \/ t = n)
        BY <1>6
      <3>2. CASE s \in stored /\ t \in stored
        <4>1. tok[s].family = tok[t].family
          BY <2>1, <2>2, <3>2
        <4> QED
          BY <3>2, <4>1 DEF SessionInv, OneHolder
      <3>3. CASE s \in stored /\ t = n
        BY <1>4, <2>1, <2>2, <3>3
      <3>4. CASE s = n /\ t \in stored
        BY <1>4, <2>1, <2>2, <3>4
      <3> QED
        BY <3>1, <3>2, <3>3, <3>4
    <2>3. ASSUME NEW s \in stored', NEW r \in AuthRequests, req'[r].pc = "rotate"
          PROVE  tok'[s].family # tok'[req'[r].tok].family
      <3>1. CASE s \in stored
        <4>1. tok[s].family # tok[req[r].tok].family
          BY <1>13, <2>3, <3>1 DEF SessionInv, OneHolder
        <4> QED
          BY <1>13, <2>1, <2>3, <3>1, <4>1
      <3>2. CASE s = n
        BY <1>4, <1>13, <2>3, <3>2
      <3> QED
        BY <1>6, <3>1, <3>2
    <2>4. \A r, s \in AuthRequests :
             /\ req'[r].pc = "rotate" /\ req'[s].pc = "rotate"
             /\ tok'[req'[r].tok].family = tok'[req'[s].tok].family
             => r = s
      BY <1>13 DEF SessionInv, OneHolder
    <2> QED
      BY <2>2, <2>3, <2>4 DEF OneHolder
  <1>15. NewestKept'
    <2>1. ASSUME NEW t \in 1..minted, tok[t].family # f PROVE IsNewest(t)' <=> IsNewest(t)
      BY <1>2, <1>4, <2>1 DEF IsNewest
    <2>2. ASSUME NEW t \in 1..minted, tok[t].family = f PROVE ~IsNewest(t)'
      BY <1>2, <1>4, <2>2 DEF IsNewest
    <2>3. IsNewest(n)'
      BY <1>2 DEF IsNewest
    <2>4. ASSUME NEW g \in 1..n, tok'[g].family = g
          PROVE  \E t \in Family(g)' : IsNewest(t)'
      <3>1. CASE g = f
        BY <1>2, <1>4, <2>3, <3>1 DEF Family
      <3>2. CASE g # f
        <4>1. g \in 1..minted /\ tok[g].family = g
          BY <1>2, <1>4, <2>4, <3>2
        <4>2. PICK t \in Family(g) : IsNewest(t)
          BY <4>1 DEF SessionInv, NewestKept
        <4>3. t \in 1..minted /\ tok[t].family = g /\ t \in Family(g)'
          BY <1>2, <1>4, <4>2 DEF Family
        <4> QED
          BY <2>1, <3>2, <4>2, <4>3
      <3> QED
        BY <3>1, <3>2
    <2>5. ASSUME NEW t \in 1..n, IsNewest(t)', tok'[t].user \notin upset', t \notin shown'
          PROVE  t \in stored'
      <3>1. CASE t = n
        BY <1>4, <1>6, <2>5, <3>1
      <3>2. CASE t \in 1..minted
        <4>1. IsNewest(t) /\ tok[t].user \notin upset /\ t \notin shown
          BY <1>4, <1>6, <1>7, <2>1, <2>2, <2>5, <3>2
        <4> QED
          BY <1>6, <3>2, <4>1 DEF SessionInv, NewestKept
      <3> QED
        BY <1>2, <3>1, <3>2
    <2> QED
      BY <1>2, <2>4, <2>5 DEF NewestKept
  <1>16. NoRoleAboveTheHighest'
    BY <1>7 DEF SessionInv, NoRoleAboveTheHighest, AccessStep, Below
  <1> QED
    BY <1>5, <1>9, <1>10, <1>11, <1>12, <1>14, <1>15, <1>16 DEF SessionInv

\* A signed pair carries the weight that was read.
LEMMA SignedAccess ==
    ASSUME SessionInv, NEW u \in Accounts, NEW w \in RoleWeights, Below(w),
           access' = access \cup {<<u, w>>}
    PROVE  AccessStep
  <1>1. access \subseteq Accounts \X RoleWeights /\ \A c \in access : Below(c[2])
    BY DEF SessionInv, SessionsTypeOK, NoRoleAboveTheHighest, Below
  <1> QED
    BY <1>1 DEF AccessStep

LEMMA MintedInRange ==
    ASSUME SessionInv, minted + minted2 < MaxTokens
    PROVE  minted + 1 \in RefreshTokens /\ minted + 1 # 0
  <1>1. minted \in Nat /\ minted2 \in Nat
    BY SessionTypes, SessionNumbers DEF SessionInv, SessionsTypeOK
  <1> QED
    BY <1>1, SessionNumbers DEF RefreshTokens

LEMMA StoreLoginKeeps ==
    ASSUME SessionInv, NEW q \in AuthRequests, StoreLogin(q)
    PROVE  SessionInv'
  <1>1. /\ req[q].pc = "store" /\ Answer(q)
        /\ UNCHANGED <<expired, shown, role, enabled, keys, minted2, upset>>
    BY DEF StoreLogin, userVars, keyVars
  <1>2. req[q].user \in Accounts /\ req[q].weight \in RoleWeights /\ Below(req[q].weight)
    BY <1>1 DEF SessionInv, RequestOK
  <1>3. CASE /\ GenerateTokenPair(req[q].user, req[q].weight, 0)
             /\ CreateRefreshToken(minted + 1, req[q].user)
    <2>1. /\ minted + minted2 < MaxTokens /\ minted' = minted + 1
          /\ tok' = [tok EXCEPT ![minted + 1] = [user |-> req[q].user, family |-> minted + 1]]
          /\ access' = access \cup {<<req[q].user, req[q].weight>>}
          /\ stored' = stored \cup {minted + 1} /\ Exists(req[q].user)
      BY <1>3 DEF GenerateTokenPair, CreateRefreshToken
    <2>2. role[req[q].user] # NotYet
      BY <2>1 DEF Exists, RoleWeights, NotYet
    <2>3. AccessStep
      BY <1>2, <2>1, SignedAccess
    <2>4. Signed(q, req[q].user, minted + 1)
      BY <1>1, <2>1, <2>2, <2>3, MintedInRange DEF Signed
    <2> QED
      BY <1>2, <2>4, SignedKeeps
  <1>4. CASE UNCHANGED <<minted, tok, access, stored>>
    <2>1. HistoryStep
      BY <1>1, <1>4, HistorySame DEF SessionInv, SessionsTypeOK
    <2>2. Unsigned({q})
      BY <1>1, <1>4, <2>1, Answered, UsersSame, KeysSame, AccessSame DEF Unsigned, Removed
    <2> QED
      BY <2>2, UnsignedKeeps
  <1> QED
    BY <1>3, <1>4 DEF StoreLogin

LEMMA RotateKeeps ==
    ASSUME SessionInv, NEW q \in AuthRequests, Rotate(q)
    PROVE  SessionInv'
  <1> DEFINE f == tok[req[q].tok].family
  <1>1. /\ req[q].pc = "rotate" /\ Answer(q)
        /\ GenerateTokenPair(req[q].user, req[q].weight, f)
        /\ UNCHANGED <<expired, shown, role, enabled, keys, minted2>>
        /\ \/ stored' = stored \cup {minted + 1} /\ upset' = upset
           \/ stored' = stored /\ upset' = upset \cup {req[q].user}
    BY DEF Rotate, CreateRefreshToken, userVars, keyVars
  <1>2. /\ req[q].tok \in 1..minted /\ req[q].user = tok[req[q].tok].user
        /\ req[q].weight \in RoleWeights /\ Below(req[q].weight)
    BY <1>1 DEF SessionInv, RequestOK, RefreshPcs
  <1>3. /\ req[q].user \in Accounts /\ role[req[q].user] # NotYet
        /\ f \in 1..req[q].tok /\ tok[f].family = f /\ tok[f].user = req[q].user
    BY <1>2 DEF SessionInv, TokensOK, TokenOK
  <1>4. f \in 1..minted /\ f # 0
    BY <1>2, <1>3, SessionTypes
  <1>5. /\ \A s \in stored : tok[s].family # f
        /\ \A r \in AuthRequests \ {q} : req[r].pc = "rotate" => tok[req[r].tok].family # f
    BY <1>1 DEF SessionInv, OneHolder
  <1> HIDE DEF f
  <1>6. /\ minted + minted2 < MaxTokens /\ minted' = minted + 1
        /\ tok' = [tok EXCEPT ![minted + 1] = [user |-> req[q].user, family |-> f]]
        /\ access' = access \cup {<<req[q].user, req[q].weight>>}
    BY <1>1, <1>4 DEF GenerateTokenPair
  <1>7. AccessStep
    BY <1>2, <1>3, <1>6, SignedAccess
  <1>8. Signed(q, req[q].user, f)
    BY <1>1, <1>3, <1>4, <1>5, <1>6, <1>7, MintedInRange DEF Signed
  <1> QED
    BY <1>3, <1>8, SignedKeeps

-----------------------------------------------------------------------------
LEMMA SessionInit == SessionsInit => SessionInv
  <1> SUFFICES ASSUME SessionsInit PROVE SessionInv
    OBVIOUS
  <1>1. minted = 0 /\ 1..minted = {} /\ stored = {} /\ access = {} /\ expired = {} /\ shown = {} /\ upset = {}
    BY DEF SessionsInit
  <1>2. req \in [AuthRequests -> Req] /\ \A q \in AuthRequests : req[q] = NoRequest
    BY NoRequestIsReq DEF SessionsInit
  <1>3. SessionsTypeOK
    <2>1. role \in [Accounts -> {Gone, NotYet} \cup RoleWeights]
      BY SessionsAssumption DEF SessionsInit
    <2>2. enabled \in [Accounts -> BOOLEAN]
      <3>1. PICK b \in BOOLEAN : b = TRUE
        OBVIOUS
      <3>2. enabled = [u \in Accounts |-> b]
        BY <3>1 DEF SessionsInit
      <3> QED
        BY <3>2
    <2>3. /\ minted \in 0..MaxTokens /\ minted2 \in 0..MaxKeys
          /\ keys \in [ApiKeys -> Accounts \cup {NoAccount}]
      BY SessionNumbers DEF SessionsInit
    <2>4. tok \in [RefreshTokens -> [user : Accounts \cup {NoAccount}, family : 0..MaxTokens]]
      BY SessionNumbers DEF SessionsInit
    <2>5. \A q \in AuthRequests : req[q].pc \in Pcs /\ req[q].patch \in Patches
      BY <1>2 DEF Req
    <2> QED
      BY <1>1, <2>1, <2>2, <2>3, <2>4, <2>5 DEF SessionsTypeOK, Pcs
  <1>4. \A q \in AuthRequests : RequestOK(q)
    BY <1>2, NoRequestIsReq DEF RequestOK, RefreshPcs, Expecting
  <1>5. NoTwins /\ OneHolder
    BY <1>1, <1>2, NoRequestIsReq DEF NoTwins, OneHolder, RefreshPcs
  <1>6. TokensOK /\ NewestKept
    BY <1>1 DEF TokensOK, NewestKept
  <1>7. NoRoleAboveTheHighest
    <2>1. \A u \in Accounts : role[u] = StartRole[u] /\ role[u] \in Nat
      BY SessionNumbers DEF SessionsInit
    <2>2. \A u \in Accounts : role[u] <= StartRole[u]
      BY <2>1
    <2> QED
      BY <1>1, <2>2 DEF NoRoleAboveTheHighest
  <1> QED
    BY <1>2, <1>3, <1>4, <1>5, <1>6, <1>7 DEF SessionInv

LEMMA SessionNext == SessionInv /\ [SessionsNext]_sessionVars => SessionInv'
  <1> SUFFICES ASSUME SessionInv, [SessionsNext]_sessionVars PROVE SessionInv'
    OBVIOUS
  <1>1. CASE UNCHANGED sessionVars
    <2>1. UNCHANGED <<role, enabled, stored, keys, tok, minted, minted2, access, expired, req, shown, upset>>
      BY <1>1 DEF sessionVars
    <2>2. HistoryStep
      BY <2>1, HistorySame DEF SessionInv, SessionsTypeOK
    <2>3. Unsigned({})
      BY <2>1, <2>2, NobodyMoves, UsersSame, KeysSame, AccessSame DEF Unsigned, Removed
    <2> QED
      BY <2>3, UnsignedKeeps
  <1>2. ASSUME NEW q \in AuthRequests,
               \/ \E u \in Accounts : Login(q, u)
               \/ \E t \in RefreshTokens : Refresh(q, t)
               \/ \E k \in ApiKeys : LookupAPIKey(q, k)
        PROVE  SessionInv'
    BY <1>2, LoginKeeps, RefreshKeeps, LookupAPIKeyKeeps
  <1>3. ASSUME NEW q \in AuthRequests, NEW c \in Callers, NEW u \in Accounts,
               \/ DeleteUser(q, c, u)
               \/ \E p \in ({"role"} \X GrantRoles) \cup ({"enabled"} \X {0, 1}) :
                      GuardUserUpdate(q, c, u, p)
        PROVE  SessionInv'
    BY <1>3, GuardKeeps DEF Callers
  <1>4. ASSUME NEW q \in AuthRequests,
               \/ StoreLogin(q) \/ GetRefreshToken(q) \/ RevokeFamily(q) \/ GetUserForRefresh(q)
               \/ DropDisabled(q) \/ ClaimRefreshToken(q) \/ Rotate(q)
               \/ UpdateUser(q) \/ RemoveUser(q) \/ AuthenticateKey(q)
        PROVE  SessionInv'
    BY <1>4, StoreLoginKeeps, GetRefreshTokenKeeps, RevokeFamilyKeeps, GetUserForRefreshKeeps,
       DropDisabledKeeps, ClaimKeeps, RotateKeeps, UpdateUserKeeps, RemoveUserKeeps, AuthenticateKeyKeeps
  <1>5. ASSUME NEW t \in RefreshTokens, Logout(t) \/ ExpireRefresh(t) PROVE SessionInv'
    BY <1>5, LogoutKeeps, ExpireKeeps
  <1>6. ASSUME NEW c \in Callers,
               \/ CreateAPIKey(c) \/ \E k \in ApiKeys : DeleteAPIKey(c, k)
               \/ \E u \in Accounts, r \in GrantRoles : CreateUser(c, u, r)
        PROVE  SessionInv'
    BY <1>6, APIKeysKeep, CreateUserKeeps DEF Callers
  <1> QED
    BY <1>1, <1>2, <1>3, <1>4, <1>5, <1>6 DEF SessionsNext

\* A set without two elements has at most one.
LEMMA AtMostOne ==
    ASSUME NEW S, \A x, y \in S : x = y
    PROVE  (S = {} /\ Cardinality(S) = 0) \/ (S # {} /\ Cardinality(S) = 1)
  <1>1. CASE S = {}
    BY <1>1, FS_EmptySet
  <1>2. CASE S # {}
    <2>1. PICK x \in S : S = {x}
      BY <1>2
    <2> QED
      BY <1>2, <2>1, FS_Singleton
  <1> QED
    BY <1>1, <1>2

LEMMA OneHolderUnforked ==
    ASSUME SessionInv
    PROVE  FamilyNotForked
  <1> SUFFICES ASSUME NEW f \in 1..minted
               PROVE  Cardinality(Family(f) \cap stored) + Cardinality(Rotating(f)) <= 1
    BY DEF FamilyNotForked
  <1>1. \A x, y \in Family(f) \cap stored : x = y
    BY DEF SessionInv, OneHolder, Family
  <1>2. \A x, y \in Rotating(f) : x = y
    BY DEF SessionInv, OneHolder, Rotating
  <1>3. Family(f) \cap stored = {} \/ Rotating(f) = {}
    BY DEF SessionInv, OneHolder, Family, Rotating
  <1> QED
    BY <1>1, <1>2, <1>3, AtMostOne

LEMMA NewestKeptKept ==
    ASSUME SessionInv
    PROVE  SessionKept
  <1> SUFFICES ASSUME NEW f \in 1..minted, tok[f].user \notin upset, tok[f].family = f
               PROVE  \/ Family(f) \cap stored # {}
                      \/ \E t \in Family(f) : t \in shown /\ \A s \in Family(f) : s <= t
    BY DEF SessionKept
  <1>1. PICK t \in Family(f) : IsNewest(t)
    BY DEF SessionInv, NewestKept
  <1>2. t \in 1..minted /\ tok[t].family = f
    BY <1>1 DEF Family
  <1>3. tok[t].user = tok[f].user
    BY <1>2 DEF SessionInv, TokensOK, TokenOK
  <1>4. \A s \in Family(f) : s <= t
    BY <1>1, <1>2 DEF IsNewest, Family
  <1>5. t \in shown \/ t \in stored
    BY <1>1, <1>2, <1>3 DEF SessionInv, NewestKept
  <1> QED
    BY <1>1, <1>4, <1>5

\* For any accounts, roles, requests and bounds, however the statements of
\* logins, refreshes, logouts, account changes and API keys interleave: a
\* session never forks, is not lost unless its account was upset, a barred
\* account gains nothing, and no role rises above the highest there was (auth.go).
THEOREM SessionsSafeAlways == SessionsSpec => []SessionsSafe
  <1>1. SessionInv => BarredGetsNothing
    BY DEF SessionInv, RequestOK, BarredGetsNothing
  <1>2. SessionInv => SessionsSafe
    BY <1>1, OneHolderUnforked, NewestKeptKept DEF SessionInv, SessionsSafe
  <1> QED
    BY <1>2, SessionInit, SessionNext, PTL DEF SessionsSpec

-----------------------------------------------------------------------------
(***************************************************************************)
(* The registry of remote instances.                                       *)
(***************************************************************************)
Change == [pc: {"idle", "compared", "valid"}, url: Urls, key: Keys \cup {NoKey}]
Fetch == [pc: {"idle", "listed", "opened", "send"}, url: Urls, key: Keys \cup {NoKey}]

\* A collection that has read the credential holds a key.
OpenedKey == fetch.pc \in {"opened", "send"} => fetch.key \in Keys

\* Without an overlap, at most one update or the collection is under way, and
\* what it has read is still what is stored.
Alone ==
    ~crossed =>
        /\ \A e, f \in RemoteEditorsOf : change[e].pc # "idle" /\ change[f].pc # "idle" => e = f
        /\ \A e \in RemoteEditorsOf : change[e].pc # "idle" => fetch.pc = "idle"
        /\ \A e \in RemoteEditorsOf :
               change[e].pc # "idle" /\ change[e].key = NoKey => change[e].url = remote.url
        /\ fetch.pc # "idle" => fetch.url = remote.url
        /\ fetch.pc \in {"opened", "send"} => fetch.key = remote.key

RemoteInv == RemoteStoreTypeOK /\ OpenedKey /\ Alone /\ KeyStaysWithItsUrl

LEMMA RemoteInit == RemoteStoreInit => RemoteInv
  <1> SUFFICES ASSUME RemoteStoreInit PROVE RemoteInv
    OBVIOUS
  <1>1. PICK p \in Pairs : /\ remote = [url |-> p[1], key |-> p[2], legacy |-> TRUE]
                           /\ entered = {p}
    BY DEF RemoteStoreInit
  <1>2. p[1] \in Urls /\ p[2] \in Keys /\ p = <<p[1], p[2]>>
    BY DEF Pairs
  <1>3. NoChange.url \in Urls /\ NoChange \in Change /\ NoChange.pc = "idle"
    BY <1>2 DEF NoChange, Change
  <1>4. remote \in [url: Urls, key: Keys, legacy: BOOLEAN]
    <2>1. PICK b \in BOOLEAN : b = TRUE
      OBVIOUS
    <2> QED
      BY <1>1, <1>2, <2>1
  <1>5. change \in [RemoteEditorsOf -> Change] /\ \A e \in RemoteEditorsOf : change[e].pc = "idle"
    BY <1>3 DEF RemoteStoreInit
  <1>6. fetch \in Fetch /\ fetch.pc = "idle"
    BY <1>3 DEF RemoteStoreInit, Fetch
  <1>7. crossed \in BOOLEAN
    BY Zenon DEF RemoteStoreInit
  <1>8. remoteWrites \in 0..MaxRemoteWrites
    BY RemoteStoreBounds DEF RemoteStoreInit
  <1>9. RemoteStoreTypeOK
    BY <1>1, <1>4, <1>5, <1>6, <1>7, <1>8 DEF RemoteStoreTypeOK, RemoteStoreInit, Change, Fetch
  <1>10. KeyStaysWithItsUrl
    BY <1>1, <1>2 DEF KeyStaysWithItsUrl, RemoteStoreInit
  <1> QED
    BY <1>5, <1>6, <1>9, <1>10 DEF RemoteInv, OpenedKey, Alone

LEMMA BeginKeeps ==
    ASSUME RemoteInv, NEW e \in RemoteEditorsOf, NEW pc \in {"compared", "valid"},
           NEW u \in Urls, NEW k \in Keys \cup {NoKey}, Begin(e, pc, u, k),
           k = NoKey => u = remote.url
    PROVE  RemoteInv'
  <1> USE DEF RemoteInv
  <1>1. PICK c \in Change : c = [pc |-> pc, url |-> u, key |-> k]
    BY DEF Change
  <1>2. change' = [change EXCEPT ![e] = c] /\ UNCHANGED <<remote, fetch, sentTo, entered>>
    BY <1>1 DEF Begin
  <1>3. /\ change' \in [RemoteEditorsOf -> Change] /\ change'[e] = c
        /\ \A f \in RemoteEditorsOf : f # e => change'[f] = change[f]
    BY <1>2 DEF RemoteStoreTypeOK, Change
  <1>4. crossed' \in BOOLEAN
    BY Zenon DEF Begin
  <1>5. remoteWrites' \in 0..MaxRemoteWrites
    BY RemoteStoreBounds DEF Begin, RemoteStoreTypeOK
  <1>6. RemoteStoreTypeOK'
    BY <1>2, <1>3, <1>4, <1>5 DEF RemoteStoreTypeOK, Change
  <1>7. ~crossed' => ~crossed /\ ~Others(e)
    BY DEF Begin
  <1>8. Alone'
    <2> SUFFICES ASSUME ~crossed' PROVE Alone'
      BY DEF Alone
    <2>1. /\ \A f \in RemoteEditorsOf : f # e => change[f].pc = "idle"
          /\ fetch.pc = "idle"
      BY <1>7 DEF Others
    <2>2. c.pc # "idle" /\ (c.key = NoKey => c.url = remote.url)
      BY <1>1
    <2> QED
      BY <1>2, <1>3, <2>1, <2>2 DEF Alone
  <1>9. KeyStaysWithItsUrl' /\ OpenedKey'
    BY <1>2, <1>7 DEF KeyStaysWithItsUrl, OpenedKey
  <1> QED
    BY <1>6, <1>8, <1>9

LEMMA WriteUpdateKeeps ==
    ASSUME RemoteInv, NEW e \in RemoteEditorsOf, WriteUpdate(e)
    PROVE  RemoteInv'
  <1> USE DEF RemoteInv
  <1>1. PICK c \in Change : c = change[e]
    BY DEF RemoteStoreTypeOK, Change
  <1>2. /\ c.pc # "idle" /\ c.url \in Urls
        /\ change' = [change EXCEPT ![e] = NoChange]
        /\ UNCHANGED <<fetch, sentTo, crossed, remoteWrites>>
    BY <1>1 DEF WriteUpdate, Change
  <1>3. NoChange \in Change /\ NoChange.pc = "idle"
    BY <1>2 DEF NoChange, Change
  <1>4. /\ change' \in [RemoteEditorsOf -> Change] /\ change'[e].pc = "idle"
        /\ \A f \in RemoteEditorsOf : f # e => change'[f] = change[f]
    BY <1>2, <1>3 DEF RemoteStoreTypeOK, Change
  <1>5. /\ remote' \in [url: Urls, key: Keys, legacy: BOOLEAN]
        /\ remote'.url = c.url
        /\ IF c.key = NoKey THEN remote'.key = remote.key /\ entered' = entered
           ELSE remote'.key = c.key /\ entered' = entered \cup {<<c.url, c.key>>}
    <2>1. CASE c.key = NoKey
      <3>1. remote' = [remote EXCEPT !.url = c.url] /\ entered' = entered
        BY <1>1, <2>1 DEF WriteUpdate
      <3> QED
        BY <1>2, <2>1, <3>1 DEF RemoteStoreTypeOK
    <2>2. CASE c.key # NoKey
      <3>1. PICK b \in BOOLEAN : b = FALSE
        OBVIOUS
      <3>2. /\ remote' = [url |-> c.url, key |-> c.key, legacy |-> b]
            /\ entered' = entered \cup {<<c.url, c.key>>}
        BY <1>1, <2>2, <3>1 DEF WriteUpdate
      <3>3. c.key \in Keys
        BY <2>2 DEF Change
      <3> QED
        BY <1>2, <2>2, <3>2, <3>3
    <2> QED
      BY <2>1, <2>2
  <1>6. entered' \subseteq Pairs /\ entered \subseteq entered'
    BY <1>2, <1>5 DEF RemoteStoreTypeOK, Pairs, Change
  <1>7. RemoteStoreTypeOK'
    BY <1>2, <1>4, <1>5, <1>6 DEF RemoteStoreTypeOK, Change
  <1>8. ~crossed => /\ \A f \in RemoteEditorsOf : f # e => change[f].pc = "idle"
                    /\ fetch.pc = "idle" /\ (c.key = NoKey => c.url = remote.url)
    BY <1>1, <1>2 DEF Alone
  <1>9. Alone'
    BY <1>2, <1>4, <1>8 DEF Alone
  <1>10. KeyStaysWithItsUrl'
    BY <1>2, <1>5, <1>6, <1>8 DEF KeyStaysWithItsUrl
  <1> QED
    BY <1>2, <1>7, <1>9, <1>10 DEF OpenedKey

LEMMA CollectKeeps ==
    ASSUME RemoteInv, ListDue \/ OpenCredential \/ SealAgain \/ FetchRemote
    PROVE  RemoteInv'
  <1> USE DEF RemoteInv
  <1>1. fetch \in Fetch
    BY DEF RemoteStoreTypeOK, Fetch
  <1>2. remote.url \in Urls /\ remote.key \in Keys
    BY DEF RemoteStoreTypeOK
  <1>3. CASE ListDue
    <2>1. /\ fetch.pc = "idle" /\ fetch' = [fetch EXCEPT !.pc = "listed", !.url = remote.url]
          /\ UNCHANGED <<remote, change, sentTo, entered, remoteWrites>>
      BY <1>3 DEF ListDue
    <2>2. fetch' \in Fetch /\ fetch'.pc = "listed" /\ fetch'.url = remote.url
      BY <1>1, <1>2, <2>1 DEF Fetch
    <2>3. crossed' \in BOOLEAN
      BY <1>3, Zenon DEF ListDue
    <2>4. ~crossed' => ~crossed /\ \A e \in RemoteEditorsOf : change[e].pc = "idle"
      BY <1>3 DEF ListDue
    <2>5. RemoteStoreTypeOK'
      BY <2>1, <2>2, <2>3 DEF RemoteStoreTypeOK, Fetch
    <2> QED
      BY <2>1, <2>2, <2>4, <2>5 DEF OpenedKey, Alone, KeyStaysWithItsUrl
  <1>4. CASE OpenCredential
    <2>1. /\ fetch.pc = "listed" /\ UNCHANGED <<remote, change, sentTo, entered, crossed, remoteWrites>>
          /\ \E p \in {"opened", "send"} : fetch' = [fetch EXCEPT !.pc = p, !.key = remote.key]
      BY <1>4 DEF OpenCredential
    <2>2. /\ fetch' \in Fetch /\ fetch'.pc \in {"opened", "send"} /\ fetch'.url = fetch.url
          /\ fetch'.key = remote.key
      BY <1>1, <1>2, <2>1 DEF Fetch
    <2>3. RemoteStoreTypeOK'
      BY <2>1, <2>2 DEF RemoteStoreTypeOK, Fetch
    <2>4. Alone'
      BY <2>1, <2>2 DEF Alone
    <2> QED
      BY <1>2, <2>1, <2>2, <2>3, <2>4 DEF OpenedKey, KeyStaysWithItsUrl
  <1>5. CASE SealAgain
    <2>1. /\ fetch.pc = "opened" /\ fetch' = [fetch EXCEPT !.pc = "send"]
          /\ UNCHANGED <<change, sentTo, entered, crossed, remoteWrites>> /\ fetch.key \in Keys
      BY <1>5 DEF SealAgain, OpenedKey
    <2>2. PICK b \in BOOLEAN : b = FALSE
      OBVIOUS
    <2>3. remote' = [remote EXCEPT !.key = fetch.key, !.legacy = b]
      BY <1>5, <2>2, Zenon DEF SealAgain
    <2>4. /\ remote' \in [url: Urls, key: Keys, legacy: BOOLEAN] /\ remote'.url = remote.url
          /\ remote'.key = fetch.key
      BY <2>1, <2>3 DEF RemoteStoreTypeOK
    <2>5. /\ fetch' \in Fetch /\ fetch'.pc = "send" /\ fetch'.url = fetch.url
          /\ fetch'.key = fetch.key
      BY <1>1, <2>1 DEF Fetch
    <2>6. RemoteStoreTypeOK'
      BY <2>1, <2>4, <2>5 DEF RemoteStoreTypeOK, Fetch
    <2>7. ~crossed => fetch.key = remote.key
      BY <2>1 DEF Alone
    <2>8. Alone'
      BY <2>1, <2>4, <2>5 DEF Alone
    <2> QED
      BY <2>1, <2>4, <2>5, <2>6, <2>7, <2>8 DEF OpenedKey, KeyStaysWithItsUrl
  <1>6. CASE FetchRemote
    <2>1. /\ fetch.pc = "send" /\ fetch.key \in Keys /\ fetch.url \in Urls
          /\ fetch' = [pc |-> "idle", url |-> NoChange.url, key |-> NoKey]
          /\ sentTo' = sentTo \cup {<<fetch.url, fetch.key>>}
          /\ UNCHANGED <<remote, change, entered, crossed, remoteWrites>>
      BY <1>1, <1>6 DEF FetchRemote, OpenedKey, Fetch
    <2>2. NoChange.url \in Urls
      BY <1>2 DEF NoChange
    <2>3. fetch' \in Fetch /\ fetch'.pc = "idle"
      BY <2>1, <2>2 DEF Fetch
    <2>4. sentTo' \subseteq Pairs
      BY <2>1 DEF RemoteStoreTypeOK, Pairs
    <2>5. RemoteStoreTypeOK'
      BY <2>1, <2>3, <2>4 DEF RemoteStoreTypeOK, Fetch
    <2>6. Alone'
      BY <2>1, <2>3 DEF Alone
    <2>7. ~crossed => <<fetch.url, fetch.key>> \in entered
      BY <2>1 DEF Alone, KeyStaysWithItsUrl
    <2> QED
      BY <2>1, <2>3, <2>5, <2>6, <2>7 DEF OpenedKey, KeyStaysWithItsUrl
  <1> QED
    BY <1>3, <1>4, <1>5, <1>6

LEMMA RemoteNext == RemoteInv /\ [RemoteStoreNext]_remoteVars => RemoteInv'
  <1> SUFFICES ASSUME RemoteInv, [RemoteStoreNext]_remoteVars PROVE RemoteInv'
    OBVIOUS
  <1>1. CASE UNCHANGED remoteVars
    BY <1>1 DEF remoteVars, RemoteInv, RemoteStoreTypeOK, OpenedKey, Alone, KeyStaysWithItsUrl
  <1>2. ASSUME NEW e \in RemoteEditorsOf, NEW u \in Urls, UpdateKeepKey(e, u) PROVE RemoteInv'
    BY <1>2, BeginKeeps DEF UpdateKeepKey
  <1>3. ASSUME NEW e \in RemoteEditorsOf, NEW u \in Urls, NEW k \in Keys, UpdateWithKey(e, u, k)
        PROVE  RemoteInv'
    BY <1>3, BeginKeeps, RemoteStoreBounds DEF UpdateWithKey
  <1> QED
    BY <1>1, <1>2, <1>3, WriteUpdateKeeps, CollectKeeps DEF RemoteStoreNext

-----------------------------------------------------------------------------
(***************************************************************************)
(* The forms of a notification channel.                                    *)
(***************************************************************************)
Form == [pc: {"closed", "open", "update"}, shows: Values, sends: Values, found: Values]

\* What an update has found is a stored secret, and without an overlap it is
\* the one stored now.
FoundIsStored ==
    /\ \A e \in ChannelEditors : form[e].found # Placeholder
    /\ ~collided =>
        /\ \A e, f \in ChannelEditors : form[e].pc = "update" /\ form[f].pc = "update" => e = f
        /\ \A e \in ChannelEditors :
               form[e].pc = "update" /\ channel.exists => form[e].found = channel.secret

ChannelInv == /\ ChannelFormsTypeOK /\ FoundIsStored
              /\ PlaceholderNeverStored /\ LastTypedSecretStored

LEMMA ClosedIsForm ==
    /\ ClosedForm \in Form /\ ClosedForm.pc = "closed" /\ ClosedForm.found # Placeholder
    /\ \A s \in Secrets : s # Placeholder
  BY ChannelFormBounds DEF ClosedForm, Form, Values

LEMMA ChannelInit == ChannelFormsInit => ChannelInv
  <1> SUFFICES ASSUME ChannelFormsInit PROVE ChannelInv
    OBVIOUS
  <1>1. form \in [ChannelEditors -> Form] /\ \A e \in ChannelEditors : form[e] = ClosedForm
    BY ClosedIsForm DEF ChannelFormsInit
  <1>2. channel \in [exists: BOOLEAN, secret: Values] /\ channel.secret \in Secrets
    BY DEF ChannelFormsInit, Values
  <1>3. ChannelFormsTypeOK
    <2>1. collided \in BOOLEAN
      BY Zenon DEF ChannelFormsInit
    <2>2. channelWrites \in 0..MaxChannelWrites /\ typed \in Values
      BY <1>2, ChannelFormBounds DEF ChannelFormsInit, Values
    <2> QED
      BY <1>1, <1>2, <2>1, <2>2 DEF ChannelFormsTypeOK, Form
  <1> QED
    BY <1>1, <1>2, <1>3, ClosedIsForm DEF ChannelFormsInit, ChannelInv, FoundIsStored,
       PlaceholderNeverStored, LastTypedSecretStored

LEMMA GetKeeps ==
    ASSUME ChannelInv, NEW e \in ChannelEditors, Get(e)
    PROVE  ChannelInv'
  <1> USE DEF ChannelInv
  <1>1. PICK v \in Values : v = MaskValue(channel.secret)
    BY DEF MaskValue, Values
  <1>2. PICK c : c = [ClosedForm EXCEPT !.pc = "open", !.shows = v]
    OBVIOUS
  <1>3. form' = [form EXCEPT ![e] = c] /\ UNCHANGED <<channel, typed, collided, channelWrites>>
    BY <1>1, <1>2 DEF Get
  <1>4. c \in Form /\ c.pc = "open" /\ c.found # Placeholder
    BY <1>2, ClosedIsForm DEF Form
  <1>5. /\ form' \in [ChannelEditors -> Form] /\ form'[e] = c
        /\ \A f \in ChannelEditors : f # e => form'[f] = form[f]
    BY <1>3, <1>4 DEF ChannelFormsTypeOK, Form
  <1>6. ChannelFormsTypeOK'
    BY <1>3, <1>5 DEF ChannelFormsTypeOK, Form
  <1> QED
    BY <1>3, <1>4, <1>5, <1>6 DEF FoundIsStored, PlaceholderNeverStored, LastTypedSecretStored

LEMMA UpdateReadsKeeps ==
    ASSUME ChannelInv, NEW e \in ChannelEditors, UpdateReads(e)
    PROVE  ChannelInv'
  <1> USE DEF ChannelInv
  <1>1. PICK v \in {form[e].shows, NoSecret} \cup Secrets :
            form' = [form EXCEPT ![e] =
               IF channel.exists THEN [@ EXCEPT !.pc = "update", !.sends = v, !.found = channel.secret]
                                ELSE ClosedForm]
    BY DEF UpdateReads
  <1>2. form[e] \in Form /\ v \in Values /\ channel.secret \in Values
    BY DEF ChannelFormsTypeOK, Form, Values
  <1>3. PICK c : c = IF channel.exists
                     THEN [form[e] EXCEPT !.pc = "update", !.sends = v, !.found = channel.secret]
                     ELSE ClosedForm
    OBVIOUS
  <1>4. form' = [form EXCEPT ![e] = c] /\ UNCHANGED <<channel, typed>>
    BY <1>1, <1>3 DEF UpdateReads, ChannelFormsTypeOK
  <1>5. /\ c \in Form /\ c.found # Placeholder
        /\ c.pc = "update" => channel.exists /\ c.found = channel.secret
    <2>1. CASE channel.exists
      BY <1>2, <1>3, <2>1 DEF Form, PlaceholderNeverStored
    <2>2. CASE ~channel.exists
      BY <1>3, <2>2, ClosedIsForm
    <2> QED
      BY <2>1, <2>2
  <1>6. /\ form' \in [ChannelEditors -> Form] /\ form'[e] = c
        /\ \A f \in ChannelEditors : f # e => form'[f] = form[f]
    BY <1>4, <1>5 DEF ChannelFormsTypeOK, Form
  <1>7. channelWrites' \in 0..MaxChannelWrites
    BY ChannelFormBounds DEF UpdateReads, ChannelFormsTypeOK
  <1>8. /\ collided' \in BOOLEAN
        /\ ~collided' => ~collided /\ \A f \in ChannelEditors : f # e => form[f].pc # "update"
    BY Zenon DEF UpdateReads
  <1>9. ChannelFormsTypeOK'
    BY <1>4, <1>6, <1>7, <1>8 DEF ChannelFormsTypeOK, Form
  <1>10. FoundIsStored'
    BY <1>4, <1>5, <1>6, <1>8 DEF FoundIsStored
  <1> QED
    BY <1>4, <1>8, <1>9, <1>10 DEF PlaceholderNeverStored, LastTypedSecretStored

LEMMA UpdateWritesKeeps ==
    ASSUME ChannelInv, NEW e \in ChannelEditors, UpdateWrites(e)
    PROVE  ChannelInv'
  <1> USE DEF ChannelInv
  <1>1. /\ form[e] \in Form /\ form[e].pc = "update" /\ form' = [form EXCEPT ![e] = ClosedForm]
        /\ UNCHANGED <<collided, channelWrites>>
    BY DEF UpdateWrites, ChannelFormsTypeOK, Form
  <1>2. /\ form' \in [ChannelEditors -> Form] /\ form'[e] = ClosedForm
        /\ \A f \in ChannelEditors : f # e => form'[f] = form[f]
    BY <1>1, ClosedIsForm DEF ChannelFormsTypeOK, Form
  <1>3. PICK r : r = RestoreMaskedSecrets(form[e].sends, form[e].found)
    OBVIOUS
  <1>4. /\ r \in Values /\ r # Placeholder /\ form[e].sends \in Values
        /\ form[e].sends # Placeholder => r = form[e].sends
        /\ form[e].sends = Placeholder => r = form[e].found
    BY <1>1, <1>3 DEF RestoreMaskedSecrets, FoundIsStored, Form
  <1>5. CASE channel.exists
    <2>1. channel' = [channel EXCEPT !.secret = r]
      BY <1>3, <1>5 DEF UpdateWrites
    <2>2. /\ channel' \in [exists: BOOLEAN, secret: Values] /\ channel'.secret = r
          /\ channel'.exists
      BY <1>4, <1>5, <2>1 DEF ChannelFormsTypeOK
    <2>3. typed' = IF form[e].sends # Placeholder THEN form[e].sends ELSE typed
      BY <1>5 DEF UpdateWrites
    <2>4. ChannelFormsTypeOK'
      BY <1>1, <1>2, <1>4, <2>2, <2>3 DEF ChannelFormsTypeOK, Form
    <2>5. ~collided => \A f \in ChannelEditors : form'[f].pc # "update"
      BY <1>1, <1>2, ClosedIsForm DEF FoundIsStored
    <2>6. FoundIsStored'
      BY <1>1, <1>2, <2>5, ClosedIsForm DEF FoundIsStored
    <2>7. ~collided => r = typed'
      BY <1>1, <1>4, <1>5, <2>3 DEF FoundIsStored, LastTypedSecretStored
    <2> QED
      BY <1>1, <1>4, <2>2, <2>4, <2>6, <2>7 DEF PlaceholderNeverStored, LastTypedSecretStored
  <1>6. CASE ~channel.exists
    <2>1. UNCHANGED <<channel, typed>>
      BY <1>6 DEF UpdateWrites
    <2>2. ChannelFormsTypeOK'
      BY <1>1, <1>2, <2>1 DEF ChannelFormsTypeOK, Form
    <2>3. FoundIsStored'
      BY <1>1, <1>2, <1>6, <2>1, ClosedIsForm DEF FoundIsStored
    <2> QED
      BY <1>1, <1>6, <2>1, <2>2, <2>3 DEF PlaceholderNeverStored, LastTypedSecretStored
  <1> QED
    BY <1>5, <1>6

LEMMA DeleteChannelKeeps ==
    ASSUME ChannelInv, DeleteChannel
    PROVE  ChannelInv'
  <1> USE DEF ChannelInv
  <1>1. PICK b \in BOOLEAN : b = FALSE
    OBVIOUS
  <1>2. channel' = [exists |-> b, secret |-> NoSecret] /\ UNCHANGED <<form, typed, collided>>
    BY <1>1, Zenon DEF DeleteChannel
  <1>3. channel' \in [exists: BOOLEAN, secret: Values] /\ ~channel'.exists /\ channel'.secret = NoSecret
    BY <1>1, <1>2 DEF Values
  <1>4. channelWrites' \in 0..MaxChannelWrites
    BY ChannelFormBounds DEF DeleteChannel, ChannelFormsTypeOK
  <1>5. ChannelFormsTypeOK'
    BY <1>2, <1>3, <1>4 DEF ChannelFormsTypeOK
  <1> QED
    BY <1>2, <1>3, <1>5, ChannelFormBounds DEF FoundIsStored, PlaceholderNeverStored, LastTypedSecretStored

LEMMA ChannelNext == ChannelInv /\ [ChannelFormsNext]_channelVars => ChannelInv'
  <1> SUFFICES ASSUME ChannelInv, [ChannelFormsNext]_channelVars PROVE ChannelInv'
    OBVIOUS
  <1>1. CASE UNCHANGED channelVars
    BY <1>1 DEF channelVars, ChannelInv, ChannelFormsTypeOK, FoundIsStored,
       PlaceholderNeverStored, LastTypedSecretStored
  <1> QED
    BY <1>1, GetKeeps, UpdateReadsKeeps, UpdateWritesKeeps, DeleteChannelKeeps DEF ChannelFormsNext

-----------------------------------------------------------------------------
\* For any number of administrators, clients, URLs, keys and secrets: unless
\* requests overlap, a key stays with the URL it was entered with and the
\* stored secret is the one last typed; a placeholder is never stored, overlap
\* or not (remote/registry.go, notification_channels.go, secret_mask.go).
THEOREM SecretsKeptAlways == RemoteStoreSpec /\ ChannelFormsSpec => []SecretsKept
  <1>1. RemoteInv /\ ChannelInv => SecretsKept
    BY DEF RemoteInv, ChannelInv, SecretsKept
  <1> QED
    BY <1>1, RemoteInit, RemoteNext, ChannelInit, ChannelNext, PTL DEF RemoteStoreSpec, ChannelFormsSpec

-----------------------------------------------------------------------------
(***************************************************************************)
(* LoginLimiter.                                                           *)
(***************************************************************************)

\* A login under way.
LoginUnderWay ==
    [pc : {"count", "add", "answer"}, step : 1..3, over : SUBSET (1..3), failed : SUBSET (1..3),
     src : Sources, user : LoginNames, right : BOOLEAN]
TriedLogin ==
    [src : Sources, user : LoginNames, age : 0..LoginWindow + 1, over : SUBSET (1..3), right : BOOLEAN,
     failed : SUBSET (1..3)]

LimiterTypes ==
    /\ inRedis \in BOOLEAN
    /\ events \in [CounterKeys -> Seq(0..LoginWindow + 1)]
    /\ DOMAIN login = Attempts
    /\ \A a \in Attempts : login[a] = NoLogin \/ (inRedis /\ login[a] \in LoginUnderWay)
    /\ tried \in Seq(TriedLogin)
    /\ limiterErrors \in 0..MaxLimiterErrors
    /\ Len(tried) + Cardinality(UnderWay) <= MaxAttempts

\* The limits that LoginsBounded is about: of the counter k, step c of a login.
Bounding(c, k) == (c = 1 /\ k \in {"ip"} \X Sources) \/ (c = 3 /\ k \in {"user"} \X LoginNames)

\* The logins let through for which the counter k was asked, as step c; those
\* under way that have added theirs, and those that have counted and not added.
Counted(c, k) == {n \in Admitted(c) : KeysOf(tried[n].src, tried[n].user)[c] = k}
Asks(l, c, k) == l.pc # "idle" /\ KeysOf(l.src, l.user)[c] = k /\ c \notin l.over /\ c \notin l.failed
HasAdded(l, c, k) == Asks(l, c, k) /\ (l.step > c \/ l.pc = "answer")
WillAdd(l, c, k) == Asks(l, c, k) /\ l.step = c /\ l.pc = "add"
Added(c, k) == {a \in Attempts : HasAdded(login[a], c, k)}
Coming(c, k) == {a \in Attempts : WillAdd(login[a], c, k)}

OneToOne(f) == \A x, y \in DOMAIN f : f[x] = f[y] => x = y
Ages == [n \in DOMAIN tried |-> tried[n].age]

\* Each n of C, of age age[n], and each a of A, of now, is an attempt of its own
\* among es.
Shows(f, g, C, A, es, age) ==
    /\ f \in [C -> 1..Len(es)] /\ g \in [A -> 1..Len(es)]
    /\ OneToOne(f) /\ OneToOne(g)
    /\ \A n \in C, a \in A : f[n] # g[a]
    /\ \A n \in C : es[f[n]] = age[n]
    /\ \A a \in A : es[g[a]] = 0
ShownIn(C, A, es, age) == \E f, g : Shows(f, g, C, A, es, age)

Shown(c, k) == ShownIn(Counted(c, k), Added(c, k), events[k], Ages)

Bounded(c, k) ==
    Cardinality(Counted(c, k)) + Cardinality(Added(c, k) \cup Coming(c, k)) <= Limits[c] + Slack

\* Who has only been tried wrongly and from i: what counts against the user
\* counts against the pair.
OnlyWrongFrom(i, u) == \A n \in DOMAIN tried : tried[n].user = u => tried[n].src = i /\ ~tried[n].right
EndsWith(t, s) == Len(s) <= Len(t) /\ \A n \in 1..Len(s) : s[n] = t[Len(t) - Len(s) + n]

PairsHold ==
    ~inRedis =>
        \A i \in Sources, u \in LoginNames :
            /\ Len(events[<<"pair", <<u, i>>>>]) <= UserLimit
            /\ events[<<"pair", <<u, i>>>>] # <<>> => \E n \in DOMAIN tried : tried[n].user = u /\ tried[n].src = i
            /\ OnlyWrongFrom(i, u) => EndsWith(events[<<"pair", <<u, i>>>>], events[<<"user", u>>])

LimiterInv ==
    /\ LimiterTypes
    /\ \A c \in {1, 3}, k \in CounterKeys : Bounding(c, k) => Shown(c, k) /\ Bounded(c, k)
    /\ PairsHold
    /\ MemoryKeepsOthers

RequestInv ==
    /\ RequestTypeOK
    /\ \A c \in Clients :
         /\ TokensOf(bucket[c]) <= allowance[c] /\ allowance[c] <= Burst
         /\ bucket[c].known =>
               allowance[c] = Burst \/ RefillPerTick * bucket[c].idle <= allowance[c]

-----------------------------------------------------------------------------
LEMMA LimiterConstants ==
    /\ IpLimit \in Nat \ {0} /\ UserLimit \in Nat \ {0} /\ UserGlobalLimit \in Nat \ {0} /\ LoginWindow \in Nat \ {0}
    /\ MaxAttempts \in Nat /\ MaxLimiterErrors \in Nat /\ UserLimit < UserGlobalLimit
    /\ Burst \in Nat \ {0} /\ RefillPerTick \in Nat \ {0} /\ IdleLimit \in Nat \ {0}
    /\ Burst <= RefillPerTick * IdleLimit
    /\ IsFiniteSet(Attempts)
  BY LoginLimiterAssumption

\* A set of natural numbers that is not empty has a least element.
LEMMA LeastPosition ==
    ASSUME NEW S, S \subseteq Nat, S # {}
    PROVE  \E m \in S : \A n \in S : m <= n
  <1>1. PICK m \in S : \A n \in S : ~ (<<n, m>> \in OpToRel(<, Nat))
    BY NatLessThanWellFounded, WFMin
  <1>2. \A n \in S : ~ (n < m)
    BY <1>1 DEF OpToRel
  <1> QED
    BY <1>2

KeptAttempts(es) == {n \in 1..Len(es) : es[n] < LoginWindow \/ (~inRedis /\ es[n] = LoginWindow)}

\* PruneAttempts drops a number of attempts from the front, each of them no
\* younger than the window, and stops at the first it keeps.
LEMMA PruneDrops ==
    ASSUME NEW es \in Seq(0..LoginWindow + 1)
    PROVE  /\ PruneAttempts(es) \in Seq(0..LoginWindow + 1)
           /\ \E d \in 0..Len(es) :
                /\ Len(PruneAttempts(es)) = Len(es) - d
                /\ \A n \in 1..(Len(es) - d) : PruneAttempts(es)[n] = es[n + d]
                /\ \A n \in 1..d : n \notin KeptAttempts(es)
                /\ d < Len(es) => d + 1 \in KeptAttempts(es)
  <1>1. Len(es) \in Nat /\ KeptAttempts(es) \subseteq 1..Len(es) /\ KeptAttempts(es) \subseteq Nat
    BY DEF KeptAttempts
  <1>2. PruneAttempts(es) = IF KeptAttempts(es) = {} THEN <<>>
                            ELSE SubSeq(es, CHOOSE n \in KeptAttempts(es) : \A m \in KeptAttempts(es) : n <= m, Len(es))
    BY DEF PruneAttempts, FromFirst, KeptAttempts
  <1>3. CASE KeptAttempts(es) = {}
    <2>1. PruneAttempts(es) = <<>>
      BY <1>2, <1>3
    <2>2. Len(PruneAttempts(es)) = Len(es) - Len(es) /\ Len(es) \in 0..Len(es)
      BY <1>1, <2>1
    <2> QED
      BY <1>1, <1>3, <2>1, <2>2
  <1>4. CASE KeptAttempts(es) # {}
    <2>1. PICK m : m = CHOOSE n \in KeptAttempts(es) : \A k \in KeptAttempts(es) : n <= k
      OBVIOUS
    <2>2. m \in KeptAttempts(es) /\ \A k \in KeptAttempts(es) : m <= k
      BY <1>1, <1>4, <2>1, LeastPosition
    <2>3. m \in 1..Len(es) /\ PruneAttempts(es) = SubSeq(es, m, Len(es))
      BY <1>1, <1>2, <1>4, <2>1, <2>2
    <2>4. /\ PruneAttempts(es) \in Seq(0..LoginWindow + 1)
          /\ Len(PruneAttempts(es)) = Len(es) - m + 1
          /\ \A n \in 1..(Len(es) - m + 1) : PruneAttempts(es)[n] = es[m + n - 1]
      <3>1. \A n \in m..Len(es) : es[n] \in 0..LoginWindow + 1
        <4>1. m..Len(es) \subseteq 1..Len(es)
          BY <1>1, <2>3
        <4> QED
          BY <4>1, ElementOfSeq
      <3> QED
        BY <1>1, <2>3, <3>1, SubSeqProperties
    <2>5. PICK d \in 0..Len(es) : d = m - 1
      BY <1>1, <2>3
    <2>6. \A n \in 1..d : n \notin KeptAttempts(es)
      BY <1>1, <2>2, <2>5
    <2>7. Len(PruneAttempts(es)) = Len(es) - d /\ (d < Len(es) => d + 1 \in KeptAttempts(es))
      BY <1>1, <2>2, <2>3, <2>4, <2>5
    <2>8. ASSUME NEW n \in 1..(Len(es) - d) PROVE PruneAttempts(es)[n] = es[n + d]
      <3>1. n \in 1..(Len(es) - m + 1) /\ m + n - 1 = n + d
        BY <1>1, <2>3, <2>5
      <3> QED
        BY <2>4, <3>1
    <2> QED
      BY <2>4, <2>6, <2>7, <2>8
  <1> QED
    BY <1>3, <1>4

-----------------------------------------------------------------------------
(* The request limiters. *)

LEMMA RequestInvInit == RequestInit => RequestInv
  <1> SUFFICES ASSUME RequestInit PROVE RequestInv
    OBVIOUS
  <1>1. PICK no \in BOOLEAN : no = FALSE
    OBVIOUS
  <1>2. NoBucket = [known |-> no, tokens |-> 0, idle |-> 0]
    BY <1>1 DEF NoBucket
  <1>3. \A c \in Clients : bucket[c] = [known |-> no, tokens |-> 0, idle |-> 0] /\ allowance[c] = Burst
    BY <1>2 DEF RequestInit
  <1>4. RequestTypeOK
    BY <1>2, LimiterConstants DEF RequestInit, RequestTypeOK
  <1>5. \A c \in Clients : TokensOf(bucket[c]) <= allowance[c] /\ allowance[c] <= Burst
    BY <1>1, <1>3, LimiterConstants DEF TokensOf
  <1>6. \A c \in Clients : ~bucket[c].known
    BY <1>1, <1>3
  <1> QED
    BY <1>4, <1>5, <1>6 DEF RequestInv

Buckets == [known : BOOLEAN, tokens : 0..Burst, idle : 0..IdleLimit + 1]

LEMMA SpendKeeps ==
    ASSUME NEW b \in Buckets
    PROVE  /\ Spend(b) \in Buckets /\ Spend(b).known /\ Spend(b).idle = 0
           /\ TokensOf(b) \in 0..Burst
           /\ Spend(b).tokens = IF TokensOf(b) > 0 THEN TokensOf(b) - 1 ELSE 0
  <1>1. PICK yes \in BOOLEAN : yes = TRUE
    OBVIOUS
  <1>2. TokensOf(b) \in 0..Burst
    BY LimiterConstants DEF TokensOf, Buckets
  <1>3. PICK n : n = IF TokensOf(b) > 0 THEN TokensOf(b) - 1 ELSE 0
    OBVIOUS
  <1>4. n \in 0..Burst /\ 0 \in 0..IdleLimit + 1
    BY <1>2, <1>3, LimiterConstants
  <1>5. Spend(b) = [known |-> yes, idle |-> 0, tokens |-> n]
    BY <1>1, <1>3 DEF Spend
  <1>6. Spend(b).known
    BY <1>1, <1>5
  <1> QED
    BY <1>2, <1>3, <1>4, <1>5, <1>6 DEF Buckets

LEMMA RequestTypes ==
    ASSUME RequestInv, NEW c \in Clients
    PROVE  /\ bucket \in [Clients -> Buckets] /\ bucket[c] \in Buckets
           /\ allowance \in [Clients -> Int] /\ allowance[c] \in 0..Burst
           /\ TokensOf(bucket[c]) \in 0..Burst /\ TokensOf(bucket[c]) <= allowance[c]
           /\ bucket[c].known => allowance[c] = Burst \/ RefillPerTick * bucket[c].idle <= allowance[c]
  <1>1. bucket \in [Clients -> Buckets] /\ allowance \in [Clients -> Int]
    BY DEF RequestInv, RequestTypeOK, Buckets
  <1>2. bucket[c] \in Buckets /\ allowance[c] \in Int
    BY <1>1
  <1>3. TokensOf(bucket[c]) \in 0..Burst
    BY <1>2, SpendKeeps
  <1>4. TokensOf(bucket[c]) <= allowance[c] /\ allowance[c] <= Burst
        /\ (bucket[c].known => allowance[c] = Burst \/ RefillPerTick * bucket[c].idle <= allowance[c])
    BY DEF RequestInv
  <1>5. allowance[c] \in 0..Burst
    BY <1>2, <1>3, <1>4, LimiterConstants
  <1> QED
    BY <1>1, <1>2, <1>3, <1>4, <1>5

\* What is to be shown of each client.
ClientOK(b, n) ==
    /\ b \in Buckets /\ n \in Int /\ TokensOf(b) <= n /\ n <= Burst
    /\ b.known => n = Burst \/ RefillPerTick * b.idle <= n

LEMMA ClientsOK == RequestInv => \A c \in Clients : ClientOK(bucket[c], allowance[c])
  BY RequestTypes DEF ClientOK

LEMMA ClientsStayOK ==
    ASSUME bucket' = [c \in Clients |-> bucket'[c]],
           allowance' = [c \in Clients |-> allowance'[c]],
           \A c \in Clients : ClientOK(bucket'[c], allowance'[c])
    PROVE  RequestInv'
  <1>1. bucket' \in [Clients -> Buckets] /\ allowance' \in [Clients -> Int]
    BY DEF ClientOK
  <1>2. RequestTypeOK'
    BY <1>1 DEF RequestTypeOK, Buckets
  <1> QED
    BY <1>2 DEF RequestInv, ClientOK

LEMMA Products ==
    ASSUME NEW n \in Nat
    PROVE  RefillPerTick * (n + 1) = RefillPerTick * n + RefillPerTick /\ RefillPerTick * n \in Nat
           /\ RefillPerTick * 0 = 0
  BY LimiterConstants

LEMMA ServeKeeps ==
    ASSUME RequestInv, NEW src \in Sources, NEW users, users = {} \/ (\E u \in LoginNames : users = {u}),
           ServeRequest(src, users)
    PROVE  RequestInv'
  <1>1. PICK first \in BOOLEAN : first <=> (TokensOf(bucket[src]) > 0)
    OBVIOUS
  <1>2. PICK asked : asked = {src} \cup IF first THEN users ELSE {}
    OBVIOUS
  <1>3. bucket \in [Clients -> Buckets]
    BY DEF RequestInv, RequestTypeOK, Buckets
  <1>4. src \in Clients /\ users \subseteq Clients
    BY DEF Clients
  <1>5. allowance' = [c \in Clients |-> IF c \in asked /\ TokensOf(bucket[c]) > 0 THEN allowance[c] - 1 ELSE allowance[c]]
    BY <1>1, <1>2 DEF ServeRequest
  <1>6. /\ bucket' \in [Clients -> Buckets]
        /\ \A c \in Clients : c \notin asked => bucket'[c] = bucket[c]
        /\ \A c \in Clients : c \in asked => bucket'[c] = Spend(bucket[c]) \/ bucket'[c] = Spend(Spend(bucket[c]))
    <2>1. PICK bs : bs = inMemoryRateLimiter(src, bucket)
      OBVIOUS
    <2>2. /\ bs \in [Clients -> Buckets] /\ bs[src] = Spend(bucket[src])
          /\ \A c \in Clients : c # src => bs[c] = bucket[c]
      BY <1>3, <1>4, <2>1, SpendKeeps DEF inMemoryRateLimiter
    <2>3. CASE ~first \/ users = {}
      <3>1. bucket' = bs /\ asked = {src}
        BY <1>1, <1>2, <2>1, <2>3 DEF ServeRequest
      <3> QED
        BY <2>2, <3>1
    <2>4. CASE first /\ users # {}
      <3>1. PICK u \in LoginNames : users = {u}
        BY <2>4
      <3>2. (CHOOSE v \in users : TRUE) = u
        BY <3>1
      <3>3. bucket' = [bs EXCEPT ![u] = Spend(@)] /\ asked = {src, u} /\ u \in Clients
        BY <1>1, <1>2, <1>4, <2>1, <2>4, <3>1, <3>2 DEF ServeRequest, inMemoryUserRateLimiter
      <3>4. /\ bucket' \in [Clients -> Buckets] /\ bucket'[u] = Spend(bs[u])
            /\ \A c \in Clients : c # u => bucket'[c] = bs[c]
        BY <2>2, <3>3, SpendKeeps
      <3> QED
        BY <2>2, <3>3, <3>4
    <2> QED
      BY <2>3, <2>4
  <1>7. ASSUME NEW c \in Clients PROVE ClientOK(bucket'[c], allowance'[c])
    <2>1. /\ bucket[c] \in Buckets /\ allowance[c] \in 0..Burst
          /\ TokensOf(bucket[c]) \in 0..Burst /\ TokensOf(bucket[c]) <= allowance[c]
      BY RequestTypes
    <2>2. CASE c \notin asked
      BY <1>5, <1>6, <2>2, ClientsOK
    <2>3. CASE c \in asked
      <3>1. allowance'[c] = IF TokensOf(bucket[c]) > 0 THEN allowance[c] - 1 ELSE allowance[c]
        BY <1>5, <2>3
      <3>2. PICK t : t = IF TokensOf(bucket[c]) > 0 THEN TokensOf(bucket[c]) - 1 ELSE 0
        OBVIOUS
      <3>3. t \in 0..Burst /\ t <= allowance'[c] /\ allowance'[c] \in 0..Burst
        <4>1. PICK n : n = allowance'[c]
          OBVIOUS
        <4>2. n = IF TokensOf(bucket[c]) > 0 THEN allowance[c] - 1 ELSE allowance[c]
          BY <3>1, <4>1
        <4>3. t \in 0..Burst /\ t <= n /\ n \in 0..Burst
          BY <2>1, <3>2, <4>2, LimiterConstants
        <4> QED
          BY <4>1, <4>3
      <3>4. Spend(bucket[c]) \in Buckets /\ Spend(bucket[c]).known /\ Spend(bucket[c]).idle = 0
            /\ Spend(bucket[c]).tokens = t /\ TokensOf(Spend(bucket[c])) = t
        BY <2>1, <3>2, SpendKeeps DEF TokensOf
      <3>5. PICK b \in Buckets : b = bucket'[c]
        BY <1>6
      <3>6. b.known /\ b.idle = 0 /\ b.tokens <= t /\ b.tokens \in 0..Burst
        <4>1. CASE b = Spend(bucket[c])
          BY <3>3, <3>4, <4>1
        <4>2. CASE b = Spend(Spend(bucket[c]))
          <5>1. PICK e \in Buckets : e = Spend(bucket[c])
            BY <3>4
          <5>2. b = Spend(e) /\ e.known /\ TokensOf(e) = t
            BY <3>4, <4>2, <5>1
          <5>3. b.tokens = IF t > 0 THEN t - 1 ELSE 0
            BY <5>2, SpendKeeps
          <5>4. b.known /\ b.idle = 0
            BY <5>2, SpendKeeps
          <5> QED
            BY <3>3, <5>3, <5>4, LimiterConstants
        <4> QED
          BY <1>6, <2>3, <3>5, <4>1, <4>2
      <3>7. TokensOf(b) = b.tokens
        BY <3>6 DEF TokensOf
      <3>8. RefillPerTick * b.idle <= allowance'[c]
        BY <3>3, <3>6, Products
      <3> QED
        BY <3>3, <3>5, <3>6, <3>7, <3>8 DEF ClientOK
    <2> QED
      BY <2>2, <2>3
  <1>8. bucket' = [c \in Clients |-> bucket'[c]] /\ allowance' = [c \in Clients |-> allowance'[c]]
    BY <1>5, <1>6
  <1> QED
    BY <1>7, <1>8, ClientsStayOK

LEMMA RefillKeeps ==
    ASSUME NEW m \in 0..Burst, NEW n \in 0..Burst, m <= n
    PROVE  /\ Refill(m) \in 0..Burst /\ Refill(n) \in 0..Burst /\ Refill(m) <= Refill(n) /\ n <= Refill(n)
           /\ Refill(n) = Burst \/ Refill(n) = n + RefillPerTick
  BY LimiterConstants DEF Refill

LEMMA RequestTickKeeps == RequestInv /\ RequestTick => RequestInv'
  <1> SUFFICES ASSUME RequestInv, RequestTick PROVE RequestInv'
    OBVIOUS
  <1>1. /\ bucket' = [c \in Clients |-> IF bucket[c].known
                        THEN [bucket[c] EXCEPT !.tokens = Refill(@), !.idle = IF @ > IdleLimit THEN @ ELSE @ + 1]
                        ELSE NoBucket]
        /\ allowance' = [c \in Clients |-> Refill(allowance[c])]
    BY DEF RequestTick
  <1>2. ASSUME NEW c \in Clients PROVE ClientOK(bucket'[c], allowance'[c])
    <2>1. /\ bucket[c] \in Buckets /\ allowance[c] \in 0..Burst
          /\ TokensOf(bucket[c]) \in 0..Burst /\ TokensOf(bucket[c]) <= allowance[c]
          /\ bucket[c].known => allowance[c] = Burst \/ RefillPerTick * bucket[c].idle <= allowance[c]
      BY RequestTypes
    <2>2. allowance'[c] = Refill(allowance[c])
      BY <1>1
    <2>3. CASE bucket[c].known
      <3>1. PICK m, i : m = bucket[c].tokens /\ i = bucket[c].idle
        OBVIOUS
      <3>2. m \in 0..Burst /\ i \in 0..IdleLimit + 1 /\ m <= allowance[c]
        BY <2>1, <2>3, <3>1 DEF Buckets, TokensOf
      <3>3. PICK j : j = IF i > IdleLimit THEN i ELSE i + 1
        OBVIOUS
      <3>4. j \in 0..IdleLimit + 1 /\ j \in Nat /\ i \in Nat /\ (j = i \/ j = i + 1)
        BY <3>2, <3>3, LimiterConstants
      <3>5. bucket'[c] = [bucket[c] EXCEPT !.tokens = Refill(m), !.idle = j]
        BY <1>1, <2>1, <2>3, <3>1, <3>3 DEF Buckets
      <3>6. Refill(m) \in 0..Burst /\ Refill(m) <= Refill(allowance[c]) /\ Refill(allowance[c]) \in 0..Burst
            /\ allowance[c] <= Refill(allowance[c])
            /\ (Refill(allowance[c]) = Burst \/ Refill(allowance[c]) = allowance[c] + RefillPerTick)
        BY <2>1, <3>2, RefillKeeps
      <3>7. bucket'[c] \in Buckets /\ bucket'[c].known /\ bucket'[c].tokens = Refill(m) /\ bucket'[c].idle = j
        BY <2>1, <2>3, <3>4, <3>5, <3>6 DEF Buckets
      <3>8. Refill(allowance[c]) = Burst \/ RefillPerTick * j <= Refill(allowance[c])
        <4>1. CASE allowance[c] = Burst
          BY <3>6, <4>1, LimiterConstants
        <4>2. CASE RefillPerTick * i <= allowance[c]
          <5>1. RefillPerTick * (i + 1) = RefillPerTick * i + RefillPerTick /\ RefillPerTick * i \in Nat
            BY <3>4, Products
          <5>2. PICK p, q : p = RefillPerTick * i /\ q = RefillPerTick * j
            OBVIOUS
          <5>3. q = p \/ q = p + RefillPerTick
            BY <3>4, <5>1, <5>2
          <5> QED
            BY <2>1, <3>6, <4>2, <5>1, <5>2, <5>3, LimiterConstants
        <4> QED
          BY <2>1, <2>3, <3>1, <4>1, <4>2
      <3>9. TokensOf(bucket'[c]) = Refill(m)
        BY <3>7 DEF TokensOf
      <3> QED
        BY <2>2, <3>6, <3>7, <3>8, <3>9 DEF ClientOK
    <2>4. CASE ~bucket[c].known
      <3>1. allowance[c] = Burst
        BY <2>1, <2>4, LimiterConstants DEF TokensOf
      <3>2. Refill(Burst) = Burst
        BY LimiterConstants DEF Refill
      <3>3. PICK no \in BOOLEAN : no = FALSE
        OBVIOUS
      <3>4. bucket'[c] = NoBucket
        BY <1>1, <2>4
      <3>5. bucket'[c] = [known |-> no, tokens |-> 0, idle |-> 0]
        BY <3>3, <3>4 DEF NoBucket
      <3>6. bucket'[c] \in Buckets /\ ~bucket'[c].known
        BY <3>3, <3>5, LimiterConstants DEF Buckets
      <3>7. TokensOf(bucket'[c]) = Burst
        BY <3>6 DEF TokensOf
      <3> QED
        BY <2>2, <3>1, <3>2, <3>6, <3>7, LimiterConstants DEF ClientOK
    <2> QED
      BY <2>3, <2>4
  <1>3. bucket' = [c \in Clients |-> bucket'[c]] /\ allowance' = [c \in Clients |-> allowance'[c]]
    BY <1>1
  <1> QED
    BY <1>2, <1>3, ClientsStayOK

LEMMA ForgetKeeps ==
    ASSUME RequestInv, NEW clients, ForgetIdle(clients)
    PROVE  RequestInv'
  <1>1. /\ bucket' = [c \in Clients |-> IF c \in clients /\ bucket[c].idle > IdleLimit THEN NoBucket ELSE bucket[c]]
        /\ allowance' = allowance
    BY DEF ForgetIdle
  <1>2. allowance \in [Clients -> Int]
    BY DEF RequestInv, RequestTypeOK
  <1>3. ASSUME NEW c \in Clients PROVE ClientOK(bucket'[c], allowance'[c])
    <2>1. CASE ~ (c \in clients /\ bucket[c].idle > IdleLimit)
      <3>1. bucket'[c] = bucket[c] /\ allowance'[c] = allowance[c]
        BY <1>1, <2>1
      <3> QED
        BY <3>1, ClientsOK
    <2>2. CASE c \in clients /\ bucket[c].idle > IdleLimit
      <3>1. PICK no \in BOOLEAN : no = FALSE
        OBVIOUS
      <3>2. bucket'[c] = NoBucket
        BY <1>1, <2>2
      <3>3. bucket'[c] = [known |-> no, tokens |-> 0, idle |-> 0]
        BY <3>1, <3>2 DEF NoBucket
      <3>4. bucket'[c] \in Buckets /\ ~bucket'[c].known
        BY <3>1, <3>3, LimiterConstants DEF Buckets
      <3>5. TokensOf(bucket'[c]) = Burst
        BY <3>4 DEF TokensOf
      <3>6. /\ bucket[c] \in Buckets /\ allowance[c] \in 0..Burst
            /\ TokensOf(bucket[c]) <= allowance[c]
            /\ bucket[c].known => allowance[c] = Burst \/ RefillPerTick * bucket[c].idle <= allowance[c]
        BY RequestTypes
      <3>7. allowance[c] = Burst
        <4>1. CASE ~bucket[c].known
          BY <3>6, <4>1, LimiterConstants DEF TokensOf
        <4>2. CASE bucket[c].known
          <5>1. bucket[c].idle = IdleLimit + 1
            BY <2>2, <3>6, LimiterConstants DEF Buckets
          <5>2. RefillPerTick * bucket[c].idle = RefillPerTick * IdleLimit + RefillPerTick
            BY <5>1, Products, LimiterConstants
          <5>3. PICK p \in Nat : p = RefillPerTick * IdleLimit
            BY Products, LimiterConstants
          <5>4. Burst <= p /\ (allowance[c] = Burst \/ p + RefillPerTick <= allowance[c])
            BY <3>6, <4>2, <5>2, <5>3, LimiterConstants
          <5> QED
            BY <3>6, <5>4, LimiterConstants
        <4> QED
          BY <4>1, <4>2
      <3> QED
        BY <1>1, <3>4, <3>5, <3>7, LimiterConstants DEF ClientOK
    <2> QED
      BY <2>1, <2>2
  <1>4. bucket' = [c \in Clients |-> bucket'[c]] /\ allowance' = [c \in Clients |-> allowance'[c]]
    BY <1>1, <1>2
  <1> QED
    BY <1>3, <1>4, ClientsStayOK

LEMMA RequestInvNext == RequestInv /\ [RequestNext]_requestVars => RequestInv'
  <1> SUFFICES ASSUME RequestInv, [RequestNext]_requestVars PROVE RequestInv'
    OBVIOUS
  <1>1. ASSUME NEW src \in Sources, ServeRequest(src, {}) \/ \E u \in LoginNames : ServeRequest(src, {u})
        PROVE  RequestInv'
    <2>1. CASE ServeRequest(src, {})
      BY <2>1, ServeKeeps
    <2>2. ASSUME NEW u \in LoginNames, ServeRequest(src, {u}) PROVE RequestInv'
      <3>1. PICK users : users = {u}
        OBVIOUS
      <3>2. ServeRequest(src, users) /\ \E v \in LoginNames : users = {v}
        BY <2>2, <3>1
      <3> QED
        BY <3>2, ServeKeeps
    <2> QED
      BY <1>1, <2>1, <2>2
  <1>2. CASE RequestTick
    BY <1>2, RequestTickKeeps
  <1>3. CASE ForgetIdle(Sources) \/ ForgetIdle(LoginNames)
    BY <1>3, ForgetKeeps
  <1>4. CASE UNCHANGED requestVars
    BY <1>4 DEF requestVars, RequestInv, RequestTypeOK, TokensOf
  <1> QED
    BY <1>1, <1>2, <1>3, <1>4 DEF RequestNext

LEMMA RequestsMean == RequestInv => RequestTypeOK /\ ForgettingGivesNothing
  BY RequestTypes DEF RequestInv, ForgettingGivesNothing

-----------------------------------------------------------------------------
(* What is shown among the recorded attempts stays shown. *)

LEMMA ShownCounts ==
    ASSUME NEW C, NEW A, NEW es \in Seq(0..LoginWindow + 1), NEW age, ShownIn(C, A, es, age)
    PROVE  IsFiniteSet(C) /\ Cardinality(C) \in Nat /\ Cardinality(C) <= Len(es)
  <1>1. PICK f \in [C -> 1..Len(es)] : OneToOne(f)
    BY DEF ShownIn, Shows
  <1>2. f \in Injection(C, 1..Len(es))
    BY <1>1 DEF OneToOne, Injection, IsInjective
  <1>a. PICK n \in Nat : n = Len(es)
    OBVIOUS
  <1>b. IsFiniteSet(1..n) /\ Cardinality(1..n) = n
    BY FS_Interval
  <1>3. Len(es) \in Nat /\ IsFiniteSet(1..Len(es)) /\ Cardinality(1..Len(es)) = Len(es)
    BY <1>a, <1>b
  <1>4. IsFiniteSet(C) /\ Cardinality(C) <= Len(es)
    BY <1>2, <1>3, FS_Injection
  <1> QED
    BY <1>4, FS_CardinalityType

LEMMA ShownLess ==
    ASSUME NEW C, NEW A, NEW es, NEW age, ShownIn(C, A, es, age),
           NEW D \in SUBSET C, NEW B \in SUBSET A, NEW age2, \A n \in D : age2[n] = age[n]
    PROVE  ShownIn(D, B, es, age2)
  <1>0. PICK f, g : Shows(f, g, C, A, es, age)
    BY DEF ShownIn
  <1>1. /\ f \in [C -> 1..Len(es)] /\ g \in [A -> 1..Len(es)]
        /\ OneToOne(f) /\ OneToOne(g)
        /\ \A n \in C, b \in A : f[n] # g[b]
        /\ \A n \in C : es[f[n]] = age[n]
        /\ \A b \in A : es[g[b]] = 0
    BY <1>0 DEF Shows
  <1>2. PICK p, q : p = [n \in D |-> f[n]] /\ q = [a \in B |-> g[a]]
    OBVIOUS
  <1>3. p \in [D -> 1..Len(es)] /\ q \in [B -> 1..Len(es)]
    BY <1>1, <1>2
  <1>4. OneToOne(p) /\ OneToOne(q)
    BY <1>1, <1>2 DEF OneToOne
  <1>5. /\ \A n \in D, a \in B : p[n] # q[a]
        /\ \A n \in D : es[p[n]] = age2[n]
        /\ \A a \in B : es[q[a]] = 0
    BY <1>1, <1>2
  <1>6. Shows(p, q, D, B, es, age2)
    BY <1>3, <1>4, <1>5 DEF Shows
  <1> QED
    BY <1>6 DEF ShownIn

LEMMA ShownPrune ==
    ASSUME NEW C, NEW A, NEW es \in Seq(0..LoginWindow + 1), NEW age, ShownIn(C, A, es, age),
           \A n \in C : age[n] \in Nat /\ age[n] < LoginWindow
    PROVE  ShownIn(C, A, PruneAttempts(es), age)
  <1>0. PICK f, g : Shows(f, g, C, A, es, age)
    BY DEF ShownIn
  <1>1. /\ f \in [C -> 1..Len(es)] /\ g \in [A -> 1..Len(es)]
        /\ OneToOne(f) /\ OneToOne(g)
        /\ \A n \in C, b \in A : f[n] # g[b]
        /\ \A n \in C : es[f[n]] = age[n]
        /\ \A b \in A : es[g[b]] = 0
    BY <1>0 DEF Shows
  <1>2. PICK d \in 0..Len(es) :
           /\ Len(PruneAttempts(es)) = Len(es) - d
           /\ \A n \in 1..(Len(es) - d) : PruneAttempts(es)[n] = es[n + d]
           /\ \A n \in 1..d : n \notin KeptAttempts(es)
    BY PruneDrops
  <1>3. \A n \in 1..Len(es) : es[n] < LoginWindow => n > d
    BY <1>2, LimiterConstants DEF KeptAttempts
  <1>4. \A n \in C : f[n] \in 1..Len(es) /\ f[n] > d
    BY <1>1, <1>3
  <1>5. \A a \in A : g[a] \in 1..Len(es) /\ g[a] > d
    <2>1. 0 < LoginWindow
      BY LimiterConstants
    <2>2. \A a \in A : g[a] \in 1..Len(es) /\ es[g[a]] < LoginWindow
      BY <1>1, <2>1
    <2> QED
      BY <1>3, <2>2
  <1>6. PICK p, q : p = [n \in C |-> f[n] - d] /\ q = [a \in A |-> g[a] - d]
    OBVIOUS
  <1>7. Len(es) \in Nat /\ d \in Nat
    OBVIOUS
  <1>8. p \in [C -> 1..(Len(es) - d)] /\ q \in [A -> 1..(Len(es) - d)]
    BY <1>4, <1>5, <1>6, <1>7
  <1>9. \A n \in C : p[n] + d = f[n]
    BY <1>4, <1>6, <1>7
  <1>10. \A a \in A : q[a] + d = g[a]
    BY <1>5, <1>6, <1>7
  <1>11. OneToOne(p) /\ OneToOne(q)
    BY <1>1, <1>8, <1>9, <1>10 DEF OneToOne
  <1>12. \A n \in C, a \in A : p[n] # q[a]
    BY <1>1, <1>9, <1>10
  <1>13. \A n \in C : PruneAttempts(es)[p[n]] = age[n]
    BY <1>1, <1>2, <1>8, <1>9
  <1>14. \A a \in A : PruneAttempts(es)[q[a]] = 0
    BY <1>1, <1>2, <1>8, <1>10
  <1>15. p \in [C -> 1..Len(PruneAttempts(es))] /\ q \in [A -> 1..Len(PruneAttempts(es))]
    BY <1>2, <1>8
  <1>16. Shows(p, q, C, A, PruneAttempts(es), age)
    BY <1>11, <1>12, <1>13, <1>14, <1>15 DEF Shows
  <1> QED
    BY <1>16 DEF ShownIn

LEMMA AppendPositions ==
    ASSUME NEW es \in Seq(0..LoginWindow + 1)
    PROVE  /\ Append(es, 0) \in Seq(0..LoginWindow + 1) /\ Len(Append(es, 0)) = Len(es) + 1 /\ Len(es) \in Nat
           /\ \A n \in 1..Len(es) : n \in 1..Len(Append(es, 0)) /\ Append(es, 0)[n] = es[n] /\ n # Len(es) + 1
           /\ Len(es) + 1 \in 1..Len(Append(es, 0)) /\ Append(es, 0)[Len(es) + 1] = 0
  <1>1. 0 \in 0..LoginWindow + 1
    BY LimiterConstants
  <1> QED
    BY <1>1

\* An attempt recorded now is one of C, one of A, or neither.
LEMMA ShownAppend ==
    ASSUME NEW C, NEW A, NEW es \in Seq(0..LoginWindow + 1), NEW age, ShownIn(C, A, es, age)
    PROVE  /\ ShownIn(C, A, Append(es, 0), age)
           /\ \A a : a \notin A => ShownIn(C, A \cup {a}, Append(es, 0), age)
           /\ \A m, age2 : m \notin C /\ (\A n \in C : age2[n] = age[n]) /\ age2[m] = 0
                               => ShownIn(C \cup {m}, A, Append(es, 0), age2)
  <1>0. PICK f, g : Shows(f, g, C, A, es, age)
    BY DEF ShownIn
  <1>1. /\ f \in [C -> 1..Len(es)] /\ g \in [A -> 1..Len(es)]
        /\ OneToOne(f) /\ OneToOne(g)
        /\ \A n \in C, b \in A : f[n] # g[b]
        /\ \A n \in C : es[f[n]] = age[n]
        /\ \A b \in A : es[g[b]] = 0
    BY <1>0 DEF Shows
  <1>2. PICK t, last : t = Append(es, 0) /\ last = Len(es) + 1
    OBVIOUS
  <1>3. /\ \A n \in 1..Len(es) : n \in 1..Len(t) /\ t[n] = es[n] /\ n # last
        /\ last \in 1..Len(t) /\ t[last] = 0
    BY <1>2, AppendPositions
  <1>4. f \in [C -> 1..Len(t)] /\ g \in [A -> 1..Len(t)]
    BY <1>1, <1>3
  <1>5. (\A n \in C : t[f[n]] = age[n] /\ f[n] # last) /\ (\A a \in A : t[g[a]] = 0 /\ g[a] # last)
    BY <1>1, <1>3
  <1>6. ShownIn(C, A, t, age)
    <2>1. Shows(f, g, C, A, t, age)
      BY <1>1, <1>4, <1>5 DEF Shows
    <2> QED
      BY <2>1 DEF ShownIn
  <1>7. ASSUME NEW a, a \notin A PROVE ShownIn(C, A \cup {a}, t, age)
    <2>1. PICK q : q = [b \in A \cup {a} |-> IF b = a THEN last ELSE g[b]]
      OBVIOUS
    <2>2. q \in [A \cup {a} -> 1..Len(t)] /\ q[a] = last /\ \A b \in A : q[b] = g[b]
      BY <1>3, <1>4, <1>7, <2>1
    <2>3. OneToOne(q)
      BY <1>1, <1>5, <2>2 DEF OneToOne
    <2>4. (\A n \in C, b \in A \cup {a} : f[n] # q[b]) /\ (\A b \in A \cup {a} : t[q[b]] = 0)
      BY <1>1, <1>3, <1>5, <2>2
    <2>5. Shows(f, q, C, A \cup {a}, t, age)
      BY <1>1, <1>4, <1>5, <2>2, <2>3, <2>4 DEF Shows
    <2> QED
      BY <2>5 DEF ShownIn
  <1>8. ASSUME NEW m, NEW age2, m \notin C, \A n \in C : age2[n] = age[n], age2[m] = 0
        PROVE  ShownIn(C \cup {m}, A, t, age2)
    <2>1. PICK p : p = [n \in C \cup {m} |-> IF n = m THEN last ELSE f[n]]
      OBVIOUS
    <2>2. p \in [C \cup {m} -> 1..Len(t)] /\ p[m] = last /\ \A n \in C : p[n] = f[n]
      BY <1>3, <1>4, <1>8, <2>1
    <2>3. OneToOne(p)
      BY <1>1, <1>5, <2>2 DEF OneToOne
    <2>4. (\A n \in C \cup {m}, b \in A : p[n] # g[b]) /\ (\A n \in C \cup {m} : t[p[n]] = age2[n])
      BY <1>1, <1>3, <1>5, <1>8, <2>2
    <2>5. Shows(p, g, C \cup {m}, A, t, age2)
      BY <1>1, <1>4, <1>5, <2>2, <2>3, <2>4 DEF Shows
    <2> QED
      BY <2>5 DEF ShownIn
  <1> QED
    BY <1>2, <1>6, <1>7, <1>8

\* A login that is answered is told by its record from now on.
LEMMA ShownMoves ==
    ASSUME NEW C, NEW A, NEW es, NEW age, ShownIn(C, A, es, age),
           NEW a \in A, NEW m, m \notin C, NEW age2, \A n \in C : age2[n] = age[n], age2[m] = 0
    PROVE  ShownIn(C \cup {m}, A \ {a}, es, age2)
  <1>0. PICK f, g : Shows(f, g, C, A, es, age)
    BY DEF ShownIn
  <1>1. /\ f \in [C -> 1..Len(es)] /\ g \in [A -> 1..Len(es)]
        /\ OneToOne(f) /\ OneToOne(g)
        /\ \A n \in C, b \in A : f[n] # g[b]
        /\ \A n \in C : es[f[n]] = age[n]
        /\ \A b \in A : es[g[b]] = 0
    BY <1>0 DEF Shows
  <1>2. PICK p, q : p = [n \in C \cup {m} |-> IF n = m THEN g[a] ELSE f[n]] /\ q = [b \in A \ {a} |-> g[b]]
    OBVIOUS
  <1>3. p \in [C \cup {m} -> 1..Len(es)] /\ q \in [A \ {a} -> 1..Len(es)]
    BY <1>1, <1>2
  <1>4. p[m] = g[a] /\ (\A n \in C : p[n] = f[n]) /\ (\A b \in A \ {a} : q[b] = g[b])
    BY <1>2
  <1>5. OneToOne(p) /\ OneToOne(q)
    BY <1>1, <1>3, <1>4 DEF OneToOne
  <1>6. \A n \in C \cup {m}, b \in A \ {a} : p[n] # q[b]
    BY <1>1, <1>4 DEF OneToOne
  <1>7. (\A n \in C \cup {m} : es[p[n]] = age2[n]) /\ (\A b \in A \ {a} : es[q[b]] = 0)
    BY <1>1, <1>4
  <1>8. Shows(p, q, C \cup {m}, A \ {a}, es, age2)
    BY <1>3, <1>5, <1>6, <1>7 DEF Shows
  <1> QED
    BY <1>8 DEF ShownIn

-----------------------------------------------------------------------------
(* The counters a login asks. *)

LEMMA KeysAre ==
    ASSUME NEW i \in Sources, NEW u \in LoginNames
    PROVE  /\ KeysOf(i, u)[1] = <<"ip", i>> /\ KeysOf(i, u)[2] = <<"pair", <<u, i>>>> /\ KeysOf(i, u)[3] = <<"user", u>>
           /\ <<"ip", i>> \in CounterKeys /\ <<"pair", <<u, i>>>> \in CounterKeys /\ <<"user", u>> \in CounterKeys
           /\ \A s \in 1..3 : KeysOf(i, u)[s] \in CounterKeys
  <1>1. KeysOf(i, u)[1] = <<"ip", i>> /\ KeysOf(i, u)[2] = <<"pair", <<u, i>>>> /\ KeysOf(i, u)[3] = <<"user", u>>
    BY DEF KeysOf
  <1>2. <<"ip", i>> \in CounterKeys /\ <<"pair", <<u, i>>>> \in CounterKeys /\ <<"user", u>> \in CounterKeys
    BY DEF CounterKeys
  <1>3. \A s \in 1..3 : s = 1 \/ s = 2 \/ s = 3
    OBVIOUS
  <1> QED
    BY <1>1, <1>2, <1>3

\* A counter with a bound is asked by one step only.
LEMMA OneStepAsks ==
    ASSUME NEW i \in Sources, NEW u \in LoginNames, NEW s \in 1..3, NEW c \in {1, 3}, NEW k, Bounding(c, k)
    PROVE  /\ KeysOf(i, u)[s] = k => s = c
           /\ k # <<"pair", <<u, i>>>> /\ k \in CounterKeys
  <1>1. (c = 1 /\ k[1] = "ip") \/ (c = 3 /\ k[1] = "user")
    BY DEF Bounding
  <1>2. KeysOf(i, u)[1][1] = "ip" /\ KeysOf(i, u)[2][1] = "pair" /\ KeysOf(i, u)[3][1] = "user"
    BY DEF KeysOf
  <1>3. s = 1 \/ s = 2 \/ s = 3
    OBVIOUS
  <1>4. KeysOf(i, u)[s] = k => s = c
    BY <1>1, <1>2, <1>3
  <1>5. k # <<"pair", <<u, i>>>>
    BY <1>1
  <1> QED
    BY <1>4, <1>5 DEF Bounding, CounterKeys

LEMMA LimitsAre == Limits[1] = IpLimit /\ Limits[2] = UserLimit /\ Limits[3] = UserGlobalLimit
                   /\ \A s \in 1..3 : Limits[s] \in Nat /\ Limits[s] > 0
  <1>1. Limits[1] = IpLimit /\ Limits[2] = UserLimit /\ Limits[3] = UserGlobalLimit
    BY DEF Limits
  <1>2. \A s \in 1..3 : s = 1 \/ s = 2 \/ s = 3
    OBVIOUS
  <1> QED
    BY <1>1, <1>2, LimiterConstants

LEMMA AttemptsFinite ==
    ASSUME NEW S \in SUBSET Attempts
    PROVE  IsFiniteSet(S) /\ Cardinality(S) \in Nat /\ Cardinality(S) <= Cardinality(Attempts)
           /\ Cardinality(Attempts) \in Nat
  BY LimiterConstants, FS_Subset, FS_CardinalityType

LEMMA SlackIs == (inRedis => Slack = Cardinality(Attempts) - 1) /\ (~inRedis => Slack = 0)
  BY DEF Slack

-----------------------------------------------------------------------------
(* Parts of the invariant, and what a step that changes only some of the      *)
(* logins does to them.                                                       *)

BoundsHold == \A c \in {1, 3}, k \in CounterKeys : Bounding(c, k) => Shown(c, k) /\ Bounded(c, k)

LEMMA InMemoryNobodyUnderWay ==
    ASSUME LimiterTypes, ~inRedis
    PROVE  /\ \A a \in Attempts : login[a] = NoLogin
           /\ UnderWay = {} /\ \A c, k : Added(c, k) = {} /\ Coming(c, k) = {}
  <1>1. \A a \in Attempts : login[a] = NoLogin
    BY DEF LimiterTypes
  <1>2. \A a \in Attempts : login[a].pc = "idle"
    BY <1>1 DEF NoLogin
  <1> QED
    BY <1>1, <1>2 DEF UnderWay, Added, Coming, HasAdded, WillAdd, Asks

LEMMA IdleAddNothing ==
    ASSUME UnderWay = {}
    PROVE  \A c, k : Added(c, k) = {} /\ Coming(c, k) = {}
  BY DEF UnderWay, Added, Coming, HasAdded, WillAdd, Asks

LEMMA OneLogin ==
    ASSUME NEW a \in Attempts, NEW l, DOMAIN login = Attempts, login' = [login EXCEPT ![a] = l], NEW c, NEW k
    PROVE  /\ Added(c, k)' = IF HasAdded(l, c, k) THEN Added(c, k) \cup {a} ELSE Added(c, k) \ {a}
           /\ Coming(c, k)' = IF WillAdd(l, c, k) THEN Coming(c, k) \cup {a} ELSE Coming(c, k) \ {a}
           /\ (a \in Added(c, k) <=> HasAdded(login[a], c, k)) /\ (a \in Coming(c, k) <=> WillAdd(login[a], c, k))
  <1>1. login'[a] = l /\ \A b \in Attempts : b # a => login'[b] = login[b]
    OBVIOUS
  <1>3. Added(c, k)' = {b \in Attempts : HasAdded(login'[b], c, k)} /\ Coming(c, k)' = {b \in Attempts : WillAdd(login'[b], c, k)}
    BY DEF Added, Coming, HasAdded, WillAdd, Asks, KeysOf
  <1>4. \A b \in Attempts : b # a => (HasAdded(login'[b], c, k) <=> HasAdded(login[b], c, k))
                                     /\ (WillAdd(login'[b], c, k) <=> WillAdd(login[b], c, k))
    BY <1>1
  <1>5. (HasAdded(login'[a], c, k) <=> HasAdded(l, c, k)) /\ (WillAdd(login'[a], c, k) <=> WillAdd(l, c, k))
    BY <1>1
  <1> QED
    BY <1>3, <1>4, <1>5 DEF Added, Coming

LEMMA UnderWayOne ==
    ASSUME LimiterTypes, NEW a \in Attempts, NEW l, login' = [login EXCEPT ![a] = l]
    PROVE  /\ l.pc # "idle" /\ login[a].pc # "idle" => UnderWay' = UnderWay
           /\ l.pc # "idle" => Cardinality(UnderWay') <= Cardinality(UnderWay) + 1
           /\ l.pc = "idle" /\ login[a].pc # "idle" => Cardinality(UnderWay') = Cardinality(UnderWay) - 1
           /\ Cardinality(UnderWay) \in Nat /\ Cardinality(UnderWay') \in Nat
  <1>1. login'[a] = l /\ \A b \in Attempts : b # a => login'[b] = login[b]
    BY DEF LimiterTypes
  <1>2. UnderWay \in SUBSET Attempts /\ UnderWay' \in SUBSET Attempts
    BY DEF UnderWay
  <1>3. IsFiniteSet(UnderWay) /\ IsFiniteSet(UnderWay') /\ Cardinality(UnderWay) \in Nat /\ Cardinality(UnderWay') \in Nat
    BY <1>2, AttemptsFinite
  <1>4. l.pc # "idle" => UnderWay' = UnderWay \cup {a}
    BY <1>1 DEF UnderWay
  <1>5. l.pc = "idle" => UnderWay' = UnderWay \ {a}
    BY <1>1 DEF UnderWay
  <1>6. a \in UnderWay <=> login[a].pc # "idle"
    BY DEF UnderWay
  <1>7. /\ Cardinality(UnderWay \cup {a}) <= Cardinality(UnderWay) + 1
        /\ Cardinality(UnderWay \ {a}) = IF a \in UnderWay THEN Cardinality(UnderWay) - 1 ELSE Cardinality(UnderWay)
    <2>1. Cardinality(UnderWay \cup {a}) = IF a \in UnderWay THEN Cardinality(UnderWay) ELSE Cardinality(UnderWay) + 1
      BY <1>3, FS_AddElement
    <2>2. Cardinality(UnderWay \ {a}) = IF a \in UnderWay THEN Cardinality(UnderWay) - 1 ELSE Cardinality(UnderWay)
      BY <1>3, FS_RemoveElement
    <2> QED
      BY <1>3, <2>1, <2>2
  <1> QED
    BY <1>3, <1>4, <1>5, <1>6, <1>7

\* A login that is appended to the history, with the others as they were.
LEMMA CountedAppend ==
    ASSUME LimiterTypes, NEW rec, rec \in TriedLogin, rec.age = 0, tried' = Append(tried, rec),
           NEW c, NEW k, NEW m, m = Len(tried) + 1
    PROVE  /\ m \notin Counted(c, k)
           /\ rec.over = {} /\ c \notin rec.failed /\ KeysOf(rec.src, rec.user)[c] = k
                 => Counted(c, k)' = Counted(c, k) \cup {m}
           /\ ~ (rec.over = {} /\ c \notin rec.failed /\ KeysOf(rec.src, rec.user)[c] = k)
                 => Counted(c, k)' = Counted(c, k)
           /\ \A n \in Counted(c, k) : Ages'[n] = Ages[n]
           /\ Ages'[m] = 0
  <1> DEFINE counts == rec.over = {} /\ c \notin rec.failed /\ KeysOf(rec.src, rec.user)[c] = k
  <1>1. /\ tried \in Seq(TriedLogin) /\ DOMAIN tried = 1..Len(tried) /\ Len(tried) \in Nat
        /\ DOMAIN tried' = 1..m /\ tried'[m] = rec /\ \A n \in DOMAIN tried : tried'[n] = tried[n]
    BY DEF LimiterTypes
  <1>2. m \notin DOMAIN tried /\ DOMAIN tried' = DOMAIN tried \cup {m}
    BY <1>1
  <1>3. m \notin Counted(c, k) /\ Counted(c, k) \subseteq DOMAIN tried
    BY <1>2 DEF Counted, Admitted
  <1>4. 0 < LoginWindow
    BY LimiterConstants
  <1>5. Counted(c, k)' = {n \in DOMAIN tried' : /\ tried'[n].over = {} /\ tried'[n].age < LoginWindow
                                               /\ c \notin tried'[n].failed
                                               /\ KeysOf(tried'[n].src, tried'[n].user)[c] = k}
    BY DEF Counted, Admitted, Within, KeysOf
  <1>6. Counted(c, k) = {n \in DOMAIN tried : /\ tried[n].over = {} /\ tried[n].age < LoginWindow
                                              /\ c \notin tried[n].failed
                                              /\ KeysOf(tried[n].src, tried[n].user)[c] = k}
    BY DEF Counted, Admitted, Within
  <1>7. \A n \in DOMAIN tried : n \in Counted(c, k)' <=> n \in Counted(c, k)
    BY <1>1, <1>2, <1>5, <1>6
  <1>8. m \in Counted(c, k)' <=> counts
    BY <1>1, <1>2, <1>4, <1>5
  <1>9. Counted(c, k)' \subseteq DOMAIN tried \cup {m}
    BY <1>2, <1>5
  <1>10. Counted(c, k)' = IF counts THEN Counted(c, k) \cup {m} ELSE Counted(c, k)
    <2>1. CASE counts
      <3>1. \A n : n \in Counted(c, k)' <=> n \in Counted(c, k) \cup {m}
        BY <1>3, <1>7, <1>8, <1>9, <2>1
      <3> QED
        BY <2>1, <3>1
    <2>2. CASE ~counts
      <3>1. \A n : n \in Counted(c, k)' <=> n \in Counted(c, k)
        BY <1>3, <1>7, <1>8, <1>9, <2>2
      <3> QED
        BY <2>2, <3>1
    <2> QED
      BY <2>1, <2>2
  <1>11. \A n \in Counted(c, k) : Ages'[n] = Ages[n]
    BY <1>1, <1>2, <1>3 DEF Ages
  <1>12. Ages'[m] = 0
    BY <1>1, <1>2 DEF Ages
  <1> QED
    BY <1>3, <1>10, <1>11, <1>12

\* Counted logins are younger than the window.
LEMMA CountedYoung ==
    ASSUME LimiterTypes, NEW c, NEW k
    PROVE  \A n \in Counted(c, k) : Ages[n] \in Nat /\ Ages[n] < LoginWindow
  <1>1. \A n \in DOMAIN tried : tried[n] \in TriedLogin
    BY DEF LimiterTypes
  <1> QED
    BY <1>1, LimiterConstants DEF Counted, Admitted, Within, Ages, TriedLogin

LEMMA CountedUnchanged ==
    ASSUME UNCHANGED tried, NEW c, NEW k
    PROVE  Counted(c, k)' = Counted(c, k) /\ Ages' = Ages
  BY DEF Counted, Admitted, Within, KeysOf, Ages

LEMMA LimiterInvInit == LimiterInit => LimiterInv
  <1> SUFFICES ASSUME LimiterInit PROVE LimiterInv
    OBVIOUS
  <1>1. /\ inRedis \in BOOLEAN /\ events = [k \in CounterKeys |-> <<>>]
        /\ login = [a \in Attempts |-> NoLogin] /\ tried = <<>> /\ limiterErrors = 0
    BY DEF LimiterInit
  <1>2. UnderWay = {}
    BY <1>1 DEF UnderWay, NoLogin
  <1>3. Cardinality(UnderWay) = 0 /\ Len(tried) = 0 /\ DOMAIN tried = {}
    BY <1>1, <1>2, FS_EmptySet
  <1>4. LimiterTypes
    <2>1. events \in [CounterKeys -> Seq(0..LoginWindow + 1)]
      BY <1>1
    <2>2. DOMAIN login = Attempts /\ \A a \in Attempts : login[a] = NoLogin
      BY <1>1
    <2>3. tried \in Seq(TriedLogin)
      BY <1>1
    <2>4. limiterErrors \in 0..MaxLimiterErrors /\ Len(tried) + Cardinality(UnderWay) <= MaxAttempts
      BY <1>1, <1>3, LimiterConstants
    <2> QED
      BY <1>1, <2>1, <2>2, <2>3, <2>4 DEF LimiterTypes
  <1>5. ASSUME NEW c \in {1, 3}, NEW k \in CounterKeys PROVE Shown(c, k) /\ Bounded(c, k)
    <2>1. Added(c, k) = {} /\ Coming(c, k) = {} /\ Counted(c, k) = {}
      BY <1>2, <1>3, IdleAddNothing DEF Counted, Admitted
    <2>2. events[k] = <<>>
      BY <1>1
    <2>3. Shown(c, k)
      <3>1. PICK f : f = [n \in {} |-> 1]
        OBVIOUS
      <3>2. Shows(f, f, {}, {}, events[k], Ages)
        BY <3>1 DEF Shows, OneToOne
      <3> QED
        BY <2>1, <3>2 DEF Shown, ShownIn
    <2>4. Cardinality(Counted(c, k)) = 0 /\ Cardinality(Added(c, k) \cup Coming(c, k)) = 0
      BY <2>1, FS_EmptySet
    <2>5. Limits[c] \in Nat /\ Limits[c] > 0
      BY LimitsAre
    <2>6. Slack \in Int /\ Slack >= -1
      BY <1>1, SlackIs, LimiterConstants, FS_CardinalityType
    <2>7. Bounded(c, k)
      BY <2>4, <2>5, <2>6 DEF Bounded
    <2> QED
      BY <2>3, <2>7
  <1>6. PairsHold
    <2>1. \A i \in Sources, u \in LoginNames : events[<<"pair", <<u, i>>>>] = <<>> /\ events[<<"user", u>>] = <<>>
      BY <1>1, KeysAre
    <2>2. EndsWith(<<>>, <<>>)
      BY DEF EndsWith
    <2>3. Len(<<>>) = 0 /\ 0 <= UserLimit
      BY LimiterConstants
    <2> QED
      BY <2>1, <2>2, <2>3 DEF PairsHold
  <1>7. MemoryKeepsOthers
    BY <1>3 DEF MemoryKeepsOthers
  <1> QED
    BY <1>4, <1>5, <1>6, <1>7 DEF LimiterInv

-----------------------------------------------------------------------------
(* In memory. *)

\* What allowInMemory does to the three counters and to the history.
LEMMA AllowDoes ==
    ASSUME LimiterTypes, NEW i \in Sources, NEW u \in LoginNames, NEW right \in BOOLEAN, AllowInMemory(i, u, right)
    PROVE  \E over \in SUBSET (1..3) :
             /\ ~inRedis /\ Len(tried) < MaxAttempts
             /\ \A s \in 1..3 : s \in over <=> Len(PruneAttempts(events[KeysOf(i, u)[s]])) >= Limits[s]
             /\ events' \in [CounterKeys -> Seq(0..LoginWindow + 1)]
             /\ \A k \in CounterKeys : (\A s \in 1..3 : k # KeysOf(i, u)[s]) => events'[k] = events[k]
             /\ \A s \in 1..3 : LET k == KeysOf(i, u)[s]
                                IN events'[k] = IF over # {} THEN PruneAttempts(events[k])
                                                ELSE IF right /\ s = 2 THEN <<>> ELSE Append(PruneAttempts(events[k]), 0)
             /\ Remember(i, u, over, right, {})
             /\ UNCHANGED <<inRedis, login, limiterErrors>>
  <1>1. PICK ks, asked : ks = KeysOf(i, u) /\ asked = {ks[n] : n \in 1..3}
    OBVIOUS
  <1>2. PICK now : now = [k \in CounterKeys |-> IF k \in asked THEN PruneAttempts(events[k]) ELSE events[k]]
    OBVIOUS
  <1>3. PICK over : over = {n \in 1..3 : Len(now[ks[n]]) >= Limits[n]}
    OBVIOUS
  <1>4. PICK counted : counted = [k \in CounterKeys |-> IF k \in asked THEN Append(now[k], 0) ELSE now[k]]
    OBVIOUS
  <1>5. /\ ~inRedis /\ Len(tried) + Cardinality(UnderWay) < MaxAttempts
        /\ events' = IF over # {} THEN now ELSE IF right THEN ResetSuccess(i, u, counted) ELSE counted
        /\ Remember(i, u, over, right, {})
        /\ UNCHANGED <<inRedis, login, limiterErrors>>
    BY <1>1, <1>2, <1>3, <1>4 DEF AllowInMemory
  <1>6. Len(tried) < MaxAttempts
    <2>1. Cardinality(UnderWay) = 0
      BY <1>5, InMemoryNobodyUnderWay, FS_EmptySet
    <2>2. Len(tried) \in Nat
      BY DEF LimiterTypes
    <2> QED
      BY <1>5, <2>1, <2>2, LimiterConstants
  <1>7. \A s \in 1..3 : ks[s] \in asked /\ ks[s] \in CounterKeys
    BY <1>1, KeysAre
  <1>8. \A k \in CounterKeys : (k \in asked <=> \E s \in 1..3 : k = ks[s])
    BY <1>1
  <1>9. events \in [CounterKeys -> Seq(0..LoginWindow + 1)]
    BY DEF LimiterTypes
  <1>10. \A k \in CounterKeys : PruneAttempts(events[k]) \in Seq(0..LoginWindow + 1)
    BY <1>9, PruneDrops
  <1>11. now \in [CounterKeys -> Seq(0..LoginWindow + 1)]
    BY <1>2, <1>9, <1>10
  <1>12. counted \in [CounterKeys -> Seq(0..LoginWindow + 1)]
    BY <1>4, <1>11, AppendPositions
  <1>13. PICK reset : reset = ResetSuccess(i, u, counted)
    OBVIOUS
  <1>14. ks[2] = <<"pair", <<u, i>>>> /\ ks[2] \in CounterKeys /\ ks[1] # ks[2] /\ ks[3] # ks[2]
    BY <1>1, <1>7 DEF KeysOf
  <1>15. /\ reset \in [CounterKeys -> Seq(0..LoginWindow + 1)] /\ reset[ks[2]] = <<>>
         /\ \A k \in CounterKeys : k # ks[2] => reset[k] = counted[k]
    <2>1. reset = [counted EXCEPT ![ks[2]] = <<>>]
      BY <1>13, <1>14 DEF ResetSuccess
    <2>2. <<>> \in Seq(0..LoginWindow + 1)
      OBVIOUS
    <2> QED
      BY <1>12, <1>14, <2>1, <2>2
  <1>16. events' \in [CounterKeys -> Seq(0..LoginWindow + 1)]
    BY <1>5, <1>11, <1>12, <1>13, <1>15
  <1>17. \A s \in 1..3 : s \in over <=> Len(PruneAttempts(events[ks[s]])) >= Limits[s]
    BY <1>2, <1>3, <1>7
  <1>18. \A k \in CounterKeys : k \notin asked => events'[k] = events[k]
    <2>1. \A k \in CounterKeys : k \notin asked => now[k] = events[k] /\ counted[k] = now[k]
      BY <1>2, <1>4
    <2>2. \A k \in CounterKeys : k \notin asked => reset[k] = counted[k]
      BY <1>7, <1>15
    <2> QED
      BY <1>5, <1>13, <2>1, <2>2
  <1>19. ASSUME NEW s \in 1..3
         PROVE  events'[ks[s]] = IF over # {} THEN PruneAttempts(events[ks[s]])
                                 ELSE IF right /\ s = 2 THEN <<>> ELSE Append(PruneAttempts(events[ks[s]]), 0)
    <2>1. now[ks[s]] = PruneAttempts(events[ks[s]]) /\ counted[ks[s]] = Append(now[ks[s]], 0)
      BY <1>2, <1>4, <1>7
    <2>2. s # 2 => ks[s] # ks[2]
      BY <1>14
    <2> QED
      BY <1>5, <1>7, <1>13, <1>15, <2>1, <2>2
  <1>20. over \in SUBSET (1..3)
    BY <1>3
  <1> QED
    BY <1>1, <1>5, <1>6, <1>8, <1>16, <1>17, <1>18, <1>19, <1>20

\* The history and what is left of MaxAttempts.
Remembers(i, u, over, right, failed) ==
    /\ i \in Sources /\ u \in LoginNames /\ over \in SUBSET (1..3) /\ right \in BOOLEAN /\ failed \in SUBSET (1..3)
    /\ Remember(i, u, over, right, failed)

LEMMA Remembered ==
    ASSUME LimiterTypes, NEW i, NEW u, NEW over, NEW right, NEW failed, Remembers(i, u, over, right, failed),
           NEW rec, rec = [src |-> i, user |-> u, age |-> 0, over |-> over, right |-> right, failed |-> failed]
    PROVE  /\ rec \in TriedLogin
           /\ rec.src = i /\ rec.user = u /\ rec.age = 0 /\ rec.over = over /\ rec.right = right /\ rec.failed = failed
           /\ tried' = Append(tried, rec) /\ tried' \in Seq(TriedLogin) /\ Len(tried') = Len(tried) + 1
           /\ Len(tried) \in Nat /\ DOMAIN tried = 1..Len(tried) /\ DOMAIN tried' = DOMAIN tried \cup {Len(tried) + 1}
           /\ tried'[Len(tried) + 1] = rec /\ \A n \in DOMAIN tried : tried'[n] = tried[n] /\ n # Len(tried) + 1
  <1>2. 0 \in 0..LoginWindow + 1
    BY LimiterConstants
  <1>3. rec \in TriedLogin
    BY <1>2 DEF TriedLogin, Remembers
  <1>4. tried' = Append(tried, rec)
    BY DEF Remember, Remembers
  <1>5. tried \in Seq(TriedLogin)
    BY DEF LimiterTypes
  <1>6. /\ tried' \in Seq(TriedLogin) /\ Len(tried') = Len(tried) + 1
        /\ Len(tried) \in Nat /\ DOMAIN tried = 1..Len(tried) /\ DOMAIN tried' = DOMAIN tried \cup {Len(tried) + 1}
        /\ tried'[Len(tried) + 1] = rec /\ \A n \in DOMAIN tried : tried'[n] = tried[n] /\ n # Len(tried) + 1
    BY <1>3, <1>4, <1>5
  <1> QED
    BY <1>3, <1>4, <1>6

LEMMA EndsWithPruned ==
    ASSUME NEW t \in Seq(0..LoginWindow + 1), NEW s \in Seq(0..LoginWindow + 1), EndsWith(t, s)
    PROVE  EndsWith(PruneAttempts(t), PruneAttempts(s))
  <1>1. Len(t) \in Nat /\ Len(s) \in Nat /\ Len(s) <= Len(t) /\ \A n \in 1..Len(s) : s[n] = t[Len(t) - Len(s) + n]
    BY DEF EndsWith
  <1>2. PICK d \in 0..Len(t) :
           /\ Len(PruneAttempts(t)) = Len(t) - d
           /\ \A n \in 1..(Len(t) - d) : PruneAttempts(t)[n] = t[n + d]
           /\ \A n \in 1..d : n \notin KeptAttempts(t)
    BY PruneDrops
  <1>3. PICK e \in 0..Len(s) :
           /\ Len(PruneAttempts(s)) = Len(s) - e
           /\ \A n \in 1..(Len(s) - e) : PruneAttempts(s)[n] = s[n + e]
           /\ e < Len(s) => e + 1 \in KeptAttempts(s)
    BY PruneDrops
  <1>4. Len(s) - e <= Len(t) - d
    <2>1. SUFFICES ASSUME Len(t) - d < Len(s) - e PROVE FALSE
      BY <1>1, <1>2, <1>3
    <2>2. PICK p : p = Len(t) - Len(s) + (e + 1)
      OBVIOUS
    <2>3. e < Len(s) /\ e + 1 \in 1..Len(s) /\ p \in 1..d /\ p \in 1..Len(t)
      BY <1>1, <1>2, <1>3, <2>1, <2>2
    <2>4. s[e + 1] = t[p]
      BY <1>1, <2>2, <2>3
    <2>5. e + 1 \in KeptAttempts(s) /\ p \notin KeptAttempts(t)
      BY <1>2, <1>3, <2>3
    <2> QED
      BY <2>3, <2>4, <2>5 DEF KeptAttempts
  <1>5. ASSUME NEW n \in 1..(Len(s) - e)
        PROVE  PruneAttempts(s)[n] = PruneAttempts(t)[(Len(t) - d) - (Len(s) - e) + n]
    <2>1. PICK m : m = (Len(t) - d) - (Len(s) - e) + n
      OBVIOUS
    <2>a. Len(t) \in Nat /\ Len(s) \in Nat /\ d \in 0..Len(t) /\ e \in 0..Len(s) /\ n \in 1..(Len(s) - e)
      BY <1>1
    <2>b. m \in 1..(Len(t) - d)
      BY <1>4, <2>1, <2>a
    <2>c. n + e \in 1..Len(s)
      BY <2>a
    <2>d. Len(t) - Len(s) + (n + e) = m + d
      BY <2>1, <2>a
    <2>2. m \in 1..(Len(t) - d) /\ n + e \in 1..Len(s) /\ Len(t) - Len(s) + (n + e) = m + d
      BY <2>b, <2>c, <2>d
    <2>3. PruneAttempts(s)[n] = s[n + e] /\ s[n + e] = t[m + d] /\ PruneAttempts(t)[m] = t[m + d]
      BY <1>1, <1>2, <1>3, <2>2
    <2> QED
      BY <2>1, <2>3
  <1> QED
    BY <1>2, <1>3, <1>4, <1>5 DEF EndsWith

LEMMA EndsWithAppended ==
    ASSUME NEW t \in Seq(0..LoginWindow + 1), NEW s \in Seq(0..LoginWindow + 1), EndsWith(t, s)
    PROVE  EndsWith(Append(t, 0), Append(s, 0))
  <1>1. Len(t) \in Nat /\ Len(s) \in Nat /\ Len(s) <= Len(t) /\ \A n \in 1..Len(s) : s[n] = t[Len(t) - Len(s) + n]
    BY DEF EndsWith
  <1>2. Len(Append(t, 0)) = Len(t) + 1 /\ Len(Append(s, 0)) = Len(s) + 1
    BY AppendPositions
  <1>3. ASSUME NEW n \in 1..(Len(s) + 1) PROVE Append(s, 0)[n] = Append(t, 0)[(Len(t) + 1) - (Len(s) + 1) + n]
    <2>1. CASE n = Len(s) + 1
      <3>1. (Len(t) + 1) - (Len(s) + 1) + n = Len(t) + 1
        BY <1>1, <2>1
      <3> QED
        BY <2>1, <3>1, AppendPositions
    <2>2. CASE n \in 1..Len(s)
      <3>1. PICK m : m = Len(t) - Len(s) + n
        OBVIOUS
      <3>2. m \in 1..Len(t) /\ (Len(t) + 1) - (Len(s) + 1) + n = m
        BY <1>1, <2>2, <3>1
      <3> QED
        BY <1>1, <2>2, <3>1, <3>2, AppendPositions
    <2>3. n = Len(s) + 1 \/ n \in 1..Len(s)
      BY <1>1
    <2> QED
      BY <2>1, <2>2, <2>3
  <1>4. PICK p, q : p = Append(t, 0) /\ q = Append(s, 0)
    OBVIOUS
  <1>5. Len(p) = Len(t) + 1 /\ Len(q) = Len(s) + 1 /\ Len(q) <= Len(p)
    BY <1>1, <1>2, <1>4
  <1>6. \A n \in 1..Len(q) : q[n] = p[Len(p) - Len(q) + n]
    BY <1>3, <1>4, <1>5
  <1> QED
    BY <1>4, <1>5, <1>6 DEF EndsWith

-----------------------------------------------------------------------------
LEMMA AllowTypes ==
    ASSUME LimiterTypes, NEW i \in Sources, NEW u \in LoginNames, NEW right \in BOOLEAN, AllowInMemory(i, u, right)
    PROVE  LimiterTypes'
  <1>1. PICK over \in SUBSET (1..3) :
             /\ ~inRedis /\ Len(tried) < MaxAttempts
             /\ events' \in [CounterKeys -> Seq(0..LoginWindow + 1)]
             /\ Remember(i, u, over, right, {})
             /\ UNCHANGED <<inRedis, login, limiterErrors>>
    BY AllowDoes
  <1>2. tried' \in Seq(TriedLogin) /\ Len(tried') = Len(tried) + 1 /\ Len(tried) \in Nat
    <2>1. PICK failed \in SUBSET (1..3) : failed = {}
      OBVIOUS
    <2>2. Remembers(i, u, over, right, failed)
      BY <1>1, <2>1 DEF Remembers
    <2> QED
      BY <2>2, Remembered
  <1>3. Cardinality(UnderWay') = 0
    BY <1>1, InMemoryNobodyUnderWay, FS_EmptySet DEF UnderWay
  <1>4. Len(tried') + Cardinality(UnderWay') <= MaxAttempts
    <2>1. PICK n, m : n = Len(tried') /\ m = Cardinality(UnderWay')
      OBVIOUS
    <2>2. n + m <= MaxAttempts
      BY <1>1, <1>2, <1>3, <2>1, LimiterConstants
    <2> QED
      BY <2>1, <2>2
  <1> QED
    BY <1>1, <1>2, <1>4 DEF LimiterTypes, NoLogin

LEMMA AllowBounds ==
    ASSUME LimiterInv, NEW i \in Sources, NEW u \in LoginNames, NEW right \in BOOLEAN, AllowInMemory(i, u, right),
           NEW c \in {1, 3}, NEW k \in CounterKeys, Bounding(c, k)
    PROVE  Shown(c, k)' /\ Bounded(c, k)'
  <1>0. LimiterTypes /\ Shown(c, k) /\ Bounded(c, k)
    BY DEF LimiterInv
  <1>1. PICK over \in SUBSET (1..3) :
             /\ ~inRedis
             /\ \A s \in 1..3 : s \in over <=> Len(PruneAttempts(events[KeysOf(i, u)[s]])) >= Limits[s]
             /\ \A l \in CounterKeys : (\A s \in 1..3 : l # KeysOf(i, u)[s]) => events'[l] = events[l]
             /\ \A s \in 1..3 : LET l == KeysOf(i, u)[s]
                                IN events'[l] = IF over # {} THEN PruneAttempts(events[l])
                                                ELSE IF right /\ s = 2 THEN <<>> ELSE Append(PruneAttempts(events[l]), 0)
             /\ Remember(i, u, over, right, {})
             /\ UNCHANGED <<inRedis, login, limiterErrors>>
    BY <1>0, AllowDoes
  <1>a. c \in 1..3
    OBVIOUS
  <1>b. KeysOf(i, u)[c] = k =>
          /\ c \in over <=> Len(PruneAttempts(events[k])) >= Limits[c]
          /\ events'[k] = IF over # {} THEN PruneAttempts(events[k]) ELSE Append(PruneAttempts(events[k]), 0)
    <2>1. c # 2
      OBVIOUS
    <2> QED
      BY <1>1, <1>a, <2>1
  <1>2. PICK rec \in TriedLogin :
             /\ rec.src = i /\ rec.user = u /\ rec.age = 0 /\ rec.over = over /\ rec.failed = {}
             /\ tried' = Append(tried, rec)
    <2>1. PICK failed \in SUBSET (1..3) : failed = {}
      OBVIOUS
    <2>2. Remembers(i, u, over, right, failed)
      BY <1>1, <2>1 DEF Remembers
    <2>3. PICK rec : rec = [src |-> i, user |-> u, age |-> 0, over |-> over, right |-> right, failed |-> failed]
      OBVIOUS
    <2>4. /\ rec \in TriedLogin
          /\ rec.src = i /\ rec.user = u /\ rec.age = 0 /\ rec.over = over /\ rec.failed = failed
          /\ tried' = Append(tried, rec)
      BY <1>0, <2>2, <2>3, Remembered
    <2> QED
      BY <2>1, <2>4
  <1>3. PICK m : m = Len(tried) + 1
    OBVIOUS
  <1>4. /\ m \notin Counted(c, k)
        /\ Counted(c, k)' = IF over = {} /\ KeysOf(i, u)[c] = k THEN Counted(c, k) \cup {m} ELSE Counted(c, k)
        /\ \A n \in Counted(c, k) : Ages'[n] = Ages[n]
        /\ Ages'[m] = 0
    <2>1. c \notin rec.failed
      BY <1>2
    <2>2. LimiterTypes /\ rec \in TriedLogin /\ rec.age = 0 /\ tried' = Append(tried, rec) /\ m = Len(tried) + 1
      BY <1>0, <1>2, <1>3
    <2>3. PICK counts \in BOOLEAN : counts <=> (rec.over = {} /\ c \notin rec.failed /\ KeysOf(rec.src, rec.user)[c] = k)
      OBVIOUS
    <2>4. m \notin Counted(c, k) /\ Ages'[m] = 0 /\ \A n \in Counted(c, k) : Ages'[n] = Ages[n]
      BY <2>2, CountedAppend
    <2>5. (counts => Counted(c, k)' = Counted(c, k) \cup {m}) /\ (~counts => Counted(c, k)' = Counted(c, k))
      BY <2>2, <2>3, CountedAppend
    <2> QED
      BY <1>2, <2>1, <2>3, <2>4, <2>5
  <1>5. Added(c, k) = {} /\ Coming(c, k) = {} /\ Slack = 0 /\ Slack' = 0
    BY <1>0, <1>1, InMemoryNobodyUnderWay DEF Slack
  <1>6. Added(c, k)' = {} /\ Coming(c, k)' = {}
    BY <1>1, <1>5 DEF Added, Coming, HasAdded, WillAdd, Asks, KeysOf
  <1>7. ShownIn(Counted(c, k), {}, events[k], Ages)
    BY <1>0, <1>5 DEF Shown
  <1>8. events[k] \in Seq(0..LoginWindow + 1) /\ PruneAttempts(events[k]) \in Seq(0..LoginWindow + 1)
    BY <1>0, PruneDrops DEF LimiterTypes
  <1>9. ShownIn(Counted(c, k), {}, PruneAttempts(events[k]), Ages)
    BY <1>0, <1>7, <1>8, CountedYoung, ShownPrune
  <1>10. IsFiniteSet(Counted(c, k)) /\ Cardinality(Counted(c, k)) \in Nat
         /\ Cardinality(Counted(c, k)) <= Len(PruneAttempts(events[k]))
    BY <1>8, <1>9, ShownCounts
  <1>11. Cardinality(Counted(c, k)) <= Limits[c]
    <2>1. Cardinality(Added(c, k) \cup Coming(c, k)) = 0
      BY <1>5, FS_EmptySet
    <2> QED
      BY <1>0, <1>5, <1>10, <2>1, LimitsAre DEF Bounded
  <1>12. \A s \in 1..3 : KeysOf(i, u)[s] = k => s = c
    BY OneStepAsks
  <1>13. CASE KeysOf(i, u)[c] # k
    <2>1. events'[k] = events[k]
      BY <1>1, <1>12, <1>13
    <2>2. Counted(c, k)' = Counted(c, k)
      BY <1>4, <1>13
    <2>3. ShownIn(Counted(c, k), {}, events[k], Ages')
      BY <1>4, <1>7, ShownLess
    <2>4. Shown(c, k)'
      BY <1>6, <2>1, <2>2, <2>3 DEF Shown
    <2>5. Bounded(c, k)'
      BY <1>0, <1>5, <1>6, <2>2 DEF Bounded, Limits
    <2> QED
      BY <2>4, <2>5
  <1>14. CASE KeysOf(i, u)[c] = k /\ over # {}
    <2>1. events'[k] = PruneAttempts(events[k]) /\ Counted(c, k)' = Counted(c, k)
      BY <1>b, <1>4, <1>14
    <2>2. ShownIn(Counted(c, k), {}, PruneAttempts(events[k]), Ages')
      BY <1>4, <1>9, ShownLess
    <2>3. Shown(c, k)'
      BY <1>6, <2>1, <2>2 DEF Shown
    <2>4. Bounded(c, k)'
      BY <1>0, <1>5, <1>6, <2>1 DEF Bounded, Limits
    <2> QED
      BY <2>3, <2>4
  <1>15. CASE KeysOf(i, u)[c] = k /\ over = {}
    <2>1. /\ events'[k] = Append(PruneAttempts(events[k]), 0) /\ Counted(c, k)' = Counted(c, k) \cup {m}
          /\ Len(PruneAttempts(events[k])) < Limits[c]
      BY <1>a, <1>b, <1>4, <1>8, <1>15, LimitsAre
    <2>2. ShownIn(Counted(c, k) \cup {m}, {}, Append(PruneAttempts(events[k]), 0), Ages')
      BY <1>4, <1>8, <1>9, ShownAppend
    <2>3. Shown(c, k)'
      BY <1>6, <2>1, <2>2 DEF Shown
    <2>4. Cardinality(Counted(c, k)') = Cardinality(Counted(c, k)) + 1
      BY <1>4, <1>10, <2>1, FS_AddElement
    <2>5. Cardinality(Added(c, k)' \cup Coming(c, k)') = 0
      BY <1>6, FS_EmptySet
    <2>6. PICK n, z, y : n = Cardinality(Counted(c, k)') /\ z = Cardinality(Added(c, k)' \cup Coming(c, k)') /\ y = Slack'
      OBVIOUS
    <2>7. n + z <= Limits[c] + y
      BY <1>5, <1>8, <1>10, <2>1, <2>4, <2>5, <2>6, LimitsAre
    <2>8. Bounded(c, k)'
      BY <2>6, <2>7 DEF Bounded, Limits
    <2> QED
      BY <2>3, <2>8
  <1> QED
    BY <1>13, <1>14, <1>15

PairKey(i, u) == <<"pair", <<u, i>>>>
UserKey(u) == <<"user", u>>

\* PairsHold of one address and user.
PairHolds(i, u) ==
    /\ Len(events[PairKey(i, u)]) <= UserLimit
    /\ events[PairKey(i, u)] # <<>> => \E n \in DOMAIN tried : tried[n].user = u /\ tried[n].src = i
    /\ OnlyWrongFrom(i, u) => EndsWith(events[PairKey(i, u)], events[UserKey(u)])

LEMMA PairsAre == PairsHold <=> (~inRedis => \A i \in Sources, u \in LoginNames : PairHolds(i, u))
  BY DEF PairsHold, PairHolds, PairKey, UserKey

LEMMA PairAndUserKeys ==
    ASSUME NEW i \in Sources, NEW u \in LoginNames
    PROVE  /\ PairKey(i, u) = KeysOf(i, u)[2] /\ UserKey(u) = KeysOf(i, u)[3]
           /\ PairKey(i, u) \in CounterKeys /\ UserKey(u) \in CounterKeys
           /\ \A j, v, s : (v # u \/ j # i) /\ s \in 1..3 => PairKey(i, u) # KeysOf(j, v)[s]
           /\ \A j, v, s : v # u /\ s \in 1..3 => UserKey(u) # KeysOf(j, v)[s]
  <1>1. /\ PairKey(i, u) = KeysOf(i, u)[2] /\ UserKey(u) = KeysOf(i, u)[3]
        /\ PairKey(i, u) \in CounterKeys /\ UserKey(u) \in CounterKeys
    BY KeysAre DEF PairKey, UserKey
  <1>2. ASSUME NEW j, NEW v, NEW s \in 1..3
        PROVE  /\ v # u \/ j # i => PairKey(i, u) # KeysOf(j, v)[s]
               /\ v # u => UserKey(u) # KeysOf(j, v)[s]
    <2>1. KeysOf(j, v)[1] = <<"ip", j>> /\ KeysOf(j, v)[2] = <<"pair", <<v, j>>>> /\ KeysOf(j, v)[3] = <<"user", v>>
      BY DEF KeysOf
    <2>2. s = 1 \/ s = 2 \/ s = 3
      OBVIOUS
    <2> QED
      BY <2>1, <2>2 DEF PairKey, UserKey
  <1> QED
    BY <1>1, <1>2

\* What allowInMemory does to the counters of u from i, of u, and to the others.
AllowedPairs(i, u, right, over, rec) ==
    /\ over \in SUBSET (1..3) /\ ~inRedis /\ ~inRedis'
    /\ 2 \in over <=> Len(PruneAttempts(events[PairKey(i, u)])) >= UserLimit
    /\ 3 \in over <=> Len(PruneAttempts(events[UserKey(u)])) >= UserGlobalLimit
    /\ over # {} => /\ events'[PairKey(i, u)] = PruneAttempts(events[PairKey(i, u)])
                    /\ events'[UserKey(u)] = PruneAttempts(events[UserKey(u)])
    /\ over = {} /\ right => events'[PairKey(i, u)] = <<>>
    /\ over = {} /\ ~right => /\ events'[PairKey(i, u)] = Append(PruneAttempts(events[PairKey(i, u)]), 0)
                              /\ events'[UserKey(u)] = Append(PruneAttempts(events[UserKey(u)]), 0)
    /\ \A j \in Sources, v \in LoginNames :
          /\ v # u \/ j # i => events'[PairKey(j, v)] = events[PairKey(j, v)]
          /\ v # u => events'[UserKey(v)] = events[UserKey(v)]
    /\ rec \in TriedLogin /\ rec.src = i /\ rec.user = u /\ rec.over = over /\ (rec.right <=> right)
    /\ Len(tried) \in Nat /\ DOMAIN tried = 1..Len(tried) /\ DOMAIN tried' = DOMAIN tried \cup {Len(tried) + 1}
    /\ tried'[Len(tried) + 1] = rec /\ \A n \in DOMAIN tried : tried'[n] = tried[n] /\ n # Len(tried) + 1

LEMMA AllowDoesToPairs ==
    ASSUME LimiterTypes, NEW i \in Sources, NEW u \in LoginNames, NEW right \in BOOLEAN, AllowInMemory(i, u, right)
    PROVE  \E over, rec : AllowedPairs(i, u, right, over, rec)
  <1>1. PICK over \in SUBSET (1..3) :
             /\ ~inRedis
             /\ \A s \in 1..3 : s \in over <=> Len(PruneAttempts(events[KeysOf(i, u)[s]])) >= Limits[s]
             /\ \A k \in CounterKeys : (\A s \in 1..3 : k # KeysOf(i, u)[s]) => events'[k] = events[k]
             /\ \A s \in 1..3 : LET k == KeysOf(i, u)[s]
                                IN events'[k] = IF over # {} THEN PruneAttempts(events[k])
                                                ELSE IF right /\ s = 2 THEN <<>> ELSE Append(PruneAttempts(events[k]), 0)
             /\ Remember(i, u, over, right, {})
             /\ UNCHANGED <<inRedis, login, limiterErrors>>
    BY AllowDoes
  <1>2. PICK failed \in SUBSET (1..3) : failed = {}
    OBVIOUS
  <1>3. PICK rec : rec = [src |-> i, user |-> u, age |-> 0, over |-> over, right |-> right, failed |-> failed]
    OBVIOUS
  <1>4. Remembers(i, u, over, right, failed)
    BY <1>1, <1>2 DEF Remembers
  <1>5. /\ rec \in TriedLogin /\ rec.src = i /\ rec.user = u /\ rec.over = over
        /\ Len(tried) \in Nat /\ DOMAIN tried = 1..Len(tried) /\ DOMAIN tried' = DOMAIN tried \cup {Len(tried) + 1}
        /\ tried'[Len(tried) + 1] = rec /\ \A n \in DOMAIN tried : tried'[n] = tried[n] /\ n # Len(tried) + 1
    <2>1. rec \in TriedLogin
      BY <1>3, <1>4, Remembered
    <2>2. rec.src = i /\ rec.user = u /\ rec.over = over
      BY <1>3, <1>4, Remembered
    <2>3. Len(tried) \in Nat /\ DOMAIN tried = 1..Len(tried) 
      BY <1>3, <1>4, Remembered
    <2>4. DOMAIN tried' = DOMAIN tried \cup {Len(tried) + 1}
      BY <1>3, <1>4, Remembered
    <2>5. tried'[Len(tried) + 1] = rec 
      BY <1>3, <1>4, Remembered
    <2>6. \A n \in DOMAIN tried : tried'[n] = tried[n] /\ n # Len(tried) + 1
      BY <1>3, <1>4, Remembered
    <2> QED
      BY <2>1, <2>2, <2>3, <2>4, <2>5, <2>6
  <1>6. PairKey(i, u) = KeysOf(i, u)[2] /\ UserKey(u) = KeysOf(i, u)[3] /\ 2 \in 1..3 /\ 3 \in 1..3 /\ 3 # 2
    BY PairAndUserKeys
  <1>7. (2 \in over <=> Len(PruneAttempts(events[PairKey(i, u)])) >= UserLimit)
        /\ (3 \in over <=> Len(PruneAttempts(events[UserKey(u)])) >= UserGlobalLimit)
    BY <1>1, <1>6, LimitsAre
  <1>8. /\ over # {} => /\ events'[PairKey(i, u)] = PruneAttempts(events[PairKey(i, u)])
                        /\ events'[UserKey(u)] = PruneAttempts(events[UserKey(u)])
        /\ over = {} /\ right => events'[PairKey(i, u)] = <<>>
        /\ over = {} /\ ~right => /\ events'[PairKey(i, u)] = Append(PruneAttempts(events[PairKey(i, u)]), 0)
                                  /\ events'[UserKey(u)] = Append(PruneAttempts(events[UserKey(u)]), 0)
    BY <1>1, <1>6
  <1>9. ASSUME NEW j \in Sources, NEW v \in LoginNames
        PROVE  /\ v # u \/ j # i => events'[PairKey(j, v)] = events[PairKey(j, v)]
               /\ v # u => events'[UserKey(v)] = events[UserKey(v)]
    BY <1>1, PairAndUserKeys
  <1>10. ~inRedis /\ ~inRedis'
    BY <1>1
  <1>11. (rec.right <=> right)
    BY <1>3
  <1>12. AllowedPairs(i, u, right, over, rec)
    BY <1>1, <1>5, <1>7, <1>8, <1>9, <1>10, <1>11 DEF AllowedPairs
  <1> QED
    BY <1>12

LEMMA AllowPairs ==
    ASSUME LimiterInv, NEW i \in Sources, NEW u \in LoginNames, NEW right \in BOOLEAN, AllowInMemory(i, u, right)
    PROVE  PairsHold' /\ MemoryKeepsOthers'
  <1>0. LimiterTypes /\ PairsHold /\ MemoryKeepsOthers
    BY DEF LimiterInv
  <1>a. PICK over, rec : AllowedPairs(i, u, right, over, rec)
    BY <1>0, AllowDoesToPairs
  <1>1.      /\ over \in SUBSET (1..3) /\ ~inRedis /\ ~inRedis'
             /\ 2 \in over <=> Len(PruneAttempts(events[PairKey(i, u)])) >= UserLimit
             /\ 3 \in over <=> Len(PruneAttempts(events[UserKey(u)])) >= UserGlobalLimit
             /\ over # {} => /\ events'[PairKey(i, u)] = PruneAttempts(events[PairKey(i, u)])
                             /\ events'[UserKey(u)] = PruneAttempts(events[UserKey(u)])
             /\ over = {} /\ right => events'[PairKey(i, u)] = <<>>
             /\ over = {} /\ ~right => /\ events'[PairKey(i, u)] = Append(PruneAttempts(events[PairKey(i, u)]), 0)
                                       /\ events'[UserKey(u)] = Append(PruneAttempts(events[UserKey(u)]), 0)
             /\ \A j \in Sources, v \in LoginNames :
                   /\ v # u \/ j # i => events'[PairKey(j, v)] = events[PairKey(j, v)]
                   /\ v # u => events'[UserKey(v)] = events[UserKey(v)]
             /\ rec \in TriedLogin /\ rec.src = i /\ rec.user = u /\ rec.over = over /\ (rec.right <=> right)
             /\ Len(tried) \in Nat /\ DOMAIN tried = 1..Len(tried) /\ DOMAIN tried' = DOMAIN tried \cup {Len(tried) + 1}
             /\ tried'[Len(tried) + 1] = rec /\ \A n \in DOMAIN tried : tried'[n] = tried[n] /\ n # Len(tried) + 1
    BY <1>a DEF AllowedPairs
  <1>2. PICK m : m = Len(tried) + 1
    OBVIOUS
  <1>3. /\ DOMAIN tried' = DOMAIN tried \cup {m} /\ tried'[m] = rec
        /\ \A n \in DOMAIN tried : tried'[n] = tried[n] /\ n # m
    BY <1>1, <1>2
  <1>4. \A j \in Sources, v \in LoginNames : PairHolds(j, v)
    BY <1>0, <1>1, PairsAre
  <1>5. /\ \A j \in Sources, v \in LoginNames : /\ events[PairKey(j, v)] \in Seq(0..LoginWindow + 1)
                                                /\ events[UserKey(v)] \in Seq(0..LoginWindow + 1)
    BY <1>0, PairAndUserKeys DEF LimiterTypes
  <1>6. PICK pair, name : pair = PruneAttempts(events[PairKey(i, u)]) /\ name = PruneAttempts(events[UserKey(u)])
    OBVIOUS
  <1>7. /\ pair \in Seq(0..LoginWindow + 1) /\ name \in Seq(0..LoginWindow + 1)
        /\ Len(pair) <= Len(events[PairKey(i, u)]) /\ Len(name) <= Len(events[UserKey(u)])
        /\ Len(pair) \in Nat /\ Len(name) \in Nat
        /\ Len(events[PairKey(i, u)]) \in Nat /\ Len(events[UserKey(u)]) \in Nat
    <2>1. \A es \in Seq(0..LoginWindow + 1) :
             /\ PruneAttempts(es) \in Seq(0..LoginWindow + 1)
             /\ Len(PruneAttempts(es)) <= Len(es) /\ Len(PruneAttempts(es)) \in Nat /\ Len(es) \in Nat
      <3>1. TAKE es \in Seq(0..LoginWindow + 1)
      <3>2. PICK d \in 0..Len(es) : Len(PruneAttempts(es)) = Len(es) - d
        BY PruneDrops
      <3>3. PruneAttempts(es) \in Seq(0..LoginWindow + 1) /\ Len(es) \in Nat
        BY PruneDrops
      <3> QED
        BY <3>2, <3>3
    <2> QED
      BY <1>5, <1>6, <2>1
  <1>8. ASSUME NEW j \in Sources, NEW v \in LoginNames, OnlyWrongFrom(j, v)'
        PROVE  OnlyWrongFrom(j, v) /\ (v = u => j = i /\ ~right)
    <2>1. \A n \in DOMAIN tried' : tried'[n].user = v => tried'[n].src = j /\ ~tried'[n].right
      BY <1>8 DEF OnlyWrongFrom
    <2>2. OnlyWrongFrom(j, v)
      BY <1>3, <2>1 DEF OnlyWrongFrom
    <2>3. m \in DOMAIN tried'
      BY <1>3
    <2>4. v = u => j = i /\ ~right
      BY <1>1, <1>3, <2>1, <2>3
    <2> QED
      BY <2>2, <2>4
  <1>9. ASSUME NEW j \in Sources, NEW v \in LoginNames PROVE PairHolds(j, v)'
    <2>1. Len(events'[PairKey(j, v)]) <= UserLimit
      <3>1. CASE v # u \/ j # i
        BY <1>1, <1>4, <3>1 DEF PairHolds
      <3>2. CASE v = u /\ j = i /\ over # {}
        <4>1. events'[PairKey(j, v)] = pair /\ Len(events[PairKey(i, u)]) <= UserLimit
          BY <1>1, <1>4, <1>6, <3>2 DEF PairHolds
        <4> QED
          BY <1>7, <4>1, LimiterConstants
      <3>3. CASE v = u /\ j = i /\ over = {} /\ right
        <4>1. events'[PairKey(j, v)] = <<>> /\ Len(<<>>) = 0
          BY <1>1, <3>3
        <4> QED
          BY <4>1, LimiterConstants
      <3>4. CASE v = u /\ j = i /\ over = {} /\ ~right
        <4>1. events'[PairKey(j, v)] = Append(pair, 0) /\ ~ (Len(pair) >= UserLimit)
          BY <1>1, <1>6, <3>4
        <4>2. Len(Append(pair, 0)) = Len(pair) + 1
          BY <1>7, AppendPositions
        <4> QED
          BY <1>7, <4>1, <4>2, LimiterConstants
      <3> QED
        BY <3>1, <3>2, <3>3, <3>4
    <2>2. events'[PairKey(j, v)] # <<>> => \E n \in DOMAIN tried' : tried'[n].user = v /\ tried'[n].src = j
      <3>1. CASE v # u \/ j # i
        <4>1. events[PairKey(j, v)] # <<>> => \E n \in DOMAIN tried : tried[n].user = v /\ tried[n].src = j
          BY <1>4 DEF PairHolds
        <4>2. events'[PairKey(j, v)] = events[PairKey(j, v)]
          BY <1>1, <3>1
        <4> QED
          BY <1>3, <4>1, <4>2
      <3>2. CASE v = u /\ j = i
        <4>1. m \in DOMAIN tried' /\ tried'[m].user = v /\ tried'[m].src = j
          BY <1>1, <1>3, <3>2
        <4> QED
          BY <4>1
      <3> QED
        BY <3>1, <3>2
    <2>3. ASSUME OnlyWrongFrom(j, v)' PROVE EndsWith(events'[PairKey(j, v)], events'[UserKey(v)])
      <3>1. OnlyWrongFrom(j, v) /\ (v = u => j = i /\ ~right)
        BY <1>8, <2>3
      <3>2. EndsWith(events[PairKey(j, v)], events[UserKey(v)])
        BY <1>4, <3>1 DEF PairHolds
      <3>3. CASE v # u
        BY <1>1, <3>2, <3>3
      <3>4. CASE v = u
        <4>1. EndsWith(pair, name)
          BY <1>5, <1>6, <3>1, <3>2, <3>4, EndsWithPruned
        <4>2. EndsWith(Append(pair, 0), Append(name, 0))
          BY <1>7, <4>1, EndsWithAppended
        <4>3. CASE over # {}
          <5>1. events'[PairKey(j, v)] = pair /\ events'[UserKey(v)] = name
            BY <1>1, <1>6, <3>1, <3>4, <4>3
          <5> QED
            BY <4>1, <5>1
        <4>4. CASE over = {}
          <5>1. events'[PairKey(j, v)] = Append(pair, 0) /\ events'[UserKey(v)] = Append(name, 0)
            BY <1>1, <1>6, <3>1, <3>4, <4>4
          <5> QED
            BY <4>2, <5>1
        <4> QED
          BY <4>3, <4>4
      <3> QED
        BY <3>3, <3>4
    <2>4. PairKey(j, v)' = PairKey(j, v) /\ UserKey(v)' = UserKey(v)
      BY DEF PairKey, UserKey
    <2> QED
      BY <2>1, <2>2, <2>3, <2>4 DEF PairHolds
  <1>10. PairsHold'
    BY <1>1, <1>9 DEF PairsHold, PairHolds, PairKey, UserKey
  <1>11. \A n \in DOMAIN tried : ~LockedOut(n)'
    <2>1. SUFFICES ASSUME NEW n \in DOMAIN tried, LockedOut(n)' PROVE FALSE
      OBVIOUS
    <2>2. tried'[n] = tried[n] /\ \A l \in 1..(n - 1) : tried'[l] = tried[l]
      BY <1>1
    <2>3. ~LockedOut(n)
      BY <1>0, <1>1 DEF MemoryKeepsOthers
    <2>4. {l \in 1..(n - 1) : tried'[l].user = tried'[n].user} = {l \in 1..(n - 1) : tried[l].user = tried[n].user}
      BY <2>2
    <2> QED
      BY <2>1, <2>2, <2>3, <2>4 DEF LockedOut
  <1>12. ~LockedOut(m)'
    <2>1. SUFFICES ASSUME LockedOut(m)' PROVE FALSE
      OBVIOUS
    <2>2. PICK before : before = {l \in 1..(m - 1) : tried'[l].user = tried'[m].user}
      OBVIOUS
    <2>3. /\ over # {} /\ 1 \notin over /\ before # {}
          /\ \A l \in before : /\ ~tried'[l].right /\ tried'[l].src # i
                               /\ \A k \in before : tried'[l].src = tried'[k].src
      BY <1>1, <1>3, <2>1, <2>2 DEF LockedOut
    <2>4. 1..(m - 1) = DOMAIN tried
      BY <1>1, <1>2
    <2>5. before = {l \in DOMAIN tried : tried[l].user = u}
      BY <1>1, <1>3, <2>2, <2>4
    <2>6. /\ \A l \in DOMAIN tried : tried[l].user = u => ~tried[l].right /\ tried[l].src # i
          /\ \A l, k \in DOMAIN tried : tried[l].user = u /\ tried[k].user = u => tried[l].src = tried[k].src
          /\ \E l \in DOMAIN tried : tried[l].user = u
      BY <1>3, <2>3, <2>5
    <2>7. PICK j \in Sources : OnlyWrongFrom(j, u)
      <3>1. PICK l \in DOMAIN tried : tried[l].user = u
        BY <2>6
      <3>2. tried[l].src \in Sources
        <4>1. tried[l] \in TriedLogin
          BY <1>0, <3>1 DEF LimiterTypes
        <4> QED
          BY <4>1 DEF TriedLogin
      <3>3. OnlyWrongFrom(tried[l].src, u)
        BY <2>6, <3>1 DEF OnlyWrongFrom
      <3> QED
        BY <3>2, <3>3
    <2>8. Len(name) <= UserLimit
      <3>1. Len(events[PairKey(j, u)]) <= UserLimit /\ EndsWith(events[PairKey(j, u)], events[UserKey(u)])
        BY <1>4, <2>7 DEF PairHolds
      <3>2. Len(events[UserKey(u)]) <= Len(events[PairKey(j, u)]) /\ Len(events[PairKey(j, u)]) \in Nat
        BY <1>5, <3>1 DEF EndsWith
      <3> QED
        BY <1>7, <3>1, <3>2, LimiterConstants
    <2>9. Len(pair) <= 0
      <3>1. events[PairKey(i, u)] = <<>>
        BY <1>4, <2>6 DEF PairHolds
      <3> QED
        BY <1>7, <3>1
    <2>10. 2 \notin over /\ 3 \notin over
      BY <1>1, <1>6, <1>7, <2>8, <2>9, LimiterConstants
    <2>11. over = {}
      BY <1>1, <2>3, <2>10
    <2> QED
      BY <2>3, <2>11
  <1>13. MemoryKeepsOthers'
    BY <1>3, <1>11, <1>12 DEF MemoryKeepsOthers
  <1> QED
    BY <1>10, <1>13

LEMMA CleanupLimiterKeeps ==
    ASSUME LimiterInv, CleanupLimiter
    PROVE  LimiterInv'
  <1>0. LimiterTypes /\ PairsHold /\ MemoryKeepsOthers
    BY DEF LimiterInv
  <1>1. /\ ~inRedis /\ UNCHANGED <<inRedis, login, tried, limiterErrors>>
        /\ events' = [k \in CounterKeys |-> PruneAttempts(events[k])]
    BY DEF CleanupLimiter
  <1>2. \A k \in CounterKeys : /\ events[k] \in Seq(0..LoginWindow + 1)
                               /\ PruneAttempts(events[k]) \in Seq(0..LoginWindow + 1)
                               /\ events'[k] = PruneAttempts(events[k])
    BY <1>0, <1>1, PruneDrops DEF LimiterTypes
  <1>3. LimiterTypes'
    BY <1>0, <1>1, <1>2 DEF LimiterTypes, UnderWay, NoLogin
  <1>4. ASSUME NEW c \in {1, 3}, NEW k \in CounterKeys, Bounding(c, k)
        PROVE  Shown(c, k)' /\ Bounded(c, k)'
    <2>1. Shown(c, k) /\ Bounded(c, k)
      BY <1>4 DEF LimiterInv
    <2>2. Counted(c, k)' = Counted(c, k) /\ Ages' = Ages
      BY <1>1, CountedUnchanged
    <2>3. Added(c, k)' = Added(c, k) /\ Coming(c, k)' = Coming(c, k) /\ Slack' = Slack
      BY <1>1 DEF Added, Coming, HasAdded, WillAdd, Asks, KeysOf, Slack
    <2>4. ShownIn(Counted(c, k), Added(c, k), events[k], Ages)
      BY <2>1 DEF Shown
    <2>5. ShownIn(Counted(c, k), Added(c, k), PruneAttempts(events[k]), Ages)
      BY <1>0, <1>2, <2>4, CountedYoung, ShownPrune
    <2>6. Shown(c, k)'
      BY <1>2, <2>2, <2>3, <2>5 DEF Shown
    <2>7. Bounded(c, k)'
      BY <2>1, <2>2, <2>3 DEF Bounded, Limits
    <2> QED
      BY <2>6, <2>7
  <1>5. PairsHold'
    <2>1. ASSUME NEW i \in Sources, NEW u \in LoginNames PROVE PairHolds(i, u)'
      <3>1. PairHolds(i, u)
        BY <1>0, <1>1, PairsAre
      <3>2. PICK pair, name : pair = events[PairKey(i, u)] /\ name = events[UserKey(u)]
        OBVIOUS
      <3>3. /\ pair \in Seq(0..LoginWindow + 1) /\ name \in Seq(0..LoginWindow + 1)
            /\ events'[PairKey(i, u)] = PruneAttempts(pair) /\ events'[UserKey(u)] = PruneAttempts(name)
        BY <1>2, <3>2, PairAndUserKeys
      <3>4. Len(PruneAttempts(pair)) <= UserLimit /\ (PruneAttempts(pair) # <<>> => pair # <<>>)
        <4>1. PICK d \in 0..Len(pair) : Len(PruneAttempts(pair)) = Len(pair) - d
          BY <3>3, PruneDrops
        <4>2. PruneAttempts(pair) \in Seq(0..LoginWindow + 1) /\ Len(pair) \in Nat /\ Len(pair) <= UserLimit
          <5>1. PruneAttempts(pair) \in Seq(0..LoginWindow + 1)
            BY <3>3, PruneDrops
          <5>2. Len(pair) \in Nat /\ Len(pair) <= UserLimit
            BY <3>1, <3>2, <3>3 DEF PairHolds
          <5> QED
            BY <5>1, <5>2
        <4>3. Len(PruneAttempts(pair)) <= UserLimit
          BY <4>1, <4>2, LimiterConstants
        <4>4. pair = <<>> => Len(PruneAttempts(pair)) = 0
          BY <4>1, <4>2
        <4> QED
          BY <4>2, <4>3, <4>4
      <3>5. OnlyWrongFrom(i, u)' <=> OnlyWrongFrom(i, u)
        BY <1>1 DEF OnlyWrongFrom
      <3>6. OnlyWrongFrom(i, u) => EndsWith(PruneAttempts(pair), PruneAttempts(name))
        BY <3>1, <3>2, <3>3, EndsWithPruned DEF PairHolds
      <3>7. PruneAttempts(pair) # <<>> => \E n \in DOMAIN tried : tried[n].user = u /\ tried[n].src = i
        BY <3>1, <3>2, <3>4 DEF PairHolds
      <3>8. PairKey(i, u)' = PairKey(i, u) /\ UserKey(u)' = UserKey(u)
        BY DEF PairKey, UserKey
      <3> QED
        BY <1>1, <3>3, <3>4, <3>5, <3>6, <3>7, <3>8 DEF PairHolds
    <2> QED
      BY <1>1, <2>1 DEF PairsHold, PairHolds, PairKey, UserKey
  <1>6. MemoryKeepsOthers'
    BY <1>0, <1>1 DEF MemoryKeepsOthers, LockedOut
  <1> QED
    BY <1>3, <1>4, <1>5, <1>6 DEF LimiterInv

-----------------------------------------------------------------------------
Older(es) == [n \in DOMAIN es |-> IF es[n] > LoginWindow THEN LoginWindow + 1 ELSE es[n] + 1]

LEMMA OlderIs ==
    ASSUME NEW es \in Seq(0..LoginWindow + 1)
    PROVE  /\ Older(es) \in Seq(0..LoginWindow + 1) /\ Len(Older(es)) = Len(es) /\ Len(es) \in Nat
           /\ \A n \in 1..Len(es) : /\ Older(es)[n] = IF es[n] > LoginWindow THEN LoginWindow + 1 ELSE es[n] + 1
                                    /\ es[n] \in 0..LoginWindow + 1
           /\ es = <<>> => Older(es) = <<>>
  <1>1. DOMAIN es = 1..Len(es) /\ Len(es) \in Nat /\ \A n \in 1..Len(es) : es[n] \in 0..LoginWindow + 1
    BY ElementOfSeq, LenProperties
  <1>2. \A n \in 1..Len(es) : Older(es)[n] = IF es[n] > LoginWindow THEN LoginWindow + 1 ELSE es[n] + 1
    BY <1>1 DEF Older
  <1>3. \A n \in 1..Len(es) : Older(es)[n] \in 0..LoginWindow + 1
    BY <1>1, <1>2, LimiterConstants
  <1>4. Older(es) \in [1..Len(es) -> 0..LoginWindow + 1]
    BY <1>1, <1>3 DEF Older
  <1>5. Older(es) \in Seq(0..LoginWindow + 1) /\ Len(Older(es)) = Len(es)
    <2>1. PICK n \in Nat : n = Len(es)
      BY <1>1
    <2>2. PICK o : o = Older(es)
      OBVIOUS
    <2>3. o \in [1..n -> 0..LoginWindow + 1]
      BY <1>4, <2>1, <2>2
    <2>4. o \in Seq(0..LoginWindow + 1)
      BY <2>3, SeqDef
    <2>5. DOMAIN o = 1..n /\ DOMAIN o = 1..Len(o) /\ Len(o) \in Nat
      BY <2>3, <2>4, LenProperties
    <2>6. Len(o) = n
      BY <2>5
    <2> QED
      BY <2>1, <2>2, <2>4, <2>6
  <1> QED
    BY <1>1, <1>2, <1>5

LEMMA ShownOlder ==
    ASSUME NEW C, NEW es \in Seq(0..LoginWindow + 1), NEW age, ShownIn(C, {}, es, age),
           NEW D \in SUBSET C, NEW age2, \A n \in D : age[n] \in Nat /\ age[n] < LoginWindow /\ age2[n] = age[n] + 1
    PROVE  ShownIn(D, {}, Older(es), age2)
  <1>1. PICK f, g : Shows(f, g, C, {}, es, age)
    BY DEF ShownIn
  <1>2. f \in [C -> 1..Len(es)] /\ g \in [{} -> 1..Len(es)] /\ OneToOne(f) /\ OneToOne(g)
        /\ \A n \in C : es[f[n]] = age[n]
    BY <1>1 DEF Shows
  <1>3. PICK p : p = [n \in D |-> f[n]]
    OBVIOUS
  <1>4. p \in [D -> 1..Len(es)] /\ OneToOne(p)
    BY <1>2, <1>3 DEF OneToOne
  <1>5. \A n \in D : p[n] \in 1..Len(es) /\ es[p[n]] = age[n]
    BY <1>2, <1>3
  <1>6. \A n \in D : Older(es)[p[n]] = age2[n]
    <2>1. TAKE n \in D
    <2>2. Older(es)[p[n]] = IF es[p[n]] > LoginWindow THEN LoginWindow + 1 ELSE es[p[n]] + 1
      BY <1>5, OlderIs
    <2>3. age[n] \in Nat /\ age[n] < LoginWindow /\ age2[n] = age[n] + 1 /\ es[p[n]] = age[n]
      BY <1>5
    <2> QED
      BY <2>2, <2>3, LimiterConstants
  <1>7. Len(Older(es)) = Len(es)
    BY OlderIs
  <1>8. Shows(p, g, D, {}, Older(es), age2)
    BY <1>2, <1>4, <1>6, <1>7 DEF Shows
  <1> QED
    BY <1>8 DEF ShownIn

LEMMA EndsWithOlder ==
    ASSUME NEW t \in Seq(0..LoginWindow + 1), NEW s \in Seq(0..LoginWindow + 1), EndsWith(t, s)
    PROVE  EndsWith(Older(t), Older(s))
  <1>1. Len(t) \in Nat /\ Len(s) \in Nat /\ Len(s) <= Len(t) /\ \A n \in 1..Len(s) : s[n] = t[Len(t) - Len(s) + n]
    BY DEF EndsWith
  <1>2. PICK p, q : p = Older(t) /\ q = Older(s)
    OBVIOUS
  <1>3. Len(p) = Len(t) /\ Len(q) = Len(s)
    BY <1>2, OlderIs
  <1>4. ASSUME NEW n \in 1..Len(s) PROVE q[n] = p[Len(t) - Len(s) + n]
    <2>1. PICK m : m = Len(t) - Len(s) + n
      OBVIOUS
    <2>2. m \in 1..Len(t) /\ s[n] = t[m]
      BY <1>1, <2>1
    <2> QED
      BY <1>2, <2>1, <2>2, OlderIs
  <1> QED
    BY <1>1, <1>2, <1>3, <1>4 DEF EndsWith

\* A tick, with the ages in the history.
LEMMA TickDoes ==
    ASSUME LimiterTypes, LimiterTick
    PROVE  /\ UnderWay = {} /\ UNCHANGED <<inRedis, login, limiterErrors>>
           /\ \A k \in CounterKeys : events'[k] = Older(events[k]) /\ events[k] \in Seq(0..LoginWindow + 1)
           /\ events' \in [CounterKeys -> Seq(0..LoginWindow + 1)]
           /\ tried' \in Seq(TriedLogin) /\ Len(tried') = Len(tried) /\ DOMAIN tried' = DOMAIN tried
           /\ \A n \in DOMAIN tried :
                /\ tried'[n].src = tried[n].src /\ tried'[n].user = tried[n].user /\ tried'[n].over = tried[n].over
                /\ tried'[n].right = tried[n].right /\ tried'[n].failed = tried[n].failed
                /\ tried[n].age \in Nat
                /\ tried'[n].age = IF tried[n].age > LoginWindow THEN tried[n].age ELSE tried[n].age + 1
  <1>1. /\ UnderWay = {} /\ UNCHANGED <<inRedis, login, limiterErrors>>
        /\ events' = [k \in CounterKeys |-> Older(events[k])]
        /\ tried' = [n \in DOMAIN tried |-> [tried[n] EXCEPT !.age = IF @ > LoginWindow THEN @ ELSE @ + 1]]
    BY DEF LimiterTick, Older
  <1>2. \A k \in CounterKeys : events'[k] = Older(events[k]) /\ events[k] \in Seq(0..LoginWindow + 1)
    BY <1>1 DEF LimiterTypes
  <1>3. events' \in [CounterKeys -> Seq(0..LoginWindow + 1)]
    BY <1>1, <1>2, OlderIs
  <1>4. ASSUME NEW n \in DOMAIN tried
        PROVE  /\ tried'[n] \in TriedLogin /\ tried[n] \in TriedLogin
               /\ tried'[n].src = tried[n].src /\ tried'[n].user = tried[n].user /\ tried'[n].over = tried[n].over
               /\ tried'[n].right = tried[n].right /\ tried'[n].failed = tried[n].failed
               /\ tried[n].age \in Nat
               /\ tried'[n].age = IF tried[n].age > LoginWindow THEN tried[n].age ELSE tried[n].age + 1
    <2>1. PICK rec \in TriedLogin : rec = tried[n]
      BY DEF LimiterTypes
    <2>2. PICK old : old = IF rec.age > LoginWindow THEN rec.age ELSE rec.age + 1
      OBVIOUS
    <2>3. rec.age \in Nat /\ old \in 0..LoginWindow + 1
      BY <2>2, LimiterConstants DEF TriedLogin
    <2>4. tried'[n] = [rec EXCEPT !.age = old]
      BY <1>1, <2>1, <2>2 DEF TriedLogin
    <2>5. PICK new : new = [rec EXCEPT !.age = old]
      OBVIOUS
    <2>6. new \in TriedLogin /\ new.age = old
      BY <2>3, <2>5 DEF TriedLogin
    <2>7. /\ new.src = rec.src /\ new.user = rec.user /\ new.over = rec.over
          /\ new.right = rec.right /\ new.failed = rec.failed
      BY <2>5 DEF TriedLogin
    <2> QED
      BY <2>1, <2>2, <2>3, <2>4, <2>5, <2>6, <2>7
  <1>5. tried' \in Seq(TriedLogin) /\ Len(tried') = Len(tried) /\ DOMAIN tried' = DOMAIN tried
    <2>1. PICK m \in Nat : m = Len(tried) /\ DOMAIN tried = 1..m
      BY LenProperties DEF LimiterTypes
    <2>2. PICK t : t = tried'
      OBVIOUS
    <2>3. t \in [1..m -> TriedLogin]
      BY <1>1, <1>4, <2>1, <2>2
    <2>4. t \in Seq(TriedLogin)
      BY <2>3, SeqDef
    <2>5. DOMAIN t = 1..m /\ DOMAIN t = 1..Len(t) /\ Len(t) \in Nat
      BY <2>3, <2>4, LenProperties
    <2>6. Len(t) = m
      BY <2>5
    <2> QED
      BY <2>1, <2>2, <2>4, <2>5, <2>6
  <1> QED
    BY <1>1, <1>2, <1>3, <1>4, <1>5

LEMMA LimiterTickKeeps ==
    ASSUME LimiterInv, LimiterTick
    PROVE  LimiterInv'
  <1>0. LimiterTypes /\ PairsHold /\ MemoryKeepsOthers
    BY DEF LimiterInv
  <1>1. /\ UnderWay = {} /\ UNCHANGED <<inRedis, login, limiterErrors>>
        /\ \A k \in CounterKeys : events'[k] = Older(events[k]) /\ events[k] \in Seq(0..LoginWindow + 1)
        /\ events' \in [CounterKeys -> Seq(0..LoginWindow + 1)]
        /\ tried' \in Seq(TriedLogin) /\ Len(tried') = Len(tried) /\ DOMAIN tried' = DOMAIN tried
    BY <1>0, TickDoes
  <1>2. \A n \in DOMAIN tried :
                /\ tried'[n].src = tried[n].src /\ tried'[n].user = tried[n].user /\ tried'[n].over = tried[n].over
                /\ tried'[n].right = tried[n].right /\ tried'[n].failed = tried[n].failed
                /\ tried[n].age \in Nat
                /\ tried'[n].age = IF tried[n].age > LoginWindow THEN tried[n].age ELSE tried[n].age + 1
    BY <1>0, TickDoes
  <1>3. LimiterTypes'
    <2>1. UnderWay' = UnderWay
      BY <1>1 DEF UnderWay
    <2> QED
      BY <1>0, <1>1, <2>1 DEF LimiterTypes, NoLogin
  <1>4. ASSUME NEW c \in {1, 3}, NEW k \in CounterKeys, Bounding(c, k)
        PROVE  Shown(c, k)' /\ Bounded(c, k)'
    <2>1. Shown(c, k) /\ Bounded(c, k)
      BY <1>4 DEF LimiterInv
    <2>2. Added(c, k) = {} /\ Coming(c, k) = {}
      BY <1>1, IdleAddNothing
    <2>3. Added(c, k)' = {} /\ Coming(c, k)' = {} /\ Slack' = Slack
      BY <1>1, <2>2 DEF Added, Coming, HasAdded, WillAdd, Asks, KeysOf, Slack
    <2>4. Counted(c, k)' \in SUBSET Counted(c, k)
      <3>1. Counted(c, k)' = {n \in DOMAIN tried' : /\ tried'[n].over = {} /\ tried'[n].age < LoginWindow
                                                    /\ c \notin tried'[n].failed
                                                    /\ KeysOf(tried'[n].src, tried'[n].user)[c] = k}
        BY DEF Counted, Admitted, Within, KeysOf
      <3>2. Counted(c, k) = {n \in DOMAIN tried : /\ tried[n].over = {} /\ tried[n].age < LoginWindow
                                                  /\ c \notin tried[n].failed
                                                  /\ KeysOf(tried[n].src, tried[n].user)[c] = k}
        BY DEF Counted, Admitted, Within
      <3>3. \A n \in DOMAIN tried : tried'[n].age < LoginWindow => tried[n].age < LoginWindow
        <4>1. TAKE n \in DOMAIN tried
        <4>2. PICK x, y : x = tried[n].age /\ y = tried'[n].age
          OBVIOUS
        <4>3. x \in Nat /\ y = IF x > LoginWindow THEN x ELSE x + 1
          BY <1>2, <4>2
        <4>4. y < LoginWindow => x < LoginWindow
          BY <4>3, LimiterConstants
        <4> QED
          BY <4>2, <4>4
      <3> QED
        BY <1>1, <1>2, <3>1, <3>2, <3>3
    <2>5. \A n \in Counted(c, k) : n \in DOMAIN tried /\ Ages[n] \in Nat /\ Ages[n] < LoginWindow /\ Ages'[n] = Ages[n] + 1
      <3>1. TAKE n \in Counted(c, k)
      <3>2. n \in DOMAIN tried /\ Ages[n] \in Nat /\ Ages[n] < LoginWindow
        BY <1>0, CountedYoung DEF Counted, Admitted
      <3>3. PICK x, y : x = tried[n].age /\ y = tried'[n].age
        OBVIOUS
      <3>4. Ages[n] = x /\ Ages'[n] = y
        BY <1>1, <3>2, <3>3 DEF Ages
      <3>5. y = IF x > LoginWindow THEN x ELSE x + 1
        BY <1>2, <3>2, <3>3
      <3>6. y = x + 1
        BY <3>2, <3>4, <3>5, LimiterConstants
      <3> QED
        BY <3>2, <3>4, <3>6
    <2>6. ShownIn(Counted(c, k), {}, events[k], Ages)
      BY <2>1, <2>2 DEF Shown
    <2>7. PICK C, D, age, age2 : C = Counted(c, k) /\ D = Counted(c, k)' /\ age = Ages /\ age2 = Ages'
      OBVIOUS
    <2>8. ShownIn(D, {}, Older(events[k]), age2)
      <3>1. D \in SUBSET C /\ ShownIn(C, {}, events[k], age) /\ events[k] \in Seq(0..LoginWindow + 1)
        BY <1>1, <2>4, <2>6, <2>7
      <3>2. \A n \in D : age[n] \in Nat /\ age[n] < LoginWindow /\ age2[n] = age[n] + 1
        BY <2>4, <2>5, <2>7
      <3> QED
        BY <3>1, <3>2, ShownOlder
    <2>9. Shown(c, k)'
      BY <1>1, <2>3, <2>7, <2>8 DEF Shown
    <2>10. IsFiniteSet(C) /\ Cardinality(C) \in Nat
      BY <1>1, <2>6, <2>7, ShownCounts
    <2>11. Cardinality(D) <= Cardinality(C) /\ Cardinality(D) \in Nat
      BY <2>4, <2>7, <2>10, FS_Subset, FS_CardinalityType
    <2>12. Cardinality(C) + Cardinality({}) <= Limits[c] + Slack
      BY <2>1, <2>2, <2>7 DEF Bounded
    <2>13. Slack \in Int /\ Limits[c] \in Nat /\ Cardinality({}) = 0
      BY <1>0, SlackIs, LimitsAre, LimiterConstants, FS_CardinalityType, FS_EmptySet DEF LimiterTypes
    <2>14. Cardinality(D) + Cardinality({}) <= Limits[c] + Slack
      BY <2>10, <2>11, <2>12, <2>13
    <2>15. Bounded(c, k)'
      BY <2>3, <2>7, <2>14 DEF Bounded, Limits
    <2> QED
      BY <2>9, <2>15
  <1>5. PairsHold'
    <2>1. ASSUME ~inRedis, NEW i \in Sources, NEW u \in LoginNames PROVE PairHolds(i, u)'
      <3>1. PairHolds(i, u)
        BY <1>0, <2>1, PairsAre
      <3>2. PICK pair, name : pair = events[PairKey(i, u)] /\ name = events[UserKey(u)]
        OBVIOUS
      <3>3. /\ pair \in Seq(0..LoginWindow + 1) /\ name \in Seq(0..LoginWindow + 1)
            /\ events'[PairKey(i, u)] = Older(pair) /\ events'[UserKey(u)] = Older(name)
        BY <1>1, <3>2, PairAndUserKeys
      <3>4. Len(Older(pair)) <= UserLimit /\ (Older(pair) # <<>> => pair # <<>>)
        BY <3>1, <3>2, <3>3, OlderIs DEF PairHolds
      <3>5. OnlyWrongFrom(i, u)' => OnlyWrongFrom(i, u)
        BY <1>1, <1>2 DEF OnlyWrongFrom
      <3>6. OnlyWrongFrom(i, u) => EndsWith(Older(pair), Older(name))
        BY <3>1, <3>2, <3>3, EndsWithOlder DEF PairHolds
      <3>7. Older(pair) # <<>> => \E n \in DOMAIN tried' : tried'[n].user = u /\ tried'[n].src = i
        <4>1. Older(pair) # <<>> => \E n \in DOMAIN tried : tried[n].user = u /\ tried[n].src = i
          BY <3>1, <3>2, <3>4 DEF PairHolds
        <4> QED
          BY <1>1, <1>2, <4>1
      <3>8. PairKey(i, u)' = PairKey(i, u) /\ UserKey(u)' = UserKey(u)
        BY DEF PairKey, UserKey
      <3> QED
        BY <3>3, <3>4, <3>5, <3>6, <3>7, <3>8 DEF PairHolds
    <2> QED
      BY <1>1, <2>1 DEF PairsHold, PairHolds, PairKey, UserKey
  <1>6. MemoryKeepsOthers'
    <2>1. SUFFICES ASSUME ~inRedis, NEW n \in DOMAIN tried, LockedOut(n)' PROVE FALSE
      BY <1>1 DEF MemoryKeepsOthers
    <2>2. ~LockedOut(n)
      BY <1>0, <2>1 DEF MemoryKeepsOthers
    <2>3. \A l \in 1..(n - 1) : l \in DOMAIN tried
      BY <1>0, <2>1, LenProperties DEF LimiterTypes
    <2>4. {l \in 1..(n - 1) : tried'[l].user = tried'[n].user} = {l \in 1..(n - 1) : tried[l].user = tried[n].user}
      BY <1>2, <2>1, <2>3
    <2> QED
      BY <1>2, <2>1, <2>2, <2>3, <2>4 DEF LockedOut
  <1> QED
    BY <1>3, <1>4, <1>5, <1>6 DEF LimiterInv

-----------------------------------------------------------------------------
(* In Redis. *)

\* With the counters in Redis only the types and the bounds are to be shown.
LEMMA InRedisEnough ==
    ASSUME inRedis', LimiterTypes',
           \A c \in {1, 3}, k \in CounterKeys : Bounding(c, k) => Shown(c, k)' /\ Bounded(c, k)'
    PROVE  LimiterInv'
  BY DEF LimiterInv, PairsHold, MemoryKeepsOthers, Bounding

\* One login changes, and the others are as they were.
OneLoginOf(a, l) == /\ a \in Attempts /\ inRedis /\ inRedis' /\ login' = [login EXCEPT ![a] = l]

LEMMA OneLoginTypes ==
    ASSUME LimiterTypes, NEW a, NEW l, OneLoginOf(a, l), l = NoLogin \/ l \in LoginUnderWay
    PROVE  /\ DOMAIN login' = Attempts
           /\ \A b \in Attempts : login'[b] = NoLogin \/ (inRedis' /\ login'[b] \in LoginUnderWay)
  <1>1. DOMAIN login = Attempts /\ \A b \in Attempts : login[b] = NoLogin \/ login[b] \in LoginUnderWay
    BY DEF LimiterTypes
  <1>2. inRedis' /\ login' = [login EXCEPT ![a] = l]
    BY DEF OneLoginOf
  <1> QED
    BY <1>1, <1>2

LEMMA BeginRedisKeeps ==
    ASSUME LimiterInv, NEW a \in Attempts, NEW i \in Sources, NEW u \in LoginNames, NEW right \in BOOLEAN,
           BeginRedis(a, i, u, right)
    PROVE  LimiterInv'
  <1>0. LimiterTypes
    BY DEF LimiterInv
  <1>1. PICK none \in SUBSET (1..3) : none = {}
    OBVIOUS
  <1>2. PICK l : l = [pc |-> "count", step |-> 1, over |-> none, failed |-> none, src |-> i, user |-> u, right |-> right]
    OBVIOUS
  <1>3. l \in LoginUnderWay /\ l.pc = "count" /\ l.step = 1
    BY <1>1, <1>2 DEF LoginUnderWay
  <1>4. /\ OneLoginOf(a, l) /\ login[a].pc = "idle" /\ Len(tried) + Cardinality(UnderWay) < MaxAttempts
        /\ inRedis /\ UNCHANGED <<inRedis, events, tried, limiterErrors>> /\ login' = [login EXCEPT ![a] = l]
    BY <1>1, <1>2 DEF BeginRedis, OneLoginOf
  <1>5. LimiterTypes'
    <2>1. Cardinality(UnderWay') <= Cardinality(UnderWay) + 1 /\ Cardinality(UnderWay) \in Nat /\ Cardinality(UnderWay') \in Nat
      BY <1>0, <1>3, <1>4, UnderWayOne
    <2>2. Len(tried) \in Nat
      BY <1>0, LenProperties DEF LimiterTypes
    <2>3. PICK x, y : x = Cardinality(UnderWay) /\ y = Cardinality(UnderWay')
      OBVIOUS
    <2>4. Len(tried) + y <= MaxAttempts
      BY <1>4, <2>1, <2>2, <2>3, LimiterConstants
    <2>5. Len(tried') + Cardinality(UnderWay') <= MaxAttempts
      BY <1>4, <2>3, <2>4
    <2> QED
      BY <1>0, <1>3, <1>4, <2>5, OneLoginTypes DEF LimiterTypes
  <1>6. ASSUME NEW c \in {1, 3}, NEW k \in CounterKeys, Bounding(c, k)
        PROVE  Shown(c, k)' /\ Bounded(c, k)'
    <2>1. Shown(c, k) /\ Bounded(c, k)
      BY <1>6 DEF LimiterInv
    <2>2. Counted(c, k)' = Counted(c, k) /\ Ages' = Ages
      BY <1>4, CountedUnchanged
    <2>3. ~HasAdded(l, c, k) /\ ~WillAdd(l, c, k)
      BY <1>3 DEF HasAdded, WillAdd, Asks
    <2>4. ~HasAdded(login[a], c, k) /\ ~WillAdd(login[a], c, k)
      BY <1>4 DEF HasAdded, WillAdd, Asks
    <2>5. Added(c, k)' = Added(c, k) /\ Coming(c, k)' = Coming(c, k)
      <3>1. DOMAIN login = Attempts
        BY <1>0 DEF LimiterTypes
      <3>2. /\ Added(c, k)' = Added(c, k) \ {a} /\ Coming(c, k)' = Coming(c, k) \ {a}
            /\ a \notin Added(c, k) /\ a \notin Coming(c, k)
        BY <1>4, <2>3, <2>4, <3>1, OneLogin
      <3> QED
        BY <3>2
    <2> QED
      BY <1>4, <2>1, <2>2, <2>5 DEF Shown, Bounded, Slack, Limits
  <1> QED
    BY <1>4, <1>5, <1>6, InRedisEnough

\* A login that has been counted, added or answered next.
LEMMA AdvanceIs ==
    ASSUME NEW l \in LoginUnderWay
    PROVE  /\ Advance(l) \in LoginUnderWay
           /\ Advance(l).over = l.over /\ Advance(l).failed = l.failed
           /\ Advance(l).src = l.src /\ Advance(l).user = l.user
           /\ l.step = 3 => Advance(l).pc = "answer" /\ Advance(l).step = 3
           /\ l.step # 3 => Advance(l).pc = "count" /\ Advance(l).step = l.step + 1
  <1>1. CASE l.step = 3
    <2>1. PICK m : m = [l EXCEPT !.pc = "answer"]
      OBVIOUS
    <2>2. Advance(l) = m
      BY <1>1, <2>1 DEF Advance
    <2>3. m \in LoginUnderWay /\ m.pc = "answer" /\ m.step = l.step
      BY <2>1 DEF LoginUnderWay
    <2>4. m.over = l.over /\ m.failed = l.failed /\ m.src = l.src /\ m.user = l.user
      BY <2>1 DEF LoginUnderWay
    <2> QED
      BY <1>1, <2>2, <2>3, <2>4
  <1>2. CASE l.step # 3
    <2>1. PICK m, n : n = l.step + 1 /\ m = [l EXCEPT !.pc = "count", !.step = n]
      OBVIOUS
    <2>2. Advance(l) = m
      BY <1>2, <2>1 DEF Advance, LoginUnderWay
    <2>3. n \in 1..3
      BY <1>2, <2>1 DEF LoginUnderWay
    <2>4. m \in LoginUnderWay /\ m.pc = "count" /\ m.step = n
      BY <2>1, <2>3 DEF LoginUnderWay
    <2>5. m.over = l.over /\ m.failed = l.failed /\ m.src = l.src /\ m.user = l.user
      BY <2>1 DEF LoginUnderWay
    <2> QED
      BY <1>2, <2>1, <2>2, <2>4, <2>5
  <1> QED
    BY <1>1, <1>2

\* What an attempt that asked the step c has to do with the others afterwards.
LEMMA AdvanceAdds ==
    ASSUME NEW l \in LoginUnderWay, l.pc \in {"count", "add"}, NEW c \in {1, 3}, NEW k
    PROVE  /\ ~WillAdd(Advance(l), c, k)
           /\ HasAdded(Advance(l), c, k) <=> Asks(l, c, k) /\ l.step >= c
           /\ HasAdded(l, c, k) <=> Asks(l, c, k) /\ l.step > c
           /\ l.pc # "idle" /\ Advance(l).pc # "idle"
  <1>1. /\ Advance(l) \in LoginUnderWay
        /\ Advance(l).over = l.over /\ Advance(l).failed = l.failed
        /\ Advance(l).src = l.src /\ Advance(l).user = l.user
        /\ l.step = 3 => Advance(l).pc = "answer" /\ Advance(l).step = 3
        /\ l.step # 3 => Advance(l).pc = "count" /\ Advance(l).step = l.step + 1
    BY AdvanceIs
  <1>2. l.step \in 1..3 /\ Advance(l).pc \in {"count", "add", "answer"} /\ Advance(l).step \in 1..3
    BY <1>1 DEF LoginUnderWay
  <1>3. Asks(Advance(l), c, k) <=> Asks(l, c, k)
    BY <1>1, <1>2 DEF Asks
  <1>4. Advance(l).pc # "add"
    BY <1>1
  <1>5. Advance(l).step > c \/ Advance(l).pc = "answer" <=> l.step >= c
    BY <1>1, <1>2
  <1>6. l.pc # "idle" /\ l.pc # "answer" /\ Advance(l).pc # "idle"
    BY <1>2
  <1>7. (HasAdded(l, c, k) <=> Asks(l, c, k) /\ l.step > c) /\ ~WillAdd(Advance(l), c, k)
    BY <1>4, <1>6 DEF HasAdded, WillAdd
  <1>8. HasAdded(Advance(l), c, k) <=> Asks(l, c, k) /\ l.step >= c
    BY <1>3, <1>5 DEF HasAdded
  <1> QED
    BY <1>6, <1>7, <1>8

\* A login under way: its record, and the counter it asks next.
LEMMA UnderWayLogin ==
    ASSUME LimiterTypes, NEW a \in Attempts, login[a].pc # "idle"
    PROVE  /\ inRedis /\ login[a] \in LoginUnderWay /\ DOMAIN login = Attempts
           /\ login[a].src \in Sources /\ login[a].user \in LoginNames /\ login[a].step \in 1..3
           /\ KeysOf(login[a].src, login[a].user)[login[a].step] \in CounterKeys
  <1>1. inRedis /\ login[a] \in LoginUnderWay /\ DOMAIN login = Attempts
    BY DEF LimiterTypes, NoLogin
  <1>2. login[a].src \in Sources /\ login[a].user \in LoginNames /\ login[a].step \in 1..3
    BY <1>1 DEF LoginUnderWay
  <1> QED
    BY <1>1, <1>2, KeysAre

\* The types after a step that leaves a login under way.
LEMMA StillUnderWay ==
    ASSUME LimiterTypes, NEW a, NEW l, OneLoginOf(a, l), l \in LoginUnderWay, login[a].pc # "idle",
           tried' = tried, events' \in [CounterKeys -> Seq(0..LoginWindow + 1)], limiterErrors' \in 0..MaxLimiterErrors
    PROVE  LimiterTypes'
  <1>1. a \in Attempts /\ inRedis /\ inRedis' /\ login' = [login EXCEPT ![a] = l]
    BY DEF OneLoginOf
  <1>2. l.pc # "idle"
    BY DEF LoginUnderWay
  <1>3. UnderWay' = UnderWay
    BY <1>1, <1>2, UnderWayOne
  <1>4. DOMAIN login' = Attempts /\ \A b \in Attempts : login'[b] = NoLogin \/ (inRedis' /\ login'[b] \in LoginUnderWay)
    BY OneLoginTypes
  <1>5. tried' \in Seq(TriedLogin) /\ Len(tried') + Cardinality(UnderWay') <= MaxAttempts
    BY <1>3 DEF LimiterTypes
  <1> QED
    BY <1>1, <1>4, <1>5 DEF LimiterTypes, NoLogin

\* Nothing changes for the counter k but who has added and who will.
LEMMA SameBound ==
    ASSUME inRedis' = inRedis, NEW c, NEW k, Bounded(c, k), Counted(c, k)' = Counted(c, k),
           Added(c, k)' \cup Coming(c, k)' = Added(c, k) \cup Coming(c, k)
    PROVE  Bounded(c, k)'
  BY DEF Bounded, Limits, Slack

\* The first step of RateLimit, when Redis answers.
CountedNow(a, l, k, over) ==
    /\ l \in LoginUnderWay /\ l.pc = "count" /\ login[a] = l /\ k = KeysOf(l.src, l.user)[l.step]
    /\ over = IF Len(PruneAttempts(events[k])) < Limits[l.step] THEN l.over ELSE l.over \cup {l.step}
    /\ events' = [events EXCEPT ![k] = PruneAttempts(@)]
    /\ OneLoginOf(a, [l EXCEPT !.pc = "add", !.over = over])
    /\ UNCHANGED <<inRedis, tried, limiterErrors>>

LEMMA CountKeeps ==
    ASSUME LimiterInv, NEW a, NEW l, NEW k, NEW over, CountedNow(a, l, k, over)
    PROVE  LimiterInv'
  <1>0. LimiterTypes
    BY DEF LimiterInv
  <1>1. /\ l \in LoginUnderWay /\ l.pc = "count" /\ login[a] = l /\ k = KeysOf(l.src, l.user)[l.step] /\ a \in Attempts
        /\ over = IF Len(PruneAttempts(events[k])) < Limits[l.step] THEN l.over ELSE l.over \cup {l.step}
        /\ events' = [events EXCEPT ![k] = PruneAttempts(@)]
        /\ inRedis /\ inRedis' /\ UNCHANGED <<inRedis, tried, limiterErrors>>
    BY DEF CountedNow, OneLoginOf
  <1>2. PICK m : m = [l EXCEPT !.pc = "add", !.over = over]
    OBVIOUS
  <1>3. OneLoginOf(a, m) /\ login' = [login EXCEPT ![a] = m]
    BY <1>2 DEF CountedNow, OneLoginOf
  <1>4. DOMAIN login = Attempts /\ l.src \in Sources /\ l.user \in LoginNames /\ l.step \in 1..3 /\ k \in CounterKeys
    BY <1>0, <1>1, UnderWayLogin
  <1>5. over \in SUBSET (1..3) /\ (\A c : c # l.step => (c \in over <=> c \in l.over))
    BY <1>1, <1>4 DEF LoginUnderWay
  <1>6. m \in LoginUnderWay /\ m.pc = "add" /\ m.over = over
    BY <1>1, <1>2, <1>5 DEF LoginUnderWay
  <1>7. m.step = l.step /\ m.failed = l.failed /\ m.src = l.src /\ m.user = l.user
    BY <1>1, <1>2 DEF LoginUnderWay
  <1>8. events[k] \in Seq(0..LoginWindow + 1) /\ PruneAttempts(events[k]) \in Seq(0..LoginWindow + 1)
    BY <1>0, <1>4, PruneDrops DEF LimiterTypes
  <1>9. /\ events' \in [CounterKeys -> Seq(0..LoginWindow + 1)] /\ events'[k] = PruneAttempts(events[k])
        /\ \A k2 \in CounterKeys : k2 # k => events'[k2] = events[k2]
    BY <1>0, <1>1, <1>4, <1>8 DEF LimiterTypes
  <1>10. LimiterTypes'
    <2>1. limiterErrors' \in 0..MaxLimiterErrors
      BY <1>0, <1>1 DEF LimiterTypes
    <2> QED
      BY <1>0, <1>1, <1>3, <1>6, <1>9, <2>1, StillUnderWay
  <1>11. ASSUME NEW c \in {1, 3}, NEW k2 \in CounterKeys, Bounding(c, k2)
        PROVE  Shown(c, k2)' /\ Bounded(c, k2)'
    <2>1. Shown(c, k2) /\ Bounded(c, k2)
      BY <1>11 DEF LimiterInv
    <2>2. Counted(c, k2)' = Counted(c, k2) /\ Ages' = Ages
      BY <1>1, CountedUnchanged
    <2>3. l.pc # "idle" /\ m.pc # "idle" /\ l.pc # "answer" /\ m.pc # "answer" /\ ~WillAdd(l, c, k2)
      BY <1>1, <1>6 DEF WillAdd
    <2>4. HasAdded(m, c, k2) <=> HasAdded(l, c, k2)
      BY <1>4, <1>5, <1>6, <1>7, <2>3 DEF HasAdded, Asks
    <2>5. WillAdd(m, c, k2) => l.step = c /\ k2 = k /\ Len(PruneAttempts(events[k])) < Limits[c]
      BY <1>1, <1>6, <1>7 DEF WillAdd, Asks
    <2>6. /\ Added(c, k2)' = IF HasAdded(m, c, k2) THEN Added(c, k2) \cup {a} ELSE Added(c, k2) \ {a}
          /\ Coming(c, k2)' = IF WillAdd(m, c, k2) THEN Coming(c, k2) \cup {a} ELSE Coming(c, k2) \ {a}
          /\ (a \in Added(c, k2) <=> HasAdded(login[a], c, k2)) /\ (a \in Coming(c, k2) <=> WillAdd(login[a], c, k2))
      BY <1>1, <1>3, <1>4, OneLogin
    <2>7. Added(c, k2)' = Added(c, k2)
      <3>1. a \in Added(c, k2) <=> HasAdded(m, c, k2)
        BY <1>1, <2>4, <2>6
      <3> QED
        BY <2>6, <3>1
    <2>8. ShownIn(Counted(c, k2), Added(c, k2), events[k2], Ages) /\ events[k2] \in Seq(0..LoginWindow + 1)
      BY <1>0, <2>1 DEF Shown, LimiterTypes
    <2>9. ShownIn(Counted(c, k2), Added(c, k2), PruneAttempts(events[k2]), Ages)
      BY <1>0, <2>8, CountedYoung, ShownPrune
    <2>10. Shown(c, k2)'
      <3>1. events'[k2] = events[k2] \/ events'[k2] = PruneAttempts(events[k2])
        BY <1>9
      <3> QED
        BY <2>2, <2>7, <2>8, <2>9, <3>1 DEF Shown
    <2>11. CASE ~WillAdd(m, c, k2)
      <3>1. Coming(c, k2)' = Coming(c, k2)
        BY <1>1, <2>3, <2>6, <2>11
      <3>2. Bounded(c, k2)'
        BY <1>1, <2>1, <2>2, <2>7, <3>1, SameBound
      <3> QED
        BY <2>10, <3>2
    <2>12. CASE WillAdd(m, c, k2)
      <3>1. Cardinality(Counted(c, k2)) \in Nat /\ Cardinality(Counted(c, k2)) <= Len(PruneAttempts(events[k2]))
        BY <1>8, <2>5, <2>9, <2>12, ShownCounts
      <3>2. Added(c, k2)' \cup Coming(c, k2)' \in SUBSET Attempts
        BY DEF Added, Coming
      <3>3. /\ Cardinality(Added(c, k2)' \cup Coming(c, k2)') <= Cardinality(Attempts)
            /\ Cardinality(Added(c, k2)' \cup Coming(c, k2)') \in Nat /\ Cardinality(Attempts) \in Nat
        BY <3>2, AttemptsFinite
      <3>4. Slack' = Cardinality(Attempts) - 1
        BY <1>1 DEF Slack
      <3>5. PICK n, x, y, p : /\ n = Cardinality(Counted(c, k2)) /\ x = Cardinality(Added(c, k2)' \cup Coming(c, k2)')
                              /\ y = Cardinality(Attempts) /\ p = Len(PruneAttempts(events[k2]))
        OBVIOUS
      <3>6. n + x <= Limits[c] + (y - 1)
        <4>1. p \in Nat /\ p < Limits[c] /\ Limits[c] \in Nat
          BY <1>8, <2>5, <2>12, <3>5, LimitsAre
        <4> QED
          BY <3>1, <3>3, <3>5, <4>1
      <3>7. Bounded(c, k2)'
        BY <2>2, <3>4, <3>5, <3>6 DEF Bounded, Limits
      <3> QED
        BY <2>10, <3>7
    <2> QED
      BY <2>11, <2>12
  <1> QED
    BY <1>1, <1>10, <1>11, InRedisEnough

\* The first step of RateLimit, when Redis does not answer.
NotCounted(a, l, failed) ==
    /\ l \in LoginUnderWay /\ l.pc = "count" /\ login[a] = l /\ failed = l.failed \cup {l.step}
    /\ OneLoginOf(a, Advance([l EXCEPT !.failed = failed]))
    /\ limiterErrors < MaxLimiterErrors /\ limiterErrors' = limiterErrors + 1
    /\ UNCHANGED <<inRedis, tried, events>>

LEMMA NotCountedKeeps ==
    ASSUME LimiterInv, NEW a, NEW l, NEW failed, NotCounted(a, l, failed)
    PROVE  LimiterInv'
  <1>0. LimiterTypes
    BY DEF LimiterInv
  <1>1. /\ l \in LoginUnderWay /\ l.pc = "count" /\ login[a] = l /\ failed = l.failed \cup {l.step} /\ a \in Attempts
        /\ limiterErrors < MaxLimiterErrors /\ limiterErrors' = limiterErrors + 1
        /\ inRedis /\ inRedis' /\ UNCHANGED <<inRedis, tried, events>>
    BY DEF NotCounted, OneLoginOf
  <1>2. PICK m : m = [l EXCEPT !.failed = failed]
    OBVIOUS
  <1>3. OneLoginOf(a, Advance(m)) /\ login' = [login EXCEPT ![a] = Advance(m)]
    BY <1>2 DEF NotCounted, OneLoginOf
  <1>4. DOMAIN login = Attempts /\ l.step \in 1..3
    BY <1>0, <1>1, UnderWayLogin
  <1>5. failed \in SUBSET (1..3) /\ l.step \in failed /\ (\A c : c # l.step => (c \in failed <=> c \in l.failed))
    BY <1>1, <1>4 DEF LoginUnderWay
  <1>6. m \in LoginUnderWay /\ m.pc = "count" /\ m.failed = failed
    BY <1>1, <1>2, <1>5 DEF LoginUnderWay
  <1>7. m.step = l.step /\ m.over = l.over /\ m.src = l.src /\ m.user = l.user
    BY <1>1, <1>2 DEF LoginUnderWay
  <1>8. Advance(m) \in LoginUnderWay
    BY <1>6, AdvanceIs
  <1>9. LimiterTypes'
    <2>1. events' \in [CounterKeys -> Seq(0..LoginWindow + 1)]
      BY <1>0, <1>1 DEF LimiterTypes
    <2>2. PICK n : n = limiterErrors'
      OBVIOUS
    <2>3. limiterErrors \in 0..MaxLimiterErrors
      BY <1>0 DEF LimiterTypes
    <2>4. n \in 0..MaxLimiterErrors
      BY <1>1, <2>2, <2>3, LimiterConstants
    <2>5. limiterErrors' \in 0..MaxLimiterErrors
      BY <2>2, <2>4
    <2> QED
      BY <1>0, <1>1, <1>3, <1>8, <2>1, <2>5, StillUnderWay
  <1>10. ASSUME NEW c \in {1, 3}, NEW k2 \in CounterKeys, Bounding(c, k2)
         PROVE  Shown(c, k2)' /\ Bounded(c, k2)'
    <2>1. Shown(c, k2) /\ Bounded(c, k2)
      BY <1>10 DEF LimiterInv
    <2>2. Counted(c, k2)' = Counted(c, k2) /\ Ages' = Ages
      BY <1>1, CountedUnchanged
    <2>3. l.pc # "idle" /\ m.pc # "idle" /\ ~WillAdd(l, c, k2)
      BY <1>1, <1>6 DEF WillAdd
    <2>4. /\ ~WillAdd(Advance(m), c, k2)
          /\ HasAdded(Advance(m), c, k2) <=> Asks(m, c, k2) /\ m.step >= c
      BY <1>6, AdvanceAdds
    <2>5. HasAdded(l, c, k2) <=> Asks(l, c, k2) /\ l.step > c
      BY <1>1, AdvanceAdds
    <2>6. Asks(m, c, k2) /\ m.step >= c <=> Asks(l, c, k2) /\ l.step > c
      <3>1. CASE c = l.step
        BY <1>4, <1>5, <1>6, <1>7, <3>1 DEF Asks
      <3>2. CASE c # l.step
        <4>1. Asks(m, c, k2) <=> Asks(l, c, k2)
          BY <1>5, <1>6, <1>7, <2>3, <3>2 DEF Asks
        <4>2. m.step >= c <=> l.step > c
          BY <1>4, <1>7, <3>2
        <4> QED
          BY <4>1, <4>2
      <3> QED
        BY <3>1, <3>2
    <2>7. /\ Added(c, k2)' = IF HasAdded(Advance(m), c, k2) THEN Added(c, k2) \cup {a} ELSE Added(c, k2) \ {a}
          /\ Coming(c, k2)' = IF WillAdd(Advance(m), c, k2) THEN Coming(c, k2) \cup {a} ELSE Coming(c, k2) \ {a}
          /\ (a \in Added(c, k2) <=> HasAdded(login[a], c, k2)) /\ (a \in Coming(c, k2) <=> WillAdd(login[a], c, k2))
      BY <1>1, <1>3, <1>4, OneLogin
    <2>8. Added(c, k2)' = Added(c, k2)
      <3>1. a \in Added(c, k2) <=> HasAdded(Advance(m), c, k2)
        BY <1>1, <2>4, <2>5, <2>6, <2>7
      <3> QED
        BY <2>7, <3>1
    <2>9. Coming(c, k2)' = Coming(c, k2)
      BY <1>1, <2>3, <2>4, <2>7
    <2>10. Shown(c, k2)'
      BY <1>1, <2>1, <2>2, <2>8 DEF Shown
    <2>11. Bounded(c, k2)'
      BY <1>1, <2>1, <2>2, <2>8, <2>9, SameBound
    <2> QED
      BY <2>10, <2>11
  <1> QED
    BY <1>1, <1>9, <1>10, InRedisEnough

\* The second step of RateLimit.
AddedNow(a, l, k) ==
    /\ l \in LoginUnderWay /\ l.pc = "add" /\ login[a] = l /\ k = KeysOf(l.src, l.user)[l.step]
    /\ events' = [events EXCEPT ![k] = Append(@, 0)]
    /\ OneLoginOf(a, Advance(l))
    /\ UNCHANGED <<inRedis, tried, limiterErrors>>

LEMMA AddKeeps ==
    ASSUME LimiterInv, NEW a, NEW l, NEW k, AddedNow(a, l, k)
    PROVE  LimiterInv'
  <1>0. LimiterTypes
    BY DEF LimiterInv
  <1>1. /\ l \in LoginUnderWay /\ l.pc = "add" /\ login[a] = l /\ k = KeysOf(l.src, l.user)[l.step] /\ a \in Attempts
        /\ events' = [events EXCEPT ![k] = Append(@, 0)]
        /\ inRedis /\ inRedis' /\ UNCHANGED <<inRedis, tried, limiterErrors>>
    BY DEF AddedNow, OneLoginOf
  <1>2. OneLoginOf(a, Advance(l)) /\ login' = [login EXCEPT ![a] = Advance(l)]
    BY DEF AddedNow, OneLoginOf
  <1>3. /\ DOMAIN login = Attempts /\ l.src \in Sources /\ l.user \in LoginNames /\ l.step \in 1..3
        /\ k \in CounterKeys /\ l.pc # "idle"
    BY <1>0, <1>1, UnderWayLogin
  <1>4. events[k] \in Seq(0..LoginWindow + 1) /\ Append(events[k], 0) \in Seq(0..LoginWindow + 1)
    BY <1>0, <1>3, AppendPositions DEF LimiterTypes
  <1>5. /\ events' \in [CounterKeys -> Seq(0..LoginWindow + 1)] /\ events'[k] = Append(events[k], 0)
        /\ \A k2 \in CounterKeys : k2 # k => events'[k2] = events[k2]
    BY <1>0, <1>1, <1>3, <1>4 DEF LimiterTypes
  <1>6. LimiterTypes'
    <2>1. limiterErrors' \in 0..MaxLimiterErrors /\ Advance(l) \in LoginUnderWay
      BY <1>0, <1>1, AdvanceIs DEF LimiterTypes
    <2> QED
      BY <1>0, <1>1, <1>2, <1>3, <1>5, <2>1, StillUnderWay
  <1>7. ASSUME NEW c \in {1, 3}, NEW k2 \in CounterKeys, Bounding(c, k2)
        PROVE  Shown(c, k2)' /\ Bounded(c, k2)'
    <2>1. Shown(c, k2) /\ Bounded(c, k2)
      BY <1>7 DEF LimiterInv
    <2>2. Counted(c, k2)' = Counted(c, k2) /\ Ages' = Ages
      BY <1>1, CountedUnchanged
    <2>3. /\ ~WillAdd(Advance(l), c, k2)
          /\ HasAdded(Advance(l), c, k2) <=> Asks(l, c, k2) /\ l.step >= c
          /\ HasAdded(l, c, k2) <=> Asks(l, c, k2) /\ l.step > c
      BY <1>1, AdvanceAdds
    <2>4. WillAdd(l, c, k2) <=> Asks(l, c, k2) /\ l.step = c
      BY <1>1 DEF WillAdd
    <2>5. /\ Added(c, k2)' = IF HasAdded(Advance(l), c, k2) THEN Added(c, k2) \cup {a} ELSE Added(c, k2) \ {a}
          /\ Coming(c, k2)' = IF WillAdd(Advance(l), c, k2) THEN Coming(c, k2) \cup {a} ELSE Coming(c, k2) \ {a}
          /\ (a \in Added(c, k2) <=> HasAdded(login[a], c, k2)) /\ (a \in Coming(c, k2) <=> WillAdd(login[a], c, k2))
      BY <1>1, <1>2, <1>3, OneLogin
    <2>6. ShownIn(Counted(c, k2), Added(c, k2), events[k2], Ages) /\ events[k2] \in Seq(0..LoginWindow + 1)
      BY <1>0, <2>1 DEF Shown, LimiterTypes
    <2>7. CASE WillAdd(l, c, k2)
      <3>1. k2 = k
        BY <1>1, <2>4, <2>7 DEF Asks
      <3>2. a \notin Added(c, k2) /\ Added(c, k2)' = Added(c, k2) \cup {a} /\ a \in Coming(c, k2) /\ Coming(c, k2)' = Coming(c, k2) \ {a}
        BY <1>1, <1>3, <2>3, <2>4, <2>5, <2>7
      <3>3. ShownIn(Counted(c, k2), Added(c, k2) \cup {a}, Append(events[k2], 0), Ages)
        BY <2>6, <3>2, ShownAppend
      <3>4. Shown(c, k2)'
        BY <1>5, <2>2, <3>1, <3>2, <3>3 DEF Shown
      <3>5. Added(c, k2)' \cup Coming(c, k2)' = Added(c, k2) \cup Coming(c, k2)
        BY <3>2
      <3> QED
        BY <1>1, <2>1, <2>2, <3>4, <3>5, SameBound
    <2>8. CASE ~WillAdd(l, c, k2)
      <3>1. HasAdded(Advance(l), c, k2) <=> HasAdded(l, c, k2)
        BY <1>3, <2>3, <2>4, <2>8
      <3>2. a \in Added(c, k2) <=> HasAdded(Advance(l), c, k2)
        BY <1>1, <2>5, <3>1
      <3>3. Added(c, k2)' = Added(c, k2)
        BY <2>5, <3>2
      <3>4. Coming(c, k2)' = Coming(c, k2)
        BY <1>1, <2>3, <2>5, <2>8
      <3>5. events'[k2] = events[k2] \/ events'[k2] = Append(events[k2], 0)
        BY <1>5
      <3>6. ShownIn(Counted(c, k2), Added(c, k2), Append(events[k2], 0), Ages)
        BY <2>6, ShownAppend
      <3>7. Shown(c, k2)'
        BY <2>2, <2>6, <3>3, <3>5, <3>6 DEF Shown
      <3> QED
        BY <1>1, <2>1, <2>2, <3>3, <3>4, <3>7, SameBound
    <2> QED
      BY <2>7, <2>8
  <1> QED
    BY <1>1, <1>6, <1>7, InRedisEnough

\* A login is answered.
LoginAnswered(a, l, rec) ==
    /\ l \in LoginUnderWay /\ l.pc = "answer" /\ login[a] = l /\ rec \in TriedLogin
    /\ rec.src = l.src /\ rec.user = l.user /\ rec.over = l.over /\ rec.failed = l.failed /\ rec.age = 0
    /\ tried' = Append(tried, rec)
    /\ events' = events \/ events' = ResetSuccess(l.src, l.user, events)
    /\ OneLoginOf(a, NoLogin)
    /\ UNCHANGED <<inRedis, limiterErrors>>

LEMMA AnswerLoginKeeps ==
    ASSUME LimiterInv, NEW a, NEW l, NEW rec, LoginAnswered(a, l, rec)
    PROVE  LimiterInv'
  <1>0. LimiterTypes
    BY DEF LimiterInv
  <1>1. /\ l \in LoginUnderWay /\ l.pc = "answer" /\ login[a] = l /\ a \in Attempts /\ rec \in TriedLogin
        /\ rec.src = l.src /\ rec.user = l.user /\ rec.over = l.over /\ rec.failed = l.failed /\ rec.age = 0
        /\ tried' = Append(tried, rec)
        /\ events' = events \/ events' = ResetSuccess(l.src, l.user, events)
        /\ inRedis /\ inRedis' /\ UNCHANGED <<inRedis, limiterErrors>>
    BY DEF LoginAnswered, OneLoginOf
  <1>2. OneLoginOf(a, NoLogin) /\ login' = [login EXCEPT ![a] = NoLogin] /\ NoLogin.pc = "idle"
    BY DEF LoginAnswered, OneLoginOf, NoLogin
  <1>3. /\ DOMAIN login = Attempts /\ l.src \in Sources /\ l.user \in LoginNames /\ l.step \in 1..3
        /\ l.pc # "idle"
    BY <1>0, <1>1, UnderWayLogin
  <1>4. PICK pair \in CounterKeys : pair = <<"pair", <<l.user, l.src>>>>
    BY <1>3, KeysAre
  <1>5. /\ events' \in [CounterKeys -> Seq(0..LoginWindow + 1)]
        /\ \A k \in CounterKeys : k # pair => events'[k] = events[k]
    <2>1. events \in [CounterKeys -> Seq(0..LoginWindow + 1)] /\ <<>> \in Seq(0..LoginWindow + 1)
      BY <1>0 DEF LimiterTypes
    <2>2. events' = events \/ events' = [events EXCEPT ![pair] = <<>>]
      BY <1>1, <1>4 DEF ResetSuccess
    <2> QED
      BY <2>1, <2>2
  <1>6. /\ tried' \in Seq(TriedLogin) /\ Len(tried') = Len(tried) + 1 /\ Len(tried) \in Nat
    BY <1>0, <1>1 DEF LimiterTypes
  <1>7. LimiterTypes'
    <2>1. DOMAIN login' = Attempts /\ \A b \in Attempts : login'[b] = NoLogin \/ (inRedis' /\ login'[b] \in LoginUnderWay)
      BY <1>0, <1>2, OneLoginTypes
    <2>2. /\ Cardinality(UnderWay') = Cardinality(UnderWay) - 1
          /\ Cardinality(UnderWay) \in Nat /\ Cardinality(UnderWay') \in Nat
      BY <1>0, <1>1, <1>2, <1>3, UnderWayOne
    <2>3. PICK x, y, n : x = Cardinality(UnderWay) /\ y = Cardinality(UnderWay') /\ n = Len(tried')
      OBVIOUS
    <2>4. Len(tried) + x <= MaxAttempts
      BY <1>0, <2>3 DEF LimiterTypes
    <2>5. n + y <= MaxAttempts
      BY <1>6, <2>2, <2>3, <2>4, LimiterConstants
    <2>6. Len(tried') + Cardinality(UnderWay') <= MaxAttempts
      BY <2>3, <2>5
    <2>7. limiterErrors' \in 0..MaxLimiterErrors /\ inRedis' \in BOOLEAN
      BY <1>0, <1>1 DEF LimiterTypes
    <2> QED
      BY <1>5, <1>6, <2>1, <2>6, <2>7 DEF LimiterTypes, NoLogin
  <1>8. ASSUME NEW c \in {1, 3}, NEW k \in CounterKeys, Bounding(c, k)
        PROVE  Shown(c, k)' /\ Bounded(c, k)'
    <2>1. Shown(c, k) /\ Bounded(c, k)
      BY <1>8 DEF LimiterInv
    <2>2. PICK m : m = Len(tried) + 1
      OBVIOUS
    <2>3. /\ m \notin Counted(c, k)
          /\ rec.over = {} /\ c \notin rec.failed /\ KeysOf(rec.src, rec.user)[c] = k
                => Counted(c, k)' = Counted(c, k) \cup {m}
          /\ ~ (rec.over = {} /\ c \notin rec.failed /\ KeysOf(rec.src, rec.user)[c] = k)
                => Counted(c, k)' = Counted(c, k)
          /\ \A n \in Counted(c, k) : Ages'[n] = Ages[n]
          /\ Ages'[m] = 0
      <3>1. LimiterTypes /\ rec \in TriedLogin /\ rec.age = 0 /\ tried' = Append(tried, rec) /\ m = Len(tried) + 1
        BY <1>0, <1>1, <2>2
      <3>2. m \notin Counted(c, k) /\ Ages'[m] = 0 /\ \A n \in Counted(c, k) : Ages'[n] = Ages[n]
        BY <3>1, CountedAppend
      <3>3. PICK counts \in BOOLEAN : counts <=> (rec.over = {} /\ c \notin rec.failed /\ KeysOf(rec.src, rec.user)[c] = k)
        OBVIOUS
      <3>4. (counts => Counted(c, k)' = Counted(c, k) \cup {m}) /\ (~counts => Counted(c, k)' = Counted(c, k))
        BY <3>1, <3>3, CountedAppend
      <3> QED
        BY <3>2, <3>3, <3>4
    <2>4. /\ Added(c, k)' = Added(c, k) \ {a} /\ Coming(c, k)' = Coming(c, k) \ {a}
          /\ (a \in Added(c, k) <=> HasAdded(l, c, k)) /\ a \notin Coming(c, k)
      <3>1. ~HasAdded(NoLogin, c, k) /\ ~WillAdd(NoLogin, c, k) /\ ~WillAdd(l, c, k)
        BY <1>1, <1>2 DEF HasAdded, WillAdd, Asks
      <3>2. /\ Added(c, k)' = IF HasAdded(NoLogin, c, k) THEN Added(c, k) \cup {a} ELSE Added(c, k) \ {a}
            /\ Coming(c, k)' = IF WillAdd(NoLogin, c, k) THEN Coming(c, k) \cup {a} ELSE Coming(c, k) \ {a}
            /\ (a \in Added(c, k) <=> HasAdded(login[a], c, k)) /\ (a \in Coming(c, k) <=> WillAdd(login[a], c, k))
        BY <1>1, <1>2, <1>3, OneLogin
      <3> QED
        BY <1>1, <3>1, <3>2
    <2>5. k # pair
      BY <1>3, <1>4, <1>8, OneStepAsks
    <2>6. events'[k] = events[k] /\ events[k] \in Seq(0..LoginWindow + 1)
      BY <1>0, <1>5, <2>5 DEF LimiterTypes
    <2>7. PICK C, A, B, age, age2 : C = Counted(c, k) /\ A = Added(c, k) /\ B = Coming(c, k) /\ age = Ages /\ age2 = Ages'
      OBVIOUS
    <2>8. ShownIn(C, A, events[k], age)
      BY <2>1, <2>7 DEF Shown
    <2>9. IsFiniteSet(C) /\ Cardinality(C) \in Nat
      BY <2>6, <2>8, ShownCounts
    <2>10. IsFiniteSet(A \cup B) /\ Cardinality(A \cup B) \in Nat
      <3>1. A \cup B \in SUBSET Attempts
        BY <2>7 DEF Added, Coming
      <3> QED
        BY <3>1, AttemptsFinite
    <2>11. Cardinality(C) + Cardinality(A \cup B) <= Limits[c] + Slack /\ Slack' = Slack
      BY <1>1, <2>1, <2>7 DEF Bounded, Slack
    <2>12. Slack \in Int /\ Limits[c] \in Nat
      BY <1>1, SlackIs, LimitsAre, LimiterConstants, FS_CardinalityType
    <2>13. (A \ {a}) \cup (B \ {a}) = (A \cup B) \ {a}
      OBVIOUS
    <2>14. /\ Cardinality((A \cup B) \ {a}) = IF a \in A \cup B THEN Cardinality(A \cup B) - 1 ELSE Cardinality(A \cup B)
      BY <2>10, FS_RemoveElement
    <2>15. CASE rec.over = {} /\ c \notin rec.failed /\ KeysOf(rec.src, rec.user)[c] = k
      <3>1. HasAdded(l, c, k)
        BY <1>1, <2>15 DEF HasAdded, Asks
      <3>2. a \in A /\ m \notin C /\ (\A n \in C : age2[n] = age[n]) /\ age2[m] = 0
        BY <2>3, <2>4, <2>7, <3>1
      <3>3. ShownIn(C \cup {m}, A \ {a}, events[k], age2)
        BY <2>8, <3>2, ShownMoves
      <3>4. Counted(c, k)' = C \cup {m} /\ Added(c, k)' = A \ {a} /\ Coming(c, k)' = B \ {a}
        BY <2>3, <2>4, <2>7, <2>15
      <3>5. Shown(c, k)'
        BY <2>6, <2>7, <3>3, <3>4 DEF Shown
      <3>6. Cardinality(C \cup {m}) = Cardinality(C) + 1
        BY <2>9, <3>2, FS_AddElement
      <3>7. Cardinality((A \cup B) \ {a}) = Cardinality(A \cup B) - 1
        BY <2>14, <3>2
      <3>8. Cardinality(C \cup {m}) + Cardinality((A \cup B) \ {a}) <= Limits[c] + Slack
        BY <2>9, <2>10, <2>11, <2>12, <3>6, <3>7
      <3>9. Bounded(c, k)'
        BY <2>11, <2>13, <3>4, <3>8 DEF Bounded, Limits
      <3> QED
        BY <3>5, <3>9
    <2>16. CASE ~ (rec.over = {} /\ c \notin rec.failed /\ KeysOf(rec.src, rec.user)[c] = k)
      <3>1. Counted(c, k)' = C /\ Added(c, k)' = A \ {a} /\ Coming(c, k)' = B \ {a} /\ \A n \in C : age2[n] = age[n]
        BY <2>3, <2>4, <2>7, <2>16
      <3>2. ShownIn(C, A \ {a}, events[k], age2)
        BY <2>8, <3>1, ShownLess
      <3>3. Shown(c, k)'
        BY <2>6, <2>7, <3>1, <3>2 DEF Shown
      <3>4. Cardinality(C) + Cardinality((A \cup B) \ {a}) <= Limits[c] + Slack
        BY <2>9, <2>10, <2>11, <2>12, <2>14
      <3>5. Bounded(c, k)'
        BY <2>11, <2>13, <3>1, <3>4 DEF Bounded, Limits
      <3> QED
        BY <3>3, <3>5
    <2> QED
      BY <2>15, <2>16
  <1> QED
    BY <1>1, <1>7, <1>8, InRedisEnough

LEMMA LimiterInvNext == LimiterInv /\ [LimiterNext]_limiterVars => LimiterInv'
  <1> SUFFICES ASSUME LimiterInv, [LimiterNext]_limiterVars PROVE LimiterInv'
    OBVIOUS
  <1>0. LimiterTypes
    BY DEF LimiterInv
  <1>1. ASSUME NEW i \in Sources, NEW u \in LoginNames, NEW right \in BOOLEAN, AllowInMemory(i, u, right)
        PROVE  LimiterInv'
    <2>1. LimiterTypes'
      BY <1>0, <1>1, AllowTypes
    <2>2. \A c \in {1, 3}, k \in CounterKeys : Bounding(c, k) => Shown(c, k)' /\ Bounded(c, k)'
      BY <1>1, AllowBounds
    <2>3. PairsHold' /\ MemoryKeepsOthers'
      BY <1>1, AllowPairs
    <2> QED
      BY <2>1, <2>2, <2>3 DEF LimiterInv, Bounding
  <1>2. ASSUME NEW i \in Sources, NEW u \in LoginNames, NEW right \in BOOLEAN, NEW a \in Attempts, BeginRedis(a, i, u, right)
        PROVE  LimiterInv'
    BY <1>2, BeginRedisKeeps
  <1>3. ASSUME NEW a \in Attempts, RateLimitCount(a) PROVE LimiterInv'
    <2>1. PICK l, k, over : /\ l = login[a] /\ k = KeysOf(l.src, l.user)[l.step]
                            /\ over = IF Len(PruneAttempts(events[k])) < Limits[l.step] THEN l.over ELSE l.over \cup {l.step}
      OBVIOUS
    <2>2. PICK failed : failed = l.failed \cup {l.step}
      OBVIOUS
    <2>3. l.pc = "count" /\ l \in LoginUnderWay /\ inRedis /\ inRedis' /\ UNCHANGED <<inRedis, tried>>
      BY <1>0, <1>3, <2>1, UnderWayLogin DEF RateLimitCount
    <2>4. CASE /\ events' = [events EXCEPT ![k] = PruneAttempts(@)]
               /\ login' = [login EXCEPT ![a] = [l EXCEPT !.pc = "add",
                     !.over = IF Len(PruneAttempts(events[k])) < Limits[l.step] THEN @ ELSE @ \cup {l.step}]]
               /\ UNCHANGED limiterErrors
      <3>1. [l EXCEPT !.pc = "add", !.over = IF Len(PruneAttempts(events[k])) < Limits[l.step] THEN @ ELSE @ \cup {l.step}]
            = [l EXCEPT !.pc = "add", !.over = over]
        BY <2>1, <2>3 DEF LoginUnderWay
      <3>2. OneLoginOf(a, [l EXCEPT !.pc = "add", !.over = over])
        BY <2>3, <2>4, <3>1 DEF OneLoginOf
      <3>3. CountedNow(a, l, k, over)
        BY <2>1, <2>3, <2>4, <3>2 DEF CountedNow
      <3> QED
        BY <3>3, CountKeeps
    <2>5. CASE /\ limiterErrors < MaxLimiterErrors /\ limiterErrors' = limiterErrors + 1
               /\ login' = [login EXCEPT ![a] = Advance([l EXCEPT !.failed = @ \cup {l.step}])]
               /\ UNCHANGED events
      <3>1. [l EXCEPT !.failed = @ \cup {l.step}] = [l EXCEPT !.failed = failed]
        BY <2>2, <2>3 DEF LoginUnderWay
      <3>2. OneLoginOf(a, Advance([l EXCEPT !.failed = failed]))
        BY <2>3, <2>5, <3>1 DEF OneLoginOf
      <3>3. NotCounted(a, l, failed)
        BY <2>1, <2>2, <2>3, <2>5, <3>2 DEF NotCounted
      <3> QED
        BY <3>3, NotCountedKeeps
    <2> QED
      BY <1>3, <2>1, <2>4, <2>5 DEF RateLimitCount
  <1>4. ASSUME NEW a \in Attempts, RateLimitAdd(a) PROVE LimiterInv'
    <2>1. PICK l, k : l = login[a] /\ k = KeysOf(l.src, l.user)[l.step]
      OBVIOUS
    <2>2. /\ l.pc = "add" /\ l \in LoginUnderWay /\ inRedis /\ inRedis' /\ UNCHANGED <<inRedis, tried, limiterErrors>>
          /\ events' = [events EXCEPT ![k] = Append(@, 0)] /\ login' = [login EXCEPT ![a] = Advance(l)]
      BY <1>0, <1>4, <2>1, UnderWayLogin DEF RateLimitAdd
    <2>3. AddedNow(a, l, k)
      BY <2>1, <2>2 DEF AddedNow, OneLoginOf
    <2> QED
      BY <2>3, AddKeeps
  <1>5. ASSUME NEW a \in Attempts, AnswerLogin(a) PROVE LimiterInv'
    <2>1. PICK l : l = login[a]
      OBVIOUS
    <2>2. PICK rec : rec = [src |-> l.src, user |-> l.user, age |-> 0, over |-> l.over, right |-> l.right, failed |-> l.failed]
      OBVIOUS
    <2>3. /\ l.pc = "answer" /\ l \in LoginUnderWay /\ inRedis /\ inRedis' /\ UNCHANGED <<inRedis, limiterErrors>>
          /\ events' = events \/ events' = ResetSuccess(l.src, l.user, events)
          /\ Remember(l.src, l.user, l.over, l.right, l.failed) /\ login' = [login EXCEPT ![a] = NoLogin]
      BY <1>0, <1>5, <2>1, UnderWayLogin DEF AnswerLogin
    <2>4. tried' = Append(tried, rec)
      BY <2>2, <2>3 DEF Remember
    <2>5. 0 \in 0..LoginWindow + 1
      BY LimiterConstants
    <2>6. rec \in TriedLogin
      BY <2>2, <2>3, <2>5 DEF TriedLogin, LoginUnderWay
    <2>7. rec.src = l.src /\ rec.user = l.user /\ rec.over = l.over /\ rec.failed = l.failed /\ rec.age = 0
      BY <2>2
    <2>8. LoginAnswered(a, l, rec)
      BY <2>1, <2>3, <2>4, <2>6, <2>7 DEF LoginAnswered, OneLoginOf
    <2> QED
      BY <2>8, AnswerLoginKeeps
  <1>6. CASE LimiterTick
    BY <1>6, LimiterTickKeeps
  <1>7. CASE CleanupLimiter
    BY <1>7, CleanupLimiterKeeps
  <1>8. CASE UNCHANGED limiterVars
    <2>1. UNCHANGED <<inRedis, events, login, tried, limiterErrors>>
      BY <1>8 DEF limiterVars
    <2>2. LimiterTypes'
      BY <1>0, <2>1 DEF LimiterTypes, UnderWay, NoLogin
    <2>3. PairsHold' /\ MemoryKeepsOthers'
      <3>1. PairsHold /\ MemoryKeepsOthers
        BY DEF LimiterInv
      <3>2. PairsHold'
        <4>1. ASSUME ~inRedis, NEW i \in Sources, NEW u \in LoginNames PROVE PairHolds(i, u)'
          <5>1. PairHolds(i, u)
            BY <3>1, <4>1, PairsAre
          <5> QED
            BY <2>1, <5>1 DEF PairHolds, PairKey, UserKey, OnlyWrongFrom
        <4> QED
          BY <2>1, <4>1 DEF PairsHold, PairHolds, PairKey, UserKey
      <3>3. MemoryKeepsOthers'
        BY <2>1, <3>1 DEF MemoryKeepsOthers, LockedOut
      <3> QED
        BY <3>2, <3>3
    <2>4. ASSUME NEW c \in {1, 3}, NEW k \in CounterKeys, Bounding(c, k) PROVE Shown(c, k)' /\ Bounded(c, k)'
      <3>1. Shown(c, k) /\ Bounded(c, k)
        BY <2>4 DEF LimiterInv
      <3>2. Counted(c, k)' = Counted(c, k) /\ Ages' = Ages
        BY <2>1, CountedUnchanged
      <3>3. Added(c, k)' = Added(c, k) /\ Coming(c, k)' = Coming(c, k)
        BY <2>1 DEF Added, Coming, HasAdded, WillAdd, Asks, KeysOf
      <3> QED
        BY <2>1, <3>1, <3>2, <3>3, SameBound DEF Shown
    <2> QED
      BY <2>2, <2>3, <2>4 DEF LimiterInv, Bounding
  <1> QED
    BY <1>1, <1>2, <1>3, <1>4, <1>5, <1>6, <1>7, <1>8 DEF LimiterNext

\* What the invariant says of the properties.
LEMMA LimiterMeans == LimiterInv => LimiterTypeOK /\ LoginsBounded /\ MemoryKeepsOthers
  <1> SUFFICES ASSUME LimiterInv PROVE LimiterTypeOK /\ LoginsBounded
    BY DEF LimiterInv
  <1>0. LimiterTypes
    BY DEF LimiterInv
  <1>1. LimiterTypeOK
    <2>1. \A a \in Attempts : login[a].pc \in {"idle", "count", "add", "answer"}
      BY <1>0 DEF LimiterTypes, NoLogin, LoginUnderWay
    <2>2. UnderWay \in SUBSET Attempts
      BY DEF UnderWay
    <2>3. Cardinality(UnderWay) \in Nat /\ Len(tried) \in Nat /\ Len(tried) + Cardinality(UnderWay) <= MaxAttempts
      BY <1>0, <2>2, AttemptsFinite, LenProperties DEF LimiterTypes
    <2>4. Len(tried) <= MaxAttempts
      BY <2>3, LimiterConstants
    <2> QED
      BY <1>0, <2>1, <2>4 DEF LimiterTypeOK, LimiterTypes
  <1>2. ASSUME NEW c \in {1, 3}, NEW k \in CounterKeys, Bounding(c, k)
        PROVE  Cardinality(Counted(c, k)) <= Limits[c] + Slack
    <2>1. Shown(c, k) /\ Bounded(c, k)
      BY <1>2 DEF LimiterInv
    <2>2. Added(c, k) \cup Coming(c, k) \in SUBSET Attempts
      BY DEF Added, Coming
    <2>3. Cardinality(Added(c, k) \cup Coming(c, k)) \in Nat
      BY <2>2, AttemptsFinite
    <2>4. Cardinality(Counted(c, k)) \in Nat
      BY <1>0, <2>1, ShownCounts DEF Shown, LimiterTypes
    <2>5. Slack \in Int /\ Limits[c] \in Nat
      BY <1>0, SlackIs, LimitsAre, LimiterConstants, FS_CardinalityType DEF LimiterTypes
    <2> QED
      BY <2>1, <2>3, <2>4, <2>5 DEF Bounded
  <1>3. \A n \in DOMAIN tried : tried[n].src \in Sources /\ tried[n].user \in LoginNames
    <2>1. \A n \in DOMAIN tried : tried[n] \in TriedLogin
      BY <1>0 DEF LimiterTypes
    <2> QED
      BY <2>1 DEF TriedLogin
  <1>4. ASSUME NEW i \in Sources
        PROVE  Cardinality({n \in Admitted(1) : tried[n].src = i}) <= IpLimit + Slack
    <2>1. PICK k \in CounterKeys : k = <<"ip", i>>
      BY DEF CounterKeys
    <2>2. Bounding(1, k)
      BY <2>1 DEF Bounding
    <2>3. Counted(1, k) = {n \in Admitted(1) : tried[n].src = i}
      BY <2>1 DEF Counted, KeysOf
    <2>4. Cardinality(Counted(1, k)) <= Limits[1] + Slack
      BY <1>2, <2>2
    <2> QED
      BY <2>3, <2>4, LimitsAre
  <1>5. ASSUME NEW u \in LoginNames
        PROVE  Cardinality({n \in Admitted(3) : tried[n].user = u}) <= UserGlobalLimit + Slack
    <2>1. PICK k \in CounterKeys : k = <<"user", u>>
      BY DEF CounterKeys
    <2>2. Bounding(3, k)
      BY <2>1 DEF Bounding
    <2>3. Counted(3, k) = {n \in Admitted(3) : tried[n].user = u}
      BY <2>1 DEF Counted, KeysOf
    <2>4. Cardinality(Counted(3, k)) <= Limits[3] + Slack
      BY <1>2, <2>2
    <2> QED
      BY <2>3, <2>4, LimitsAre
  <1> QED
    BY <1>1, <1>4, <1>5 DEF LoginsBounded

\* No address and no username gets more attempts through in a window than its
\* limit, in Redis at most one more per login beside it; in memory one address
\* never locks a user out for the others; and forgetting idle clients lets nobody
\* through whom a bucket kept for ever would refuse (login_limiter.go,
\* rate_limiter.go, middleware.go).
THEOREM LoginLimiterSafeAlways == LimiterSpec /\ RequestSpec => []LoginLimiterSafe
  <1>1. LimiterSpec => []LimiterInv
    BY LimiterInvInit, LimiterInvNext, PTL DEF LimiterSpec
  <1>2. RequestSpec => []RequestInv
    BY RequestInvInit, RequestInvNext, PTL DEF RequestSpec
  <1>3. LimiterInv /\ RequestInv => LoginLimiterSafe
    BY LimiterMeans, RequestsMean DEF LoginLimiterSafe
  <1> QED
    BY <1>1, <1>2, <1>3, PTL
=============================================================================
