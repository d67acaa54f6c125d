---------------------------- MODULE LoginLimiter ----------------------------
(***************************************************************************)
(* internal/auth/login_limiter.go and RateLimit of                         *)
(* internal/cache/rate_limiter.go: login attempts are counted per address, *)
(* per user and address, and per user, in sliding windows kept in memory   *)
(* or in Redis.                                                            *)
(*                                                                         *)
(* In memory an attempt is one critical section.  In Redis it is three     *)
(* pipelines, and the count and the insert of a pipeline are separate      *)
(* commands between which those of another login may run.  Two attempts    *)
(* never have the same microsecond, the member of the sorted set.          *)
(*                                                                         *)
(* Without Redis the requests of an address (server/middleware.go) and of  *)
(* a user or API key (auth/middleware.go) are limited by token buckets,    *)
(* forgotten when they have been idle: a specification of its own.         *)
(***************************************************************************)
EXTENDS Integers, Sequences, FiniteSets

CONSTANTS
    Sources,      \* client addresses
    LoginNames,   \* usernames
    Attempts,     \* login requests that may be under way together
    IpLimit, UserLimit, UserGlobalLimit,
    LoginWindow,  \* ticks of a minute
    MaxAttempts,  \* bound: attempts
    MaxLimiterErrors, \* bound: failing calls to Redis
    Burst, RefillPerTick, \* of a token bucket
    IdleLimit     \* ticks after which an idle bucket may be forgotten (5 min)

ASSUME LoginLimiterAssumption ==
    /\ {IpLimit, UserLimit, UserGlobalLimit, LoginWindow} \subseteq Nat \ {0}
    /\ {MaxAttempts, MaxLimiterErrors} \subseteq Nat
    /\ {Burst, RefillPerTick, IdleLimit} \subseteq Nat \ {0}
    /\ UserLimit < UserGlobalLimit   \* 5 and 30
    /\ IsFiniteSet(Attempts)
    \* 100/s and 200, 5000/h and 100, 10000/h and 200 against 5 minutes
    /\ Burst <= RefillPerTick * IdleLimit

VARIABLES
    inRedis,   \* the counters are in Redis
    events,    \* per key, the ages of the recorded attempts
    login,     \* the attempts under way
    tried,     \* the finished attempts (history)
    limiterErrors

limiterVars == <<inRedis, events, login, tried, limiterErrors>>

CounterKeys == ({"ip"} \X Sources) \cup ({"pair"} \X (LoginNames \X Sources)) \cup ({"user"} \X LoginNames)

KeysOf(i, u) == << <<"ip", i>>, <<"pair", <<u, i>>>>, <<"user", u>> >>
Limits == <<IpLimit, UserLimit, UserGlobalLimit>>

\* over: the counters found at their limit; failed: those that could not be asked.
NoLogin == [pc |-> "idle", step |-> 0, over |-> {}, failed |-> {}]

LimiterTypeOK ==
    /\ inRedis \in BOOLEAN
    /\ \A k \in CounterKeys : events[k] \in Seq(0..LoginWindow + 1)
    /\ \A a \in Attempts : login[a].pc \in {"idle", "count", "add", "answer"}
    /\ limiterErrors \in 0..MaxLimiterErrors /\ Len(tried) <= MaxAttempts

LimiterInit ==
    /\ inRedis \in BOOLEAN
    /\ events = [k \in CounterKeys |-> <<>>]
    /\ login = [a \in Attempts |-> NoLogin]
    /\ tried = <<>> /\ limiterErrors = 0

UnderWay == {a \in Attempts : login[a].pc # "idle"}

\* What is left of es from the first position in kept on.
FromFirst(es, kept) ==
    IF kept = {} THEN <<>> ELSE SubSeq(es, CHOOSE n \in kept : \A m \in kept : n <= m, Len(es))

\* Seeded fault: the window is a tick too short.
PruneAttemptsEarly(es) == FromFirst(es, {n \in 1..Len(es) : es[n] < LoginWindow - 1})

\* prune drops what is older than the window, up to the first attempt that is
\* not; Redis also drops what is exactly as old.
PruneAttempts(es) ==
    FromFirst(es, {n \in 1..Len(es) : es[n] < LoginWindow \/ (~inRedis /\ es[n] = LoginWindow)})

\* What is remembered of an attempt: the counters that stopped it, whether the
\* password was right, and the counters that could not be asked.
Remember(i, u, over, right, failed) ==
    tried' = Append(tried, [src |-> i, user |-> u, age |-> 0, over |-> over, right |-> right, failed |-> failed])

\* ResetSuccess forgets the attempts of this user from this address.
ResetSuccess(i, u, es) == [es EXCEPT ![<<"pair", <<u, i>>>>] = <<>>]

\* allowInMemory: only an attempt that is let through is recorded; a right
\* password then resets the pair.  (A counter behind the one that stops it is
\* not looked at; here it is pruned, as it is whenever it is next counted.)
AllowInMemory(i, u, right) ==
    /\ ~inRedis /\ Len(tried) + Cardinality(UnderWay) < MaxAttempts
    /\ LET ks == KeysOf(i, u)
           asked == {ks[n] : n \in 1..3}
           now == [k \in CounterKeys |-> IF k \in asked THEN PruneAttempts(events[k]) ELSE events[k]]
           over == {n \in 1..3 : Len(now[ks[n]]) >= Limits[n]}
           counted == [k \in CounterKeys |-> IF k \in asked THEN Append(now[k], 0) ELSE now[k]]
       IN /\ events' = IF over # {} THEN now ELSE IF right THEN ResetSuccess(i, u, counted) ELSE counted
          /\ Remember(i, u, over, right, {})
    /\ UNCHANGED <<inRedis, login, limiterErrors>>

\* allowRedis begins.
BeginRedis(a, i, u, right) ==
    /\ inRedis /\ login[a].pc = "idle" /\ Len(tried) + Cardinality(UnderWay) < MaxAttempts
    /\ login' = [login EXCEPT ![a] = [pc |-> "count", step |-> 1, over |-> {}, failed |-> {},
                                      src |-> i, user |-> u, right |-> right]]
    /\ UNCHANGED <<inRedis, events, tried, limiterErrors>>

Advance(l) == IF l.step = 3 THEN [l EXCEPT !.pc = "answer"] ELSE [l EXCEPT !.pc = "count", !.step = @ + 1]

\* RateLimit drops the old attempts and counts; on an error the attempt is
\* let through.
RateLimitCount(a) ==
    /\ login[a].pc = "count"
    /\ LET l == login[a] k == KeysOf(l.src, l.user)[l.step]
       IN \/ /\ events' = [events EXCEPT ![k] = PruneAttempts(@)]
             /\ login' = [login EXCEPT ![a] = [l EXCEPT !.pc = "add",
                  !.over = IF Len(PruneAttempts(events[k])) < Limits[l.step] THEN @ ELSE @ \cup {l.step}]]
             /\ UNCHANGED limiterErrors
          \/ /\ limiterErrors < MaxLimiterErrors /\ limiterErrors' = limiterErrors + 1
             /\ login' = [login EXCEPT ![a] = Advance([l EXCEPT !.failed = @ \cup {l.step}])]
             /\ UNCHANGED events
    /\ UNCHANGED <<inRedis, tried>>

\* ... and adds this one, let through or not.
RateLimitAdd(a) ==
    /\ login[a].pc = "add"
    /\ LET l == login[a]
       IN /\ events' = [events EXCEPT ![KeysOf(l.src, l.user)[l.step]] = Append(@, 0)]
          /\ login' = [login EXCEPT ![a] = Advance(l)]
    /\ UNCHANGED <<inRedis, tried, limiterErrors>>

AnswerLogin(a) ==
    /\ login[a].pc = "answer"
    /\ LET l == login[a]
       IN /\ Remember(l.src, l.user, l.over, l.right, l.failed)
          /\ events' = IF l.over = {} /\ l.right
                       THEN ResetSuccess(l.src, l.user, events) ELSE events
    /\ login' = [login EXCEPT ![a] = NoLogin]
    /\ UNCHANGED <<inRedis, limiterErrors>>

\* A tick: every attempt grows older.  (A login takes at most two seconds.)
LimiterTick ==
    /\ UnderWay = {} /\ \E k \in CounterKeys : events[k] # <<>>
    /\ events' = [k \in CounterKeys |-> [n \in DOMAIN events[k] |->
                    IF events[k][n] > LoginWindow THEN LoginWindow + 1 ELSE events[k][n] + 1]]
    /\ tried' = [n \in DOMAIN tried |-> [tried[n] EXCEPT !.age = IF @ > LoginWindow THEN @ ELSE @ + 1]]
    /\ UNCHANGED <<inRedis, login, limiterErrors>>

\* cleanupLoop prunes and forgets empty counters.
CleanupLimiter ==
    /\ ~inRedis
    /\ events' = [k \in CounterKeys |-> PruneAttempts(events[k])]
    /\ UNCHANGED <<inRedis, login, tried, limiterErrors>>

LimiterNext ==
    \/ \E i \in Sources, u \in LoginNames, right \in BOOLEAN :
          \/ AllowInMemory(i, u, right)
          \/ \E a \in Attempts : BeginRedis(a, i, u, right)
    \/ \E a \in Attempts : RateLimitCount(a) \/ RateLimitAdd(a) \/ AnswerLogin(a)
    \/ LimiterTick \/ CleanupLimiter

LimiterSpec == LimiterInit /\ [][LimiterNext]_limiterVars

-----------------------------------------------------------------------------
(***************************************************************************)
(* The request limiters in memory.                                         *)
(***************************************************************************)
Clients == Sources \cup LoginNames

VARIABLES
    bucket,    \* per address and per user: [known, tokens, idle], the rateLimitClient
    allowance  \* what a bucket that is never forgotten would hold (history)

requestVars == <<bucket, allowance>>

RequestTypeOK ==
    /\ bucket \in [Clients -> [known : BOOLEAN, tokens : 0..Burst, idle : 0..IdleLimit + 1]]
    /\ allowance \in [Clients -> Int]

NoBucket == [known |-> FALSE, tokens |-> 0, idle |-> 0]

RequestInit == bucket = [c \in Clients |-> NoBucket] /\ allowance = [c \in Clients |-> Burst]

\* A new client has a full bucket; Allow takes a token, or refuses.
TokensOf(b) == IF b.known THEN b.tokens ELSE Burst
Spend(b) == [known |-> TRUE, idle |-> 0, tokens |-> IF TokensOf(b) > 0 THEN TokensOf(b) - 1 ELSE 0]

inMemoryRateLimiter(src, bs) == [bs EXCEPT ![src] = Spend(@)]
inMemoryUserRateLimiter(user, bs) == [bs EXCEPT ![user] = Spend(@)]

\* A request passes the limiter of its address and then, if it is signed in,
\* that of its user.
ServeRequest(src, users) ==
    LET first == TokensOf(bucket[src]) > 0
        asked == {src} \cup IF first THEN users ELSE {}
    IN /\ bucket' = IF ~first \/ users = {} THEN inMemoryRateLimiter(src, bucket)
                    ELSE inMemoryUserRateLimiter(CHOOSE u \in users : TRUE, inMemoryRateLimiter(src, bucket))
       /\ allowance' = [c \in Clients |-> IF c \in asked /\ TokensOf(bucket[c]) > 0
                                           THEN allowance[c] - 1 ELSE allowance[c]]

Refill(tokens) == IF tokens + RefillPerTick > Burst THEN Burst ELSE tokens + RefillPerTick

RequestTick ==
    /\ bucket' = [c \in Clients |-> IF bucket[c].known
                     THEN [bucket[c] EXCEPT !.tokens = Refill(@), !.idle = IF @ > IdleLimit THEN @ ELSE @ + 1]
                     ELSE NoBucket]
    /\ allowance' = [c \in Clients |-> Refill(allowance[c])]

\* The clean-up of either limiter, every three minutes.
ForgetIdle(clients) ==
    /\ bucket' = [c \in Clients |-> IF c \in clients /\ bucket[c].idle > IdleLimit THEN NoBucket ELSE bucket[c]]
    /\ UNCHANGED allowance

RequestNext ==
    \/ \E src \in Sources : ServeRequest(src, {}) \/ \E u \in LoginNames : ServeRequest(src, {u})
    \/ RequestTick
    \/ ForgetIdle(Sources) \/ ForgetIdle(LoginNames)

RequestSpec == RequestInit /\ [][RequestNext]_requestVars

-----------------------------------------------------------------------------
(***************************************************************************)
(* Properties.                                                             *)
(***************************************************************************)
Within(n) == tried[n].age < LoginWindow
Admitted(c) == {n \in DOMAIN tried : tried[n].over = {} /\ Within(n) /\ c \notin tried[n].failed}

\* Logins that count at the same time do not see each other.
Slack == IF inRedis THEN Cardinality(Attempts) - 1 ELSE 0

\* No address and no username gets more attempts through in a window than
\* its limit; in Redis at most one more per login that ran beside it
\* (login_limiter.go:14-22, rate_limiter.go:14-37).
LoginsBounded ==
    /\ \A i \in Sources : Cardinality({n \in Admitted(1) : tried[n].src = i}) <= IpLimit + Slack
    /\ \A u \in LoginNames :
          Cardinality({n \in Admitted(3) : tried[n].user = u}) <= UserGlobalLimit + Slack

\* A login of u from a new address is refused for u's sake although every
\* recent attempt on u was a failure from one other address.
LockedOut(n) ==
    LET before == {m \in 1..(n - 1) : tried[m].user = tried[n].user}
    IN /\ tried[n].over # {} /\ 1 \notin tried[n].over /\ before # {}
       /\ \A m \in before : /\ ~tried[m].right /\ tried[m].src # tried[n].src
                            /\ \A k \in before : tried[m].src = tried[k].src

\* "... so one source can't lock a user out for everyone else"
\* (login_limiter.go:17-18), with the counters in memory.
MemoryKeepsOthers == ~inRedis => \A n \in DOMAIN tried : ~LockedOut(n)

\* Forgetting idle clients lets nobody through whom a bucket that is kept for
\* ever would have refused (middleware.go:140-157, auth/middleware.go:167-184).
ForgettingGivesNothing == \A c \in Clients : allowance[c] >= 0

\* The limiters bound the attempts of a window and the requests of a client,
\* and with the counters in memory one address never locks a user out for the
\* others (login_limiter.go, middleware.go).
LoginLimiterSafe ==
    /\ LimiterTypeOK /\ RequestTypeOK
    /\ ForgettingGivesNothing
    /\ LoginsBounded
    /\ MemoryKeepsOthers
=============================================================================
