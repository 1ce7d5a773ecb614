--------------------------- MODULE Authentication ---------------------------
(***************************************************************************)
(* Access tokens: middlewares/Authenticate.ts, the token's life            *)
(* (services/TokenService.ts), the blacklist that logout and revokeSession *)
(* write, and the cache of users with the handlers that change an account. *)
(*                                                                         *)
(* The database and Redis are shared by all replicas.  Each await ends a   *)
(* step.  A Redis command may fail, and while Redis cannot be reached it   *)
(* either fails or waits in the client's queue for the connection to come  *)
(* back: RedisService.ts leaves the client's default.                      *)
(*                                                                         *)
(* JWT times are whole seconds and Redis counts milliseconds, so the clock *)
(* ticks TicksPerSecond times a second.  Deadlines are kept as the ticks   *)
(* left until them, so time has no bound.                                  *)
(***************************************************************************)
EXTENDS Integers

CONSTANTS
    Users, Sids, Requests, None,
    UserOf,             \* the user each session belongs to
    TicksPerSecond,
    ACCESS_TOKEN_TTL_SECONDS,
    CacheSeconds        \* EX of the cached user, 60 in the code

ASSUME AuthenticationAssumption ==
    /\ None \notin Users \union Sids
    /\ UserOf \in [Sids -> Users]
    /\ TicksPerSecond \in Nat \ {0}
    /\ ACCESS_TOKEN_TTL_SECONDS \in Nat \ {0}
    /\ CacheSeconds \in Nat \ {0}

VARIABLES
    phase,      \* ticks since the second began
    up,         \* Redis can be reached
    life,       \* ticks until the exp of each session's access token, 0 if
                \* it has expired or no token was signed
    blacklist,  \* ticks until Redis drops the key blacklist:<sid>, 0 if gone
    ended,      \* history: sessions whose blacklisting Redis acknowledged
                \* before their token expired
    account,    \* the User row: its disabled and isVerified columns
    cache,      \* user:<id> in Redis: the row cached and the ticks until it
                \* is dropped, 0 if gone
    unsettled,  \* history: ticks until the cache's life has passed since the
                \* row last changed, or Redis came back
    pc,         \* the await each request is at
    sid,        \* the session a request presents, or blacklists
    route,      \* "verify" for the /auth/verify routes, else "other"
    seen,       \* the row a request has read
    arg         \* seconds to blacklist for, or the user to drop from the cache

redis == <<blacklist, cache>>
shared == <<life, redis, ended, account, unsettled>>
locals == <<sid, route, seen, arg>>
vars == <<phase, up, life, redis, ended, account, unsettled, pc, locals>>

UserRows == [disabled : BOOLEAN, verified : BOOLEAN]

\* Awaits of Authenticate, then of the handlers.
Waits == {"idle", "blacklist", "cache", "db", "fill", "admitted", "write", "invalidate"}

Ticks(seconds) == seconds * TicksPerSecond
CacheLife == Ticks(CacheSeconds)
Left(n) == IF n = 0 THEN 0 ELSE n - 1

\* Mutant: the time left is passed in Redis' milliseconds.
RemainingMutant(s) == life[s] * TicksPerSecond

\* RefreshTokenService.logout: Math.floor(exp - Date.now() / 1000), rounded
\* down whatever the fraction of the current second.
Remaining(s) == life[s] \div TicksPerSecond

Blacklisted(s) == blacklist[s] > 0
Cached(u) == cache[u].left > 0

Init ==
    /\ phase = 0
    /\ up = TRUE
    /\ life = [s \in Sids |-> 0]
    /\ blacklist = [s \in Sids |-> 0]
    /\ ended = {}
    /\ account \in [Users -> {[disabled |-> FALSE, verified |-> v] : v \in BOOLEAN}]
    /\ cache = [u \in Users |-> [row |-> None, left |-> 0]]
    /\ unsettled = [u \in Users |-> 0]
    /\ pc = [r \in Requests |-> "idle"]
    /\ sid = [r \in Requests |-> None]
    /\ route = [r \in Requests |-> "other"]
    /\ seen = [r \in Requests |-> None]
    /\ arg = [r \in Requests |-> None]

Finish(r) ==
    /\ pc' = [pc EXCEPT ![r] = "idle"]
    /\ sid' = [sid EXCEPT ![r] = None]
    /\ route' = [route EXCEPT ![r] = "other"]
    /\ seen' = [seen EXCEPT ![r] = None]
    /\ arg' = [arg EXCEPT ![r] = None]

Goto(r, wait) == pc' = [pc EXCEPT ![r] = wait]

-----------------------------------------------------------------------------
(* Authenticate.                                                           *)

\* signAccessToken at a login or a refresh: iat and exp are whole seconds.
\* The name s is free for a new session once nothing is left of the last.
Issue(s) ==
    /\ life[s] = 0 /\ ~Blacklisted(s)
    /\ \A r \in Requests : sid[r] # s
    /\ life' = [life EXCEPT ![s] = Ticks(ACCESS_TOKEN_TTL_SECONDS) - phase]
    /\ UNCHANGED <<phase, up, redis, ended, account, unsettled, pc, locals>>

\* verifyAccessToken refuses a token from the second of its exp on.
Begin(r, s, way) ==
    /\ pc[r] = "idle"
    /\ life[s] > 0
    /\ Goto(r, "blacklist")
    /\ sid' = [sid EXCEPT ![r] = s]
    /\ route' = [route EXCEPT ![r] = way]
    /\ UNCHANGED <<phase, up, life, redis, ended, account, unsettled, seen, arg>>

\* The key is in Redis: 401.
RefuseBlacklisted(r) ==
    /\ pc[r] = "blacklist"
    /\ up
    /\ Blacklisted(sid[r])
    /\ Finish(r)
    /\ UNCHANGED <<phase, up, shared>>

PassBlacklist(r) ==
    /\ pc[r] = "blacklist"
    /\ up
    /\ ~Blacklisted(sid[r])
    /\ Goto(r, "cache")
    /\ UNCHANGED <<phase, up, shared, locals>>

\* The command fails: the check fails open.
BlacklistFailsOpen(r) ==
    /\ pc[r] = "blacklist"
    /\ Goto(r, "cache")
    /\ UNCHANGED <<phase, up, shared, locals>>

\* What the middleware does, in one go, with the user it ended up with.
Admits(r, row) == ~row.disabled /\ (row.verified \/ route[r] = "verify")

Decide(r, row) ==
    \/ /\ Admits(r, row)
       /\ Goto(r, "admitted")
       /\ seen' = [seen EXCEPT ![r] = row]
       /\ UNCHANGED <<sid, route, arg>>
    \/ /\ ~Admits(r, row)
       /\ Finish(r)

\* Mutant: each hit renews the entry.
CacheHitMutant(r) ==
    /\ pc[r] = "cache"
    /\ up
    /\ Cached(UserOf[sid[r]])
    /\ cache' = [cache EXCEPT ![UserOf[sid[r]]].left = CacheLife]
    /\ Decide(r, cache[UserOf[sid[r]]].row)
    /\ UNCHANGED <<phase, up, life, blacklist, ended, account, unsettled>>

CacheHit(r) ==
    /\ pc[r] = "cache"
    /\ up
    /\ Cached(UserOf[sid[r]])
    /\ Decide(r, cache[UserOf[sid[r]]].row)
    /\ UNCHANGED <<phase, up, shared>>

CacheMiss(r) ==
    /\ pc[r] = "cache"
    /\ up
    /\ ~Cached(UserOf[sid[r]])
    /\ Goto(r, "db")
    /\ UNCHANGED <<phase, up, shared, locals>>

\* The command fails, as if there were no entry.
CacheFails(r) ==
    /\ pc[r] = "cache"
    /\ Goto(r, "db")
    /\ UNCHANGED <<phase, up, shared, locals>>

ReadUser(r) ==
    /\ pc[r] = "db"
    /\ seen' = [seen EXCEPT ![r] = account[UserOf[sid[r]]]]
    /\ Goto(r, "fill")
    /\ UNCHANGED <<phase, up, shared, sid, route, arg>>

\* The cache is filled with the row as it was read, disabled or not.
FillCache(r) ==
    /\ pc[r] = "fill"
    /\ up
    /\ cache' = [cache EXCEPT ![UserOf[sid[r]]] =
            [row |-> seen[r], left |-> CacheLife]]
    /\ Decide(r, seen[r])
    /\ UNCHANGED <<phase, up, life, blacklist, ended, account, unsettled>>

FillFails(r) ==
    /\ pc[r] = "fill"
    /\ Decide(r, seen[r])
    /\ UNCHANGED <<phase, up, shared>>

-----------------------------------------------------------------------------
(* The handlers of an admitted request.                                    *)

\* A handler that changes nothing modelled here.
Serve(r) ==
    /\ pc[r] = "admitted"
    /\ Finish(r)
    /\ UNCHANGED <<phase, up, shared>>

\* RefreshTokenService.logout, its row already revoked.  A token with less
\* than a second to live is not blacklisted.
Logout(r) ==
    /\ pc[r] = "admitted"
    /\ route[r] = "other"
    /\ Remaining(sid[r]) > 0
    /\ arg' = [arg EXCEPT ![r] = Remaining(sid[r])]
    /\ Goto(r, "write")
    /\ UNCHANGED <<phase, up, shared, sid, route, seen>>

\* Mutant: another session is blacklisted for what is left of the caller's token.
RevokeSessionMutant(r, target) ==
    /\ pc[r] = "admitted"
    /\ route[r] = "other"
    /\ UserOf[target] = UserOf[sid[r]]
    /\ Remaining(sid[r]) > 0
    /\ arg' = [arg EXCEPT ![r] = Remaining(sid[r])]
    /\ sid' = [sid EXCEPT ![r] = target]
    /\ Goto(r, "write")
    /\ UNCHANGED <<phase, up, shared, route, seen>>

\* RefreshTokenService.revokeSession of a session of the same user.
RevokeSession(r, target) ==
    /\ pc[r] = "admitted"
    /\ route[r] = "other"
    /\ UserOf[target] = UserOf[sid[r]]
    /\ LET ttl == IF target = sid[r] THEN Remaining(target)
                                     ELSE ACCESS_TOKEN_TTL_SECONDS
       IN  /\ ttl > 0
           /\ arg' = [arg EXCEPT ![r] = ttl]
    /\ sid' = [sid EXCEPT ![r] = target]
    /\ Goto(r, "write")
    /\ UNCHANGED <<phase, up, shared, route, seen>>

WriteBlacklist(r) ==
    /\ pc[r] = "write"
    /\ up
    /\ blacklist' = [blacklist EXCEPT ![sid[r]] = Ticks(arg[r])]
    /\ ended' = ended \union {s \in {sid[r]} : life[s] > 0}
    /\ Finish(r)
    /\ UNCHANGED <<phase, up, life, cache, account, unsettled>>

\* The new row of u, with the history of its last change.
SetAccount(u, row) ==
    /\ account' = [account EXCEPT ![u] = row]
    /\ unsettled' = [unsettled EXCEPT ![u] = IF row = account[u] THEN @ ELSE CacheLife]

\* verifyEmail: no command to Redis follows.
VerifyEmail(r) ==
    /\ pc[r] = "admitted"
    /\ route[r] = "verify"
    /\ ~seen[r].verified
    /\ SetAccount(UserOf[sid[r]], [account[UserOf[sid[r]]] EXCEPT !.verified = TRUE])
    /\ Finish(r)
    /\ UNCHANGED <<phase, up, life, redis, ended>>

\* An administrator's disableUser and the user's own resetPassword, each in
\* a request of its own: the update, then the key is deleted.
ChangeDisabled(r, u, flag) ==
    /\ pc[r] = "idle"
    /\ SetAccount(u, [account[u] EXCEPT !.disabled = flag])
    /\ arg' = [arg EXCEPT ![r] = u]
    /\ Goto(r, "invalidate")
    /\ UNCHANGED <<phase, up, life, redis, ended, sid, route, seen>>

DisableUser(r, u) == ChangeDisabled(r, u, TRUE)
ResetPassword(r, u) == ChangeDisabled(r, u, FALSE)

\* LoginRateLimiter's handler disables an account and sends Redis nothing.
LockAccount(u) ==
    /\ ~account[u].disabled
    /\ SetAccount(u, [account[u] EXCEPT !.disabled = TRUE])
    /\ UNCHANGED <<phase, up, life, redis, ended, pc, locals>>

DropCached(r) ==
    /\ pc[r] = "invalidate"
    /\ up
    /\ cache' = [cache EXCEPT ![arg[r]] = [row |-> None, left |-> 0]]
    /\ Finish(r)
    /\ UNCHANGED <<phase, up, life, blacklist, ended, account, unsettled>>

\* The Redis command of logout, revokeSession, disableUser or resetPassword
\* fails, which each of them survives, or the process dies.
Abandon(r) ==
    /\ pc[r] \in {"write", "invalidate"}
    /\ Finish(r)
    /\ UNCHANGED <<phase, up, shared>>

-----------------------------------------------------------------------------
LoseRedis ==
    /\ up
    /\ up' = FALSE
    /\ UNCHANGED <<phase, shared, pc, locals>>

Reconnect ==
    /\ ~up
    /\ up' = TRUE
    /\ unsettled' = [u \in Users |-> CacheLife]
    /\ UNCHANGED <<phase, life, redis, ended, account, pc, locals>>

\* Assumption: between the answer of the database and the SET that caches
\* it there is less than a tick, unless the SET waits for the connection.
Tick ==
    /\ up => \A r \in Requests : pc[r] # "fill"
    /\ phase' = (phase + 1) % TicksPerSecond
    /\ life' = [s \in Sids |-> Left(life[s])]
    /\ blacklist' = [s \in Sids |-> Left(blacklist[s])]
    /\ ended' = {s \in ended : life[s] > 1}
    /\ cache' = [u \in Users |-> IF cache[u].left > 1
                                 THEN [cache[u] EXCEPT !.left = @ - 1]
                                 ELSE [row |-> None, left |-> 0]]
    /\ unsettled' = [u \in Users |-> Left(unsettled[u])]
    /\ UNCHANGED <<up, account, pc, locals>>

\* What a request does when its await is answered ...
Step(r) ==
    \/ RefuseBlacklisted(r) \/ PassBlacklist(r)
    \/ CacheHit(r) \/ CacheMiss(r)
    \/ ReadUser(r) \/ FillCache(r)
    \/ Serve(r) \/ WriteBlacklist(r) \/ DropCached(r)

\* ... and what its client, or a command that fails, decides.
Choice(r) ==
    \/ BlacklistFailsOpen(r) \/ CacheFails(r) \/ FillFails(r) \/ Abandon(r)
    \/ Logout(r) \/ VerifyEmail(r)
    \/ \E s \in Sids : RevokeSession(r, s)
    \/ \E s \in Sids, way \in {"verify", "other"} : Begin(r, s, way)
    \/ \E u \in Users : DisableUser(r, u) \/ ResetPassword(r, u)

Next ==
    \/ \E s \in Sids : Issue(s)
    \/ \E r \in Requests : Step(r) \/ Choice(r)
    \/ \E u \in Users : LockAccount(u)
    \/ LoseRedis \/ Reconnect \/ Tick

Spec == Init /\ [][Next]_vars

-----------------------------------------------------------------------------
(* Properties.                                                             *)

\* Every variable has its type; no timer runs beyond the lifetime it was set to.
TypeOK ==
    /\ phase \in 0 .. TicksPerSecond - 1
    /\ up \in BOOLEAN
    /\ life \in [Sids -> 0 .. Ticks(ACCESS_TOKEN_TTL_SECONDS)]
    /\ blacklist \in [Sids -> 0 .. Ticks(ACCESS_TOKEN_TTL_SECONDS)]
    /\ ended \subseteq Sids
    /\ account \in [Users -> UserRows]
    /\ cache \in [Users -> [row : UserRows \union {None}, left : 0 .. CacheLife]]
    /\ unsettled \in [Users -> 0 .. CacheLife]
    /\ pc \in [Requests -> Waits]
    /\ sid \in [Requests -> Sids \union {None}]
    /\ route \in [Requests -> {"verify", "other"}]
    /\ seen \in [Requests -> UserRows \union {None}]
    /\ arg \in [Requests -> 0 .. ACCESS_TOKEN_TTL_SECONDS \union Users \union {None}]

\* Once Redis has acknowledged the blacklisting of a session, the key is there
\* for as long as the access token lives, but for less than its last second:
\* whichever session asked for it, whenever it was executed and however often.
BlacklistCovers ==
    \A s \in ended : ~Blacklisted(s) => life[s] < TicksPerSecond

\* While Redis can be reached, the answer a request gets differs from the one
\* the User row calls for no longer than the cache's life after the row changed
\* (or Redis came back): a disabled account is cut off and a verified one is
\* let in by then, whichever reads, fills and deletions raced.
DecisionsCatchUp ==
    [][\A r \in Requests :
        up /\ pc[r] \in {"cache", "fill"} /\ pc'[r] \in {"admitted", "idle"} =>
            LET u == UserOf[sid[r]] IN
            \/ (pc'[r] = "admitted") = Admits(r, account[u])
            \/ unsettled[u] > 0]_vars
=============================================================================
