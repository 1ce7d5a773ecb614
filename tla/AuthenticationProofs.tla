------------------------ MODULE AuthenticationProofs ------------------------
(***************************************************************************)
(* Proofs about Authentication, for any users, sessions, requests and      *)
(* lifetimes, and any fineness of the clock: its type, that a blacklisted  *)
(* session stays blacklisted while its token lives (BlacklistCovers), and  *)
(* that decisions catch up with the User row (DecisionsCatchUp).           *)
(***************************************************************************)
EXTENDS Authentication, TLAPS

\* Awaits at which a request presents a session, or blacklists one.
Presenting == {"blacklist", "cache", "db", "fill", "admitted", "write"}

\* What a request carries at its await.
Carries(r) ==
    /\ pc[r] \in Presenting => sid[r] \in Sids
    /\ pc[r] \in {"fill", "admitted"} => seen[r] \in UserRows
    /\ pc[r] = "write" => arg[r] \in 1 .. ACCESS_TOKEN_TTL_SECONDS
    /\ pc[r] = "invalidate" => arg[r] \in Users

\* A blacklisting on its way will outlast the token, but for less than a second.
Timely(r) == pc[r] = "write" => life[sid[r]] < Ticks(arg[r]) + TicksPerSecond

\* The row a request is about to cache is the current one, or the change it
\* missed is as recent as the entry will be.
SeenFresh(r) ==
    up /\ pc[r] = "fill" =>
        \/ seen[r] = account[UserOf[sid[r]]]
        \/ unsettled[UserOf[sid[r]]] = CacheLife

\* A blacklisting acknowledged outlasts the token, but for less than a second.
Covered == \A s \in ended : life[s] > 0 /\ life[s] < blacklist[s] + TicksPerSecond

\* An entry of the cache is the current row, or is gone no later than the
\* cache's life after the change it missed.
Fresh(u) ==
    Cached(u) =>
        /\ cache[u].row \in UserRows
        /\ up => cache[u].row = account[u] \/ cache[u].left <= unsettled[u]

IInv ==
    /\ TypeOK
    /\ \A r \in Requests : Carries(r) /\ Timely(r) /\ SeenFresh(r)
    /\ Covered
    /\ \A u \in Users : Fresh(u)

\* The disjuncts of Next, one per operation: those of a request ...
RequestOperation(r) ==
    \/ \E s \in Sids, way \in {"verify", "other"} : Begin(r, s, way)
    \/ \E s \in Sids : RevokeSession(r, s)
    \/ \E u \in Users, flag \in BOOLEAN : ChangeDisabled(r, u, flag)
    \/ RefuseBlacklisted(r) \/ PassBlacklist(r) \/ BlacklistFailsOpen(r)
    \/ CacheHit(r) \/ CacheMiss(r) \/ CacheFails(r)
    \/ ReadUser(r) \/ FillCache(r) \/ FillFails(r)
    \/ Serve(r) \/ Logout(r) \/ WriteBlacklist(r) \/ VerifyEmail(r)
    \/ DropCached(r) \/ Abandon(r)

\* ... and what no request does.
OtherOperation ==
    \/ \E s \in Sids : Issue(s)
    \/ \E u \in Users : LockAccount(u)
    \/ LoseRedis \/ Reconnect \/ Tick

LEMMA NextOperations == Next => (\E r \in Requests : RequestOperation(r)) \/ OtherOperation
BY DEF Next, RequestOperation, OtherOperation, Step, Choice, DisableUser, ResetPassword

-----------------------------------------------------------------------------
(* The clock: whole seconds and ticks.                                     *)

LEMMA TicksType == ASSUME NEW n \in Nat PROVE Ticks(n) \in Nat
BY AuthenticationAssumption DEF Ticks

LEMMA TicksMonotone ==
    ASSUME NEW m \in Nat, NEW n \in Nat, m <= n
    PROVE  Ticks(m) <= Ticks(n)
<1>1. n - m \in Nat /\ n = m + (n - m)
  OBVIOUS
<1>2. Ticks(n) = Ticks(m) + Ticks(n - m)
  BY <1>1, AuthenticationAssumption DEF Ticks
<1> QED
  BY <1>1, <1>2, TicksType

\* A lifetime of at least a second outlasts the second that has begun.
LEMMA TicksPositive ==
    ASSUME NEW n \in Nat \ {0}
    PROVE  Ticks(n) >= TicksPerSecond
<1>1. Ticks(1) = TicksPerSecond
  BY AuthenticationAssumption DEF Ticks
<1> QED
  BY <1>1, TicksMonotone, AuthenticationAssumption

LEMMA CacheLifeType == CacheLife \in Nat \ {0}
<1>1. CacheLife >= TicksPerSecond /\ CacheLife \in Nat
  BY TicksPositive, TicksType, AuthenticationAssumption DEF CacheLife
<1> QED
  BY <1>1, AuthenticationAssumption

\* Rounded down to seconds, a token's time loses less than a second.
LEMMA RemainingBounds ==
    ASSUME NEW s \in Sids, TypeOK
    PROVE  /\ Remaining(s) \in 0 .. ACCESS_TOKEN_TTL_SECONDS
           /\ life[s] < Ticks(Remaining(s)) + TicksPerSecond
<1>1. life[s] \in Nat /\ life[s] <= Ticks(ACCESS_TOKEN_TTL_SECONDS)
  BY AuthenticationAssumption, TicksType DEF TypeOK
<1>2. /\ Remaining(s) \in Nat
      /\ Ticks(Remaining(s)) <= life[s]
      /\ life[s] < Ticks(Remaining(s)) + TicksPerSecond
  BY <1>1, AuthenticationAssumption DEF Remaining, Ticks
<1>3. ASSUME Remaining(s) > ACCESS_TOKEN_TTL_SECONDS PROVE FALSE
  <2>1. /\ ACCESS_TOKEN_TTL_SECONDS + 1 \in Nat
        /\ ACCESS_TOKEN_TTL_SECONDS + 1 <= Remaining(s)
    BY <1>2, <1>3, AuthenticationAssumption
  <2>2. Ticks(ACCESS_TOKEN_TTL_SECONDS + 1) <= Ticks(Remaining(s))
    BY <1>2, <2>1, TicksMonotone
  <2>3. Ticks(ACCESS_TOKEN_TTL_SECONDS + 1) = Ticks(ACCESS_TOKEN_TTL_SECONDS) + TicksPerSecond
    BY AuthenticationAssumption DEF Ticks
  <2> QED
    BY <1>1, <1>2, <2>2, <2>3, TicksType, AuthenticationAssumption
<1> QED
  BY <1>2, <1>3, AuthenticationAssumption

-----------------------------------------------------------------------------
(* The invariant holds at first.                                           *)

SharedTyped ==
    /\ phase \in 0 .. TicksPerSecond - 1
    /\ up \in BOOLEAN
    /\ life \in [Sids -> 0 .. Ticks(ACCESS_TOKEN_TTL_SECONDS)]
    /\ blacklist \in [Sids -> 0 .. Ticks(ACCESS_TOKEN_TTL_SECONDS)]
    /\ ended \subseteq Sids
    /\ account \in [Users -> UserRows]
    /\ cache \in [Users -> [row : UserRows \union {None}, left : 0 .. CacheLife]]
    /\ unsettled \in [Users -> 0 .. CacheLife]

Args == 0 .. ACCESS_TOKEN_TTL_SECONDS \union Users \union {None}

LocalsTyped ==
    /\ pc \in [Requests -> Waits]
    /\ sid \in [Requests -> Sids \union {None}]
    /\ route \in [Requests -> {"verify", "other"}]
    /\ seen \in [Requests -> UserRows \union {None}]
    /\ arg \in [Requests -> Args]

LEMMA Types ==
    /\ TypeOK <=> SharedTyped /\ LocalsTyped
    /\ TypeOK' <=> SharedTyped' /\ LocalsTyped'
BY DEF TypeOK, SharedTyped, LocalsTyped, Args

LEMMA Initially == Init => IInv
<1> SUFFICES ASSUME Init PROVE IInv
  OBVIOUS
<1>1. SharedTyped
  <2>1. 0 \in 0 .. CacheLife /\ 0 \in 0 .. Ticks(ACCESS_TOKEN_TTL_SECONDS)
    BY CacheLifeType, TicksType, AuthenticationAssumption
  <2> DEFINE enabled == {[disabled |-> FALSE, verified |-> v] : v \in BOOLEAN}
  <2>2. ASSUME NEW v \in BOOLEAN PROVE [disabled |-> FALSE, verified |-> v] \in UserRows
    BY <2>2 DEF UserRows
  <2>3. account \in [Users -> UserRows]
    <3>1. account \in [Users -> enabled]
      BY DEF Init
    <3>2. enabled \subseteq UserRows
      BY <2>2
    <3> HIDE DEF enabled
    <3> QED
      BY <3>1, <3>2
  <2> QED
    BY <2>1, <2>3, AuthenticationAssumption DEF Init, SharedTyped
<1>2. LocalsTyped
  BY DEF Init, LocalsTyped, Waits, Args
<1>3. ASSUME NEW r \in Requests PROVE Carries(r) /\ Timely(r) /\ SeenFresh(r)
  BY <1>3 DEF Init, Carries, Timely, SeenFresh, Presenting
<1>4. Covered /\ \A u \in Users : Fresh(u)
  BY DEF Init, Covered, Fresh, Cached
<1> QED
  BY <1>1, <1>2, <1>3, <1>4, Types DEF IInv

-----------------------------------------------------------------------------
(* How steps move the requests.                                            *)

\* Request r moves, and carries what its next await needs.
Moves(r) ==
    /\ LocalsTyped'
    /\ \A q \in Requests \ {r} :
        /\ pc'[q] = pc[q] /\ sid'[q] = sid[q] /\ seen'[q] = seen[q] /\ arg'[q] = arg[q]
    /\ Carries(r)' /\ Timely(r)' /\ SeenFresh(r)'

\* A row that changes is unsettled for the cache's whole life.
Unsettles ==
    \A u \in Users :
        \/ account'[u] = account[u] /\ unsettled'[u] = unsettled[u]
        \/ unsettled'[u] = CacheLife

LEMMA FinishMoves ==
    ASSUME IInv, NEW r \in Requests, Finish(r)
    PROVE  Moves(r) /\ pc'[r] = "idle"
<1>1. pc'[r] = "idle"
  BY DEF IInv, TypeOK, Finish
<1>2. Carries(r)' /\ Timely(r)' /\ SeenFresh(r)'
  BY <1>1 DEF Carries, Timely, SeenFresh, Presenting
<1>3. LocalsTyped'
  BY Types DEF IInv, LocalsTyped, Finish, Waits, Args
<1> QED
  BY <1>1, <1>2, <1>3 DEF IInv, TypeOK, Finish, Moves

LEMMA GotoMoves ==
    ASSUME IInv, NEW r \in Requests, NEW w \in Waits, Goto(r, w),
           UNCHANGED locals, w # "write", w # "fill",
           w \in Presenting => sid[r] \in Sids,
           w = "admitted" => seen[r] \in UserRows,
           w = "invalidate" => arg[r] \in Users
    PROVE  Moves(r)
<1>1. pc'[r] = w
  BY DEF IInv, TypeOK, Goto
<1>2. Carries(r)' /\ Timely(r)' /\ SeenFresh(r)'
  BY <1>1 DEF Carries, Timely, SeenFresh, locals
<1>3. LocalsTyped'
  BY Types DEF IInv, LocalsTyped, Goto, Waits, Args, locals
<1> QED
  BY <1>2, <1>3 DEF IInv, TypeOK, Goto, Moves, locals

LEMMA DecideMoves ==
    ASSUME IInv, NEW r \in Requests, NEW row \in UserRows, sid[r] \in Sids, Decide(r, row)
    PROVE  Moves(r) /\ pc'[r] \in {"admitted", "idle"} /\ (pc'[r] = "admitted" <=> Admits(r, row))
<1>1. CASE ~Admits(r, row) /\ Finish(r)
  BY <1>1, FinishMoves
<1>2. CASE /\ Admits(r, row)
           /\ Goto(r, "admitted")
           /\ seen' = [seen EXCEPT ![r] = row]
           /\ UNCHANGED <<sid, route, arg>>
  <2>1. pc'[r] = "admitted" /\ seen'[r] = row /\ sid'[r] = sid[r]
    BY <1>2 DEF IInv, TypeOK, Goto
  <2>2. Carries(r)' /\ Timely(r)' /\ SeenFresh(r)'
    BY <2>1 DEF Carries, Timely, SeenFresh, Presenting
  <2>3. LocalsTyped'
    BY <1>2, Types DEF IInv, LocalsTyped, Goto, Waits
  <2> QED
    BY <1>2, <2>1, <2>2, <2>3 DEF IInv, TypeOK, Goto, Moves
<1> QED
  BY <1>1, <1>2 DEF Decide

\* The other requests carry on, whatever a request does to the rows.
LEMMA OthersCarryOn ==
    ASSUME IInv, NEW r \in Requests, Moves(r), UNCHANGED <<up, life>>, Unsettles
    PROVE  \A q \in Requests : Carries(q)' /\ Timely(q)' /\ SeenFresh(q)'
<1> SUFFICES ASSUME NEW q \in Requests \ {r}
             PROVE  Carries(q)' /\ Timely(q)' /\ SeenFresh(q)'
  BY DEF Moves
<1>1. /\ pc'[q] = pc[q] /\ sid'[q] = sid[q] /\ seen'[q] = seen[q] /\ arg'[q] = arg[q]
      /\ Carries(q) /\ Timely(q) /\ SeenFresh(q)
  BY DEF IInv, Moves
<1>2. Carries(q)' /\ Timely(q)'
  BY <1>1 DEF Carries, Timely
<1>3. SeenFresh(q)'
  <2> SUFFICES ASSUME up, pc[q] = "fill" PROVE SeenFresh(q)'
    BY <1>1 DEF SeenFresh
  <2>1. UserOf[sid[q]] \in Users
    BY <1>1, AuthenticationAssumption DEF Carries, Presenting
  <2> QED
    BY <1>1, <2>1 DEF SeenFresh, Unsettles
<1> QED
  BY <1>2, <1>3

\* A request moves, and touches nothing that is shared.
LEMMA LocalKeeps ==
    ASSUME IInv, NEW r \in Requests, Moves(r), UNCHANGED <<phase, up, shared>>
    PROVE  IInv'
<1>1. UNCHANGED <<phase, up, life, blacklist, ended, account, cache, unsettled>>
  BY DEF shared, redis
<1>2. SharedTyped'
  BY <1>1, Types DEF IInv, SharedTyped
<1>3. \A q \in Requests : Carries(q)' /\ Timely(q)' /\ SeenFresh(q)'
  BY <1>1, OthersCarryOn DEF Unsettles
<1>4. Covered' /\ \A u \in Users : Fresh(u)'
  BY <1>1 DEF IInv, Covered, Fresh, Cached
<1> QED
  BY <1>2, <1>3, <1>4, Types DEF IInv, Moves

\* Entries stay fresh when rows change.
LEMMA EntriesStayFresh ==
    ASSUME IInv, UNCHANGED <<up, cache>>, Unsettles, NEW u \in Users
    PROVE  Fresh(u)'
<1>1. cache[u].left \in 0 .. CacheLife /\ unsettled[u] \in 0 .. CacheLife
  BY DEF IInv, TypeOK
<1>2. CASE account'[u] = account[u] /\ unsettled'[u] = unsettled[u]
  BY <1>2 DEF IInv, Fresh, Cached
<1>3. CASE unsettled'[u] = CacheLife
  BY <1>1, <1>3, CacheLifeType DEF IInv, Fresh, Cached
<1> QED
  BY <1>2, <1>3 DEF Unsettles

-----------------------------------------------------------------------------
(* Each operation preserves the invariant: Authenticate's ...              *)

LEMMA BeginKeeps ==
    ASSUME IInv, NEW r \in Requests, NEW s \in Sids, NEW way \in {"verify", "other"},
           Begin(r, s, way)
    PROVE  IInv'
<1>1. pc'[r] = "blacklist" /\ sid'[r] = s
  BY DEF IInv, TypeOK, Begin, Goto
<1>2. Carries(r)' /\ Timely(r)' /\ SeenFresh(r)'
  BY <1>1 DEF Carries, Timely, SeenFresh
<1>3. LocalsTyped'
  BY Types DEF IInv, LocalsTyped, Begin, Goto, Waits
<1>4. Moves(r)
  BY <1>2, <1>3 DEF IInv, TypeOK, Begin, Goto, Moves
<1> QED
  BY <1>4, LocalKeeps DEF Begin, shared, redis

LEMMA RefuseBlacklistedKeeps ==
    ASSUME IInv, NEW r \in Requests, RefuseBlacklisted(r)
    PROVE  IInv'
BY FinishMoves, LocalKeeps DEF RefuseBlacklisted

\* The steps on to the cache and the database.
LEMMA PassKeeps ==
    ASSUME IInv, NEW r \in Requests,
           PassBlacklist(r) \/ BlacklistFailsOpen(r) \/ CacheMiss(r) \/ CacheFails(r)
    PROVE  IInv'
<1>1. sid[r] \in Sids
  BY DEF IInv, Carries, Presenting, PassBlacklist, BlacklistFailsOpen, CacheMiss, CacheFails
<1>2. CASE PassBlacklist(r) \/ BlacklistFailsOpen(r)
  <2>1. Moves(r)
    BY <1>1, <1>2, GotoMoves DEF PassBlacklist, BlacklistFailsOpen, Waits
  <2> QED
    BY <1>2, <2>1, LocalKeeps DEF PassBlacklist, BlacklistFailsOpen
<1>3. CASE CacheMiss(r) \/ CacheFails(r)
  <2>1. Moves(r)
    BY <1>1, <1>3, GotoMoves DEF CacheMiss, CacheFails, Waits
  <2> QED
    BY <1>3, <2>1, LocalKeeps DEF CacheMiss, CacheFails
<1> QED
  BY <1>2, <1>3

\* What a hit reads is a row of the user's.
LEMMA HitReads ==
    ASSUME IInv, NEW r \in Requests, CacheHit(r)
    PROVE  /\ sid[r] \in Sids /\ UserOf[sid[r]] \in Users
           /\ cache[UserOf[sid[r]]].row \in UserRows
<1>1. sid[r] \in Sids
  BY DEF IInv, Carries, Presenting, CacheHit
<1>2. UserOf[sid[r]] \in Users
  BY <1>1, AuthenticationAssumption
<1> QED
  BY <1>1, <1>2 DEF IInv, Fresh, CacheHit

LEMMA CacheHitKeeps ==
    ASSUME IInv, NEW r \in Requests, CacheHit(r)
    PROVE  IInv'
<1>1. Moves(r)
  BY HitReads, DecideMoves DEF CacheHit
<1> QED
  BY <1>1, LocalKeeps DEF CacheHit

LEMMA ReadUserKeeps ==
    ASSUME IInv, NEW r \in Requests, ReadUser(r)
    PROVE  IInv'
<1> DEFINE u == UserOf[sid[r]]
<1>1. sid[r] \in Sids /\ u \in Users
  BY AuthenticationAssumption DEF IInv, Carries, Presenting, ReadUser
<1>2. account[u] \in UserRows
  BY <1>1 DEF IInv, TypeOK
<1>3. pc'[r] = "fill" /\ seen'[r] = account[u] /\ sid'[r] = sid[r]
  BY DEF IInv, TypeOK, ReadUser, Goto
<1>4. Carries(r)' /\ Timely(r)' /\ SeenFresh(r)'
  BY <1>1, <1>2, <1>3 DEF Carries, Timely, SeenFresh, ReadUser, shared
<1>5. LocalsTyped'
  <2>1. /\ seen' = [seen EXCEPT ![r] = account[u]] /\ Goto(r, "fill")
        /\ UNCHANGED <<sid, route, arg>>
    BY DEF ReadUser
  <2> HIDE DEF u
  <2> QED
    BY <1>2, <2>1, Types DEF IInv, LocalsTyped, Goto, Waits
<1>6. Moves(r)
  BY <1>4, <1>5 DEF IInv, TypeOK, ReadUser, Goto, Moves
<1> QED
  BY <1>6, LocalKeeps DEF ReadUser

\* What is cached, and decided on, is the row the request has read.
LEMMA FillDecides ==
    ASSUME IInv, NEW r \in Requests, pc[r] = "fill", Decide(r, seen[r])
    PROVE  Moves(r) /\ sid[r] \in Sids /\ UserOf[sid[r]] \in Users /\ seen[r] \in UserRows
<1>1. sid[r] \in Sids /\ UserOf[sid[r]] \in Users /\ seen[r] \in UserRows
  BY AuthenticationAssumption DEF IInv, Carries, Presenting
<1> QED
  BY <1>1, DecideMoves

LEMMA FillFailsKeeps ==
    ASSUME IInv, NEW r \in Requests, FillFails(r)
    PROVE  IInv'
BY FillDecides, LocalKeeps DEF FillFails

LEMMA FillCacheKeeps ==
    ASSUME IInv, NEW r \in Requests, FillCache(r)
    PROVE  IInv'
<1> DEFINE u == UserOf[sid[r]]
           entry == [row |-> seen[r], left |-> CacheLife]
<1>1. Moves(r) /\ u \in Users /\ seen[r] \in UserRows
  BY FillDecides DEF FillCache
<1>2. /\ cache' = [cache EXCEPT ![u] = entry]
      /\ UNCHANGED <<phase, up, life, blacklist, ended, account, unsettled>>
  BY DEF FillCache
<1>3. /\ entry \in [row : UserRows \union {None}, left : 0 .. CacheLife]
      /\ entry.row = seen[r] /\ entry.left = CacheLife
  BY <1>1, CacheLifeType
<1>4. seen[r] = account[u] \/ unsettled[u] = CacheLife
  BY DEF IInv, SeenFresh, FillCache
<1> HIDE DEF u, entry
<1>5. SharedTyped'
  BY <1>1, <1>2, <1>3, Types DEF IInv, SharedTyped
<1>6. ASSUME NEW v \in Users PROVE Fresh(v)'
  <2>1. CASE v = u
    <3>1. cache'[v] = entry
      BY <1>1, <1>2, <2>1 DEF IInv, TypeOK
    <3> QED
      BY <1>1, <1>2, <1>3, <1>4, <2>1, <3>1, CacheLifeType DEF Fresh
  <2>2. CASE v # u
    BY <1>2, <1>6, <2>2 DEF IInv, TypeOK, Fresh, Cached
  <2> QED
    BY <2>1, <2>2
<1>7. \A q \in Requests : Carries(q)' /\ Timely(q)' /\ SeenFresh(q)'
  BY <1>1, <1>2, OthersCarryOn DEF Unsettles
<1>8. Covered'
  BY <1>2 DEF IInv, Covered
<1> QED
  BY <1>1, <1>5, <1>6, <1>7, <1>8, Types DEF IInv, Moves

-----------------------------------------------------------------------------
(* ... those of the handlers ...                                           *)

LEMMA EndKeeps ==
    ASSUME IInv, NEW r \in Requests, Serve(r) \/ Abandon(r)
    PROVE  IInv'
BY FinishMoves, LocalKeeps DEF Serve, Abandon

\* A request goes on to blacklist session s for some seconds.
LEMMA ToWriteMoves ==
    ASSUME IInv, NEW r \in Requests, NEW s \in Sids,
           NEW ttl \in 1 .. ACCESS_TOKEN_TTL_SECONDS,
           life[s] < Ticks(ttl) + TicksPerSecond, UNCHANGED <<life, route, seen>>,
           arg' = [arg EXCEPT ![r] = ttl], sid' = [sid EXCEPT ![r] = s], Goto(r, "write")
    PROVE  Moves(r)
<1>1. pc'[r] = "write" /\ arg'[r] = ttl /\ sid'[r] = s
  BY DEF IInv, TypeOK, Goto
<1>2. Carries(r)' /\ Timely(r)' /\ SeenFresh(r)'
  BY <1>1 DEF Carries, Timely, SeenFresh
<1>3. ttl \in Args /\ "write" \in Waits
  BY AuthenticationAssumption DEF Args, Waits
<1>4. LocalsTyped'
  BY <1>3, Types DEF IInv, LocalsTyped, Goto
<1> QED
  BY <1>2, <1>4 DEF IInv, TypeOK, Goto, Moves

LEMMA LogoutKeeps ==
    ASSUME IInv, NEW r \in Requests, Logout(r)
    PROVE  IInv'
<1> DEFINE s == sid[r]
<1>1. s \in Sids
  BY DEF IInv, Carries, Presenting, Logout
<1>2. /\ Remaining(s) \in 1 .. ACCESS_TOKEN_TTL_SECONDS
      /\ life[s] < Ticks(Remaining(s)) + TicksPerSecond
  BY <1>1, RemainingBounds, AuthenticationAssumption DEF IInv, Logout
<1>3. sid' = [sid EXCEPT ![r] = s]
  BY DEF IInv, TypeOK, Logout
<1>4. arg' = [arg EXCEPT ![r] = Remaining(s)] /\ Goto(r, "write") /\ UNCHANGED <<life, route, seen>>
  BY DEF Logout, shared
<1> HIDE DEF s
<1>5. Moves(r)
  BY <1>1, <1>2, <1>3, <1>4, ToWriteMoves
<1> QED
  BY <1>5, LocalKeeps DEF Logout

\* Another session is blacklisted for the longest its token can live.
LEMMA RevokeSessionKeeps ==
    ASSUME IInv, NEW r \in Requests, NEW s \in Sids, RevokeSession(r, s)
    PROVE  IInv'
<1> DEFINE ttl == IF s = sid[r] THEN Remaining(s) ELSE ACCESS_TOKEN_TTL_SECONDS
<1>1. ttl > 0 /\ arg' = [arg EXCEPT ![r] = ttl]
  BY DEF RevokeSession
<1>2. ttl \in 1 .. ACCESS_TOKEN_TTL_SECONDS /\ life[s] < Ticks(ttl) + TicksPerSecond
  <2>1. CASE s = sid[r]
    BY <1>1, <2>1, RemainingBounds, AuthenticationAssumption DEF IInv
  <2>2. CASE s # sid[r]
    <3>1. life[s] \in 0 .. Ticks(ACCESS_TOKEN_TTL_SECONDS)
      BY DEF IInv, TypeOK
    <3> QED
      BY <2>2, <3>1, TicksType, AuthenticationAssumption
  <2> QED
    BY <2>1, <2>2
<1>3. sid' = [sid EXCEPT ![r] = s] /\ Goto(r, "write") /\ UNCHANGED <<life, route, seen>>
  BY DEF RevokeSession, shared
<1> HIDE DEF ttl
<1>4. Moves(r)
  BY <1>1, <1>2, <1>3, ToWriteMoves
<1> QED
  BY <1>4, LocalKeeps DEF RevokeSession

LEMMA WriteBlacklistKeeps ==
    ASSUME IInv, NEW r \in Requests, WriteBlacklist(r)
    PROVE  IInv'
<1> DEFINE s == sid[r]
           ticks == Ticks(arg[r])
<1>1. Moves(r)
  BY FinishMoves DEF WriteBlacklist
<1>2. s \in Sids /\ arg[r] \in 1 .. ACCESS_TOKEN_TTL_SECONDS /\ life[s] < ticks + TicksPerSecond
  BY DEF IInv, Carries, Timely, Presenting, WriteBlacklist
<1>3. ticks \in 0 .. Ticks(ACCESS_TOKEN_TTL_SECONDS)
  BY <1>2, TicksType, TicksMonotone, AuthenticationAssumption
<1>4. /\ blacklist' = [blacklist EXCEPT ![s] = ticks]
      /\ ended' = ended \union {t \in {s} : life[t] > 0}
      /\ UNCHANGED <<phase, up, life, cache, account, unsettled>>
  BY DEF WriteBlacklist
<1> HIDE DEF s, ticks
<1>5. SharedTyped'
  BY <1>2, <1>3, <1>4, Types DEF IInv, SharedTyped
<1>6. \A q \in Requests : Carries(q)' /\ Timely(q)' /\ SeenFresh(q)'
  BY <1>1, <1>4, OthersCarryOn DEF Unsettles
<1>7. Covered'
  <2> SUFFICES ASSUME NEW t \in ended'
               PROVE  life[t] > 0 /\ life[t] < blacklist'[t] + TicksPerSecond
    BY <1>4 DEF Covered
  <2>1. CASE t = s
    <3>1. blacklist'[s] = ticks
      BY <1>2, <1>4 DEF IInv, TypeOK
    <3>2. life[s] > 0
      BY <1>4, <2>1 DEF IInv, Covered
    <3> QED
      BY <1>2, <2>1, <3>1, <3>2
  <2>2. CASE t # s
    BY <1>4, <2>2 DEF IInv, TypeOK, Covered
  <2> QED
    BY <2>1, <2>2
<1>8. ASSUME NEW u \in Users PROVE Fresh(u)'
  BY <1>4, EntriesStayFresh DEF Unsettles
<1> QED
  BY <1>1, <1>5, <1>6, <1>7, <1>8, Types DEF IInv, Moves

\* The new row of an account, and that it is unsettled if it is a new one.
LEMMA SetAccountUnsettles ==
    ASSUME IInv, NEW u \in Users, NEW row \in UserRows, SetAccount(u, row)
    PROVE  /\ Unsettles
           /\ account' \in [Users -> UserRows] /\ unsettled' \in [Users -> 0 .. CacheLife]
<1>1. CacheLife \in 0 .. CacheLife
  BY CacheLifeType
<1>2. account' \in [Users -> UserRows] /\ unsettled' \in [Users -> 0 .. CacheLife]
  BY <1>1 DEF IInv, TypeOK, SetAccount
<1>3. ASSUME NEW v \in Users
      PROVE  \/ account'[v] = account[v] /\ unsettled'[v] = unsettled[v]
             \/ unsettled'[v] = CacheLife
  BY DEF IInv, TypeOK, SetAccount
<1> QED
  BY <1>2, <1>3 DEF Unsettles

LEMMA RowWith ==
    ASSUME IInv, NEW u \in Users, NEW flag \in BOOLEAN
    PROVE  /\ [account[u] EXCEPT !.verified = TRUE] \in UserRows
           /\ [account[u] EXCEPT !.disabled = flag] \in UserRows
<1>1. account[u] \in UserRows
  BY DEF IInv, TypeOK
<1> QED
  BY <1>1 DEF UserRows

\* A request that changes a row, and nothing else that is shared.
LEMMA RowKeeps ==
    ASSUME IInv, NEW r \in Requests, Moves(r), NEW u \in Users, NEW row \in UserRows,
           SetAccount(u, row), UNCHANGED <<phase, up, life, redis, ended>>
    PROVE  IInv'
<1>1. /\ Unsettles
      /\ account' \in [Users -> UserRows] /\ unsettled' \in [Users -> 0 .. CacheLife]
  BY SetAccountUnsettles
<1>2. SharedTyped'
  BY <1>1, Types DEF IInv, SharedTyped, redis
<1>3. \A q \in Requests : Carries(q)' /\ Timely(q)' /\ SeenFresh(q)'
  BY <1>1, OthersCarryOn
<1>4. Covered'
  BY DEF IInv, Covered, redis
<1>5. \A v \in Users : Fresh(v)'
  BY <1>1, EntriesStayFresh DEF redis
<1> QED
  BY <1>2, <1>3, <1>4, <1>5, Types DEF IInv, Moves

LEMMA VerifyEmailKeeps ==
    ASSUME IInv, NEW r \in Requests, VerifyEmail(r)
    PROVE  IInv'
<1> DEFINE u == UserOf[sid[r]]
           row == [account[u] EXCEPT !.verified = TRUE]
<1>1. u \in Users
  BY AuthenticationAssumption DEF IInv, Carries, Presenting, VerifyEmail
<1>2. row \in UserRows
  BY <1>1, RowWith
<1>3. SetAccount(u, row) /\ UNCHANGED <<phase, up, life, redis, ended>>
  BY DEF VerifyEmail
<1> HIDE DEF u, row
<1>4. Moves(r)
  BY FinishMoves DEF VerifyEmail
<1> QED
  BY <1>1, <1>2, <1>3, <1>4, RowKeeps

LEMMA ChangeDisabledKeeps ==
    ASSUME IInv, NEW r \in Requests, NEW u \in Users, NEW flag \in BOOLEAN,
           ChangeDisabled(r, u, flag)
    PROVE  IInv'
<1> DEFINE row == [account[u] EXCEPT !.disabled = flag]
<1>1. row \in UserRows
  BY RowWith
<1>2. SetAccount(u, row) /\ UNCHANGED <<phase, up, life, redis, ended>>
  BY DEF ChangeDisabled
<1> HIDE DEF row
<1>3. pc'[r] = "invalidate" /\ arg'[r] = u
  BY DEF IInv, TypeOK, ChangeDisabled, Goto
<1>4. Carries(r)' /\ Timely(r)' /\ SeenFresh(r)'
  BY <1>3 DEF Carries, Timely, SeenFresh, Presenting
<1>5. LocalsTyped'
  BY Types DEF IInv, LocalsTyped, ChangeDisabled, Goto, Waits, Args
<1>6. Moves(r)
  BY <1>4, <1>5 DEF IInv, TypeOK, ChangeDisabled, Goto, Moves
<1> QED
  BY <1>1, <1>2, <1>6, RowKeeps

LEMMA DropCachedKeeps ==
    ASSUME IInv, NEW r \in Requests, DropCached(r)
    PROVE  IInv'
<1> DEFINE gone == [row |-> None, left |-> 0]
<1>1. Moves(r)
  BY FinishMoves DEF DropCached
<1>2. arg[r] \in Users
  BY DEF IInv, Carries, DropCached
<1>3. gone \in [row : UserRows \union {None}, left : 0 .. CacheLife] /\ gone.left = 0
  BY CacheLifeType
<1>4. /\ cache' = [cache EXCEPT ![arg[r]] = gone]
      /\ UNCHANGED <<phase, up, life, blacklist, ended, account, unsettled>>
  BY DEF DropCached
<1> HIDE DEF gone
<1>5. SharedTyped'
  BY <1>2, <1>3, <1>4, Types DEF IInv, SharedTyped
<1>6. \A q \in Requests : Carries(q)' /\ Timely(q)' /\ SeenFresh(q)'
  BY <1>1, <1>4, OthersCarryOn DEF Unsettles
<1>7. Covered'
  BY <1>4 DEF IInv, Covered
<1>8. ASSUME NEW u \in Users PROVE Fresh(u)'
  BY <1>3, <1>4 DEF IInv, TypeOK, Fresh, Cached
<1> QED
  BY <1>1, <1>5, <1>6, <1>7, <1>8, Types DEF IInv, Moves

-----------------------------------------------------------------------------
(* ... and what no request does.                                           *)

LEMMA StillCarry ==
    ASSUME IInv, UNCHANGED <<pc, locals>>
    PROVE  LocalsTyped' /\ \A q \in Requests : Carries(q)'
BY Types DEF IInv, LocalsTyped, Carries, locals

\* No blacklisting of the session is on its way, and none is acknowledged.
LEMMA IssueKeeps ==
    ASSUME IInv, NEW s \in Sids, Issue(s)
    PROVE  IInv'
<1> DEFINE born == Ticks(ACCESS_TOKEN_TTL_SECONDS) - phase
<1>1. born \in 0 .. Ticks(ACCESS_TOKEN_TTL_SECONDS)
  <2>1. phase \in 0 .. TicksPerSecond - 1
    BY DEF IInv, TypeOK
  <2> QED
    BY <2>1, TicksPositive, TicksType, AuthenticationAssumption
<1>2. /\ life' = [life EXCEPT ![s] = born]
      /\ UNCHANGED <<phase, up, redis, ended, account, unsettled, pc, locals>>
  BY DEF Issue
<1> HIDE DEF born
<1>3. SharedTyped'
  BY <1>1, <1>2, Types DEF IInv, SharedTyped, redis
<1>4. LocalsTyped' /\ \A q \in Requests : Carries(q)'
  BY <1>2, StillCarry
<1>5. ASSUME NEW q \in Requests PROVE Timely(q)' /\ SeenFresh(q)'
  <2>1. sid[q] # s
    BY DEF Issue
  <2>2. Timely(q)'
    <3> SUFFICES ASSUME pc[q] = "write" PROVE Timely(q)'
      BY <1>2 DEF Timely
    <3>1. sid[q] \in Sids
      BY DEF IInv, Carries, Presenting
    <3> QED
      BY <1>2, <2>1, <3>1 DEF IInv, TypeOK, Timely, locals
  <2> QED
    BY <1>2, <2>2 DEF IInv, SeenFresh, locals
<1>6. Covered'
  <2>1. s \notin ended
    BY DEF IInv, Covered, Issue
  <2> QED
    BY <1>2, <2>1 DEF IInv, TypeOK, Covered, redis
<1>7. ASSUME NEW u \in Users PROVE Fresh(u)'
  BY <1>2 DEF IInv, Fresh, Cached, redis
<1> QED
  BY <1>3, <1>4, <1>5, <1>6, <1>7, Types DEF IInv

LEMMA LockAccountKeeps ==
    ASSUME IInv, NEW u \in Users, LockAccount(u)
    PROVE  IInv'
<1> DEFINE row == [account[u] EXCEPT !.disabled = TRUE]
<1>1. row \in UserRows
  BY RowWith
<1>2. SetAccount(u, row) /\ UNCHANGED <<phase, up, life, redis, ended, pc, locals>>
  BY DEF LockAccount
<1> HIDE DEF row
<1>3. /\ Unsettles
      /\ account' \in [Users -> UserRows] /\ unsettled' \in [Users -> 0 .. CacheLife]
  BY <1>1, <1>2, SetAccountUnsettles
<1>4. SharedTyped'
  BY <1>2, <1>3, Types DEF IInv, SharedTyped, redis
<1>5. LocalsTyped' /\ \A q \in Requests : Carries(q)'
  BY <1>2, StillCarry
<1>6. ASSUME NEW q \in Requests PROVE Timely(q)' /\ SeenFresh(q)'
  <2>1. Timely(q)'
    BY <1>2 DEF IInv, Timely, locals
  <2>2. SeenFresh(q)'
    <3> SUFFICES ASSUME up, pc[q] = "fill" PROVE SeenFresh(q)'
      BY <1>2 DEF SeenFresh
    <3>1. UserOf[sid[q]] \in Users
      BY AuthenticationAssumption DEF IInv, Carries, Presenting
    <3> QED
      BY <1>2, <1>3, <3>1 DEF IInv, SeenFresh, Unsettles, locals
  <2> QED
    BY <2>1, <2>2
<1>7. Covered'
  BY <1>2 DEF IInv, Covered, redis
<1>8. \A v \in Users : Fresh(v)'
  BY <1>2, <1>3, EntriesStayFresh DEF redis
<1> QED
  BY <1>4, <1>5, <1>6, <1>7, <1>8, Types DEF IInv

LEMMA LoseRedisKeeps ==
    ASSUME IInv, LoseRedis
    PROVE  IInv'
<1>1. /\ up' = FALSE
      /\ UNCHANGED <<phase, life, blacklist, ended, account, cache, unsettled, pc, locals>>
  BY DEF LoseRedis, shared, redis
<1>2. SharedTyped'
  BY <1>1, Types DEF IInv, SharedTyped
<1>3. LocalsTyped' /\ \A q \in Requests : Carries(q)'
  BY <1>1, StillCarry
<1>4. \A q \in Requests : Timely(q)' /\ SeenFresh(q)'
  BY <1>1 DEF IInv, Timely, SeenFresh, locals
<1>5. Covered' /\ \A u \in Users : Fresh(u)'
  BY <1>1 DEF IInv, Covered, Fresh, Cached
<1> QED
  BY <1>2, <1>3, <1>4, <1>5, Types DEF IInv

\* Whatever was missed while Redis was away is unsettled anew.
LEMMA ReconnectKeeps ==
    ASSUME IInv, Reconnect
    PROVE  IInv'
<1>1. /\ up' = TRUE /\ unsettled' = [u \in Users |-> CacheLife]
      /\ UNCHANGED <<phase, life, blacklist, ended, account, cache, pc, locals>>
  BY DEF Reconnect, redis
<1>2. SharedTyped'
  <2>1. unsettled' \in [Users -> 0 .. CacheLife]
    BY <1>1, CacheLifeType
  <2> QED
    BY <1>1, <2>1, Types DEF IInv, SharedTyped
<1>3. LocalsTyped' /\ \A q \in Requests : Carries(q)'
  BY <1>1, StillCarry
<1>4. ASSUME NEW q \in Requests PROVE Timely(q)' /\ SeenFresh(q)'
  <2>1. pc[q] = "fill" => UserOf[sid[q]] \in Users
    BY AuthenticationAssumption DEF IInv, Carries, Presenting
  <2> QED
    BY <1>1, <2>1 DEF IInv, Timely, SeenFresh, locals
<1>5. ASSUME NEW u \in Users PROVE Fresh(u)'
  <2>1. cache[u].left <= CacheLife
    BY CacheLifeType DEF IInv, TypeOK
  <2>2. unsettled'[u] = CacheLife
    BY <1>1
  <2> QED
    BY <1>1, <2>1, <2>2 DEF IInv, Fresh, Cached
<1>6. Covered'
  BY <1>1 DEF IInv, Covered
<1> QED
  BY <1>2, <1>3, <1>4, <1>5, <1>6, Types DEF IInv

LEMMA LeftType ==
    ASSUME NEW max \in Nat, NEW n \in 0 .. max
    PROVE  /\ Left(n) \in 0 .. max /\ Left(n) <= n
           /\ n > 0 => Left(n) = n - 1
BY DEF Left

\* What a tick does to an entry of the cache.
LEMMA TickEntry ==
    ASSUME IInv, Tick, NEW u \in Users
    PROVE  /\ cache[u] \in [row : UserRows \union {None}, left : 0 .. CacheLife]
           /\ cache'[u] \in [row : UserRows \union {None}, left : 0 .. CacheLife]
           /\ cache'[u].left > 0 =>
                cache'[u].row = cache[u].row /\ cache'[u].left = cache[u].left - 1
<1>1. cache[u] \in [row : UserRows \union {None}, left : 0 .. CacheLife]
  BY DEF IInv, TypeOK
<1>2. cache'[u] = IF cache[u].left > 1 THEN [cache[u] EXCEPT !.left = @ - 1]
                                       ELSE [row |-> None, left |-> 0]
  BY DEF Tick
<1>3. CASE cache[u].left > 1
  <2>1. cache'[u].row = cache[u].row /\ cache'[u].left = cache[u].left - 1
    BY <1>1, <1>2, <1>3
  <2>2. cache[u].left - 1 \in 0 .. CacheLife
    BY <1>1, <1>3, CacheLifeType
  <2> QED
    BY <1>1, <1>2, <1>3, <2>1, <2>2
<1>4. CASE ~(cache[u].left > 1)
  BY <1>1, <1>2, <1>4, CacheLifeType
<1> QED
  BY <1>1, <1>3, <1>4

LEMMA TickKeeps ==
    ASSUME IInv, Tick
    PROVE  IInv'
<1>1. UNCHANGED <<up, account, pc, locals>>
  BY DEF Tick
<1>2. /\ \A s \in Sids : life'[s] = Left(life[s]) /\ blacklist'[s] = Left(blacklist[s])
      /\ \A u \in Users : unsettled'[u] = Left(unsettled[u])
  BY DEF Tick
<1>3. ASSUME NEW s \in Sids
      PROVE  /\ life[s] \in Nat /\ blacklist[s] \in Nat
             /\ life'[s] \in 0 .. Ticks(ACCESS_TOKEN_TTL_SECONDS) /\ life'[s] <= life[s]
             /\ life[s] > 0 => life'[s] = life[s] - 1
             /\ blacklist'[s] \in 0 .. Ticks(ACCESS_TOKEN_TTL_SECONDS)
             /\ blacklist'[s] >= blacklist[s] - 1
  <2>1. /\ Ticks(ACCESS_TOKEN_TTL_SECONDS) \in Nat
        /\ life[s] \in 0 .. Ticks(ACCESS_TOKEN_TTL_SECONDS)
        /\ blacklist[s] \in 0 .. Ticks(ACCESS_TOKEN_TTL_SECONDS)
    BY TicksType, AuthenticationAssumption DEF IInv, TypeOK
  <2> QED
    BY <1>2, <2>1 DEF Left
<1>4. SharedTyped'
  <2>1. phase' \in 0 .. TicksPerSecond - 1
    BY AuthenticationAssumption DEF IInv, TypeOK, Tick
  <2>2. /\ life' \in [Sids -> 0 .. Ticks(ACCESS_TOKEN_TTL_SECONDS)]
        /\ blacklist' \in [Sids -> 0 .. Ticks(ACCESS_TOKEN_TTL_SECONDS)]
    BY <1>3 DEF Tick
  <2>3. unsettled' \in [Users -> 0 .. CacheLife]
    <3>1. \A u \in Users : Left(unsettled[u]) \in 0 .. CacheLife
      BY LeftType, CacheLifeType DEF IInv, TypeOK
    <3> QED
      BY <3>1 DEF Tick
  <2>4. cache' \in [Users -> [row : UserRows \union {None}, left : 0 .. CacheLife]]
    <3>1. cache' = [u \in Users |-> cache'[u]]
      BY DEF Tick
    <3> QED
      BY <3>1, TickEntry
  <2>5. ended' \subseteq Sids
    BY DEF IInv, TypeOK, Tick
  <2> QED
    BY <1>1, <2>1, <2>2, <2>3, <2>4, <2>5, Types DEF IInv, SharedTyped
<1>5. LocalsTyped' /\ \A q \in Requests : Carries(q)'
  BY <1>1, StillCarry
<1>6. ASSUME NEW q \in Requests PROVE Timely(q)'
  <2> SUFFICES ASSUME pc[q] = "write"
               PROVE  life'[sid[q]] < Ticks(arg[q]) + TicksPerSecond
    BY <1>1 DEF Timely, locals
  <2>1. /\ sid[q] \in Sids /\ arg[q] \in Nat
        /\ life[sid[q]] < Ticks(arg[q]) + TicksPerSecond
    BY AuthenticationAssumption DEF IInv, Carries, Timely, Presenting
  <2>2. Ticks(arg[q]) \in Nat /\ TicksPerSecond \in Nat
    BY <2>1, TicksType, AuthenticationAssumption
  <2>3. life[sid[q]] \in Nat /\ life'[sid[q]] \in Nat /\ life'[sid[q]] <= life[sid[q]]
    BY <1>3, <2>1, TicksType, AuthenticationAssumption
  <2> QED
    BY <2>1, <2>2, <2>3
\* No request is about to cache a row while Redis can be reached.
<1>7. \A q \in Requests : SeenFresh(q)'
  BY <1>1 DEF Tick, SeenFresh
<1>8. Covered'
  <2> SUFFICES ASSUME NEW s \in ended'
               PROVE  life'[s] > 0 /\ life'[s] < blacklist'[s] + TicksPerSecond
    BY AuthenticationAssumption DEF Tick, Covered
  <2>1. s \in ended /\ s \in Sids /\ life[s] > 1
    BY DEF IInv, TypeOK, Tick
  <2>2. life[s] < blacklist[s] + TicksPerSecond
    BY <2>1 DEF IInv, Covered
  <2> QED
    BY <1>3, <2>1, <2>2, TicksType, AuthenticationAssumption
<1>9. ASSUME NEW u \in Users PROVE Fresh(u)'
  <2> SUFFICES ASSUME cache'[u].left > 0 PROVE Fresh(u)'
    BY DEF Fresh, Cached
  <2>1. /\ cache'[u].row = cache[u].row /\ cache'[u].left = cache[u].left - 1
        /\ cache[u].left \in Nat /\ cache'[u].left \in Nat
    BY TickEntry, CacheLifeType
  <2>2. unsettled[u] \in Nat /\ unsettled'[u] >= unsettled[u] - 1 /\ unsettled'[u] \in Nat
    <3>1. unsettled[u] \in 0 .. CacheLife /\ CacheLife \in Nat
      BY CacheLifeType DEF IInv, TypeOK
    <3> QED
      BY <1>2, <3>1 DEF Left
  <2>3. /\ cache[u].row \in UserRows
        /\ up => cache[u].row = account[u] \/ cache[u].left <= unsettled[u]
    BY <2>1 DEF IInv, Fresh, Cached
  <2>4. cache[u].left <= unsettled[u] => cache'[u].left <= unsettled'[u]
    BY <2>1, <2>2
  <2> QED
    BY <1>1, <2>1, <2>3, <2>4 DEF Fresh
<1> QED
  BY <1>4, <1>5, <1>6, <1>7, <1>8, <1>9, Types DEF IInv

LEMMA StutterKeeps ==
    ASSUME IInv, UNCHANGED vars
    PROVE  IInv'
<1>1. UNCHANGED <<phase, up, life, blacklist, ended, account, cache, unsettled, pc, locals>>
  BY DEF vars, redis
<1>2. SharedTyped'
  BY <1>1, Types DEF IInv, SharedTyped
<1>3. LocalsTyped' /\ \A q \in Requests : Carries(q)'
  BY <1>1, StillCarry
<1>4. \A q \in Requests : Timely(q)' /\ SeenFresh(q)'
  BY <1>1 DEF IInv, Timely, SeenFresh, locals
<1>5. Covered' /\ \A u \in Users : Fresh(u)'
  BY <1>1 DEF IInv, Covered, Fresh, Cached
<1> QED
  BY <1>2, <1>3, <1>4, <1>5, Types DEF IInv

LEMMA RequestKeeps ==
    ASSUME IInv, NEW r \in Requests, RequestOperation(r)
    PROVE  IInv'
<1>1. CASE \E s \in Sids, way \in {"verify", "other"} : Begin(r, s, way)
  BY <1>1, BeginKeeps
<1>2. CASE \E s \in Sids : RevokeSession(r, s)
  BY <1>2, RevokeSessionKeeps
<1>3. CASE \E u \in Users, flag \in BOOLEAN : ChangeDisabled(r, u, flag)
  BY <1>3, ChangeDisabledKeeps
<1>4. CASE \/ RefuseBlacklisted(r) \/ PassBlacklist(r) \/ BlacklistFailsOpen(r)
           \/ CacheHit(r) \/ CacheMiss(r) \/ CacheFails(r)
  BY <1>4, RefuseBlacklistedKeeps, PassKeeps, CacheHitKeeps
<1>5. CASE ReadUser(r) \/ FillCache(r) \/ FillFails(r)
  BY <1>5, ReadUserKeeps, FillCacheKeeps, FillFailsKeeps
<1>6. CASE \/ Serve(r) \/ Logout(r) \/ WriteBlacklist(r) \/ VerifyEmail(r)
           \/ DropCached(r) \/ Abandon(r)
  BY <1>6, EndKeeps, LogoutKeeps, WriteBlacklistKeeps, VerifyEmailKeeps, DropCachedKeeps
<1> QED
  BY <1>1, <1>2, <1>3, <1>4, <1>5, <1>6 DEF RequestOperation

LEMMA Inductive == IInv /\ [Next]_vars => IInv'
<1> SUFFICES ASSUME IInv, [Next]_vars PROVE IInv'
  OBVIOUS
<1>1. CASE \E r \in Requests : RequestOperation(r)
  BY <1>1, RequestKeeps
<1>2. CASE OtherOperation
  BY <1>2, IssueKeeps, LockAccountKeeps, LoseRedisKeeps, ReconnectKeeps, TickKeeps
     DEF OtherOperation
<1>3. CASE UNCHANGED vars
  BY <1>3, StutterKeeps
<1> QED
  BY <1>1, <1>2, <1>3, NextOperations

LEMMA Invariant == Spec => []IInv
BY Initially, Inductive, PTL DEF Spec

-----------------------------------------------------------------------------
(* Decisions.  Only a hit and the two ends of a fill decide, each on a row *)
(* that is the current one or unsettled.                                   *)

Decides(r) ==
    up /\ pc[r] \in {"cache", "fill"} /\ pc'[r] \in {"admitted", "idle"} =>
        LET u == UserOf[sid[r]] IN
        \/ (pc'[r] = "admitted") = Admits(r, account[u])
        \/ unsettled[u] > 0

LEMMA HitDecides ==
    ASSUME IInv, up, NEW r \in Requests, CacheHit(r)
    PROVE  Decides(r)
<1> DEFINE u == UserOf[sid[r]]
<1>1. sid[r] \in Sids /\ u \in Users /\ cache[u].row \in UserRows
  BY HitReads
<1>2. pc'[r] = "admitted" <=> Admits(r, cache[u].row)
  BY <1>1, DecideMoves DEF CacheHit
<1>3. cache[u].row = account[u] \/ unsettled[u] > 0
  <2>1. cache[u].left > 0 /\ cache[u].left \in Nat /\ unsettled[u] \in Nat
    BY <1>1, CacheLifeType DEF CacheHit, Cached, IInv, TypeOK
  <2>2. cache[u].row = account[u] \/ cache[u].left <= unsettled[u]
    BY <1>1, <2>1 DEF IInv, Fresh, Cached
  <2> QED
    BY <2>1, <2>2
<1> HIDE DEF u
<1>4. (pc'[r] = "admitted") = Admits(r, account[u]) \/ unsettled[u] > 0
  BY <1>2, <1>3 DEF Admits
<1> QED
  BY <1>4 DEF Decides, u

LEMMA FillDecidesWell ==
    ASSUME IInv, up, NEW r \in Requests, FillCache(r) \/ FillFails(r)
    PROVE  Decides(r)
<1> DEFINE u == UserOf[sid[r]]
<1>1. pc[r] = "fill" /\ Decide(r, seen[r])
  BY DEF FillCache, FillFails
<1>2. sid[r] \in Sids /\ seen[r] \in UserRows
  BY <1>1, FillDecides
<1>3. pc'[r] = "admitted" <=> Admits(r, seen[r])
  BY <1>1, <1>2, DecideMoves
<1>4. seen[r] = account[u] \/ unsettled[u] > 0
  BY <1>1, CacheLifeType DEF IInv, SeenFresh
<1> HIDE DEF u
<1>5. (pc'[r] = "admitted") = Admits(r, account[u]) \/ unsettled[u] > 0
  BY <1>3, <1>4 DEF Admits
<1> QED
  BY <1>5 DEF Decides, u

\* What does not decide for r leaves it at its await, or moves it from another
\* or to another than those of a decision.
LEMMA NoDecision ==
    ASSUME NEW r \in Requests,
           \/ pc'[r] = pc[r]
           \/ pc[r] \notin {"cache", "fill"}
           \/ pc'[r] \notin {"admitted", "idle"}
    PROVE  Decides(r)
BY DEF Decides

LEMMA OthersDecide ==
    ASSUME IInv, NEW q \in Requests, NEW r \in Requests \ {q}, NEW w, Goto(q, w) \/ Finish(q)
    PROVE  pc'[r] = pc[r]
BY DEF IInv, TypeOK, Goto, Finish

\* Each operation of a request moves that request alone.
LEMMA RequestsApart ==
    ASSUME IInv, NEW q \in Requests, NEW r \in Requests \ {q}, RequestOperation(q)
    PROVE  pc'[r] = pc[r]
<1>1. \E w \in Waits : Goto(q, w) \/ Finish(q)
  BY DEF RequestOperation, Begin, RevokeSession, ChangeDisabled, RefuseBlacklisted,
         PassBlacklist, BlacklistFailsOpen, CacheHit, CacheMiss, CacheFails, ReadUser,
         FillCache, FillFails, Serve, Logout, WriteBlacklist, VerifyEmail, DropCached,
         Abandon, Decide, Waits
<1> QED
  BY <1>1, OthersDecide

\* A request's own operations: three may decide.
LEMMA OwnDecision ==
    ASSUME IInv, up, NEW r \in Requests, RequestOperation(r)
    PROVE  Decides(r)
<1>1. CASE pc[r] \notin {"cache", "fill"}
  BY <1>1, NoDecision
<1>2. CASE CacheMiss(r) \/ CacheFails(r)
  <2>1. pc'[r] = "db"
    BY <1>2 DEF IInv, TypeOK, CacheMiss, CacheFails, Goto
  <2> QED
    BY <2>1, NoDecision
<1>3. CASE CacheHit(r)
  BY <1>3, HitDecides
<1>4. CASE FillCache(r) \/ FillFails(r)
  BY <1>4, FillDecidesWell
<1> QED
  BY <1>1, <1>2, <1>3, <1>4
     DEF RequestOperation, Begin, RevokeSession, ChangeDisabled, RefuseBlacklisted,
         PassBlacklist, BlacklistFailsOpen, ReadUser, Serve, Logout, WriteBlacklist,
         VerifyEmail, DropCached, Abandon

LEMMA DecisionStep ==
    ASSUME IInv, [Next]_vars, NEW r \in Requests
    PROVE  Decides(r)
<1>1. CASE UNCHANGED vars \/ OtherOperation
  <2>1. pc' = pc
    BY <1>1 DEF vars, OtherOperation, LoseRedis, Reconnect, Tick, Issue, LockAccount
  <2> QED
    BY <2>1, NoDecision
<1>2. CASE RequestOperation(r)
  BY <1>2, OwnDecision DEF Decides
<1>3. ASSUME NEW q \in Requests \ {r}, RequestOperation(q)
      PROVE  Decides(r)
  BY <1>3, RequestsApart, NoDecision
<1> QED
  BY <1>1, <1>2, <1>3, NextOperations

-----------------------------------------------------------------------------
(* The theorems.                                                           *)

\* Every variable keeps its type: what a request carries across each await, and
\* no timer beyond its lifetime, an issued token's exp included.
THEOREM TypeCorrect == Spec => []TypeOK
<1>1. IInv => TypeOK
  BY DEF IInv
<1> QED
  BY <1>1, Invariant, PTL

\* A session whose blacklisting was acknowledged is blacklisted while its token
\* lives, but for its last second, whatever the clock's fineness.
THEOREM BlacklistLasts == Spec => []BlacklistCovers
<1>1. IInv => BlacklistCovers
  <2> SUFFICES ASSUME IInv, NEW s \in ended, ~Blacklisted(s)
               PROVE  life[s] < TicksPerSecond
    BY DEF BlacklistCovers
  <2>1. /\ life[s] < blacklist[s] + TicksPerSecond
        /\ life[s] \in Nat /\ blacklist[s] \in Nat /\ TicksPerSecond \in Nat
    BY TicksType, AuthenticationAssumption DEF IInv, TypeOK, Covered
  <2> QED
    BY <2>1 DEF Blacklisted
<1> QED
  BY <1>1, Invariant, PTL

\* While Redis can be reached, no decision is older than the cache's life.
THEOREM DecisionsAreCurrent == Spec => DecisionsCatchUp
<1>1. IInv /\ [Next]_vars => [\A r \in Requests : Decides(r)]_vars
  BY DecisionStep
<1>2. Spec => [][\A r \in Requests : Decides(r)]_vars
  BY <1>1, Invariant, PTL DEF Spec
<1> QED
  BY <1>2 DEF DecisionsCatchUp, Decides
=============================================================================
