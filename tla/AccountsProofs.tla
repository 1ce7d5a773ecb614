--------------------------- MODULE AccountsProofs ---------------------------
(***************************************************************************)
(* Proofs about Accounts, for any users, keys, requests, reset rows and    *)
(* thresholds: its type, that wrong guesses are bounded (GuessesBounded)   *)
(* and that an open account has a known password (OpenAccountUsable).      *)
(***************************************************************************)
EXTENDS Accounts, FiniteSets, FiniteSetTheorems, TLAPS

Requested == [user : Users \union {None}, key : Keys \union {None},
              guess : Passwords \union {None},
              stored : Passwords \union {Random, None},
              id : Resets \union {None}, old : BOOLEAN]

Login == {"read", "compare", "session"}

\* What a request carries at its await.
Carries(r) ==
    /\ pc[r] # "idle" => req[r].user \in Users
    /\ pc[r] \in Login => req[r].key \in Keys
    /\ pc[r] \in {"change", "spend"} =>
        /\ req[r].guess \in Passwords /\ req[r].id \in Resets
        /\ reset[req[r].id] \in ResetRows

\* The logins of one key and account that the limiter let through in this
\* window and that have not ended: each may still turn into a wrong guess, or
\* give its hit back.
Pending(k, u) ==
    {r \in Requests : pc[r] \in Login /\ req[r].key = k /\ req[r].user = u /\ ~req[r].old}

\* Every wrong guess and every pending login is among the hits, but for those
\* that logins of former windows took off the count; together they stay within
\* the threshold, the same number aside.
Counted ==
    \A k \in Keys, u \in Users :
        /\ IsFiniteSet(Pending(k, u))
        /\ wrong[k][u] + Cardinality(Pending(k, u)) <= hits[k][u] + late[k][u]
        /\ wrong[k][u] + Cardinality(Pending(k, u)) <= MAX_ATTEMPTS + late[k][u]

IInv == TypeOK /\ (\A r \in Requests : Carries(r)) /\ Counted /\ OpenAccountUsable

\* The disjuncts of Next, one per operation.
Steps ==
    \/ \E r \in Requests, k \in Keys, u \in Users, guess \in Passwords :
            LoginAttempt(r, k, u, guess)
    \/ \E k \in Keys, u \in Users : NewWindow(k, u)
    \/ \E r \in Requests, u \in Users : ForgotPassword(r, u)
    \/ \E r \in Requests, k \in Resets, chosen \in Passwords : ResetPassword(r, k, chosen)
    \/ \E r \in Requests :
        \/ LockAccount(r) \/ RefuseDisabled(r) \/ ReadAccount(r) \/ RefusePassword(r)
        \/ AcceptPassword(r) \/ LoggedIn(r) \/ IssueReset(r) \/ ChangePassword(r)
        \/ SpendToken(r) \/ Abandon(r)
    \/ \E u \in Users : DisableUser(u)
    \/ \E k \in Resets : ExpireReset(k)

LEMMA NextSteps == Next => Steps
BY DEF Next, Steps, LoginStep, RecoveryStep, AskForReset, UseReset

-----------------------------------------------------------------------------
(* How steps move the requests.                                            *)

LEMMA NothingTyped == Nothing \in Requested
BY DEF Nothing, Requested

LEMMA FinishTypes ==
    ASSUME IInv, NEW r \in Requests, Finish(r)
    PROVE  /\ pc' \in [Requests -> Waits] /\ req' \in [Requests -> Requested]
           /\ pc'[r] = "idle"
           /\ \A q \in Requests \ {r} : pc'[q] = pc[q] /\ req'[q] = req[q]
BY NothingTyped DEF IInv, TypeOK, Requested, Finish, Goto, Waits

LEMMA GotoTypes ==
    ASSUME IInv, NEW r \in Requests, NEW w \in Waits, Goto(r, w)
    PROVE  /\ pc' \in [Requests -> Waits] /\ pc'[r] = w
           /\ \A q \in Requests \ {r} : pc'[q] = pc[q]
BY DEF IInv, TypeOK, Goto, Waits

LEMMA StartTypes ==
    ASSUME IInv, NEW r \in Requests, NEW w \in Waits, NEW x \in Requested, Start(r, w, x)
    PROVE  /\ pc' \in [Requests -> Waits] /\ req' \in [Requests -> Requested]
           /\ pc[r] = "idle" /\ pc'[r] = w /\ req'[r] = x
           /\ \A q \in Requests \ {r} : pc'[q] = pc[q] /\ req'[q] = req[q]
BY DEF IInv, TypeOK, Requested, Start, Waits

DataTyped ==
    /\ disabled \in [Users -> BOOLEAN]
    /\ password \in [Users -> Passwords \union {Random}]
    /\ hits \in [Keys -> [Users -> 0..MaxHits]]
    /\ wrong \in [Keys -> [Users -> Nat]]
    /\ late \in [Keys -> [Users -> Nat]]
    /\ reset \in [Resets -> ResetRows \union {None}]
    /\ uses \in [Resets -> 0..2]

LEMMA OneRequestMoves ==
    ASSUME IInv, NEW r \in Requests, DataTyped',
           pc' \in [Requests -> Waits], req' \in [Requests -> Requested],
           \A q \in Requests \ {r} : pc'[q] = pc[q] /\ req'[q] = req[q],
           \A k \in Resets : reset[k] \in ResetRows => reset'[k] \in ResetRows,
           Carries(r)'
    PROVE  TypeOK' /\ \A q \in Requests : Carries(q)'
<1>1. TypeOK'
  BY DEF TypeOK, DataTyped, Requested
<1>2. ASSUME NEW q \in Requests \ {r} PROVE Carries(q)'
  BY <1>2 DEF IInv, Carries
<1> QED
  BY <1>1, <1>2

\* A login that is no longer pending leaves the count as it was, or one less.
LEMMA PendingEnds ==
    ASSUME IInv, NEW r \in Requests, pc'[r] \notin Login,
           \A q \in Requests \ {r} : pc'[q] = pc[q] /\ req'[q] = req[q],
           NEW k \in Keys, NEW u \in Users
    PROVE  /\ IsFiniteSet(Pending(k, u)')
           /\ Cardinality(Pending(k, u)) \in Nat /\ Cardinality(Pending(k, u)') \in Nat
           /\ Cardinality(Pending(k, u)') =
                IF r \in Pending(k, u) THEN Cardinality(Pending(k, u)) - 1
                                       ELSE Cardinality(Pending(k, u))
<1>1. IsFiniteSet(Pending(k, u))
  BY DEF IInv, Counted
<1>2. Pending(k, u)' = Pending(k, u) \ {r}
  BY DEF Pending
<1>3. Cardinality(Pending(k, u)) \in Nat
  BY <1>1, FS_CardinalityType
<1>4. CASE r \in Pending(k, u)
  BY <1>1, <1>2, <1>3, <1>4, FS_RemoveElement, FS_CardinalityType
<1>5. CASE r \notin Pending(k, u)
  <2>1. Pending(k, u)' = Pending(k, u)
    BY <1>2, <1>5
  <2> QED
    BY <1>1, <1>3, <1>5, <2>1
<1> QED
  BY <1>4, <1>5

\* Steps that leave the limiter alone and admit no login.
LEMMA StillCounted ==
    ASSUME IInv, UNCHANGED limiter, NEW r \in Requests, pc'[r] \notin Login,
           \A q \in Requests \ {r} : pc'[q] = pc[q] /\ req'[q] = req[q]
    PROVE  Counted'
<1>1. ASSUME NEW k \in Keys, NEW u \in Users
      PROVE  /\ IsFiniteSet(Pending(k, u)')
             /\ wrong'[k][u] + Cardinality(Pending(k, u)') <= hits'[k][u] + late'[k][u]
             /\ wrong'[k][u] + Cardinality(Pending(k, u)') <= MAX_ATTEMPTS + late'[k][u]
  <2>1. /\ IsFiniteSet(Pending(k, u)')
        /\ Cardinality(Pending(k, u)) \in Nat /\ Cardinality(Pending(k, u)') \in Nat
        /\ Cardinality(Pending(k, u)') <= Cardinality(Pending(k, u))
    BY PendingEnds
  <2>2. wrong[k][u] \in Nat /\ hits[k][u] \in Nat /\ late[k][u] \in Nat /\ MAX_ATTEMPTS \in Nat
    BY AccountsAssumption DEF IInv, TypeOK
  <2>3. /\ wrong[k][u] + Cardinality(Pending(k, u)) <= hits[k][u] + late[k][u]
        /\ wrong[k][u] + Cardinality(Pending(k, u)) <= MAX_ATTEMPTS + late[k][u]
    BY DEF IInv, Counted
  <2>4. wrong' = wrong /\ hits' = hits /\ late' = late
    BY DEF limiter
  <2> QED
    BY <2>1, <2>2, <2>3, <2>4
<1> QED
  BY <1>1 DEF Counted

-----------------------------------------------------------------------------
(* The invariant holds at first, and each operation preserves it.          *)

LEMMA Initially == Init => IInv
<1> SUFFICES ASSUME Init PROVE IInv
  OBVIOUS
<1>1. TypeOK
  BY NothingTyped, AccountsAssumption DEF Init, TypeOK, Requested, Waits
<1>2. \A r \in Requests : Carries(r)
  BY DEF Init, Carries, Login
<1>3. Counted
  <2>1. ASSUME NEW k \in Keys, NEW u \in Users
        PROVE  /\ IsFiniteSet(Pending(k, u))
               /\ wrong[k][u] + Cardinality(Pending(k, u)) <= hits[k][u] + late[k][u]
               /\ wrong[k][u] + Cardinality(Pending(k, u)) <= MAX_ATTEMPTS + late[k][u]
    <3>1. Pending(k, u) = {} /\ wrong[k][u] = 0 /\ hits[k][u] = 0 /\ late[k][u] = 0
      BY DEF Init, Pending, Login
    <3>2. IsFiniteSet(Pending(k, u)) /\ Cardinality(Pending(k, u)) = 0
      BY <3>1, FS_EmptySet
    <3> QED
      BY <3>1, <3>2, AccountsAssumption
  <2> QED
    BY <2>1 DEF Counted
<1>4. OpenAccountUsable
  BY AccountsAssumption DEF Init, OpenAccountUsable
<1> QED
  BY <1>1, <1>2, <1>3, <1>4 DEF IInv

\* What ends a request and leaves the limiter alone.
LEMMA EndKeeps ==
    ASSUME IInv, NEW r \in Requests, Finish(r), UNCHANGED limiter, DataTyped',
           \A k \in Resets : reset[k] \in ResetRows => reset'[k] \in ResetRows,
           OpenAccountUsable'
    PROVE  IInv'
<1>1. /\ pc' \in [Requests -> Waits] /\ req' \in [Requests -> Requested]
      /\ pc'[r] = "idle"
      /\ \A q \in Requests \ {r} : pc'[q] = pc[q] /\ req'[q] = req[q]
  BY FinishTypes
<1>2. Carries(r)'
  BY <1>1 DEF Carries, Login
<1>3. TypeOK' /\ \A q \in Requests : Carries(q)'
  BY <1>1, <1>2, OneRequestMoves
<1>4. Counted'
  BY <1>1, StillCounted DEF Login
<1> QED
  BY <1>3, <1>4 DEF IInv

\* What moves a login on: it stays pending.
LEMMA PendingKept ==
    ASSUME IInv, UNCHANGED limiter, NEW r \in Requests,
           pc[r] \in Login, pc'[r] \in Login,
           req'[r].key = req[r].key, req'[r].user = req[r].user, req'[r].old = req[r].old,
           \A q \in Requests \ {r} : pc'[q] = pc[q] /\ req'[q] = req[q]
    PROVE  Counted'
<1>1. ASSUME NEW k \in Keys, NEW u \in Users
      PROVE  Pending(k, u)' = Pending(k, u)
  BY DEF Pending
<1> QED
  BY <1>1 DEF IInv, Counted, limiter

LEMMA LockKeeps ==
    ASSUME IInv, NEW r \in Requests, LockAccount(r)
    PROVE  IInv'
<1>1. req[r].user \in Users
  BY DEF IInv, Carries, LockAccount
<1>2. DataTyped'
  BY <1>1 DEF IInv, TypeOK, DataTyped, LockAccount, limiter, recovery
<1>3. OpenAccountUsable'
  <2>1. ASSUME NEW u \in Users, ~disabled'[u] PROVE password'[u] # Random
    BY <1>1, <2>1 DEF IInv, TypeOK, OpenAccountUsable, LockAccount
  <2> QED
    BY <2>1 DEF OpenAccountUsable
<1> QED
  BY <1>2, <1>3, EndKeeps DEF LockAccount, recovery

\* RefuseDisabled and Abandon change nothing but the request.
LEMMA GivingUpKeeps ==
    ASSUME IInv, NEW r \in Requests, Finish(r), UNCHANGED <<accounts, limiter, recovery>>
    PROVE  IInv'
<1>1. DataTyped' /\ OpenAccountUsable'
  BY DEF IInv, TypeOK, DataTyped, OpenAccountUsable, accounts, limiter, recovery
<1> QED
  BY <1>1, EndKeeps DEF recovery

LEMMA ReadKeeps ==
    ASSUME IInv, NEW r \in Requests, ReadAccount(r)
    PROVE  IInv'
<1>1. req[r].user \in Users /\ req[r].key \in Keys /\ pc[r] = "read"
  BY DEF IInv, Carries, Login, ReadAccount
<1>2. DataTyped' /\ OpenAccountUsable'
  BY DEF IInv, TypeOK, DataTyped, OpenAccountUsable, ReadAccount, accounts, limiter, recovery
<1>3. /\ pc' \in [Requests -> Waits] /\ pc'[r] = "compare"
      /\ \A q \in Requests \ {r} : pc'[q] = pc[q]
  BY GotoTypes DEF ReadAccount, Waits
<1>4. /\ req' = [req EXCEPT ![r].stored = password[req[r].user]]
      /\ req \in [Requests -> Requested] /\ password[req[r].user] \in Passwords \union {Random}
  BY <1>1 DEF ReadAccount, IInv, TypeOK, Requested
<1>5. /\ req' \in [Requests -> Requested]
      /\ req'[r].user = req[r].user /\ req'[r].key = req[r].key /\ req'[r].old = req[r].old
      /\ \A q \in Requests \ {r} : req'[q] = req[q]
  BY <1>4 DEF Requested
<1>6. Carries(r)'
  BY <1>1, <1>3, <1>5 DEF Carries, Login
<1>7. TypeOK' /\ \A q \in Requests : Carries(q)'
  BY <1>2, <1>3, <1>5, <1>6, OneRequestMoves DEF ReadAccount, recovery
<1>8. Counted'
  BY <1>1, <1>3, <1>5, PendingKept DEF Login, ReadAccount
<1> QED
  BY <1>2, <1>7, <1>8 DEF IInv

LEMMA AcceptKeeps ==
    ASSUME IInv, NEW r \in Requests, AcceptPassword(r)
    PROVE  IInv'
<1>1. req[r].user \in Users /\ req[r].key \in Keys /\ pc[r] = "compare" /\ req' = req
  BY DEF IInv, Carries, Login, AcceptPassword
<1>2. DataTyped' /\ OpenAccountUsable'
  BY DEF IInv, TypeOK, DataTyped, OpenAccountUsable, AcceptPassword, accounts, limiter, recovery
<1>3. /\ pc' \in [Requests -> Waits] /\ pc'[r] = "session"
      /\ \A q \in Requests \ {r} : pc'[q] = pc[q]
  BY GotoTypes DEF AcceptPassword, Waits
<1>4. req' \in [Requests -> Requested]
  BY <1>1 DEF IInv, TypeOK, Requested
<1>5. Carries(r)'
  BY <1>1, <1>3 DEF Carries, Login
<1>6. TypeOK' /\ \A q \in Requests : Carries(q)'
  BY <1>1, <1>2, <1>3, <1>4, <1>5, OneRequestMoves DEF AcceptPassword, recovery
<1>7. Counted'
  BY <1>1, <1>3, PendingKept DEF Login, AcceptPassword
<1> QED
  BY <1>2, <1>6, <1>7 DEF IInv

\* A wrong guess takes the place of the pending login it came from.
LEMMA WrongKeeps ==
    ASSUME IInv, NEW r \in Requests, RefusePassword(r)
    PROVE  IInv'
<1> DEFINE K == req[r].key
           U == req[r].user
<1>1. U \in Users /\ K \in Keys /\ pc[r] = "compare"
  BY DEF IInv, Carries, Login, RefusePassword
<1>2. /\ pc' \in [Requests -> Waits] /\ req' \in [Requests -> Requested]
      /\ pc'[r] = "idle"
      /\ \A q \in Requests \ {r} : pc'[q] = pc[q] /\ req'[q] = req[q]
  BY FinishTypes DEF RefusePassword
<1>3. /\ wrong' = IF req[r].old THEN wrong ELSE [wrong EXCEPT ![K][U] = @ + 1]
      /\ hits' = hits /\ late' = late
      /\ wrong \in [Keys -> [Users -> Nat]] /\ hits \in [Keys -> [Users -> 0..MaxHits]]
      /\ late \in [Keys -> [Users -> Nat]] /\ req[r].old \in BOOLEAN
  BY DEF RefusePassword, IInv, TypeOK
<1>4. MAX_ATTEMPTS \in Nat /\ MaxHits \in Nat
  BY AccountsAssumption
<1> HIDE DEF K, U
<1>5. ASSUME NEW k \in Keys, NEW u \in Users
      PROVE  /\ IsFiniteSet(Pending(k, u)')
             /\ wrong'[k][u] + Cardinality(Pending(k, u)') <= hits'[k][u] + late'[k][u]
             /\ wrong'[k][u] + Cardinality(Pending(k, u)') <= MAX_ATTEMPTS + late'[k][u]
  <2>1. /\ IsFiniteSet(Pending(k, u)')
        /\ Cardinality(Pending(k, u)) \in Nat /\ Cardinality(Pending(k, u)') \in Nat
        /\ Cardinality(Pending(k, u)') =
             IF r \in Pending(k, u) THEN Cardinality(Pending(k, u)) - 1
                                    ELSE Cardinality(Pending(k, u))
    BY <1>2, PendingEnds DEF Login
  <2>2. r \in Pending(k, u) <=> k = K /\ u = U /\ ~req[r].old
    BY <1>1 DEF Pending, Login, K, U
  <2>3. /\ wrong[k][u] + Cardinality(Pending(k, u)) <= hits[k][u] + late[k][u]
        /\ wrong[k][u] + Cardinality(Pending(k, u)) <= MAX_ATTEMPTS + late[k][u]
    BY DEF IInv, Counted
  <2>4. wrong'[k][u] = IF k = K /\ u = U /\ ~req[r].old THEN wrong[k][u] + 1
                          ELSE wrong[k][u]
    BY <1>1, <1>3
  <2>5. /\ wrong[k][u] \in Nat /\ hits[k][u] \in Nat /\ late[k][u] \in Nat
        /\ hits'[k][u] = hits[k][u] /\ late'[k][u] = late[k][u]
    BY <1>3, <1>4
  <2> QED
    BY <1>4, <2>1, <2>2, <2>3, <2>4, <2>5
<1>6. wrong' \in [Keys -> [Users -> Nat]]
  BY <1>1, <1>3
<1>7. DataTyped' /\ OpenAccountUsable'
  BY <1>6 DEF IInv, TypeOK, DataTyped, OpenAccountUsable, RefusePassword, accounts, recovery
<1>8. Carries(r)'
  BY <1>2 DEF Carries, Login
<1>9. TypeOK' /\ \A q \in Requests : Carries(q)'
  BY <1>2, <1>7, <1>8, OneRequestMoves DEF RefusePassword, recovery
<1>10. Counted'
  BY <1>5 DEF Counted
<1> QED
  BY <1>7, <1>9, <1>10 DEF IInv

\* A successful login gives its hit back, and was pending until then.
LEMMA LoggedInKeeps ==
    ASSUME IInv, NEW r \in Requests, LoggedIn(r)
    PROVE  IInv'
<1> DEFINE K == req[r].key
           U == req[r].user
<1>1. U \in Users /\ K \in Keys /\ pc[r] = "session"
  BY DEF IInv, Carries, Login, LoggedIn, Succeed
<1>2. /\ pc' \in [Requests -> Waits] /\ req' \in [Requests -> Requested]
      /\ pc'[r] = "idle"
      /\ \A q \in Requests \ {r} : pc'[q] = pc[q] /\ req'[q] = req[q]
  BY FinishTypes DEF LoggedIn, Succeed
<1>3. /\ hits' = [hits EXCEPT ![K][U] = IF @ = 0 THEN 0 ELSE @ - 1] /\ wrong' = wrong
      /\ late' = IF req[r].old THEN [late EXCEPT ![K][U] = @ + 1] ELSE late
      /\ wrong \in [Keys -> [Users -> Nat]] /\ hits \in [Keys -> [Users -> 0..MaxHits]]
      /\ late \in [Keys -> [Users -> Nat]] /\ req[r].old \in BOOLEAN
  BY DEF LoggedIn, Succeed, IInv, TypeOK
<1>4. MAX_ATTEMPTS \in Nat /\ MaxHits \in Nat
  BY AccountsAssumption
<1> HIDE DEF K, U
<1>5. ASSUME NEW k \in Keys, NEW u \in Users
      PROVE  /\ IsFiniteSet(Pending(k, u)')
             /\ wrong'[k][u] + Cardinality(Pending(k, u)') <= hits'[k][u] + late'[k][u]
             /\ wrong'[k][u] + Cardinality(Pending(k, u)') <= MAX_ATTEMPTS + late'[k][u]
             /\ hits'[k][u] \in Nat /\ hits'[k][u] <= MaxHits
  <2>1. /\ IsFiniteSet(Pending(k, u)')
        /\ Cardinality(Pending(k, u)) \in Nat /\ Cardinality(Pending(k, u)') \in Nat
        /\ Cardinality(Pending(k, u)') =
             IF r \in Pending(k, u) THEN Cardinality(Pending(k, u)) - 1
                                    ELSE Cardinality(Pending(k, u))
    BY <1>2, PendingEnds DEF Login
  <2>2. r \in Pending(k, u) <=> k = K /\ u = U /\ ~req[r].old
    BY <1>1 DEF Pending, Login, K, U
  <2>3. /\ wrong[k][u] + Cardinality(Pending(k, u)) <= hits[k][u] + late[k][u]
        /\ wrong[k][u] + Cardinality(Pending(k, u)) <= MAX_ATTEMPTS + late[k][u]
    BY DEF IInv, Counted
  <2>4. hits'[k][u] = IF k = K /\ u = U /\ hits[k][u] # 0 THEN hits[k][u] - 1 ELSE hits[k][u]
    BY <1>1, <1>3
  <2>6. late'[k][u] = IF k = K /\ u = U /\ req[r].old THEN late[k][u] + 1 ELSE late[k][u]
    BY <1>1, <1>3
  <2>5. /\ wrong[k][u] \in Nat /\ hits[k][u] \in Nat /\ late[k][u] \in Nat
        /\ hits[k][u] <= MaxHits /\ wrong'[k][u] = wrong[k][u]
    BY <1>3, <1>4
  <2> QED
    BY <1>4, <2>1, <2>2, <2>3, <2>4, <2>5, <2>6
<1>6. hits' \in [Keys -> [Users -> 0..MaxHits]]
  <2>1. hits' \in [Keys -> [Users -> Int]]
    BY <1>1, <1>3, <1>4
  <2> QED
    BY <1>4, <1>5, <2>1
<1>11. late' \in [Keys -> [Users -> Nat]]
  BY <1>1, <1>3
<1>7. DataTyped' /\ OpenAccountUsable'
  BY <1>6, <1>11 DEF IInv, TypeOK, DataTyped, OpenAccountUsable, LoggedIn, Succeed,
                    accounts, recovery
<1>8. Carries(r)'
  BY <1>2 DEF Carries, Login
<1>9. TypeOK' /\ \A q \in Requests : Carries(q)'
  BY <1>2, <1>7, <1>8, OneRequestMoves DEF LoggedIn, Succeed, recovery
<1>10. Counted'
  BY <1>5 DEF Counted
<1> QED
  BY <1>7, <1>9, <1>10 DEF IInv

\* A new login is counted before it is pending, and is let through only while
\* the count is within the threshold.
LEMMA AttemptKeeps ==
    ASSUME IInv, NEW r \in Requests, NEW K \in Keys, NEW U \in Users,
           NEW guess \in Passwords, LoginAttempt(r, K, U, guess)
    PROVE  IInv'
<1> DEFINE wait == IF hits'[K][U] > MAX_ATTEMPTS THEN "lock" ELSE "read"
           x == [Nothing EXCEPT !.user = U, !.key = K, !.guess = guess]
<1>1. wait \in Waits /\ x \in Requested /\ x.user = U /\ x.key = K /\ ~x.old
  BY DEF Waits, Nothing, Requested
<1>2. /\ pc' \in [Requests -> Waits] /\ req' \in [Requests -> Requested]
      /\ pc[r] = "idle" /\ pc'[r] = wait /\ req'[r] = x
      /\ \A q \in Requests \ {r} : pc'[q] = pc[q] /\ req'[q] = req[q]
  <2>1. Start(r, wait, x)
    BY DEF LoginAttempt
  <2> HIDE DEF wait, x
  <2> QED
    BY <1>1, <2>1, StartTypes
<1>3. /\ hits' = [hits EXCEPT ![K][U] = @ + 1] /\ wrong' = wrong /\ late' = late
      /\ hits[K][U] < MaxHits
      /\ wrong \in [Keys -> [Users -> Nat]] /\ hits \in [Keys -> [Users -> 0..MaxHits]]
      /\ late \in [Keys -> [Users -> Nat]]
  BY DEF LoginAttempt, IInv, TypeOK
<1>4. MAX_ATTEMPTS \in Nat /\ MaxHits \in Nat
  BY AccountsAssumption
<1>5. \A k \in Keys, u \in Users :
        hits'[k][u] = IF k = K /\ u = U THEN hits[k][u] + 1 ELSE hits[k][u]
  BY <1>3
<1>6. ASSUME NEW k \in Keys, NEW u \in Users
      PROVE  /\ IsFiniteSet(Pending(k, u)')
             /\ wrong'[k][u] + Cardinality(Pending(k, u)') <= hits'[k][u] + late'[k][u]
             /\ wrong'[k][u] + Cardinality(Pending(k, u)') <= MAX_ATTEMPTS + late'[k][u]
  <2>1. IsFiniteSet(Pending(k, u)) /\ Cardinality(Pending(k, u)) \in Nat
    BY FS_CardinalityType DEF IInv, Counted
  <2>2. /\ wrong[k][u] + Cardinality(Pending(k, u)) <= hits[k][u] + late[k][u]
        /\ wrong[k][u] + Cardinality(Pending(k, u)) <= MAX_ATTEMPTS + late[k][u]
    BY DEF IInv, Counted
  <2>3. /\ wrong[k][u] \in Nat /\ hits[k][u] \in Nat /\ late[k][u] \in Nat
        /\ wrong'[k][u] = wrong[k][u] /\ late'[k][u] = late[k][u]
    BY <1>3, <1>4
  <2>4. r \notin Pending(k, u)
    BY <1>2 DEF Pending, Login
  <2>5. CASE wait = "read" /\ k = K /\ u = U
    <3>1. Pending(k, u)' = Pending(k, u) \union {r}
      BY <1>1, <1>2, <2>5 DEF Pending, Login
    <3>2. IsFiniteSet(Pending(k, u)') /\ Cardinality(Pending(k, u)') = Cardinality(Pending(k, u)) + 1
      BY <2>1, <2>4, <3>1, FS_AddElement
    <3>3. hits'[k][u] = hits[k][u] + 1 /\ hits'[k][u] <= MAX_ATTEMPTS
      BY <1>4, <1>5, <2>3, <2>5
    <3> QED
      BY <1>4, <2>1, <2>2, <2>3, <3>2, <3>3
  <2>6. CASE ~(wait = "read" /\ k = K /\ u = U)
    <3>1. Pending(k, u)' = Pending(k, u)
      BY <1>1, <1>2, <2>4, <2>6 DEF Pending, Login
    <3>2. hits'[k][u] >= hits[k][u]
      BY <1>5, <2>3
    <3>3. hits'[k][u] \in Nat
      BY <1>5, <2>3
    <3> QED
      BY <1>4, <2>1, <2>2, <2>3, <3>1, <3>2, <3>3
  <2> QED
    BY <2>5, <2>6
<1>7. hits' \in [Keys -> [Users -> 0..MaxHits]]
  BY <1>3, <1>4
<1>8. DataTyped' /\ OpenAccountUsable'
  BY <1>7 DEF IInv, TypeOK, DataTyped, OpenAccountUsable, LoginAttempt, accounts, recovery
<1>9. Carries(r)'
  BY <1>1, <1>2 DEF Carries, Login
<1>10. TypeOK' /\ \A q \in Requests : Carries(q)'
  BY <1>2, <1>8, <1>9, OneRequestMoves DEF LoginAttempt, recovery
<1>11. Counted'
  BY <1>6 DEF Counted
<1> QED
  BY <1>8, <1>10, <1>11 DEF IInv

\* What starts a request that is no login.
LEMMA BeginKeeps ==
    ASSUME IInv, NEW r \in Requests, NEW w \in Waits \ Login, NEW x \in Requested,
           Start(r, w, x), UNCHANGED <<accounts, limiter, recovery>>,
           x.user \in Users,
           w \in {"change", "spend"} => /\ x.guess \in Passwords /\ x.id \in Resets
                                        /\ reset[x.id] \in ResetRows
    PROVE  IInv'
<1>1. /\ pc' \in [Requests -> Waits] /\ req' \in [Requests -> Requested]
      /\ pc[r] = "idle" /\ pc'[r] = w /\ req'[r] = x
      /\ \A q \in Requests \ {r} : pc'[q] = pc[q] /\ req'[q] = req[q]
  BY StartTypes
<1>2. DataTyped' /\ OpenAccountUsable' /\ reset' = reset
  BY DEF IInv, TypeOK, DataTyped, OpenAccountUsable, accounts, limiter, recovery
<1>3. Carries(r)'
  BY <1>1, <1>2 DEF Carries
<1>4. TypeOK' /\ \A q \in Requests : Carries(q)'
  BY <1>1, <1>2, <1>3, OneRequestMoves
<1>5. Counted'
  BY <1>1, StillCounted
<1> QED
  BY <1>2, <1>4, <1>5 DEF IInv

LEMMA ForgotKeeps ==
    ASSUME IInv, NEW r \in Requests, NEW u \in Users, ForgotPassword(r, u)
    PROVE  IInv'
<1> DEFINE x == [Nothing EXCEPT !.user = u]
<1>1. x \in Requested /\ x.user = u /\ "issue" \in Waits \ Login
  BY DEF Nothing, Requested, Waits, Login
<1>2. Start(r, "issue", x) /\ UNCHANGED <<accounts, limiter, recovery>>
  BY DEF ForgotPassword
<1> HIDE DEF x
<1> QED
  BY <1>1, <1>2, BeginKeeps

LEMMA UseKeeps ==
    ASSUME IInv, NEW r \in Requests, NEW k \in Resets, NEW chosen \in Passwords,
           ResetPassword(r, k, chosen)
    PROVE  IInv'
<1> DEFINE x == [Nothing EXCEPT !.user = reset[k].user, !.guess = chosen, !.id = k]
<1>1. reset[k] \in ResetRows
  BY DEF ResetPassword, Usable, IInv, TypeOK
<1>2. /\ x \in Requested /\ x.user \in Users /\ x.guess = chosen /\ x.id = k
      /\ "change" \in Waits \ Login
  BY <1>1 DEF Nothing, Requested, ResetRows, Waits, Login
<1>3. Start(r, "change", x) /\ UNCHANGED <<accounts, limiter, recovery>>
  BY DEF ResetPassword
<1> HIDE DEF x
<1> QED
  BY <1>1, <1>2, <1>3, BeginKeeps

LEMMA IssueKeeps ==
    ASSUME IInv, NEW r \in Requests, IssueReset(r)
    PROVE  IInv'
<1>1. req[r].user \in Users
  BY DEF IInv, Carries, IssueReset
<1>2. PICK k \in Resets :
        /\ reset' = [reset EXCEPT ![k] =
                [user |-> req[r].user, spent |-> FALSE, expired |-> FALSE]]
        /\ uses' = [uses EXCEPT ![k] = 0]
  BY DEF IssueReset
<1>3. reset' \in [Resets -> ResetRows \union {None}] /\ uses' \in [Resets -> 0..2]
  BY <1>1, <1>2 DEF IInv, TypeOK, ResetRows
<1>4. \A i \in Resets : reset[i] \in ResetRows => reset'[i] \in ResetRows
  BY <1>1, <1>2 DEF IInv, TypeOK, ResetRows
<1>5. DataTyped' /\ OpenAccountUsable'
  BY <1>3 DEF IInv, TypeOK, DataTyped, OpenAccountUsable, IssueReset, accounts, limiter
<1> QED
  BY <1>4, <1>5, EndKeeps DEF IssueReset

LEMMA SpendKeeps ==
    ASSUME IInv, NEW r \in Requests, SpendToken(r)
    PROVE  IInv'
<1>1. req[r].id \in Resets /\ reset[req[r].id] \in ResetRows
  BY DEF IInv, Carries, SpendToken
<1>2. reset' = [reset EXCEPT ![req[r].id] = [reset[req[r].id] EXCEPT !.spent = TRUE]]
  BY DEF SpendToken
<1>3. [reset[req[r].id] EXCEPT !.spent = TRUE] \in ResetRows
  BY <1>1 DEF ResetRows
<1>4. /\ reset' \in [Resets -> ResetRows \union {None}]
      /\ \A i \in Resets : reset[i] \in ResetRows => reset'[i] \in ResetRows
  BY <1>1, <1>2, <1>3 DEF IInv, TypeOK
<1>5. DataTyped' /\ OpenAccountUsable'
  BY <1>4 DEF IInv, TypeOK, DataTyped, OpenAccountUsable, SpendToken, accounts, limiter
<1> QED
  BY <1>4, <1>5, EndKeeps DEF SpendToken

LEMMA ChangeKeeps ==
    ASSUME IInv, NEW r \in Requests, ChangePassword(r)
    PROVE  IInv'
<1>1. /\ pc[r] = "change" /\ req[r].user \in Users /\ req[r].guess \in Passwords
      /\ req[r].id \in Resets /\ reset[req[r].id] \in ResetRows /\ req' = req /\ reset' = reset
  BY DEF IInv, Carries, ChangePassword
<1>2. uses' \in [Resets -> 0..2]
  <2>1. /\ uses \in [Resets -> 0..2]
        /\ uses' = [uses EXCEPT ![req[r].id] = IF @ = 2 THEN 2 ELSE @ + 1]
    BY DEF IInv, TypeOK, ChangePassword
  <2> QED
    BY <1>1, <2>1
<1>3. DataTyped'
  BY <1>1, <1>2 DEF IInv, TypeOK, DataTyped, ChangePassword, limiter
<1>4. OpenAccountUsable'
  <2>1. ASSUME NEW u \in Users, ~disabled'[u] PROVE password'[u] # Random
    BY <1>1, <2>1, AccountsAssumption DEF IInv, TypeOK, OpenAccountUsable, ChangePassword
  <2> QED
    BY <2>1 DEF OpenAccountUsable
<1>5. /\ pc' \in [Requests -> Waits] /\ pc'[r] = "spend"
      /\ \A q \in Requests \ {r} : pc'[q] = pc[q]
  BY GotoTypes DEF ChangePassword, Waits
<1>6. req' \in [Requests -> Requested]
  BY <1>1 DEF IInv, TypeOK, Requested
<1>7. Carries(r)'
  BY <1>1, <1>5 DEF Carries, Login
<1>8. TypeOK' /\ \A q \in Requests : Carries(q)'
  BY <1>1, <1>3, <1>5, <1>6, <1>7, OneRequestMoves
<1>9. Counted'
  BY <1>1, <1>5, StillCounted DEF Login, ChangePassword
<1> QED
  BY <1>4, <1>8, <1>9 DEF IInv

LEMMA ExpireKeeps ==
    ASSUME IInv, NEW k \in Resets, ExpireReset(k)
    PROVE  IInv'
<1>1. reset[k] \in ResetRows
  BY DEF ExpireReset, Usable, IInv, TypeOK
<1>2. reset' = [reset EXCEPT ![k] = [reset[k] EXCEPT !.expired = TRUE]]
  BY DEF ExpireReset
<1>3. [reset[k] EXCEPT !.expired = TRUE] \in ResetRows
  BY <1>1 DEF ResetRows
<1>4. /\ reset' \in [Resets -> ResetRows \union {None}]
      /\ \A i \in Resets : reset[i] \in ResetRows => reset'[i] \in ResetRows
  BY <1>1, <1>2, <1>3 DEF IInv, TypeOK
<1>5. TypeOK' /\ OpenAccountUsable'
  BY <1>4 DEF IInv, TypeOK, OpenAccountUsable, ExpireReset, accounts, limiter
<1>6. \A r \in Requests : Carries(r)'
  <2>1. ASSUME NEW r \in Requests PROVE Carries(r)'
    BY <1>4 DEF IInv, Carries, ExpireReset
  <2> QED
    BY <2>1
<1>7. Counted'
  BY DEF IInv, Counted, Pending, ExpireReset, limiter
<1> QED
  BY <1>5, <1>6, <1>7 DEF IInv

\* A window passes: nothing pending belongs to the new one.
LEMMA WindowKeeps ==
    ASSUME IInv, NEW K \in Keys, NEW U \in Users, NewWindow(K, U)
    PROVE  IInv'
<1> DEFINE Mine(q) == req[q].key = K /\ req[q].user = U
<1>1. \A q \in Requests :
        req'[q] = IF Mine(q) THEN [req[q] EXCEPT !.old = TRUE] ELSE req[q]
  BY DEF NewWindow
<1>2. \A q \in Requests : req[q] \in Requested
  BY DEF IInv, TypeOK, Requested
<1>3. \A q \in Requests :
        /\ req'[q] \in Requested
        /\ req'[q].user = req[q].user /\ req'[q].key = req[q].key
        /\ req'[q].guess = req[q].guess /\ req'[q].id = req[q].id
        /\ req'[q].old = (Mine(q) \/ req[q].old)
  BY <1>1, <1>2 DEF Requested
<1>4. req' \in [Requests -> Requested]
  BY <1>3 DEF NewWindow
<1>5. /\ hits' = [hits EXCEPT ![K][U] = 0] /\ wrong' = [wrong EXCEPT ![K][U] = 0]
      /\ late' = [late EXCEPT ![K][U] = 0]
      /\ hits \in [Keys -> [Users -> 0..MaxHits]] /\ wrong \in [Keys -> [Users -> Nat]]
      /\ late \in [Keys -> [Users -> Nat]]
  BY DEF NewWindow, IInv, TypeOK
<1>6. MAX_ATTEMPTS \in Nat /\ MaxHits \in Nat
  BY AccountsAssumption
<1>7. /\ hits' \in [Keys -> [Users -> 0..MaxHits]] /\ wrong' \in [Keys -> [Users -> Nat]]
      /\ late' \in [Keys -> [Users -> Nat]]
  BY <1>5, <1>6
<1>8. TypeOK' /\ OpenAccountUsable'
  BY <1>4, <1>7 DEF IInv, TypeOK, OpenAccountUsable, Requested, NewWindow, accounts, recovery
<1>9. \A q \in Requests : Carries(q)'
  <2>1. ASSUME NEW q \in Requests PROVE Carries(q)'
    BY <1>3 DEF IInv, Carries, NewWindow, recovery
  <2> QED
    BY <2>1
<1>10. ASSUME NEW k \in Keys, NEW u \in Users
      PROVE  /\ IsFiniteSet(Pending(k, u)')
             /\ wrong'[k][u] + Cardinality(Pending(k, u)') <= hits'[k][u] + late'[k][u]
             /\ wrong'[k][u] + Cardinality(Pending(k, u)') <= MAX_ATTEMPTS + late'[k][u]
  <2>1. pc' = pc
    BY DEF NewWindow
  <2>2. CASE k = K /\ u = U
    <3>1. Pending(k, u)' = {}
      BY <1>3, <2>1, <2>2 DEF Pending
    <3>2. IsFiniteSet(Pending(k, u)') /\ Cardinality(Pending(k, u)') = 0
      BY <3>1, FS_EmptySet
    <3>3. wrong'[k][u] = 0 /\ hits'[k][u] = 0 /\ late'[k][u] = 0
      BY <1>5, <2>2
    <3> QED
      BY <1>6, <3>2, <3>3
  <2>3. CASE ~(k = K /\ u = U)
    <3>1. Pending(k, u)' = Pending(k, u)
      BY <1>2, <1>3, <2>1, <2>3 DEF Pending, Requested
    <3>2. wrong'[k][u] = wrong[k][u] /\ hits'[k][u] = hits[k][u] /\ late'[k][u] = late[k][u]
      BY <1>5, <2>3
    <3> QED
      BY <3>1, <3>2 DEF IInv, Counted
  <2> QED
    BY <2>2, <2>3
<1>11. Counted'
  BY <1>10 DEF Counted
<1> QED
  BY <1>8, <1>9, <1>11 DEF IInv

LEMMA DisableKeeps ==
    ASSUME IInv, NEW u \in Users, DisableUser(u)
    PROVE  IInv'
<1>1. TypeOK' /\ OpenAccountUsable'
  BY DEF IInv, TypeOK, OpenAccountUsable, DisableUser, limiter, recovery
<1>2. \A r \in Requests : Carries(r)'
  BY DEF IInv, Carries, DisableUser, recovery
<1>3. Counted'
  BY DEF IInv, Counted, Pending, DisableUser, limiter
<1> QED
  BY <1>1, <1>2, <1>3 DEF IInv

LEMMA Stutters == IInv /\ UNCHANGED vars => IInv'
<1> SUFFICES ASSUME IInv, UNCHANGED vars PROVE IInv'
  OBVIOUS
<1>1. TypeOK' /\ OpenAccountUsable'
  BY DEF IInv, TypeOK, OpenAccountUsable, vars, accounts, limiter, recovery
<1>2. \A r \in Requests : Carries(r)'
  BY DEF IInv, Carries, vars, recovery
<1>3. Counted'
  BY DEF IInv, Counted, Pending, vars, limiter
<1> QED
  BY <1>1, <1>2, <1>3 DEF IInv

LEMMA Inductive == IInv /\ [Next]_vars => IInv'
<1> SUFFICES ASSUME IInv, Next PROVE IInv'
  BY Stutters
<1>1. Steps
  BY NextSteps
<1>2. ASSUME NEW r \in Requests, NEW k \in Keys, NEW u \in Users, NEW guess \in Passwords,
             LoginAttempt(r, k, u, guess)
      PROVE  IInv'
  BY <1>2, AttemptKeeps
<1>3. ASSUME NEW r \in Requests, NEW u \in Users, ForgotPassword(r, u) PROVE IInv'
  BY <1>3, ForgotKeeps
<1>4. ASSUME NEW r \in Requests, NEW k \in Resets, NEW chosen \in Passwords,
             ResetPassword(r, k, chosen)
      PROVE  IInv'
  BY <1>4, UseKeeps
<1>5. ASSUME NEW r \in Requests, LockAccount(r) PROVE IInv'
  BY <1>5, LockKeeps
<1>6. ASSUME NEW r \in Requests, RefuseDisabled(r) \/ Abandon(r) PROVE IInv'
  BY <1>6, GivingUpKeeps DEF RefuseDisabled, Abandon
<1>7. ASSUME NEW r \in Requests, ReadAccount(r) PROVE IInv'
  BY <1>7, ReadKeeps
<1>8. ASSUME NEW r \in Requests, RefusePassword(r) PROVE IInv'
  BY <1>8, WrongKeeps
<1>9. ASSUME NEW r \in Requests, AcceptPassword(r) PROVE IInv'
  BY <1>9, AcceptKeeps
<1>10. ASSUME NEW r \in Requests, LoggedIn(r) PROVE IInv'
  BY <1>10, LoggedInKeeps
<1>11. ASSUME NEW r \in Requests, IssueReset(r) PROVE IInv'
  BY <1>11, IssueKeeps
<1>12. ASSUME NEW r \in Requests, ChangePassword(r) PROVE IInv'
  BY <1>12, ChangeKeeps
<1>13. ASSUME NEW r \in Requests, SpendToken(r) PROVE IInv'
  BY <1>13, SpendKeeps
<1>14. ASSUME NEW u \in Users, DisableUser(u) PROVE IInv'
  BY <1>14, DisableKeeps
<1>15. ASSUME NEW k \in Resets, ExpireReset(k) PROVE IInv'
  BY <1>15, ExpireKeeps
<1>16. ASSUME NEW k \in Keys, NEW u \in Users, NewWindow(k, u) PROVE IInv'
  BY <1>16, WindowKeeps
<1> QED
  BY <1>1, <1>2, <1>3, <1>4, <1>5, <1>6, <1>7, <1>8, <1>9, <1>10, <1>11, <1>12, <1>13,
     <1>14, <1>15, <1>16 DEF Steps

LEMMA Invariant == Spec => []IInv
BY Initially, Inductive, PTL DEF Spec

-----------------------------------------------------------------------------
(* The theorems.                                                           *)

\* Every variable of Accounts keeps its type; in particular the limiter's
\* count, which successful logins lower, never falls below 0.
THEOREM TypeCorrect == Spec => []TypeOK
<1>1. IInv => TypeOK
  BY DEF IInv
<1> QED
  BY <1>1, Invariant, PTL

\* Of the logins of one key that a window of the limiter admits, at most
\* MAX_ATTEMPTS compare a wrong password with one account's, and one more for
\* each login of a former window that succeeds in it.
THEOREM GuessesStayBounded == Spec => []GuessesBounded
<1>1. IInv => GuessesBounded
  <2>1. ASSUME IInv, NEW k \in Keys, NEW u \in Users PROVE wrong[k][u] <= MAX_ATTEMPTS + late[k][u]
    <3>1. /\ Cardinality(Pending(k, u)) \in Nat /\ wrong[k][u] \in Nat /\ late[k][u] \in Nat
          /\ MAX_ATTEMPTS \in Nat
      BY <2>1, FS_CardinalityType, AccountsAssumption DEF IInv, TypeOK, Counted
    <3>2. wrong[k][u] + Cardinality(Pending(k, u)) <= MAX_ATTEMPTS + late[k][u]
      BY <2>1 DEF IInv, Counted
    <3> QED
      BY <3>1, <3>2
  <2> QED
    BY <2>1 DEF GuessesBounded
<1> QED
  BY <1>1, Invariant, PTL

\* An account that is open has a password somebody knows: the limiter's lock,
\* a reset and an administrator never leave it open with the limiter's random
\* password.
THEOREM OpenAccountsUsable == Spec => []OpenAccountUsable
<1>1. IInv => OpenAccountUsable
  BY DEF IInv
<1> QED
  BY <1>1, Invariant, PTL
=============================================================================
