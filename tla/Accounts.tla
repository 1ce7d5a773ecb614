------------------------------ MODULE Accounts ------------------------------
(***************************************************************************)
(* How an account is locked and recovered: the login handler               *)
(* behind middlewares/LoginRateLimiter.ts, and forgotPassword and          *)
(* resetPassword of controllers/AuthController.ts.                         *)
(*                                                                         *)
(* A Key is a client address at one replica: the limiter counts in its own *)
(* process, in windows of 24 hours.  Of a password only matters which one  *)
(* it is; Random stands for the one the limiter sets, which nobody knows.  *)
(***************************************************************************)
EXTENDS Naturals

CONSTANTS
    Users, Keys, Requests,
    Resets,         \* ids of the PasswordReset rows alive at one time
    Passwords, Random, None,
    MAX_ATTEMPTS,   \* LOGIN_THRESHOLD
    MaxHits         \* bound: login attempts of one key on one account in a window

ASSUME AccountsAssumption ==
    /\ MAX_ATTEMPTS \in Nat \ {0}
    /\ MaxHits \in Nat /\ MaxHits > MAX_ATTEMPTS
    /\ Random \notin Passwords
    /\ None \notin Users \union Keys \union Resets \union Passwords \union {Random}

VARIABLES
    disabled, password,     \* columns of each User row
    hits,       \* the limiter's count for each key and account
    wrong,      \* history: wrong passwords compared for logins of this window
    late,       \* history: logins of former windows that succeeded in this one
    reset,      \* the PasswordReset rows; None is no row
    uses,       \* history: the times each row changed the password, 2 for more
    pc,         \* the await each request is at
    req         \* what each request works on

accounts == <<disabled, password>>
limiter == <<hits, wrong, late>>
recovery == <<reset, uses>>
vars == <<accounts, limiter, recovery, pc, req>>

Waits == {"idle", "lock", "read", "compare", "session", "issue",
          "change", "spend"}

\* user: the account the request is for, key: the limiter's key, guess: the
\* password given or chosen, stored: the password read, id: the PasswordReset
\* row found, old: the limiter's window has passed since it was counted.
Nothing == [user |-> None, key |-> None, guess |-> None, stored |-> None,
            id |-> None, old |-> FALSE]
ResetRows == [user : Users, spent : BOOLEAN, expired : BOOLEAN]
Usable(k) == reset[k] # None /\ ~reset[k].spent /\ ~reset[k].expired

Init ==
    /\ disabled = [u \in Users |-> FALSE]
    /\ password \in [Users -> Passwords]
    /\ hits = [k \in Keys |-> [u \in Users |-> 0]]
    /\ wrong = [k \in Keys |-> [u \in Users |-> 0]]
    /\ late = [k \in Keys |-> [u \in Users |-> 0]]
    /\ reset = [k \in Resets |-> None]
    /\ uses = [k \in Resets |-> 0]
    /\ pc = [r \in Requests |-> "idle"]
    /\ req = [r \in Requests |-> Nothing]

Start(r, wait, record) ==
    /\ pc[r] = "idle"
    /\ pc' = [pc EXCEPT ![r] = wait]
    /\ req' = [req EXCEPT ![r] = record]

Goto(r, wait) == pc' = [pc EXCEPT ![r] = wait]

Finish(r) ==
    /\ Goto(r, "idle")
    /\ req' = [req EXCEPT ![r] = Nothing]

-----------------------------------------------------------------------------
(* Login.                                                                  *)

\* The limiter counts the request before anything is known of its outcome.
LoginAttempt(r, k, u, guess) ==
    /\ hits[k][u] < MaxHits
    /\ hits' = [hits EXCEPT ![k][u] = @ + 1]
    /\ Start(r, IF hits'[k][u] > MAX_ATTEMPTS THEN "lock" ELSE "read",
             [Nothing EXCEPT !.user = u, !.key = k, !.guess = guess])
    /\ UNCHANGED <<accounts, wrong, late, recovery>>

\* A window passes: the store forgets the count, not who is still at work.
NewWindow(k, u) ==
    /\ hits' = [hits EXCEPT ![k][u] = 0]
    /\ wrong' = [wrong EXCEPT ![k][u] = 0]
    /\ late' = [late EXCEPT ![k][u] = 0]
    /\ req' = [r \in Requests |-> IF req[r].key = k /\ req[r].user = u
                                  THEN [req[r] EXCEPT !.old = TRUE] ELSE req[r]]
    /\ UNCHANGED <<accounts, recovery, pc>>

\* Mutant: the limiter replaces the password and forgets to disable.
LockMutant(r) ==
    /\ pc[r] = "lock"
    /\ LET u == req[r].user IN
        password' = IF disabled[u] THEN password ELSE [password EXCEPT ![u] = Random]
    /\ Finish(r)
    /\ UNCHANGED <<disabled, limiter, recovery>>

\* The limiter's handler; the update of an account that is disabled already
\* fails, and then no 429 is sent.
LockAccount(r) ==
    /\ pc[r] = "lock"
    /\ LET u == req[r].user IN
        /\ password' = IF disabled[u] THEN password ELSE [password EXCEPT ![u] = Random]
        /\ disabled' = [disabled EXCEPT ![u] = TRUE]
    /\ Finish(r)
    /\ UNCHANGED <<limiter, recovery>>

RefuseDisabled(r) ==
    /\ pc[r] = "read"
    /\ disabled[req[r].user]
    /\ Finish(r)
    /\ UNCHANGED <<accounts, limiter, recovery>>

ReadAccount(r) ==
    /\ pc[r] = "read"
    /\ ~disabled[req[r].user]
    /\ req' = [req EXCEPT ![r].stored = password[req[r].user]]
    /\ Goto(r, "compare")
    /\ UNCHANGED <<accounts, limiter, recovery>>

RefusePassword(r) ==
    /\ pc[r] = "compare"
    /\ req[r].guess # req[r].stored
    /\ wrong' = IF req[r].old THEN wrong
                ELSE [wrong EXCEPT ![req[r].key][req[r].user] = @ + 1]
    /\ Finish(r)
    /\ UNCHANGED <<accounts, hits, late, recovery>>

AcceptPassword(r) ==
    /\ pc[r] = "compare"
    /\ req[r].guess = req[r].stored
    /\ Goto(r, "session")
    /\ UNCHANGED <<accounts, limiter, recovery, req>>

Succeed(r) ==
    /\ pc[r] = "session"
    /\ late' = IF req[r].old THEN [late EXCEPT ![req[r].key][req[r].user] = @ + 1] ELSE late
    /\ Finish(r)
    /\ UNCHANGED <<accounts, wrong, recovery>>

\* Mutant: a successful login clears the count.
ClearMutant(r) ==
    /\ Succeed(r)
    /\ hits' = [hits EXCEPT ![req[r].key][req[r].user] = 0]

\* Mutant: the count of a window just begun falls below 0.
BelowMutant(r) ==
    /\ Succeed(r)
    /\ hits' = [hits EXCEPT ![req[r].key][req[r].user] = @ - 1]

\* RefreshTokenService.login and the answer 200, which the limiter takes off
\* its count (skipSuccessfulRequests), be it the count of a later window.
LoggedIn(r) ==
    /\ Succeed(r)
    /\ hits' = [hits EXCEPT ![req[r].key][req[r].user] = IF @ = 0 THEN 0 ELSE @ - 1]

-----------------------------------------------------------------------------
(* Recovery.                                                               *)

\* A disabled account gets the same answer and no token.
ForgotPassword(r, u) ==
    /\ ~disabled[u]
    /\ Start(r, "issue", [Nothing EXCEPT !.user = u])
    /\ UNCHANGED <<accounts, limiter, recovery>>

\* The row is created and its token mailed.  The id of a row that no longer
\* counts stands for a new one.
IssueReset(r) ==
    /\ pc[r] = "issue"
    /\ \E k \in Resets :
        /\ ~Usable(k)
        /\ \A q \in Requests : req[q].id # k
        /\ reset' = [reset EXCEPT ![k] =
                [user |-> req[r].user, spent |-> FALSE, expired |-> FALSE]]
        /\ uses' = [uses EXCEPT ![k] = 0]
    /\ Finish(r)
    /\ UNCHANGED <<accounts, limiter>>

ExpireReset(k) ==
    /\ Usable(k)
    /\ reset' = [reset EXCEPT ![k].expired = TRUE]
    /\ UNCHANGED <<accounts, limiter, uses, pc, req>>

\* resetPassword: the row is found and its token compared.
ResetPassword(r, k, chosen) ==
    /\ Usable(k)
    /\ Start(r, "change", [Nothing EXCEPT !.user = reset[k].user, !.guess = chosen, !.id = k])
    /\ UNCHANGED <<accounts, limiter, recovery>>

ChangePassword(r) ==
    /\ pc[r] = "change"
    /\ LET u == req[r].user IN
        /\ disabled' = [disabled EXCEPT ![u] = FALSE]
        /\ password' = [password EXCEPT ![u] = req[r].guess]
    /\ uses' = [uses EXCEPT ![req[r].id] = IF @ = 2 THEN 2 ELSE @ + 1]
    /\ Goto(r, "spend")
    /\ UNCHANGED <<limiter, reset, req>>

SpendToken(r) ==
    /\ pc[r] = "spend"
    /\ reset' = [reset EXCEPT ![req[r].id].spent = TRUE]
    /\ Finish(r)
    /\ UNCHANGED <<accounts, limiter, uses>>

\* An administrator's UserController.disableUser.
DisableUser(u) ==
    /\ ~disabled[u]
    /\ disabled' = [disabled EXCEPT ![u] = TRUE]
    /\ UNCHANGED <<password, limiter, recovery, pc, req>>

\* A statement fails, or the client's replica is gone, at any await: what
\* was done stays done, and a login that failed stays counted.
Abandon(r) ==
    /\ pc[r] # "idle"
    /\ Finish(r)
    /\ UNCHANGED <<accounts, limiter, recovery>>

-----------------------------------------------------------------------------
LoginStep(r) ==
    \/ LockAccount(r) \/ RefuseDisabled(r) \/ ReadAccount(r)
    \/ RefusePassword(r) \/ AcceptPassword(r) \/ LoggedIn(r)

RecoveryStep(r) == IssueReset(r) \/ ChangePassword(r) \/ SpendToken(r)
AskForReset == \E r \in Requests, u \in Users : ForgotPassword(r, u)
UseReset ==
    \E r \in Requests, k \in Resets, chosen \in Passwords : ResetPassword(r, k, chosen)

Next ==
    \/ \E r \in Requests, k \in Keys, u \in Users, guess \in Passwords :
            LoginAttempt(r, k, u, guess)
    \/ \E k \in Keys, u \in Users : NewWindow(k, u)
    \/ AskForReset
    \/ UseReset
    \/ \E r \in Requests :
            LoginStep(r) \/ RecoveryStep(r) \/ Abandon(r)
    \/ \E u \in Users : DisableUser(u)
    \/ \E k \in Resets : ExpireReset(k)

Spec == Init /\ [][Next]_vars

\* An await settles.  The user asks for a reset again and again, and uses the
\* token mailed if it is good again and again; a step that could always be
\* taken again is not abandoned for ever.
FairSpec ==
    /\ Spec
    /\ \A r \in Requests :
        /\ WF_vars(LoginStep(r))
        /\ SF_vars(RecoveryStep(r))
    /\ SF_vars(AskForReset)
    /\ SF_vars(UseReset)

-----------------------------------------------------------------------------
(* Properties.                                                             *)

\* Every variable has its type.
TypeOK ==
    /\ disabled \in [Users -> BOOLEAN]
    /\ password \in [Users -> Passwords \union {Random}]
    /\ hits \in [Keys -> [Users -> 0..MaxHits]]
    /\ wrong \in [Keys -> [Users -> Nat]]
    /\ late \in [Keys -> [Users -> Nat]]
    /\ reset \in [Resets -> ResetRows \union {None}]
    /\ uses \in [Resets -> 0..2]
    /\ pc \in [Requests -> Waits]
    /\ req \in [Requests -> [
            user : Users \union {None}, key : Keys \union {None},
            guess : Passwords \union {None},
            stored : Passwords \union {Random, None},
            id : Resets \union {None}, old : BOOLEAN]]

\* LOGIN_THRESHOLD bounds what can be tried: however many logins run at once,
\* and although every successful one is taken off the count, at most
\* MAX_ATTEMPTS logins that a window admits compare a wrong password with an
\* account's, and one more for each login of a former window that succeeds in it.
GuessesBounded ==
    \A k \in Keys, u \in Users : wrong[k][u] <= MAX_ATTEMPTS + late[k][u]

\* The limiter's lock and the reset write `disabled` and `password` in one
\* statement each: whatever locks, resets and administrators interleave, an
\* account that is open has a password somebody knows.
OpenAccountUsable == \A u \in Users : ~disabled[u] => password[u] # Random

\* What middlewares/LoginRateLimiter.ts says: only a password reset can fix a
\* locked account; so a user who keeps asking for one gets the account back.
LockedRecovers ==
    \A u \in Users : (disabled[u] /\ password[u] = Random) ~> ~disabled[u]

\* What Phase1.md says: a reset token is invalid after its use.
ResetTokenSingleUse == \A k \in Resets : uses[k] <= 1
=============================================================================
