------------------------------ MODULE Sessions ------------------------------
(***************************************************************************)
(* The refresh-token sessions of services/RefreshTokenService.ts, as the   *)
(* login, refresh and logout handlers of controllers/AuthController.ts and *)
(* the daily cleanup of index.ts drive them.                               *)
(*                                                                         *)
(* A Token stands for one row of the RefreshToken table: its id, its jti   *)
(* (the access token's sid) and its tokenHash, which are created together  *)
(* and never change.  Every await of a handler ends a step, so the steps   *)
(* of concurrent requests interleave as they do in the server's processes. *)
(*                                                                         *)
(* PostgreSQL runs at its default READ COMMITTED level: an UPDATE works on *)
(* the rows committed when it starts, waits for the rows another           *)
(* transaction has locked, and reads their conditions again once it has    *)
(* them.  A row inserted after the statement started is not seen by it.    *)
(* So a statement over several rows takes two steps here, its snapshot and *)
(* its effect.                                                             *)
(*                                                                         *)
(* The clock counts days: the lifetimes that matter are both thirty days.  *)
(* The minutes of an access token's life are Authentication's subject.     *)
(***************************************************************************)
EXTENDS Naturals, FiniteSets

CONSTANTS
    Tokens,                 \* rows the RefreshToken table may ever hold
    Families,               \* values crypto.randomUUID may return
    Users,
    Requests,               \* slots for the requests in flight
    None,
    REFRESH_TOKEN_TTL_DAYS, \* life of a refresh token
    RetentionDays,          \* age at which cleanup deletes a spent row
    MaxDay                  \* bound: the last day of the model's clock

ASSUME SessionsAssumption ==
    /\ None \notin Tokens \union Families \union Users
    /\ REFRESH_TOKEN_TTL_DAYS \in Nat
    /\ RetentionDays \in Nat
    /\ MaxDay \in Nat
    /\ REFRESH_TOKEN_TTL_DAYS <= RetentionDays

VARIABLES
    status,     \* of each row; "absent" before its INSERT commits
    familyId, userId, expiresAt,    \* the columns an INSERT fixes
    updatedAt,  \* Prisma's @updatedAt
    held,       \* tokens some client was sent, the raw refresh token with
                \* the access token of the same session
    disabled,   \* User.disabled
    now,        \* the day
    pc,         \* the await each request is at
    tok,        \* the row a request has found, or has created
    usr,        \* the account a request acts for
    exp,        \* expiresAt as RefreshTokenService.refresh computed it
    snap,       \* the rows in the snapshot of the request's UPDATE
    banned      \* history: the account has been disabled ever since the
                \* request began

rows == <<status, familyId, userId, expiresAt, updatedAt>>
world == <<held, disabled, now>>
locals == <<tok, usr, exp, snap, banned>>
vars == <<rows, world, pc, locals>>

(***************************************************************************)
(* The awaits.  "create": the INSERT of login.  "owner": the lookup of the *)
(* token's owner.  "rotate": the compare-and-set UPDATE.  "insert": the    *)
(* transaction is open, its UPDATE done.  "reply": the response is on its  *)
(* way.  "reuse", "revoke": the family-wide UPDATE has to start, has       *)
(* started.  "sweep": the UPDATE of revokeAllSessions has started.         *)
(***************************************************************************)
Waits == {"idle", "create", "owner", "rotate", "insert", "reply",
          "reuse", "revoke", "sweep"}

Spent == {"ROTATED", "REVOKED"}
Statuses == {"absent", "ACTIVE", "deleted"} \union Spent
Days == 0 .. MaxDay + REFRESH_TOKEN_TTL_DAYS

Exists(t) == status[t] \notin {"absent", "deleted"}
Born == {t \in Tokens : status[t] # "absent"}
ActiveOf(f) == {t \in Tokens : status[t] = "ACTIVE" /\ familyId[t] = f}

\* Mutant: PostgreSQL takes no row locks.
UnlockedMutant(t) == FALSE

\* Mutant: a family-wide UPDATE also waits for the rows it has locked itself.
SelfLockMutant(t) == \E r \in Requests :
    \/ pc[r] = "insert" /\ tok[r] = t
    \/ pc[r] = "revoke" /\ t \in snap[r]

\* The row's lock is held by a rotation whose transaction is open.
Locked(t) == \E r \in Requests : pc[r] = "insert" /\ tok[r] = t

Init ==
    /\ status = [t \in Tokens |-> "absent"]
    /\ familyId = [t \in Tokens |-> None]
    /\ userId = [t \in Tokens |-> None]
    /\ expiresAt = [t \in Tokens |-> 0]
    /\ updatedAt = [t \in Tokens |-> 0]
    /\ held = {}
    /\ disabled = [u \in Users |-> FALSE]
    /\ now = 0
    /\ pc = [r \in Requests |-> "idle"]
    /\ tok = [r \in Requests |-> None]
    /\ usr = [r \in Requests |-> None]
    /\ exp = [r \in Requests |-> 0]
    /\ snap = [r \in Requests |-> {}]
    /\ banned = [r \in Requests |-> FALSE]

\* One committed statement gives the rows of T the status s.
SetStatus(T, s) ==
    /\ status' = [t \in Tokens |-> IF t \in T THEN s ELSE status[t]]
    /\ updatedAt' = [t \in Tokens |-> IF t \in T THEN now ELSE updatedAt[t]]

\* Mutant: the lifetime is added to the expiry a second time.
NewRowMutant(t, f, u, e) ==
    /\ familyId' = [familyId EXCEPT ![t] = f]
    /\ userId' = [userId EXCEPT ![t] = u]
    /\ expiresAt' = [expiresAt EXCEPT ![t] = e + now + REFRESH_TOKEN_TTL_DAYS]

\* The row t as prisma.refreshToken.create writes it.
NewRow(t, f, u, e) ==
    /\ familyId' = [familyId EXCEPT ![t] = f]
    /\ userId' = [userId EXCEPT ![t] = u]
    /\ expiresAt' = [expiresAt EXCEPT ![t] = e]

\* The request is over, its locals gone.
Finish(r) ==
    /\ pc' = [pc EXCEPT ![r] = "idle"]
    /\ tok' = [tok EXCEPT ![r] = None]
    /\ usr' = [usr EXCEPT ![r] = None]
    /\ exp' = [exp EXCEPT ![r] = 0]
    /\ snap' = [snap EXCEPT ![r] = {}]
    /\ banned' = [banned EXCEPT ![r] = FALSE]

-----------------------------------------------------------------------------
(* Login: the account is read, the password compared, the row inserted.    *)

LoginUser(r, u) ==
    /\ pc[r] = "idle"
    /\ ~disabled[u]
    /\ pc' = [pc EXCEPT ![r] = "create"]
    /\ usr' = [usr EXCEPT ![r] = u]
    /\ banned' = [banned EXCEPT ![r] = disabled[u]]
    /\ UNCHANGED <<rows, world, tok, exp, snap>>

LoginCreate(r) ==
    /\ pc[r] = "create"
    /\ \E t \in Tokens \ Born, f \in Families \ {familyId[b] : b \in Born} :
        /\ NewRow(t, f, usr[r], now + REFRESH_TOKEN_TTL_DAYS)
        /\ SetStatus({t}, "ACTIVE")
        /\ tok' = [tok EXCEPT ![r] = t]
    /\ pc' = [pc EXCEPT ![r] = "reply"]
    /\ UNCHANGED <<world, usr, exp, snap, banned>>

\* The access token is signed and the response reaches the client.
Reply(r) ==
    /\ pc[r] = "reply"
    /\ held' = held \union {tok[r]}
    /\ Finish(r)
    /\ UNCHANGED <<rows, disabled, now>>

-----------------------------------------------------------------------------
(* Refresh.                                                                *)

\* The token presented is looked up by its hash.  One that is unknown, was
\* deleted or has expired is answered 401 and changes nothing.
RefreshFind(r, t) ==
    /\ pc[r] = "idle"
    /\ t \in held
    /\ Exists(t)
    /\ \/ /\ status[t] # "ACTIVE"
          /\ pc' = [pc EXCEPT ![r] = "reuse"]
       \/ /\ status[t] = "ACTIVE"
          /\ expiresAt[t] >= now
          /\ pc' = [pc EXCEPT ![r] = "owner"]
    /\ tok' = [tok EXCEPT ![r] = t]
    /\ usr' = [usr EXCEPT ![r] = userId[t]]
    /\ banned' = [banned EXCEPT ![r] = disabled[userId[t]]]
    /\ UNCHANGED <<rows, world, exp, snap>>

\* Mutant: the owner is read and not looked at.
RefreshOwnerMutant(r) ==
    /\ pc[r] = "owner"
    /\ exp' = [exp EXCEPT ![r] = now + REFRESH_TOKEN_TTL_DAYS]
    /\ pc' = [pc EXCEPT ![r] = "rotate"]
    /\ UNCHANGED <<rows, world, tok, usr, snap, banned>>

RefreshOwner(r) ==
    /\ pc[r] = "owner"
    /\ \/ /\ disabled[usr[r]]
          /\ Finish(r)
       \/ /\ ~disabled[usr[r]]
          /\ exp' = [exp EXCEPT ![r] = now + REFRESH_TOKEN_TTL_DAYS]
          /\ pc' = [pc EXCEPT ![r] = "rotate"]
          /\ UNCHANGED <<tok, usr, snap, banned>>
    /\ UNCHANGED <<rows, world>>

\* Mutant: the UPDATE has no status = 'ACTIVE' in its condition.
RefreshRotateMutant(r) ==
    /\ pc[r] = "rotate"
    /\ ~Locked(tok[r])
    /\ pc' = [pc EXCEPT ![r] = "insert"]
    /\ UNCHANGED <<rows, world, locals>>

\* The compare-and-set: it waits for the row, then only an ACTIVE row
\* counts.  Until the transaction commits the others see the row ACTIVE.
RefreshRotate(r) ==
    /\ pc[r] = "rotate"
    /\ ~Locked(tok[r])
    /\ \/ /\ status[tok[r]] = "ACTIVE"
          /\ pc' = [pc EXCEPT ![r] = "insert"]
          /\ UNCHANGED locals
       \/ /\ status[tok[r]] # "ACTIVE"
          /\ Finish(r)
    /\ UNCHANGED <<rows, world>>

\* The successor is inserted and the transaction commits.
RefreshInsert(r) ==
    /\ pc[r] = "insert"
    /\ \E t \in Tokens \ Born :
        /\ NewRow(t, familyId[tok[r]], usr[r], exp[r])
        /\ status' = [status EXCEPT ![tok[r]] = "ROTATED", ![t] = "ACTIVE"]
        /\ updatedAt' = [updatedAt EXCEPT ![tok[r]] = now, ![t] = now]
        /\ tok' = [tok EXCEPT ![r] = t]
    /\ exp' = [exp EXCEPT ![r] = 0]
    /\ pc' = [pc EXCEPT ![r] = "reply"]
    /\ UNCHANGED <<world, usr, snap, banned>>

ReuseSnapshot(r) ==
    /\ pc[r] = "reuse"
    /\ snap' = [snap EXCEPT ![r] =
            {t \in Tokens : Exists(t) /\ familyId[t] = familyId[tok[r]]}]
    /\ pc' = [pc EXCEPT ![r] = "revoke"]
    /\ UNCHANGED <<rows, world, tok, usr, exp, banned>>

ReuseRevoke(r) ==
    /\ pc[r] = "revoke"
    /\ \A t \in snap[r] : ~Locked(t)
    /\ SetStatus({t \in snap[r] : Exists(t)}, "REVOKED")
    /\ Finish(r)
    /\ UNCHANGED <<familyId, userId, expiresAt, world>>

-----------------------------------------------------------------------------
(* Logout, revokeSession and revokeAllSessions.                            *)

RevokeRow(t) ==
    /\ Exists(t)
    /\ ~Locked(t)
    /\ SetStatus({t}, "REVOKED")
    /\ UNCHANGED <<familyId, userId, expiresAt, world, pc, locals>>

\* The client sends the access token whose sid is t.
Logout(t) ==
    /\ t \in held
    /\ RevokeRow(t)

\* The user names one of the sessions the list shows.
RevokeSession(u, t) ==
    /\ userId[t] = u
    /\ RevokeRow(t)

LogoutAllSnapshot(r, u) ==
    /\ pc[r] = "idle"
    /\ snap' = [snap EXCEPT ![r] =
            {t \in Tokens : status[t] = "ACTIVE" /\ userId[t] = u}]
    /\ pc' = [pc EXCEPT ![r] = "sweep"]
    /\ UNCHANGED <<rows, world, tok, usr, exp, banned>>

LogoutAllRevoke(r) ==
    /\ pc[r] = "sweep"
    /\ \A t \in snap[r] : ~Locked(t)
    /\ SetStatus({t \in snap[r] : status[t] = "ACTIVE"}, "REVOKED")
    /\ Finish(r)
    /\ UNCHANGED <<familyId, userId, expiresAt, world>>

-----------------------------------------------------------------------------
(* The cleanup job, the accounts, the clock and failures.                  *)

\* Mutant: spent rows are deleted whatever their age.
StaleMutant == {t \in Tokens :
    \/ status[t] = "ACTIVE" /\ expiresAt[t] < now
    \/ status[t] \in Spent}

\* The rows of cleanup's WHERE.
Stale == {t \in Tokens :
    \/ status[t] = "ACTIVE" /\ expiresAt[t] < now
    \/ status[t] \in Spent /\ updatedAt[t] + RetentionDays < now}

Cleanup ==
    /\ Stale # {}
    /\ \A t \in Stale : ~Locked(t)
    /\ status' = [t \in Tokens |-> IF t \in Stale THEN "deleted" ELSE status[t]]
    /\ UNCHANGED <<familyId, userId, expiresAt, updatedAt, world, pc, locals>>

DisableUser(u) ==
    /\ ~disabled[u]
    /\ disabled' = [disabled EXCEPT ![u] = TRUE]
    /\ UNCHANGED <<rows, held, now, pc, locals>>

EnableUser(u) ==
    /\ disabled[u]
    /\ disabled' = [disabled EXCEPT ![u] = FALSE]
    /\ banned' = [r \in Requests |-> banned[r] /\ usr[r] # u]
    /\ UNCHANGED <<rows, held, now, pc, tok, usr, exp, snap>>

\* Prisma ends an interactive transaction after five seconds, so no day
\* passes inside one.
Tick ==
    /\ now < MaxDay
    /\ \A r \in Requests : pc[r] # "insert"
    /\ now' = now + 1
    /\ UNCHANGED <<rows, held, disabled, pc, locals>>

\* Mutant: the two statements of the rotation run outside a transaction.
AbortMutant(r) ==
    /\ pc[r] # "idle"
    /\ SetStatus(IF pc[r] = "insert" THEN {tok[r]} ELSE {}, "ROTATED")
    /\ Finish(r)
    /\ UNCHANGED <<familyId, userId, expiresAt, world>>

\* The process stops, the database answers with an error, the transaction
\* times out and is rolled back, or the response is lost.
Abort(r) ==
    /\ pc[r] # "idle"
    /\ Finish(r)
    /\ UNCHANGED <<rows, world>>

\* What a request does once it has begun.
Step(r) ==
    \/ LoginCreate(r) \/ Reply(r)
    \/ RefreshOwner(r) \/ RefreshRotate(r) \/ RefreshInsert(r)
    \/ ReuseSnapshot(r) \/ ReuseRevoke(r)
    \/ LogoutAllRevoke(r)

Next ==
    \/ \E r \in Requests : Step(r) \/ Abort(r)
    \/ \E r \in Requests, u \in Users : LoginUser(r, u) \/ LogoutAllSnapshot(r, u)
    \/ \E r \in Requests, t \in Tokens : RefreshFind(r, t)
    \/ \E t \in Tokens : Logout(t)
    \/ \E t \in Tokens, u \in Users : RevokeSession(u, t)
    \/ \E u \in Users : DisableUser(u) \/ EnableUser(u)
    \/ Cleanup
    \/ Tick

Spec == Init /\ [][Next]_vars

(***************************************************************************)
(* A request in progress goes on: Node resumes it when its await is        *)
(* answered, and PostgreSQL hands a row lock to the requests in the order  *)
(* they asked for it, so one that waits gets its turn (strong fairness).   *)
(* A transaction ends, by its commit or by the roll-back of its timeout.   *)
(***************************************************************************)
Fairness == \A r \in Requests :
    /\ SF_vars(Step(r) /\ pc[r] # "insert")
    /\ WF_vars(pc[r] = "insert" /\ (RefreshInsert(r) \/ Abort(r)))

FairSpec == Spec /\ Fairness

-----------------------------------------------------------------------------
(* Properties.                                                             *)

\* Every variable has its type; no row outlives the longest life a row can have.
TypeOK ==
    /\ status \in [Tokens -> Statuses]
    /\ familyId \in [Tokens -> Families \union {None}]
    /\ userId \in [Tokens -> Users \union {None}]
    /\ expiresAt \in [Tokens -> Days]
    /\ updatedAt \in [Tokens -> 0 .. MaxDay]
    /\ held \subseteq Born
    /\ disabled \in [Users -> BOOLEAN]
    /\ now \in 0 .. MaxDay
    /\ pc \in [Requests -> Waits]
    /\ tok \in [Requests -> Tokens \union {None}]
    /\ usr \in [Requests -> Users \union {None}]
    /\ exp \in [Requests -> Days]
    /\ snap \in [Requests -> SUBSET Tokens]
    /\ banned \in [Requests -> BOOLEAN]

\* However many requests refresh the same session at once, a family never has
\* two refresh tokens that work: only one request wins the compare-and-set,
\* and nothing revives the family of a token that is spent.
AtMostOneActive ==
    \A f \in Families : Cardinality(ActiveOf(f)) <= 1

\* The rotation is all or nothing.  While the only rows of a family are
\* ROTATED ones, the session would be lost with nobody having revoked it:
\* the transaction never leaves a token spent without its successor.
RotationAtomic ==
    \A t \in Tokens : status[t] = "ROTATED" =>
        \E s \in Tokens :
            /\ familyId[s] = familyId[t]
            /\ status[s] \in {"ACTIVE", "REVOKED", "deleted"}

\* Nobody is sent a token pair for an account that was disabled during the
\* whole of the request, whichever token of whichever age is presented.
DisabledOwnerRefused ==
    \A r \in Requests : pc[r] \in {"create", "rotate", "insert", "reply"} => ~banned[r]

\* The cleanup job only deletes rows whose refresh token has expired, so a
\* spent token is recognised as reused for as long as it could have lived.
DeletedOnlyExpired ==
    \A t \in Tokens : status[t] = "deleted" => expiresAt[t] < now

\* A token is spent once and for all: no interleaving of statements makes a
\* token that was rotated, revoked or deleted work again, and no rotation
\* overwrites a revocation.
StatusOnlyAdvances ==
    [][\A t \in Tokens :
        /\ status[t] \in Spent => status'[t] \in Spent \union {"deleted"}
        /\ status[t] = "REVOKED" => status'[t] # "ROTATED"
        /\ status[t] = "deleted" => status'[t] = "deleted"]_vars

\* A statement that waits for the row locks of other requests' rotations gets
\* them: the requests never wait for one another for ever.
NoStarvation ==
    \A r \in Requests :
        pc[r] \in {"rotate", "revoke", "sweep"} ~> pc[r] \notin {"rotate", "revoke", "sweep"}

(***************************************************************************)
(* What a comment says of revocation.  It does not hold: the README lists  *)
(* it as a finding.                                                        *)
(***************************************************************************)

\* "Reuse detected -- revoke entire token family" (RefreshTokenService.ts:54):
\* once the family-wide UPDATE is done no token of the family works.
ReuseKillsFamily ==
    [][\A r \in Requests, f \in Families :
        ReuseRevoke(r) /\ familyId[tok[r]] = f => ActiveOf(f)' = {}]_vars

-----------------------------------------------------------------------------
(* Sessions implements SessionFamilies: a family's current token is its    *)
(* ACTIVE row.                                                             *)

CurrentOf(f) == IF ActiveOf(f) = {} THEN None ELSE CHOOSE t \in Tokens : t \in ActiveOf(f)

Abstract == INSTANCE SessionFamilies WITH
    current <- [f \in Families |-> CurrentOf(f)],
    opened <- {familyId[t] : t \in Born},
    used <- Born

ImplementsFamilies == Abstract!FSpec
=============================================================================
