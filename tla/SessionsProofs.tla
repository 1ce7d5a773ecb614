--------------------------- MODULE SessionsProofs ---------------------------
(***************************************************************************)
(* What holds of Sessions for any number of tokens, families, users and    *)
(* concurrent requests, any lifetime and any retention no shorter than it. *)
(***************************************************************************)
EXTENDS Sessions, FiniteSetTheorems, TLAPS

USE SessionsAssumption

-----------------------------------------------------------------------------
(* Types, and what each await knows of its locals.                         *)

\* A row that was ever inserted has a family and an owner.
RowsTyped ==
    \A t \in Tokens : status[t] # "absent" =>
        familyId[t] \in Families /\ userId[t] \in Users

\* A request that has found or created a row goes on with that row.
LocalsTyped ==
    \A r \in Requests :
        /\ pc[r] \in {"owner", "rotate", "insert", "reply", "reuse", "revoke"} =>
                tok[r] \in Born /\ usr[r] \in Users
        /\ pc[r] = "create" => usr[r] \in Users

TypeInv == TypeOK /\ RowsTyped /\ LocalsTyped

LEMMA TypeInit == Init => TypeInv
BY DEF Init, TypeInv, TypeOK, RowsTyped, LocalsTyped, Born, Statuses, Waits, Spent, Days

\* Ending a request disturbs nothing the invariant says.
LEMMA FinishTypes ==
    ASSUME TypeInv, NEW r \in Requests, Finish(r), UNCHANGED <<rows, world>>
    PROVE  TypeInv'
BY DEF TypeInv, TypeOK, RowsTyped, LocalsTyped, Born, Statuses, Waits, Spent,
       Days, rows, world, Finish

LEMMA TypeStep == TypeInv /\ [Next]_vars => TypeInv'
<1> SUFFICES ASSUME TypeInv, [Next]_vars PROVE TypeInv'
    OBVIOUS
<1> USE DEF TypeInv, TypeOK, RowsTyped, LocalsTyped, Born, Statuses, Waits,
            Spent, Days, vars, rows, world, locals
<1>1. ASSUME NEW r \in Requests, Step(r) PROVE TypeInv'
  <2>1. CASE LoginCreate(r)
    BY <2>1 DEF LoginCreate, NewRow, SetStatus
  <2>2. CASE Reply(r)
    BY <2>2 DEF Reply, Finish
  <2>3. CASE RefreshOwner(r)
    <3>1. CASE Finish(r)
      BY <2>3, <3>1, FinishTypes DEF RefreshOwner
    <3>2. CASE ~Finish(r)
      <4>1. now + REFRESH_TOKEN_TTL_DAYS \in Days
        OBVIOUS
      <4>2. exp' \in [Requests -> Days]
        BY <2>3, <3>2, <4>1 DEF RefreshOwner
      <4> QED
        BY <2>3, <3>2, <4>2 DEF RefreshOwner
    <3> QED
      BY <3>1, <3>2
  <2>4. CASE RefreshRotate(r)
    <3>1. CASE Finish(r)
      BY <2>4, <3>1, FinishTypes DEF RefreshRotate
    <3>2. CASE ~Finish(r)
      BY <2>4, <3>2 DEF RefreshRotate
    <3> QED
      BY <3>1, <3>2
  <2>5. CASE RefreshInsert(r)
    BY <2>5 DEF RefreshInsert, NewRow
  <2>6. CASE ReuseSnapshot(r)
    BY <2>6 DEF ReuseSnapshot
  <2>7. CASE ReuseRevoke(r)
    BY <2>7 DEF ReuseRevoke, SetStatus, Exists, Finish
  <2>8. CASE LogoutAllRevoke(r)
    BY <2>8 DEF LogoutAllRevoke, SetStatus, Finish
  <2> QED
    BY <1>1, <2>1, <2>2, <2>3, <2>4, <2>5, <2>6, <2>7, <2>8 DEF Step
<1>2. ASSUME NEW r \in Requests, Abort(r) PROVE TypeInv'
  BY <1>2, FinishTypes DEF Abort
<1>3. ASSUME NEW r \in Requests, NEW u \in Users, LoginUser(r, u) PROVE TypeInv'
  BY <1>3 DEF LoginUser
<1>4. ASSUME NEW r \in Requests, NEW u \in Users, LogoutAllSnapshot(r, u) PROVE TypeInv'
  BY <1>4 DEF LogoutAllSnapshot
<1>5. ASSUME NEW r \in Requests, NEW t \in Tokens, RefreshFind(r, t) PROVE TypeInv'
  BY <1>5 DEF RefreshFind, Exists
<1>6. ASSUME NEW t \in Tokens, RevokeRow(t) PROVE TypeInv'
  BY <1>6 DEF RevokeRow, SetStatus, Exists
<1>7. ASSUME NEW u \in Users, DisableUser(u) PROVE TypeInv'
  BY <1>7 DEF DisableUser
<1>8. ASSUME NEW u \in Users, EnableUser(u) PROVE TypeInv'
  <2>1. banned' \in [Requests -> BOOLEAN]
    BY <1>8 DEF EnableUser
  <2> QED
    BY <1>8, <2>1 DEF EnableUser
<1>9. CASE Cleanup
  BY <1>9 DEF Cleanup, Stale
<1>10. CASE Tick
  BY <1>10 DEF Tick
<1>11. CASE UNCHANGED vars
  BY <1>11
<1> QED
  BY <1>1, <1>2, <1>3, <1>4, <1>5, <1>6, <1>7, <1>8, <1>9, <1>10, <1>11
  DEF Next, Logout, RevokeSession

\* Every variable keeps its type.
THEOREM TypeCorrect == Spec => []TypeOK
<1>1. TypeInv => TypeOK
  BY DEF TypeInv
<1> QED
  BY <1>1, TypeInit, TypeStep, PTL DEF Spec

-----------------------------------------------------------------------------
(* What a step may do to the table: nothing, insert a row at a login,      *)
(* commit a rotation, revoke unlocked rows, or clean up.                   *)

RevokeRows(T) ==
    /\ \A t \in T : Exists(t) /\ ~Locked(t)
    /\ SetStatus(T, "REVOKED")
    /\ UNCHANGED <<familyId, userId, expiresAt>>
    /\ UNCHANGED now

LEMMA RowEffects ==
    ASSUME TypeInv, [Next]_vars
    PROVE  \/ UNCHANGED rows
           \/ \E r \in Requests : LoginCreate(r)
           \/ \E r \in Requests : RefreshInsert(r)
           \/ \E T \in SUBSET Tokens : RevokeRows(T)
           \/ Cleanup
<1> USE DEF TypeInv, TypeOK
<1>1. ASSUME NEW r \in Requests, ReuseRevoke(r)
      PROVE  \E T \in SUBSET Tokens : RevokeRows(T)
  <2>1. RevokeRows({t \in snap[r] : Exists(t)})
    BY <1>1 DEF ReuseRevoke, RevokeRows, world
  <2> QED
    BY <2>1
<1>2. ASSUME NEW r \in Requests, LogoutAllRevoke(r)
      PROVE  \E T \in SUBSET Tokens : RevokeRows(T)
  <2>1. RevokeRows({t \in snap[r] : status[t] = "ACTIVE"})
    BY <1>2 DEF LogoutAllRevoke, RevokeRows, world, Exists
  <2> QED
    BY <2>1
<1>3. ASSUME NEW t \in Tokens, RevokeRow(t)
      PROVE  \E T \in SUBSET Tokens : RevokeRows(T)
  <2>1. RevokeRows({t})
    BY <1>3 DEF RevokeRow, RevokeRows, world
  <2> QED
    BY <2>1
<1> QED
  BY <1>1, <1>2, <1>3
  DEF Next, Step, Logout, RevokeSession, vars, Reply, RefreshOwner,
      RefreshRotate, ReuseSnapshot, Abort, LoginUser, LogoutAllSnapshot,
      RefreshFind, DisableUser, EnableUser, Tick

-----------------------------------------------------------------------------
(* Row locks: the row of an open rotation stays ACTIVE until it commits,   *)
(* and no two open rotations are of the same row.                          *)

LocksHold ==
    /\ \A r \in Requests : pc[r] = "insert" => status[tok[r]] = "ACTIVE"
    /\ \A q, r \in Requests :
        pc[q] = "insert" /\ pc[r] = "insert" /\ tok[q] = tok[r] => q = r

LEMMA LocksInit == Init => LocksHold
BY DEF Init, LocksHold

LEMMA LocksStep == TypeInv /\ LocksHold /\ [Next]_vars => LocksHold'
<1> SUFFICES ASSUME TypeInv, LocksHold, [Next]_vars PROVE LocksHold'
    OBVIOUS
<1> USE DEF TypeInv, TypeOK, LocksHold, rows, locals, world
<1>1. ASSUME NEW r \in Requests, Step(r) PROVE LocksHold'
  <2>1. CASE LoginCreate(r)
    BY <2>1 DEF LoginCreate, SetStatus, LocalsTyped, Born
  <2>2. CASE Reply(r)
    BY <2>2 DEF Reply, Finish
  <2>3. CASE RefreshOwner(r)
    <3>1. pc'[r] # "insert" /\ \A q \in Requests \ {r} : pc'[q] = pc[q] /\ tok'[q] = tok[q]
      <4>1. CASE Finish(r)
        BY <4>1 DEF Finish
      <4>2. CASE ~Finish(r)
        BY <2>3, <4>2 DEF RefreshOwner
      <4> QED
        BY <4>1, <4>2
    <3> QED
      BY <2>3, <3>1 DEF RefreshOwner
  <2>4. CASE RefreshRotate(r)
    BY <2>4 DEF RefreshRotate, Finish, Locked
  <2>5. CASE RefreshInsert(r)
    BY <2>5 DEF RefreshInsert, LocalsTyped, Born
  <2>6. CASE ReuseSnapshot(r)
    BY <2>6 DEF ReuseSnapshot
  <2>7. CASE ReuseRevoke(r)
    BY <2>7 DEF ReuseRevoke, SetStatus, Locked, Finish, LocalsTyped, Born
  <2>8. CASE LogoutAllRevoke(r)
    BY <2>8 DEF LogoutAllRevoke, SetStatus, Locked, Finish, LocalsTyped, Born
  <2> QED
    BY <1>1, <2>1, <2>2, <2>3, <2>4, <2>5, <2>6, <2>7, <2>8 DEF Step
<1>2. ASSUME NEW r \in Requests, Abort(r) PROVE LocksHold'
  BY <1>2 DEF Abort, Finish
<1>3. ASSUME NEW r \in Requests, NEW u \in Users,
             LoginUser(r, u) \/ LogoutAllSnapshot(r, u)
      PROVE  LocksHold'
  BY <1>3 DEF LoginUser, LogoutAllSnapshot
<1>4. ASSUME NEW r \in Requests, NEW t \in Tokens, RefreshFind(r, t) PROVE LocksHold'
  BY <1>4 DEF RefreshFind
<1>5. ASSUME NEW t \in Tokens, RevokeRow(t) PROVE LocksHold'
  BY <1>5 DEF RevokeRow, SetStatus, Locked, LocalsTyped, Born
<1>6. ASSUME NEW u \in Users, DisableUser(u) \/ EnableUser(u) PROVE LocksHold'
  BY <1>6 DEF DisableUser, EnableUser
<1>7. CASE Cleanup
  BY <1>7 DEF Cleanup, Stale, Locked, LocalsTyped, Born
<1>8. CASE Tick
  BY <1>8 DEF Tick
<1>9. CASE UNCHANGED vars
  BY <1>9 DEF vars
<1> QED
  BY <1>1, <1>2, <1>3, <1>4, <1>5, <1>6, <1>7, <1>8, <1>9
  DEF Next, Logout, RevokeSession

-----------------------------------------------------------------------------
(* One token per family: the login's family is new, and the rotation's row *)
(* was the family's ACTIVE one.                                            *)

OneActive == \A s, t \in Tokens :
    status[s] = "ACTIVE" /\ status[t] = "ACTIVE" /\ familyId[s] = familyId[t] => s = t

LEMMA OneActiveStep ==
    TypeInv /\ LocksHold /\ OneActive /\ [Next]_vars => OneActive'
<1> SUFFICES ASSUME TypeInv, LocksHold, OneActive, [Next]_vars PROVE OneActive'
    OBVIOUS
<1> USE DEF TypeInv, TypeOK, OneActive, rows
<1>1. CASE UNCHANGED rows
  BY <1>1
<1>2. ASSUME NEW r \in Requests, LoginCreate(r) PROVE OneActive'
  BY <1>2 DEF LoginCreate, NewRow, SetStatus, Born
<1>3. ASSUME NEW r \in Requests, RefreshInsert(r) PROVE OneActive'
  BY <1>3 DEF RefreshInsert, NewRow, LocksHold, LocalsTyped, RowsTyped, Born
<1>4. ASSUME NEW T \in SUBSET Tokens, RevokeRows(T) PROVE OneActive'
  BY <1>4 DEF RevokeRows, SetStatus
<1>5. CASE Cleanup
  BY <1>5 DEF Cleanup
<1> QED
  BY <1>1, <1>2, <1>3, <1>4, <1>5, RowEffects

CoreInv == TypeInv /\ LocksHold /\ OneActive

LEMMA CoreInvariant == Spec => []CoreInv
<1>1. Init => CoreInv
  BY TypeInit, LocksInit DEF CoreInv, Init, OneActive
<1>2. CoreInv /\ [Next]_vars => CoreInv'
  BY TypeStep, LocksStep, OneActiveStep DEF CoreInv
<1> QED
  BY <1>1, <1>2, PTL DEF Spec

\* No family ever has two refresh tokens that work, however many requests
\* rotate, revoke and clean up at once.
THEOREM OneActiveToken == Spec => []AtMostOneActive
<1>1. OneActive => AtMostOneActive
  <2> SUFFICES ASSUME OneActive, NEW f \in Families
               PROVE  Cardinality(ActiveOf(f)) <= 1
      BY DEF AtMostOneActive
  <2>1. CASE ActiveOf(f) = {}
    BY <2>1, FS_EmptySet
  <2>2. CASE ActiveOf(f) # {}
    <3>1. PICK t \in Tokens : ActiveOf(f) = {t}
      BY <2>2 DEF OneActive, ActiveOf
    <3> QED
      BY <3>1, FS_Singleton
  <2> QED
    BY <2>1, <2>2
<1> QED
  BY <1>1, CoreInvariant, PTL DEF CoreInv

-----------------------------------------------------------------------------
(* The rotation and the one-way life of a token.                           *)

LEMMA RotationStep ==
    CoreInv /\ RotationAtomic /\ [Next]_vars => RotationAtomic'
<1> SUFFICES ASSUME CoreInv, RotationAtomic, [Next]_vars PROVE RotationAtomic'
    OBVIOUS
<1> USE DEF CoreInv, TypeInv, TypeOK, RotationAtomic, rows
<1>1. CASE UNCHANGED rows
  BY <1>1
<1>2. ASSUME NEW r \in Requests, LoginCreate(r) PROVE RotationAtomic'
  BY <1>2 DEF LoginCreate, NewRow, SetStatus, Born
<1>3. ASSUME NEW r \in Requests, RefreshInsert(r) PROVE RotationAtomic'
  <2> DEFINE k == tok[r]
  <2>1. k \in Born /\ status[k] = "ACTIVE"
    BY <1>3 DEF RefreshInsert, LocksHold, LocalsTyped
  <2>2. PICK t \in Tokens \ Born :
            /\ familyId' = [familyId EXCEPT ![t] = familyId[k]]
            /\ status' = [status EXCEPT ![k] = "ROTATED", ![t] = "ACTIVE"]
    BY <1>3 DEF RefreshInsert, NewRow
  <2>3. status[t] = "absent" /\ t # k /\ k \in Tokens
    BY <2>1, <2>2 DEF Born
  <2> HIDE DEF k
  <2>4. familyId'[t] = familyId'[k] /\ status'[t] = "ACTIVE"
    BY <2>2, <2>3
  <2>5. ASSUME NEW x \in Tokens, status'[x] = "ROTATED"
        PROVE  \E s \in Tokens : /\ familyId'[s] = familyId'[x]
                                 /\ status'[s] \in {"ACTIVE", "REVOKED", "deleted"}
    <3>1. CASE x = k
      BY <2>2, <2>4, <3>1
    <3>2. CASE x # k
      <4>1. x # t /\ status[x] = "ROTATED" /\ familyId'[x] = familyId[x]
        BY <2>2, <2>4, <2>5, <3>2
      <4>2. PICK s \in Tokens : /\ familyId[s] = familyId[x]
                                /\ status[s] \in {"ACTIVE", "REVOKED", "deleted"}
        BY <4>1
      <4>3. s # t /\ familyId'[s] = familyId[s]
        BY <2>2, <2>3, <4>2
      <4>4. CASE s = k
        BY <2>2, <2>4, <4>1, <4>2, <4>3, <4>4
      <4>5. CASE s # k
        <5>1. status'[s] = status[s]
          BY <2>2, <4>3, <4>5
        <5> QED
          BY <4>1, <4>2, <4>3, <5>1
      <4> QED
        BY <4>4, <4>5
    <3> QED
      BY <3>1, <3>2
  <2> QED
    BY <2>5
<1>4. ASSUME NEW T \in SUBSET Tokens, RevokeRows(T) PROVE RotationAtomic'
  BY <1>4 DEF RevokeRows, SetStatus
<1>5. CASE Cleanup
  BY <1>5 DEF Cleanup
<1> QED
  BY <1>1, <1>2, <1>3, <1>4, <1>5, RowEffects

\* A token is never left rotated with nothing in its family to show for it.
THEOREM RotationIsAtomic == Spec => []RotationAtomic
<1>1. Init => RotationAtomic
  BY DEF Init, RotationAtomic
<1> QED
  BY <1>1, RotationStep, CoreInvariant, PTL DEF Spec

\* A spent token never works again and a revocation is never overwritten.
THEOREM TokensAdvance == Spec => StatusOnlyAdvances
<1> DEFINE Advances == \A t \in Tokens :
        /\ status[t] \in Spent => status'[t] \in Spent \union {"deleted"}
        /\ status[t] = "REVOKED" => status'[t] # "ROTATED"
        /\ status[t] = "deleted" => status'[t] = "deleted"
<1>1. CoreInv /\ [Next]_vars => [Advances]_vars
  <2> SUFFICES ASSUME CoreInv, [Next]_vars PROVE Advances
      OBVIOUS
  <2> USE DEF CoreInv, TypeInv, TypeOK, Spent, rows
  <2>1. CASE UNCHANGED rows
    BY <2>1
  <2>2. ASSUME NEW r \in Requests, LoginCreate(r) PROVE Advances
    BY <2>2 DEF LoginCreate, SetStatus, Born
  <2>3. ASSUME NEW r \in Requests, RefreshInsert(r) PROVE Advances
    BY <2>3 DEF RefreshInsert, LocksHold, LocalsTyped, Born
  <2>4. ASSUME NEW T \in SUBSET Tokens, RevokeRows(T) PROVE Advances
    BY <2>4 DEF RevokeRows, SetStatus, Exists
  <2>5. CASE Cleanup
    BY <2>5 DEF Cleanup, Stale
  <2> QED
    BY <2>1, <2>2, <2>3, <2>4, <2>5, RowEffects
<1> QED
  BY <1>1, CoreInvariant, PTL DEF Spec, StatusOnlyAdvances

-----------------------------------------------------------------------------
(* Ages: a row's token expires at most one lifetime after the row was last *)
(* written, so a retention of a lifetime or more never deletes a live one. *)

AgesBounded ==
    /\ \A r \in Requests : exp[r] <= now + REFRESH_TOKEN_TTL_DAYS
    /\ \A t \in Tokens :
        /\ updatedAt[t] <= now
        /\ Exists(t) => expiresAt[t] <= updatedAt[t] + REFRESH_TOKEN_TTL_DAYS
    /\ DeletedOnlyExpired

LEMMA ClockAndExpiry ==
    ASSUME TypeInv, AgesBounded, [Next]_vars
    PROVE  /\ now' \in Nat /\ now <= now'
           /\ \A r \in Requests : exp'[r] <= now' + REFRESH_TOKEN_TTL_DAYS
<1> USE DEF TypeInv, TypeOK, AgesBounded, world, locals, Days
<1>1. ASSUME NEW r \in Requests, RefreshOwner(r)
      PROVE  /\ UNCHANGED now
             /\ \A q \in Requests : exp'[q] <= now + REFRESH_TOKEN_TTL_DAYS
  <2>1. CASE Finish(r)
    BY <1>1, <2>1 DEF RefreshOwner, Finish
  <2>2. CASE ~Finish(r)
    BY <1>1, <2>2 DEF RefreshOwner
  <2> QED
    BY <2>1, <2>2
<1>2. ASSUME NEW r \in Requests, Step(r), ~RefreshOwner(r)
      PROVE  UNCHANGED now /\ \A q \in Requests : exp'[q] = exp[q] \/ exp'[q] = 0
  BY <1>2 DEF Step, LoginCreate, Reply, RefreshRotate, RefreshInsert,
     ReuseSnapshot, ReuseRevoke, LogoutAllRevoke, Finish
<1>3. ASSUME NEW r \in Requests, Abort(r)
      PROVE  UNCHANGED now /\ \A q \in Requests : exp'[q] = exp[q] \/ exp'[q] = 0
  BY <1>3 DEF Abort, Finish
<1>4. CASE Tick
  BY <1>4 DEF Tick
<1>5. CASE UNCHANGED <<now, exp>>
  BY <1>5
<1>6. \/ \E r \in Requests : Step(r) \/ Abort(r)
      \/ Tick
      \/ UNCHANGED <<now, exp>>
  BY DEF Next, vars, LoginUser, LogoutAllSnapshot, RefreshFind, Logout,
     RevokeSession, RevokeRow, DisableUser, EnableUser, Cleanup
<1> QED
  BY <1>1, <1>2, <1>3, <1>4, <1>5, <1>6

LEMMA AgesStep == TypeInv /\ AgesBounded /\ [Next]_vars => AgesBounded'
<1> SUFFICES ASSUME TypeInv, AgesBounded, [Next]_vars PROVE AgesBounded'
    OBVIOUS
<1> USE DEF TypeInv, TypeOK, AgesBounded, rows, world, Exists, DeletedOnlyExpired, Days
<1>1. now' \in Nat /\ now <= now'
  BY ClockAndExpiry
<1>2. \A r \in Requests : exp'[r] <= now' + REFRESH_TOKEN_TTL_DAYS
  BY ClockAndExpiry
<1>3. CASE UNCHANGED rows
  BY <1>1, <1>2, <1>3
<1>4. ASSUME NEW r \in Requests, LoginCreate(r) PROVE AgesBounded'
  BY <1>2, <1>4 DEF LoginCreate, NewRow, SetStatus, Born
<1>5. ASSUME NEW r \in Requests, RefreshInsert(r) PROVE AgesBounded'
  BY <1>2, <1>5 DEF RefreshInsert, NewRow, LocalsTyped, Born
<1>6. ASSUME NEW T \in SUBSET Tokens, RevokeRows(T) PROVE AgesBounded'
  BY <1>2, <1>6 DEF RevokeRows, SetStatus
<1>7. CASE Cleanup
  BY <1>2, <1>7 DEF Cleanup, Stale, Spent
<1> QED
  BY <1>3, <1>4, <1>5, <1>6, <1>7, RowEffects

\* The cleanup job never deletes a row whose token could still be presented
\* within its life: reuse of a spent token is noticed for as long as that.
THEOREM CleanupDeletesExpired == Spec => []DeletedOnlyExpired
<1>1. Init => AgesBounded
  BY DEF Init, AgesBounded, DeletedOnlyExpired, Exists
<1>2. AgesBounded => DeletedOnlyExpired
  BY DEF AgesBounded
<1> QED
  BY <1>1, <1>2, AgesStep, CoreInvariant, PTL DEF Spec, CoreInv

-----------------------------------------------------------------------------
(* Disabled accounts: "banned" is only true of a request whose account is  *)
(* disabled now, and the owner check sends such a request away.            *)

BansCurrent ==
    /\ \A r \in Requests : banned[r] => usr[r] \in Users /\ disabled[usr[r]]
    /\ DisabledOwnerRefused

LEMMA BansStep == TypeInv /\ BansCurrent /\ [Next]_vars => BansCurrent'
<1> SUFFICES ASSUME TypeInv, BansCurrent, [Next]_vars PROVE BansCurrent'
    OBVIOUS
<1> USE DEF TypeInv, TypeOK, BansCurrent, DisabledOwnerRefused, rows, locals, world
<1>1. ASSUME NEW r \in Requests, Finish(r), UNCHANGED disabled PROVE BansCurrent'
  BY <1>1 DEF Finish
<1>2. ASSUME NEW r \in Requests, Step(r), ~Finish(r) PROVE BansCurrent'
  <2>1. CASE LoginCreate(r)
    BY <2>1 DEF LoginCreate
  <2>2. CASE RefreshOwner(r)
    BY <1>2, <2>2 DEF RefreshOwner, LocalsTyped
  <2>3. CASE RefreshRotate(r)
    BY <1>2, <2>3 DEF RefreshRotate
  <2>4. CASE RefreshInsert(r)
    BY <2>4 DEF RefreshInsert
  <2>5. CASE ReuseSnapshot(r)
    BY <2>5 DEF ReuseSnapshot
  <2> QED
    BY <1>2, <2>1, <2>2, <2>3, <2>4, <2>5 DEF Step, Reply, ReuseRevoke, LogoutAllRevoke
<1>3. ASSUME NEW r \in Requests, Step(r) \/ Abort(r), Finish(r) PROVE UNCHANGED disabled
  BY <1>3 DEF Step, Abort, LoginCreate, Reply, RefreshOwner, RefreshRotate,
     RefreshInsert, ReuseSnapshot, ReuseRevoke, LogoutAllRevoke
<1>4. ASSUME NEW r \in Requests, NEW u \in Users, LoginUser(r, u) PROVE BansCurrent'
  BY <1>4 DEF LoginUser
<1>5. ASSUME NEW r \in Requests, NEW u \in Users, LogoutAllSnapshot(r, u) PROVE BansCurrent'
  BY <1>5 DEF LogoutAllSnapshot
<1>6. ASSUME NEW r \in Requests, NEW t \in Tokens, RefreshFind(r, t) PROVE BansCurrent'
  BY <1>6 DEF RefreshFind, RowsTyped, Exists
<1>7. ASSUME NEW u \in Users, DisableUser(u) PROVE BansCurrent'
  BY <1>7 DEF DisableUser
<1>8. ASSUME NEW u \in Users, EnableUser(u) PROVE BansCurrent'
  BY <1>8 DEF EnableUser
<1>9. CASE UNCHANGED <<disabled, pc, usr, banned>>
  BY <1>9
<1> QED
  BY <1>1, <1>2, <1>3, <1>4, <1>5, <1>6, <1>7, <1>8, <1>9
  DEF Next, vars, Abort, Logout, RevokeSession, RevokeRow, Cleanup, Tick

\* No token pair is made for an account disabled during the whole request.
THEOREM DisabledOwnersRefused == Spec => []DisabledOwnerRefused
<1>1. Init => BansCurrent
  BY DEF Init, BansCurrent, DisabledOwnerRefused
<1>2. BansCurrent => DisabledOwnerRefused
  BY DEF BansCurrent
<1> QED
  BY <1>1, <1>2, BansStep, CoreInvariant, PTL DEF Spec, CoreInv

-----------------------------------------------------------------------------
(* Refinement: Sessions implements SessionFamilies.                        *)

LEMMA CurrentIs ==
    ASSUME NEW f, NEW t \in Tokens, ActiveOf(f) = {t}
    PROVE  CurrentOf(f) = t
BY DEF CurrentOf

\* A step that only ends sessions closes the families left with no token.
LEMMA ClosingStep ==
    ASSUME CoreInv, UNCHANGED familyId, Born' = Born,
           \A t \in Tokens : status'[t] = "ACTIVE" => status[t] = "ACTIVE"
    PROVE  Abstract!FNext
<1> DEFINE F == {f \in Families : ActiveOf(f)' = {}}
<1>1. ASSUME NEW f \in Families, f \notin F PROVE CurrentOf(f)' = CurrentOf(f)
  <2>1. PICK t \in Tokens : status'[t] = "ACTIVE" /\ familyId'[t] = f
    BY <1>1 DEF ActiveOf
  <2>2. ActiveOf(f) = {t}
    BY <2>1 DEF CoreInv, OneActive, ActiveOf
  <2>3. ActiveOf(f)' = {t}
    BY <2>1, <2>2 DEF ActiveOf
  <2> QED
    BY <2>2, <2>3 DEF CurrentOf
<1>2. ASSUME NEW f \in F PROVE CurrentOf(f)' = None
  BY <1>2 DEF CurrentOf
<1>3. Abstract!Close(F)
  BY <1>1, <1>2 DEF Abstract!Close, Born
<1> QED
  BY <1>3 DEF Abstract!FNext


LEMMA OpeningStep ==
    ASSUME CoreInv, NEW r \in Requests, LoginCreate(r)
    PROVE  Abstract!FNext
<1> USE DEF CoreInv, TypeInv, TypeOK, Born
<1>1. PICK t \in Tokens \ Born, f \in Families \ {familyId[b] : b \in Born} :
        /\ NewRow(t, f, usr[r], now + REFRESH_TOKEN_TTL_DAYS)
        /\ SetStatus({t}, "ACTIVE")
  BY DEF LoginCreate
<1>2. Born' = Born \union {t}
  BY <1>1 DEF SetStatus
<1>3. ActiveOf(f)' = {t}
  BY <1>1 DEF NewRow, SetStatus, ActiveOf
<1>4. CurrentOf(f)' = t
  BY <1>3 DEF CurrentOf
<1>5. ASSUME NEW g \in Families, g # f PROVE CurrentOf(g)' = CurrentOf(g)
  <2>1. ActiveOf(g)' = ActiveOf(g)
    BY <1>1, <1>5 DEF NewRow, SetStatus, ActiveOf
  <2> QED
    BY <2>1 DEF CurrentOf
<1>6. {familyId[b] : b \in Born}' = {familyId[b] : b \in Born} \union {f}
  BY <1>1, <1>2 DEF NewRow
<1>7. [g \in Families |-> CurrentOf(g)]' = [[g \in Families |-> CurrentOf(g)] EXCEPT ![f] = t]
  BY <1>4, <1>5
<1> HIDE DEF Born
<1>8. Abstract!Open(f, t)
  BY <1>2, <1>6, <1>7 DEF Abstract!Open
<1> QED
  BY <1>8 DEF Abstract!FNext

LEMMA RotatingStep ==
    ASSUME CoreInv, NEW r \in Requests, RefreshInsert(r)
    PROVE  Abstract!FNext
<1> USE DEF CoreInv, TypeInv, TypeOK, Born
<1>1. PICK s \in Tokens, f \in Families :
        s = tok[r] /\ status[s] = "ACTIVE" /\ f = familyId[s]
  BY DEF RefreshInsert, LocalsTyped, RowsTyped, LocksHold
<1>2. PICK t \in Tokens \ Born :
        /\ NewRow(t, f, usr[r], exp[r])
        /\ status' = [status EXCEPT ![s] = "ROTATED", ![t] = "ACTIVE"]
  BY <1>1 DEF RefreshInsert
<1>3. Born' = Born \union {t}
  BY <1>1, <1>2
<1>4. ActiveOf(f) = {s}
  BY <1>1 DEF OneActive, ActiveOf
<1>5. ActiveOf(f)' = {t}
  BY <1>1, <1>2, <1>4 DEF NewRow, ActiveOf
<1>6. CurrentOf(f)' = t /\ CurrentOf(f) # None
  BY <1>1, <1>4, <1>5 DEF CurrentOf
<1>7. ASSUME NEW g \in Families, g # f PROVE CurrentOf(g)' = CurrentOf(g)
  <2>1. ActiveOf(g)' = ActiveOf(g)
    BY <1>1, <1>2, <1>7 DEF NewRow, ActiveOf
  <2> QED
    BY <2>1 DEF CurrentOf
<1>8. {familyId[b] : b \in Born}' = {familyId[b] : b \in Born}
  BY <1>1, <1>2, <1>3 DEF NewRow
<1>9. [g \in Families |-> CurrentOf(g)]' = [[g \in Families |-> CurrentOf(g)] EXCEPT ![f] = t]
  BY <1>6, <1>7
<1> HIDE DEF Born
<1>10. Abstract!Rotate(f, t)
  BY <1>3, <1>6, <1>8, <1>9 DEF Abstract!Rotate
<1> QED
  BY <1>10 DEF Abstract!FNext

LEMMA FamiliesStep == CoreInv /\ [Next]_vars => [Abstract!FNext]_(Abstract!fvars)
<1> SUFFICES ASSUME CoreInv, [Next]_vars
             PROVE  Abstract!FNext \/ UNCHANGED Abstract!fvars
    OBVIOUS
<1>1. CASE UNCHANGED rows
  <2>1. \A f : CurrentOf(f)' = CurrentOf(f)
    BY <1>1 DEF rows, CurrentOf, ActiveOf
  <2> QED
    BY <1>1, <2>1 DEF rows, Born, Abstract!fvars
<1>2. ASSUME NEW T \in SUBSET Tokens, RevokeRows(T) PROVE Abstract!FNext
  <2>1. Born' = Born
    BY <1>2 DEF RevokeRows, SetStatus, Born, Exists, CoreInv, TypeInv, TypeOK
  <2> QED
    BY <1>2, <2>1, ClosingStep DEF RevokeRows, SetStatus
<1>3. CASE Cleanup
  <2>1. Born' = Born
    BY <1>3 DEF Cleanup, Stale, Born, Spent, CoreInv, TypeInv, TypeOK
  <2> QED
    BY <1>3, <2>1, ClosingStep DEF Cleanup
<1> QED
  BY <1>1, <1>2, <1>3, OpeningStep, RotatingStep, RowEffects DEF CoreInv

\* The sessions implement the abstract families: opened once, at most one
\* token that works, each token current once, and closed for good.
THEOREM SessionsImplementFamilies == Spec => ImplementsFamilies
<1>1. Init => Abstract!FInit
  BY DEF Init, Abstract!FInit, CurrentOf, ActiveOf, Born
<1> QED
  BY <1>1, FamiliesStep, CoreInvariant, PTL DEF Spec, ImplementsFamilies, Abstract!FSpec

\* What follows of SessionFamilies: a session that has come to its end, by
\* whatever revocation or cleanup, never has a token that works again.
THEOREM ClosedForGood ==
    Spec => [][\A f \in Families :
                (\E t \in Born : familyId[t] = f) /\ ActiveOf(f) = {} => ActiveOf(f)' = {}]_vars
<1>1. ASSUME CoreInv, [Next]_vars, NEW f \in Families, NEW b \in Born, familyId[b] = f,
             ActiveOf(f) = {}
      PROVE  ActiveOf(f)' = {}
  <2>1. CurrentOf(f) = None /\ f \in {familyId[t] : t \in Born}
    BY <1>1 DEF CurrentOf
  <2>2. CurrentOf(f)' = None
    <3>1. [Abstract!FNext]_(Abstract!fvars)
      BY <1>1, FamiliesStep
    <3>2. ASSUME NEW g \in Families, NEW t \in Tokens, Abstract!Open(g, t)
          PROVE  CurrentOf(f)' = None
      <4>1. g # f
        BY <2>1, <3>2 DEF Abstract!Open
      <4> QED
        BY <2>1, <3>2, <4>1 DEF Abstract!Open
    <3>3. ASSUME NEW g \in Families, NEW t \in Tokens, Abstract!Rotate(g, t)
          PROVE  CurrentOf(f)' = None
      <4>1. g # f
        BY <2>1, <3>3 DEF Abstract!Rotate
      <4> QED
        BY <2>1, <3>3, <4>1 DEF Abstract!Rotate
    <3>4. ASSUME NEW F \in SUBSET Families, Abstract!Close(F)
          PROVE  CurrentOf(f)' = None
      BY <2>1, <3>4 DEF Abstract!Close
    <3>5. CASE UNCHANGED Abstract!fvars
      BY <2>1, <3>5 DEF Abstract!fvars
    <3> QED
      BY <3>1, <3>2, <3>3, <3>4, <3>5 DEF Abstract!FNext
  <2>3. ASSUME ActiveOf(f)' # {} PROVE CurrentOf(f)' \in Tokens
    BY <2>3 DEF CurrentOf, ActiveOf
  <2> QED
    BY <2>2, <2>3, SessionsAssumption
<1>2. CoreInv /\ [Next]_vars =>
        [\A f \in Families :
            (\E t \in Born : familyId[t] = f) /\ ActiveOf(f) = {} => ActiveOf(f)' = {}]_vars
  BY <1>1
<1> QED
  BY <1>2, CoreInvariant, PTL DEF Spec
=============================================================================
