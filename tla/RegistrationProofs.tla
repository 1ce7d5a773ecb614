------------------------- MODULE RegistrationProofs -------------------------
(***************************************************************************)
(* Proofs about Registration, for any addresses, requests and row ids: its *)
(* type, that an address is welcomed once (Welcomed), that a row answers   *)
(* once (VerifiedOnce) and that no account is undone (AccountKept).        *)
(***************************************************************************)
EXTENDS Registration, TLAPS

Requested == [address : Addresses \union {None}, password : Passwords \union {None},
              owner : Addresses \union {None}, id : Ids \union {None},
              google : GoogleIds \union {None}]

\* What a request carries at its await.
Carries(r) ==
    /\ pc[r] # "idle" => req[r].address \in Addresses
    /\ pc[r] \in {"insert", "role", "welcome"} => req[r].password \in Passwords
    /\ pc[r] \in {"mark", "drop"} => req[r].owner \in Addresses /\ req[r].id \in Ids
    /\ pc[r] \in {"link", "create"} => req[r].google \in GoogleIds

TypeInv == TypeOK /\ \A r \in Requests : Carries(r)

\* A createUser that has inserted its account and not answered yet.
Registering(r) == pc[r] \in {"role", "code", "mail", "welcome"} /\ req[r].password # None

\* An account being registered is the one its request inserted, and no other
\* request of the same address was answered or is on its way to be.
OneRegisters ==
    /\ \A r \in Requests : Registering(r) =>
        /\ account[req[r].address] # None
        /\ account[req[r].address].password = req[r].password
        /\ pc[r] # "role" => account[req[r].address].role = "User"
        /\ welcomed[req[r].address] = 0
    /\ \A r, q \in Requests :
        Registering(r) /\ Registering(q) /\ req[r].address = req[q].address => r = q
    /\ \A a \in Addresses : account[a] = None => welcomed[a] = 0

\* No two rows have one id.
RowsApart ==
    \A a, b \in Addresses : row[a] # None /\ row[b] # None /\ row[a].id = row[b].id => a = b

-----------------------------------------------------------------------------
(* The type.                                                               *)

\* The disjuncts of Next, one per operation.
Steps ==
    \/ \E r \in Requests, a \in Addresses, p \in Passwords : Register(r, a, p)
    \/ \E r \in Requests, a \in Addresses, g \in GoogleIds : GoogleFind(r, a, g)
    \/ \E r \in Requests, a, owner \in Addresses : FindCode(r, a, owner)
    \/ \E r \in Requests :
        \/ InsertUser(r) \/ AssignRole(r) \/ Welcome(r) \/ UpsertCode(r) \/ MailCode(r)
        \/ MarkVerified(r) \/ DropRow(r) \/ GoogleLink(r) \/ GoogleCreate(r) \/ Abandon(r)
    \/ \E r \in Requests, a \in Addresses : Regenerate(r, a)
    \/ \E a \in Addresses : ExpireCode(a) \/ CacheExpires(a)

LEMMA NextSteps == Next => Steps
BY DEF Next, Steps, RegisterStep, CodeStep, VerifyStep, GoogleStep, AskForCode

LEMMA NothingTyped == Nothing \in Requested /\ Nothing.address = None /\ Nothing.password = None
BY DEF Nothing, Requested

LEMMA TypeInit == Init => TypeInv
<1> SUFFICES ASSUME Init PROVE TypeInv
  OBVIOUS
<1>1. TypeOK
  BY NothingTyped DEF Init, TypeOK, Requested, Waits
<1> QED
  BY <1>1 DEF Init, TypeInv, Carries

\* The ends of a step: a request that starts, goes on, or is done.
LEMMA FinishTypes ==
    ASSUME TypeInv, NEW r \in Requests, Finish(r)
    PROVE  /\ pc' \in [Requests -> Waits] /\ req' \in [Requests -> Requested]
           /\ pc'[r] = "idle" /\ req'[r] = Nothing
           /\ \A q \in Requests \ {r} : pc'[q] = pc[q] /\ req'[q] = req[q]
BY NothingTyped DEF TypeInv, TypeOK, Requested, Finish, Waits

LEMMA GotoTypes ==
    ASSUME TypeInv, NEW r \in Requests, NEW w \in Waits, Goto(r, w)
    PROVE  /\ pc' \in [Requests -> Waits] /\ req' \in [Requests -> Requested]
           /\ pc'[r] = w /\ req' = req
           /\ \A q \in Requests \ {r} : pc'[q] = pc[q]
BY DEF TypeInv, TypeOK, Requested, Goto, Waits

LEMMA StartTypes ==
    ASSUME TypeInv, NEW r \in Requests, NEW w \in Waits, NEW x \in Requested, Start(r, w, x)
    PROVE  /\ pc' \in [Requests -> Waits] /\ req' \in [Requests -> Requested]
           /\ pc[r] = "idle" /\ pc'[r] = w /\ req'[r] = x
           /\ \A q \in Requests \ {r} : pc'[q] = pc[q] /\ req'[q] = req[q]
BY DEF TypeInv, TypeOK, Requested, Start, Waits

DataTyped ==
    /\ account \in [Addresses -> Accounts \union {None}]
    /\ row \in [Addresses -> Rows \union {None}]
    /\ stale \in [Addresses -> BOOLEAN]
    /\ welcomed \in [Addresses -> 0..2]
    /\ told \in [Addresses -> Passwords \union {None}]
    /\ answered \in [Ids -> 0..2]

\* Accounts stay, so the other requests' stay where they are.
LEMMA OneRequestMoves ==
    ASSUME TypeInv, DataTyped', NEW r \in Requests,
           pc' \in [Requests -> Waits], req' \in [Requests -> Requested],
           \A q \in Requests \ {r} : pc'[q] = pc[q] /\ req'[q] = req[q],
           \A a \in Addresses : Exists(a) => Exists(a)',
           Carries(r)',
           pc'[r] \in Waits \ {"idle", "insert", "create"} => Exists(req[r].address)'
    PROVE  TypeInv'
<1>1. ASSUME NEW q \in Requests PROVE Carries(q)'
  BY <1>1 DEF TypeInv, Carries
<1>2. ASSUME NEW q \in Requests, pc'[q] \in Waits \ {"idle", "insert", "create"}
      PROVE  Exists(req[q].address)'
  <2>1. CASE q # r
    <3>1. req[q].address \in Addresses /\ Exists(req[q].address)
      BY <1>2, <2>1 DEF TypeInv, TypeOK, Carries
    <3> QED
      BY <2>1, <3>1
  <2> QED
    BY <1>2, <2>1
<1>3. TypeOK'
  BY <1>2 DEF TypeOK, DataTyped, Requested
<1> QED
  BY <1>1, <1>3 DEF TypeInv

LEMMA Unchanging ==
    ASSUME TypeInv, UNCHANGED vars
    PROVE  TypeInv'
BY DEF TypeInv, TypeOK, Carries, Exists, vars, histories

LEMMA OneMoreTyped == \A n \in 0..2 : OneMore(n) \in 0..2
BY DEF OneMore

LEMMA NewTyped ==
    ASSUME NEW p \in Passwords \union {Unknown}, NEW role \in {"default", "User"},
           NEW g \in GoogleIds \union {None}
    PROVE  NewAccount(p, role, g) \in Accounts /\ NewAccount(p, role, g) # None
<1>1. NewAccount(p, role, g) \in Accounts
  BY DEF NewAccount, Accounts
<1> QED
  BY <1>1, NoRowIsNone

\* Writing an account keeps the type, and every account there is.
LEMMA AccountWritten ==
    ASSUME account \in [Addresses -> Accounts \union {None}], NEW a \in Addresses,
           NEW x \in Accounts, account' = [account EXCEPT ![a] = x]
    PROVE  /\ account' \in [Addresses -> Accounts \union {None}]
           /\ account'[a] = x /\ x # None
           /\ \A b \in Addresses \ {a} : account'[b] = account[b]
           /\ \A b \in Addresses : Exists(b) => Exists(b)'
<1>1. x # None
  BY NoRowIsNone
<1>2. /\ account'[a] = x
      /\ \A b \in Addresses \ {a} : account'[b] = account[b]
      /\ account' \in [Addresses -> Accounts \union {None}]
  OBVIOUS
<1> QED
  BY <1>1, <1>2 DEF Exists

LEMMA TypeStep == TypeInv /\ [Next]_vars => TypeInv'
<1> SUFFICES ASSUME TypeInv, [Next]_vars PROVE TypeInv'
  OBVIOUS
<1>0. DataTyped /\ req \in [Requests -> Requested]
  BY DEF TypeInv, TypeOK, DataTyped, Requested
<1>1. ASSUME NEW r \in Requests, NEW a \in Addresses, NEW p \in Passwords, Register(r, a, p)
      PROVE  TypeInv'
  <2>1. [Nothing EXCEPT !.address = a, !.password = p] \in Requested
    BY DEF Nothing, Requested
  <2> DEFINE x == [Nothing EXCEPT !.address = a, !.password = p]
  <2>2. Start(r, "insert", x) /\ UNCHANGED <<account, row, stale, histories>>
    BY <1>1 DEF Register
  <2>3. /\ pc' \in [Requests -> Waits] /\ req' \in [Requests -> Requested]
        /\ pc'[r] = "insert" /\ req'[r] = x
        /\ \A q \in Requests \ {r} : pc'[q] = pc[q] /\ req'[q] = req[q]
    BY <2>1, <2>2, StartTypes DEF Waits
  <2>4. Carries(r)'
    BY <2>3 DEF Carries, Nothing
  <2> QED
    BY <1>0, <2>2, <2>3, <2>4, OneRequestMoves DEF DataTyped, histories, Exists
<1>2. ASSUME NEW r \in Requests, NEW a \in Addresses, NEW g \in GoogleIds, GoogleFind(r, a, g)
      PROVE  TypeInv'
  <2> DEFINE w == IF Exists(a) THEN "link" ELSE "create"
             x == [Nothing EXCEPT !.address = a, !.google = g]
  <2>1. x \in Requested /\ w \in Waits
    BY DEF Nothing, Requested, Waits
  <2>2. Start(r, w, x) /\ UNCHANGED <<account, row, stale, histories>>
    BY <1>2 DEF GoogleFind
  <2>3. /\ pc' \in [Requests -> Waits] /\ req' \in [Requests -> Requested]
        /\ pc'[r] = w /\ req'[r] = x
        /\ \A q \in Requests \ {r} : pc'[q] = pc[q] /\ req'[q] = req[q]
    BY <2>1, <2>2, StartTypes
  <2>4. Carries(r)'
    BY <2>3 DEF Carries, Nothing
  <2>5. pc'[r] \in Waits \ {"idle", "insert", "create"} => Exists(req[r].address)'
    BY <2>2, <2>3 DEF Nothing, Exists
  <2>6. DataTyped' /\ \A b \in Addresses : Exists(b) => Exists(b)'
    BY <1>0, <2>2 DEF DataTyped, histories, Exists
  <2> QED
    BY <2>3, <2>4, <2>5, <2>6, OneRequestMoves
<1>3. ASSUME NEW r \in Requests, NEW a \in Addresses, NEW owner \in Addresses,
             FindCode(r, a, owner)
      PROVE  TypeInv'
  <2> DEFINE x == [Nothing EXCEPT !.address = a, !.owner = owner, !.id = row[owner].id]
  <2>1. row[owner].id \in Ids
    BY <1>0, <1>3 DEF DataTyped, Rows, FindCode, Usable
  <2>2. x \in Requested /\ Exists(a)
    BY <1>3, <2>1 DEF Nothing, Requested, FindCode, SeenUnverified
  <2>3. Start(r, "mark", x) /\ UNCHANGED <<account, row, stale, histories>>
    BY <1>3 DEF FindCode
  <2>4. /\ pc' \in [Requests -> Waits] /\ req' \in [Requests -> Requested]
        /\ pc'[r] = "mark" /\ req'[r] = x
        /\ \A q \in Requests \ {r} : pc'[q] = pc[q] /\ req'[q] = req[q]
    BY <2>2, <2>3, StartTypes DEF Waits
  <2>5. Carries(r)' /\ req'[r].address = a
    BY <2>1, <2>4 DEF Carries, Nothing
  <2> QED
    BY <1>0, <2>2, <2>3, <2>4, <2>5, OneRequestMoves DEF DataTyped, histories, Exists
<1>4. ASSUME NEW r \in Requests, NEW a \in Addresses, Regenerate(r, a) PROVE TypeInv'
  <2>1. [Nothing EXCEPT !.address = a] \in Requested
    BY DEF Nothing, Requested
  <2>2. Carries(r)' /\ req'[r].address = a /\ Exists(a)
    BY <1>4, <2>1, StartTypes DEF Regenerate, SeenUnverified, Carries, Nothing, Waits
  <2> QED
    BY <1>0, <1>4, <2>1, <2>2, StartTypes, OneRequestMoves
       DEF Regenerate, DataTyped, histories, Exists, Waits
<1>5. ASSUME NEW r \in Requests, InsertUser(r) PROVE TypeInv'
  <2> DEFINE a == req[r].address
             p == req[r].password
  <2>1. a \in Addresses /\ p \in Passwords
    BY <1>5 DEF TypeInv, Carries, InsertUser
  <2>2. CASE Exists(a)
    <3>1. Finish(r) /\ UNCHANGED <<account, row, stale, histories>>
      BY <1>5, <2>2 DEF InsertUser
    <3> QED
      BY <1>0, <3>1, FinishTypes, OneRequestMoves DEF DataTyped, histories, Exists, Carries
  <2>3. CASE ~Exists(a)
    <3>1. /\ account' = [account EXCEPT ![a] = NewAccount(p, "default", None)]
          /\ Goto(r, "role") /\ UNCHANGED <<row, stale, histories>>
      BY <1>5, <2>3 DEF InsertUser
    <3>2. NewAccount(p, "default", None) \in Accounts /\ NewAccount(p, "default", None) # None
      BY <2>1, NewTyped
    <3>3. DataTyped' /\ account'[a] # None /\ \A b \in Addresses : Exists(b) => Exists(b)'
      BY <1>0, <2>1, <3>1, <3>2, AccountWritten DEF DataTyped, histories
    <3>4. /\ pc' \in [Requests -> Waits] /\ req' \in [Requests -> Requested]
          /\ pc'[r] = "role" /\ req' = req
          /\ \A q \in Requests \ {r} : pc'[q] = pc[q]
      BY <3>1, GotoTypes DEF Waits
    <3>5. Carries(r)'
      BY <2>1, <3>4 DEF Carries
    <3> QED
      BY <3>3, <3>4, <3>5, OneRequestMoves DEF Exists
  <2> QED
    BY <2>2, <2>3
<1>6. ASSUME NEW r \in Requests, AssignRole(r) \/ MarkVerified(r) PROVE TypeInv'
  <2> DEFINE a == req[r].address
             w == IF pc[r] = "role" THEN "code" ELSE "drop"
  <2>1. a \in Addresses /\ account[a] \in Accounts /\ pc[r] \in {"role", "mark"}
    BY <1>0, <1>6 DEF TypeInv, TypeOK, Carries, AssignRole, MarkVerified, Exists, Waits
  <2>2. Goto(r, w)
    BY <1>6 DEF AssignRole, MarkVerified
  <2>3. \E x \in Accounts : account' = [account EXCEPT ![a] = x]
    <3>1. CASE AssignRole(r)
      <4>1. [account[a] EXCEPT !.role = "User"] \in Accounts
        BY <2>1 DEF Accounts
      <4> QED
        BY <3>1, <4>1 DEF AssignRole
    <3>2. CASE MarkVerified(r)
      <4>1. [account[a] EXCEPT !.verified = TRUE] \in Accounts
        BY <2>1 DEF Accounts
      <4> QED
        BY <3>2, <4>1 DEF MarkVerified
    <3> QED
      BY <1>6, <3>1, <3>2
  <2>4. stale' \in [Addresses -> BOOLEAN] /\ UNCHANGED <<row, histories>>
    BY <1>0, <1>6 DEF AssignRole, MarkVerified, DataTyped
  <2>5. DataTyped' /\ account'[a] # None /\ \A b \in Addresses : Exists(b) => Exists(b)'
    <3>1. PICK x \in Accounts : account' = [account EXCEPT ![a] = x]
      BY <2>3
    <3>2. account \in [Addresses -> Accounts \union {None}]
      BY <1>0 DEF DataTyped
    <3>3. /\ account' \in [Addresses -> Accounts \union {None}] /\ account'[a] # None
          /\ \A b \in Addresses : Exists(b) => Exists(b)'
      BY <2>1, <3>1, <3>2, AccountWritten
    <3> QED
      BY <1>0, <2>4, <3>3 DEF DataTyped, histories
  <2>6. /\ pc' \in [Requests -> Waits] /\ req' \in [Requests -> Requested]
        /\ pc'[r] = w /\ req' = req
        /\ \A q \in Requests \ {r} : pc'[q] = pc[q]
    BY <2>2, GotoTypes DEF Waits
  <2>7. Carries(r)' /\ Exists(req[r].address)'
    BY <2>1, <2>5, <2>6 DEF TypeInv, Carries, Exists
  <2> QED
    BY <2>5, <2>6, <2>7, OneRequestMoves
<1>7. ASSUME NEW r \in Requests, Welcome(r) PROVE TypeInv'
  <2> DEFINE a == req[r].address
  <2>1. a \in Addresses /\ req[r].password \in Passwords
    BY <1>7 DEF TypeInv, Carries, Welcome
  <2>2. DataTyped' /\ \A b \in Addresses : Exists(b) => Exists(b)'
    BY <1>0, <1>7, <2>1, OneMoreTyped DEF Welcome, DataTyped, Exists
  <2>3. Finish(r)
    BY <1>7 DEF Welcome
  <2> QED
    BY <2>2, <2>3, FinishTypes, OneRequestMoves DEF Carries
<1>8. ASSUME NEW r \in Requests, UpsertCode(r) PROVE TypeInv'
  <2> DEFINE a == req[r].address
             Row(i) == [id |-> i, code |-> r, mailed |-> FALSE, expired |-> FALSE]
  <2>1. a \in Addresses /\ Exists(a) /\ pc[r] = "code"
    BY <1>8 DEF TypeInv, TypeOK, Carries, UpsertCode, Waits
  <2>2. Goto(r, "mail") /\ UNCHANGED <<account, stale, welcomed, told>>
    BY <1>8 DEF UpsertCode
  <2>3. row' \in [Addresses -> Rows \union {None}] /\ answered' \in [Ids -> 0..2]
    <3>1. CASE row[a] # None
      <4>1. row' = [row EXCEPT ![a] = Row(row[a].id)] /\ UNCHANGED answered
        BY <1>8, <3>1 DEF UpsertCode
      <4>2. Row(row[a].id) \in Rows
        BY <1>0, <2>1, <3>1 DEF DataTyped, Rows
      <4> QED
        BY <1>0, <4>1, <4>2 DEF DataTyped
    <3>2. CASE row[a] = None
      <4>1. PICK i \in Ids : /\ row' = [row EXCEPT ![a] = Row(i)]
                             /\ answered' = [answered EXCEPT ![i] = 0]
        BY <1>8, <3>2 DEF UpsertCode
      <4>2. Row(i) \in Rows
        BY DEF Rows
      <4>3. [row EXCEPT ![a] = Row(i)] \in [Addresses -> Rows \union {None}]
        BY <1>0, <4>2 DEF DataTyped
      <4>4. [answered EXCEPT ![i] = 0] \in [Ids -> 0..2]
        BY <1>0 DEF DataTyped
      <4> QED
        BY <4>1, <4>3, <4>4
    <3> QED
      BY <3>1, <3>2
  <2>4. DataTyped' /\ \A b \in Addresses : Exists(b) => Exists(b)'
    BY <1>0, <2>2, <2>3 DEF DataTyped, Exists
  <2>5. /\ pc' \in [Requests -> Waits] /\ req' \in [Requests -> Requested]
        /\ pc'[r] = "mail" /\ req' = req
        /\ \A q \in Requests \ {r} : pc'[q] = pc[q]
    BY <2>2, GotoTypes DEF Waits
  <2>6. Carries(r)' /\ Exists(req[r].address)'
    BY <2>1, <2>4, <2>5 DEF Carries
  <2> QED
    BY <2>4, <2>5, <2>6, OneRequestMoves
<1>9. ASSUME NEW r \in Requests, MailCode(r) PROVE TypeInv'
  <2> DEFINE a == req[r].address
  <2>1. a \in Addresses /\ Exists(a) /\ pc[r] = "mail"
    BY <1>9 DEF TypeInv, TypeOK, Carries, MailCode, Waits
  <2>2. row' \in [Addresses -> Rows \union {None}]
    <3>1. CASE row[a] # None /\ row[a].code = r
      <4>1. row' = [row EXCEPT ![a].mailed = TRUE] /\ row[a] \in Rows
        BY <1>0, <1>9, <2>1, <3>1 DEF MailCode, DataTyped
      <4>2. [row[a] EXCEPT !.mailed = TRUE] \in Rows
        BY <4>1 DEF Rows
      <4> QED
        BY <1>0, <4>1, <4>2 DEF DataTyped
    <3>2. CASE ~(row[a] # None /\ row[a].code = r)
      BY <1>0, <1>9, <3>2 DEF MailCode, DataTyped
    <3> QED
      BY <3>1, <3>2
  <2>3. DataTyped' /\ \A b \in Addresses : Exists(b) => Exists(b)'
    BY <1>0, <1>9, <2>2 DEF MailCode, DataTyped, Exists, histories
  <2>4. CASE req[r].password = None
    <3>1. Finish(r)
      BY <1>9, <2>4 DEF MailCode
    <3> QED
      BY <2>3, <3>1, FinishTypes, OneRequestMoves DEF Carries
  <2>5. CASE req[r].password # None
    <3>1. Goto(r, "welcome") /\ req[r].password \in Passwords
      BY <1>0, <1>9, <2>5 DEF MailCode, Requested
    <3>2. /\ pc' \in [Requests -> Waits] /\ req' \in [Requests -> Requested]
          /\ pc'[r] = "welcome" /\ req' = req
          /\ \A q \in Requests \ {r} : pc'[q] = pc[q]
      BY <3>1, GotoTypes DEF Waits
    <3>3. Carries(r)' /\ Exists(req[r].address)'
      BY <2>1, <2>3, <3>1, <3>2 DEF Carries
    <3> QED
      BY <2>3, <3>2, <3>3, OneRequestMoves
  <2> QED
    BY <2>4, <2>5
<1>10. ASSUME NEW r \in Requests, DropRow(r) PROVE TypeInv'
  <2> DEFINE a == req[r].owner
             i == req[r].id
  <2>1. a \in Addresses /\ i \in Ids
    BY <1>10 DEF TypeInv, Carries, DropRow
  <2>2. Finish(r) /\ UNCHANGED <<account, stale, welcomed, told>>
    BY <1>10 DEF DropRow
  <2>3. \/ UNCHANGED <<row, answered>>
        \/ row' = [row EXCEPT ![a] = None] /\ answered' = [answered EXCEPT ![i] = OneMore(@)]
    BY <1>10 DEF DropRow
  <2>4. DataTyped' /\ \A b \in Addresses : Exists(b) => Exists(b)'
    BY <1>0, <2>1, <2>2, <2>3, OneMoreTyped DEF DataTyped, Exists
  <2> QED
    BY <2>2, <2>4, FinishTypes, OneRequestMoves DEF Carries
<1>11. ASSUME NEW r \in Requests, GoogleLink(r) PROVE TypeInv'
  <2> DEFINE a == req[r].address
             g == req[r].google
             x == [account[a] EXCEPT !.verified = TRUE, !.google = g, !.role = "User"]
  <2>1. a \in Addresses /\ g \in GoogleIds /\ account[a] \in Accounts
    BY <1>0, <1>11 DEF TypeInv, TypeOK, Carries, GoogleLink, Exists, Waits
  <2>2. Finish(r) /\ UNCHANGED <<row, histories>>
    BY <1>11 DEF GoogleLink
  <2>3. \/ UNCHANGED <<account, stale>>
        \/ account' = [account EXCEPT ![a] = x] /\ stale' = [stale EXCEPT ![a] = TRUE]
    BY <1>11, <2>1 DEF GoogleLink, Accounts
  <2>4. x \in Accounts
    BY <2>1 DEF Accounts
  <2>5. /\ account' \in [Addresses -> Accounts \union {None}]
        /\ \A b \in Addresses : Exists(b) => Exists(b)'
    BY <1>0, <2>1, <2>3, <2>4, AccountWritten DEF DataTyped, Exists
  <2>6. DataTyped'
    BY <1>0, <2>2, <2>3, <2>5 DEF DataTyped, histories
  <2> QED
    BY <2>2, <2>5, <2>6, FinishTypes, OneRequestMoves DEF Carries
<1>12. ASSUME NEW r \in Requests, GoogleCreate(r) PROVE TypeInv'
  <2> DEFINE a == req[r].address
             x == NewAccount(Unknown, "User", req[r].google)
  <2>1. a \in Addresses /\ x \in Accounts /\ x # None
    BY <1>12, NewTyped DEF TypeInv, Carries, GoogleCreate
  <2>2. Finish(r) /\ UNCHANGED <<row, stale, histories>>
    BY <1>12 DEF GoogleCreate
  <2>3. account' \in {account, [account EXCEPT ![a] = x]}
    BY <1>12 DEF GoogleCreate
  <2>4. DataTyped' /\ \A b \in Addresses : Exists(b) => Exists(b)'
    BY <1>0, <2>1, <2>2, <2>3, AccountWritten DEF DataTyped, Exists, histories
  <2> QED
    BY <2>2, <2>4, FinishTypes, OneRequestMoves DEF Carries
<1>13. ASSUME NEW r \in Requests, Abandon(r) PROVE TypeInv'
  <2>1. Finish(r) /\ UNCHANGED <<account, row, stale, histories>>
    BY <1>13 DEF Abandon
  <2>2. DataTyped' /\ \A b \in Addresses : Exists(b) => Exists(b)'
    BY <1>0, <2>1 DEF DataTyped, Exists, histories
  <2> QED
    BY <2>1, <2>2, FinishTypes, OneRequestMoves DEF Carries
<1>14. ASSUME NEW a \in Addresses, ExpireCode(a) \/ CacheExpires(a) PROVE TypeInv'
  <2>1. /\ UNCHANGED <<account, histories, pc, req>>
        /\ row' \in [Addresses -> Rows \union {None}] /\ stale' \in [Addresses -> BOOLEAN]
    <3>1. CASE ExpireCode(a)
      <4>1. row[a] \in Rows
        BY <1>0, <3>1 DEF ExpireCode, Usable, DataTyped
      <4>2. [row[a] EXCEPT !.expired = TRUE] \in Rows
        BY <4>1 DEF Rows
      <4> QED
        BY <1>0, <3>1, <4>2 DEF ExpireCode, DataTyped
    <3>2. CASE CacheExpires(a)
      BY <1>0, <3>2 DEF CacheExpires, DataTyped
    <3> QED
      BY <1>14, <3>1, <3>2
  <2>2. TypeOK'
    BY <2>1 DEF TypeInv, TypeOK, histories, Exists
  <2> QED
    BY <2>1, <2>2 DEF TypeInv, Carries
<1> QED
  BY <1>1, <1>2, <1>3, <1>4, <1>5, <1>6, <1>7, <1>8, <1>9, <1>10, <1>11, <1>12, <1>13, <1>14,
     NextSteps, Unchanging DEF Steps

\* Every variable has its type, and every request past the insertion is about an
\* account that is there.
THEOREM TypeCorrect == Spec => []TypeOK
<1>1. TypeInv => TypeOK
  BY DEF TypeInv
<1> QED
  BY <1>1, TypeInit, TypeStep, PTL DEF Spec

-----------------------------------------------------------------------------
(* Accounts are kept.                                                      *)

Kept(a) ==
    /\ Exists(a)'
    /\ account'[a].password = account[a].password
    /\ account[a].role = "User" => account'[a].role = "User"
    /\ account[a].verified => account'[a].verified
    /\ account[a].google # None => account'[a].google # None

LEMMA AccountsStay ==
    ASSUME TypeInv, [Next]_vars, NEW a \in Addresses, Exists(a)
    PROVE  Kept(a)
<1>0. account[a] \in Accounts /\ account \in [Addresses -> Accounts \union {None}]
  BY DEF TypeInv, TypeOK, Exists
<1>1. ASSUME UNCHANGED account PROVE Kept(a)
  BY <1>1 DEF Kept, Exists
<1>2. ASSUME NEW r \in Requests, InsertUser(r) PROVE Kept(a)
  <2>1. req[r].address \in Addresses
    BY <1>2 DEF TypeInv, Carries, InsertUser
  <2>2. account'[a] = account[a]
    BY <1>0, <1>2, <2>1 DEF InsertUser, Exists
  <2> QED
    BY <2>2 DEF Kept, Exists
<1>3. ASSUME NEW r \in Requests, AssignRole(r) PROVE Kept(a)
  <2>1. account'[a] \in {account[a], [account[a] EXCEPT !.role = "User"]}
    BY <1>0, <1>3 DEF AssignRole
  <2>2. [account[a] EXCEPT !.role = "User"] # None
    BY <1>0, NoRowIsNone DEF Accounts
  <2> QED
    BY <1>0, <2>1, <2>2 DEF Kept, Exists, Accounts
<1>4. ASSUME NEW r \in Requests, MarkVerified(r) PROVE Kept(a)
  <2>1. account'[a] \in {account[a], [account[a] EXCEPT !.verified = TRUE]}
    BY <1>0, <1>4 DEF MarkVerified
  <2>2. [account[a] EXCEPT !.verified = TRUE] # None
    BY <1>0, NoRowIsNone DEF Accounts
  <2> QED
    BY <1>0, <2>1, <2>2 DEF Kept, Exists, Accounts
<1>5. ASSUME NEW r \in Requests, GoogleLink(r) PROVE Kept(a)
  <2> DEFINE g == req[r].google
             x == [account[a] EXCEPT !.verified = TRUE, !.google = g, !.role = "User"]
  <2>1. g \in GoogleIds /\ g # None
    BY <1>5, RegistrationAssumption DEF TypeInv, Carries, GoogleLink
  <2>2. account'[a] \in {account[a], x}
    BY <1>0, <1>5 DEF GoogleLink, Accounts
  <2>3. x \in Accounts /\ x # None
    BY <1>0, <2>1, NoRowIsNone DEF Accounts
  <2> QED
    BY <1>0, <2>1, <2>2, <2>3 DEF Kept, Exists, Accounts
<1>6. ASSUME NEW r \in Requests, GoogleCreate(r) PROVE Kept(a)
  <2>1. account'[a] = account[a]
    BY <1>0, <1>6 DEF GoogleCreate, Exists
  <2> QED
    BY <2>1 DEF Kept, Exists
<1>7. ASSUME NEW r \in Requests, Welcome(r) \/ UpsertCode(r) \/ MailCode(r) \/ DropRow(r) \/ Abandon(r)
      PROVE  Kept(a)
  BY <1>1, <1>7 DEF Welcome, UpsertCode, MailCode, DropRow, Abandon
<1>8. ASSUME NEW r, NEW b, NEW x, NEW y,
             Register(r, b, x) \/ GoogleFind(r, b, x) \/ FindCode(r, b, y) \/ Regenerate(r, b)
      PROVE  Kept(a)
  BY <1>1, <1>8 DEF Register, GoogleFind, FindCode, Regenerate
<1>9. ASSUME NEW b, ExpireCode(b) \/ CacheExpires(b) PROVE Kept(a)
  BY <1>1, <1>9 DEF ExpireCode, CacheExpires
<1>10. CASE UNCHANGED vars
  BY <1>1, <1>10 DEF vars
<1> QED
  BY <1>2, <1>3, <1>4, <1>5, <1>6, <1>7, <1>8, <1>9, <1>10, NextSteps DEF Steps

\* An account keeps its password, its role, its verification and its link to
\* Google, whatever was looked up before it had them.
THEOREM AccountsKept == Spec => AccountKept
<1>1. TypeInv /\ [Next]_vars => \A a \in Addresses : Exists(a) => Kept(a)
  BY AccountsStay
<1>2. TypeInv /\ [Next]_vars =>
        [\A a \in Addresses : Exists(a) =>
            /\ Exists(a)'
            /\ account'[a].password = account[a].password
            /\ account[a].role = "User" => account'[a].role = "User"
            /\ account[a].verified => account'[a].verified
            /\ account[a].google # None => account'[a].google # None]_vars
  BY <1>1 DEF Kept
<1> QED
  BY <1>2, TypeInit, TypeStep, PTL DEF Spec, AccountKept

-----------------------------------------------------------------------------
(* One registration of an address is answered.                             *)

WelcomeInv == TypeInv /\ OneRegisters /\ Welcomed

\* A step that inserts nothing and answers nobody: the accounts being
\* registered are the same, or fewer.
LEMMA NoneRegisters ==
    ASSUME WelcomeInv, TypeInv', UNCHANGED <<welcomed, told>>,
           \A a \in Addresses : Exists(a) => Kept(a),
           \A q \in Requests : Registering(q)' =>
                /\ Registering(q) /\ req'[q] = req[q]
                /\ pc'[q] # "role" => \/ pc[q] # "role"
                                      \/ account'[req[q].address].role = "User"
    PROVE  OneRegisters' /\ Welcomed'
<1> USE DEF WelcomeInv
<1>1. ASSUME NEW q \in Requests, Registering(q)'
      PROVE  /\ account'[req'[q].address] # None
             /\ account'[req'[q].address].password = req'[q].password
             /\ pc'[q] # "role" => account'[req'[q].address].role = "User"
             /\ welcomed'[req'[q].address] = 0
  <2> DEFINE a == req[q].address
  <2>1. Registering(q) /\ req'[q] = req[q] /\ a \in Addresses
    BY <1>1 DEF TypeInv, Carries, Registering
  <2>2. account[a] # None /\ account[a].password = req[q].password /\ welcomed[a] = 0
        /\ (pc[q] # "role" => account[a].role = "User")
    BY <2>1 DEF OneRegisters
  <2>3. /\ account'[a] # None /\ account'[a].password = account[a].password
        /\ account[a].role = "User" => account'[a].role = "User"
    BY <2>1, <2>2 DEF Kept, Exists
  <2> QED
    BY <1>1, <2>1, <2>2, <2>3
<1>2. \A q, r \in Requests :
        Registering(q)' /\ Registering(r)' /\ req'[q].address = req'[r].address => q = r
  BY DEF OneRegisters
<1>3. \A a \in Addresses : account'[a] = None => welcomed'[a] = 0
  BY DEF OneRegisters, Kept, Exists
<1>4. Welcomed'
  <2>1. ASSUME NEW a \in Addresses, welcomed'[a] = 1
        PROVE  /\ account'[a] # None
               /\ account'[a].password = told'[a] /\ account'[a].role = "User"
    <3>1. Exists(a) /\ account[a].password = told[a] /\ account[a].role = "User"
      BY <2>1 DEF Welcomed
    <3> QED
      BY <3>1 DEF Kept, Exists
  <2> QED
    BY <2>1 DEF Welcomed, Exists
<1> QED
  BY <1>1, <1>2, <1>3, <1>4 DEF OneRegisters

LEMMA WelcomeStep == WelcomeInv /\ [Next]_vars => WelcomeInv'
<1> SUFFICES ASSUME WelcomeInv, [Next]_vars PROVE OneRegisters' /\ Welcomed'
  BY TypeStep DEF WelcomeInv
<1>1. TypeInv /\ TypeInv' /\ \A a \in Addresses : Exists(a) => Kept(a)
  BY TypeStep, AccountsStay DEF WelcomeInv
<1>2. ASSUME NEW r \in Requests, Finish(r), UNCHANGED <<welcomed, told>>
      PROVE  OneRegisters' /\ Welcomed'
  BY <1>1, <1>2, FinishTypes, NoneRegisters DEF Registering
<1>3. ASSUME NEW r \in Requests, NEW w \in Waits, NEW x \in Requested, Start(r, w, x),
             w = "insert" \/ x.password = None, UNCHANGED <<welcomed, told>>
      PROVE  OneRegisters' /\ Welcomed'
  BY <1>1, <1>3, StartTypes, NoneRegisters DEF Registering
<1>4. ASSUME NEW r \in Requests, NEW w \in Waits, Goto(r, w), UNCHANGED <<welcomed, told>>,
             (pc[r] = "role" /\ account'[req[r].address].role = "User")
             \/ pc[r] \in {"code", "mail"} \/ w = "drop"
      PROVE  OneRegisters' /\ Welcomed'
  BY <1>1, <1>4, GotoTypes, NoneRegisters DEF Registering
<1>5. ASSUME NEW r \in Requests, NEW a \in Addresses, NEW p \in Passwords, Register(r, a, p)
      PROVE  OneRegisters' /\ Welcomed'
  <2>1. [Nothing EXCEPT !.address = a, !.password = p] \in Requested
    BY DEF Nothing, Requested
  <2> QED
    BY <1>3, <1>5, <2>1 DEF Register, Waits, histories
<1>6. ASSUME NEW r \in Requests, NEW a \in Addresses, NEW g \in GoogleIds, GoogleFind(r, a, g)
      PROVE  OneRegisters' /\ Welcomed'
  <2> DEFINE x == [Nothing EXCEPT !.address = a, !.google = g]
  <2>1. x \in Requested /\ x.password = None
    BY DEF Nothing, Requested
  <2>2. (IF Exists(a) THEN "link" ELSE "create") \in Waits
    BY DEF Waits
  <2> QED
    BY <1>3, <1>6, <2>1, <2>2 DEF GoogleFind, histories
<1>7. ASSUME NEW r \in Requests, NEW a \in Addresses, NEW owner \in Addresses,
             FindCode(r, a, owner)
      PROVE  OneRegisters' /\ Welcomed'
  <2> DEFINE x == [Nothing EXCEPT !.address = a, !.owner = owner, !.id = row[owner].id]
  <2>1. row[owner].id \in Ids
    BY <1>1, <1>7 DEF TypeInv, TypeOK, Rows, FindCode, Usable
  <2>2. x \in Requested /\ x.password = None
    BY <2>1 DEF Nothing, Requested
  <2> QED
    BY <1>3, <1>7, <2>2 DEF FindCode, Waits, histories
<1>8. ASSUME NEW r \in Requests, NEW a \in Addresses, Regenerate(r, a)
      PROVE  OneRegisters' /\ Welcomed'
  <2> DEFINE x == [Nothing EXCEPT !.address = a]
  <2>1. x \in Requested /\ x.password = None
    BY DEF Nothing, Requested
  <2> QED
    BY <1>3, <1>8, <2>1 DEF Regenerate, Waits, histories
<1>9. ASSUME NEW r \in Requests, InsertUser(r) PROVE OneRegisters' /\ Welcomed'
  <2> DEFINE a == req[r].address
  <2>1. a \in Addresses /\ req[r].password \in Passwords /\ pc[r] = "insert"
    BY <1>1, <1>9 DEF TypeInv, Carries, InsertUser
  <2>2. CASE Exists(a)
    BY <1>2, <1>9, <2>2 DEF InsertUser, histories
  <2>3. CASE ~Exists(a)
    <3>1. /\ account' = [account EXCEPT ![a] = NewAccount(req[r].password, "default", None)]
          /\ Goto(r, "role") /\ UNCHANGED <<welcomed, told>>
      BY <1>9, <2>3 DEF InsertUser, histories
    <3>2. NewAccount(req[r].password, "default", None) \in Accounts
      BY <2>1, NewTyped
    <3>3. /\ account'[a] # None /\ account'[a].password = req[r].password
          /\ \A b \in Addresses \ {a} : account'[b] = account[b]
      BY <1>1, <2>1, <3>1, <3>2, NoRowIsNone DEF TypeInv, TypeOK, NewAccount
    <3>4. /\ pc'[r] = "role" /\ req' = req
          /\ \A q \in Requests \ {r} : pc'[q] = pc[q]
      BY <1>1, <3>1, GotoTypes DEF Waits
    <3>5. welcomed[a] = 0 /\ ~Registering(r)
      BY <2>1, <2>3 DEF WelcomeInv, OneRegisters, Exists, Registering
    <3>6. \A q \in Requests \ {r} : Registering(q)' =>
                /\ Registering(q) /\ req[q].address \in Addresses /\ req[q].address # a
                /\ account'[req[q].address] = account[req[q].address]
      <4>1. ASSUME NEW q \in Requests \ {r}, Registering(q)'
            PROVE  Registering(q) /\ req[q].address \in Addresses /\ req[q].address # a
        BY <1>1, <2>3, <3>4, <4>1
           DEF TypeInv, Carries, Registering, WelcomeInv, OneRegisters, Exists
      <4> QED
        BY <3>3, <4>1
    <3>7. OneRegisters'
      <4>1. ASSUME NEW q \in Requests, Registering(q)'
            PROVE  /\ account'[req'[q].address] # None
                   /\ account'[req'[q].address].password = req'[q].password
                   /\ pc'[q] # "role" => account'[req'[q].address].role = "User"
                   /\ welcomed'[req'[q].address] = 0
        BY <3>1, <3>3, <3>4, <3>5, <3>6, <4>1 DEF WelcomeInv, OneRegisters
      <4>2. \A q, s \in Requests :
                Registering(q)' /\ Registering(s)' /\ req'[q].address = req'[s].address => q = s
        BY <3>4, <3>6 DEF WelcomeInv, OneRegisters
      <4>3. \A b \in Addresses : account'[b] = None => welcomed'[b] = 0
        BY <3>1, <3>3 DEF WelcomeInv, OneRegisters
      <4> QED
        BY <4>1, <4>2, <4>3 DEF OneRegisters
    <3>8. Welcomed'
      BY <1>1, <3>1, <3>3, <3>5 DEF WelcomeInv, Welcomed, Kept, Exists
    <3> QED
      BY <3>7, <3>8
  <2> QED
    BY <2>2, <2>3
<1>10. ASSUME NEW r \in Requests, AssignRole(r) PROVE OneRegisters' /\ Welcomed'
  <2> DEFINE a == req[r].address
  <2>1. a \in Addresses /\ account[a] \in Accounts
    BY <1>1, <1>10 DEF TypeInv, TypeOK, Carries, AssignRole, Exists, Waits
  <2>2. account'[a].role = "User"
    BY <1>1, <1>10, <2>1 DEF AssignRole, TypeInv, TypeOK, Accounts
  <2> QED
    BY <1>4, <1>10, <2>2 DEF AssignRole, Waits, histories
<1>11. ASSUME NEW r \in Requests, Welcome(r) PROVE OneRegisters' /\ Welcomed'
  <2> DEFINE a == req[r].address
  <2>1. a \in Addresses /\ req[r].password \in Passwords /\ Registering(r)
    BY <1>1, <1>11, RegistrationAssumption DEF TypeInv, Carries, Welcome, Registering
  <2>2. /\ account[a] # None /\ account[a].password = req[r].password
        /\ account[a].role = "User" /\ welcomed[a] = 0
    BY <1>11, <2>1 DEF WelcomeInv, OneRegisters, Welcome
  <2>3. /\ welcomed'[a] = 1 /\ told'[a] = req[r].password
        /\ \A b \in Addresses \ {a} : welcomed'[b] = welcomed[b] /\ told'[b] = told[b]
        /\ UNCHANGED account /\ Finish(r)
    BY <1>1, <1>11, <2>1, <2>2 DEF Welcome, TypeInv, TypeOK, OneMore
  <2>4. \A q \in Requests : Registering(q)' =>
            q # r /\ Registering(q) /\ req'[q] = req[q] /\ pc'[q] = pc[q]
            /\ req[q].address \in Addresses /\ req[q].address # a
    BY <1>1, <2>1, <2>3, FinishTypes
       DEF Registering, WelcomeInv, OneRegisters, TypeInv, Carries
  <2>5. OneRegisters'
    <3>1. ASSUME NEW q \in Requests, Registering(q)'
          PROVE  /\ account'[req'[q].address] # None
                 /\ account'[req'[q].address].password = req'[q].password
                 /\ pc'[q] # "role" => account'[req'[q].address].role = "User"
                 /\ welcomed'[req'[q].address] = 0
      BY <2>3, <2>4, <3>1 DEF WelcomeInv, OneRegisters
    <3>2. \A q, s \in Requests :
              Registering(q)' /\ Registering(s)' /\ req'[q].address = req'[s].address => q = s
      BY <2>4 DEF WelcomeInv, OneRegisters
    <3>3. \A b \in Addresses : account'[b] = None => welcomed'[b] = 0
      BY <2>2, <2>3 DEF WelcomeInv, OneRegisters
    <3> QED
      BY <3>1, <3>2, <3>3 DEF OneRegisters
  <2>6. Welcomed'
    BY <2>2, <2>3 DEF WelcomeInv, Welcomed, Exists
  <2> QED
    BY <2>5, <2>6
<1>12. ASSUME NEW r \in Requests, UpsertCode(r) \/ MarkVerified(r) PROVE OneRegisters' /\ Welcomed'
  <2>1. CASE UpsertCode(r)
    BY <1>4, <2>1 DEF UpsertCode, Waits
  <2>2. CASE MarkVerified(r)
    BY <1>4, <2>2 DEF MarkVerified, Waits, histories
  <2> QED
    BY <1>12, <2>1, <2>2
<1>13. ASSUME NEW r \in Requests, MailCode(r) PROVE OneRegisters' /\ Welcomed'
  BY <1>2, <1>4, <1>13 DEF MailCode, Waits, histories
<1>14. ASSUME NEW r \in Requests, DropRow(r) \/ GoogleLink(r) \/ GoogleCreate(r) \/ Abandon(r)
       PROVE  OneRegisters' /\ Welcomed'
  BY <1>2, <1>14 DEF DropRow, GoogleLink, GoogleCreate, Abandon, histories
<1>15. ASSUME UNCHANGED <<account, welcomed, told, pc, req>> PROVE OneRegisters' /\ Welcomed'
  BY <1>15 DEF WelcomeInv, OneRegisters, Registering, Welcomed, Exists
<1>16. ASSUME NEW a, ExpireCode(a) \/ CacheExpires(a) PROVE OneRegisters' /\ Welcomed'
  BY <1>15, <1>16 DEF ExpireCode, CacheExpires, histories
<1>17. CASE UNCHANGED vars
  BY <1>15, <1>17 DEF vars, histories
<1> QED
  BY <1>5, <1>6, <1>7, <1>8, <1>9, <1>10, <1>11, <1>12, <1>13, <1>14, <1>16, <1>17, NextSteps
     DEF Steps

\* Of all registrations of an address one at most is answered 201, and the
\* account is the one that client asked for.
THEOREM WelcomedOnce == Spec => []Welcomed
<1>1. Init => WelcomeInv
  BY TypeInit DEF Init, WelcomeInv, OneRegisters, Registering, Welcomed, Nothing
<1>2. WelcomeInv => Welcomed
  BY DEF WelcomeInv
<1> QED
  BY <1>1, <1>2, WelcomeStep, PTL DEF Spec

-----------------------------------------------------------------------------
(* A row answers once.                                                     *)

AnswerInv == TypeInv /\ RowsApart /\ VerifiedOnce

\* Rows that keep their ids.
LEMMA RowsKept ==
    ASSUME AnswerInv, UNCHANGED answered,
           \A a \in Addresses : row'[a] # None => row[a] # None /\ row'[a].id = row[a].id
    PROVE  RowsApart' /\ VerifiedOnce'
BY DEF AnswerInv, RowsApart, VerifiedOnce

LEMMA AnswerStep == AnswerInv /\ [Next]_vars => AnswerInv'
<1> SUFFICES ASSUME AnswerInv, [Next]_vars PROVE RowsApart' /\ VerifiedOnce'
  BY TypeStep DEF AnswerInv
<1>0. /\ TypeInv /\ row \in [Addresses -> Rows \union {None}]
      /\ answered \in [Ids -> 0..2]
  BY DEF AnswerInv, TypeInv, TypeOK
<1>1. ASSUME UNCHANGED <<row, answered>> PROVE RowsApart' /\ VerifiedOnce'
  BY <1>1, RowsKept
<1>2. ASSUME NEW r \in Requests, UpsertCode(r) PROVE RowsApart' /\ VerifiedOnce'
  <2> DEFINE a == req[r].address
             Row(i) == [id |-> i, code |-> r, mailed |-> FALSE, expired |-> FALSE]
  <2>1. a \in Addresses
    BY <1>0, <1>2 DEF TypeInv, Carries, UpsertCode
  <2>2. CASE row[a] # None
    <3>1. row' = [row EXCEPT ![a] = Row(row[a].id)] /\ UNCHANGED answered
      BY <1>2, <2>2 DEF UpsertCode
    <3> QED
      BY <1>0, <2>1, <2>2, <3>1, RowsKept
  <2>3. CASE row[a] = None
    <3>1. PICK i \in Ids : /\ \A b \in Addresses : row[b] # None => row[b].id # i
                           /\ row' = [row EXCEPT ![a] = Row(i)]
                           /\ answered' = [answered EXCEPT ![i] = 0]
      BY <1>2, <2>3 DEF UpsertCode
    <3>2. row'[a].id = i /\ \A b \in Addresses \ {a} : row'[b] = row[b]
      BY <1>0, <2>1, <3>1
    <3>3. answered'[i] = 0 /\ \A k \in Ids \ {i} : answered'[k] = answered[k]
      BY <1>0, <3>1
    <3>4. RowsApart'
      BY <3>1, <3>2 DEF AnswerInv, RowsApart
    <3>5. \A b \in Addresses : row'[b] # None => answered'[row'[b].id] = 0
      <4>1. ASSUME NEW b \in Addresses \ {a}, row'[b] # None PROVE answered'[row'[b].id] = 0
        BY <1>0, <3>1, <3>2, <3>3, <4>1 DEF AnswerInv, VerifiedOnce, Rows
      <4> QED
        BY <3>2, <3>3, <4>1
    <3> QED
      BY <3>3, <3>4, <3>5 DEF AnswerInv, VerifiedOnce
  <2> QED
    BY <2>2, <2>3
<1>3. ASSUME NEW r \in Requests, MailCode(r) PROVE RowsApart' /\ VerifiedOnce'
  <2>1. UNCHANGED answered
    BY <1>3 DEF MailCode, histories
  <2>2. \A a \in Addresses : row'[a] # None => row[a] # None /\ row'[a].id = row[a].id
    BY <1>0, <1>3 DEF MailCode, Rows
  <2> QED
    BY <2>1, <2>2, RowsKept
<1>4. ASSUME NEW r \in Requests, DropRow(r) PROVE RowsApart' /\ VerifiedOnce'
  <2> DEFINE a == req[r].owner
             i == req[r].id
  <2>1. a \in Addresses /\ i \in Ids
    BY <1>0, <1>4 DEF TypeInv, Carries, DropRow
  <2>2. CASE row[a] # None /\ row[a].id = i
    <3>1. /\ row' = [row EXCEPT ![a] = None]
          /\ answered' = [answered EXCEPT ![i] = OneMore(@)]
      BY <1>4, <2>2 DEF DropRow
    <3>2. answered[i] = 0
      BY <2>1, <2>2 DEF AnswerInv, VerifiedOnce
    <3>3. answered'[i] = 1 /\ \A k \in Ids \ {i} : answered'[k] = answered[k]
      BY <1>0, <2>1, <3>1, <3>2 DEF OneMore
    <3>4. row'[a] = None /\ \A b \in Addresses \ {a} : row'[b] = row[b]
      BY <1>0, <2>1, <3>1
    <3>5. \A b \in Addresses : row'[b] # None => row[b].id # i
      BY <2>1, <2>2, <3>4 DEF AnswerInv, RowsApart
    <3>6. RowsApart'
      BY <3>4 DEF AnswerInv, RowsApart
    <3>7. \A b \in Addresses : row'[b] # None => answered'[row'[b].id] = 0
      BY <1>0, <3>3, <3>4, <3>5 DEF AnswerInv, VerifiedOnce, Rows
    <3> QED
      BY <3>3, <3>6, <3>7 DEF AnswerInv, VerifiedOnce
  <2>3. CASE ~(row[a] # None /\ row[a].id = i)
    BY <1>1, <1>4, <2>3 DEF DropRow
  <2> QED
    BY <2>2, <2>3
<1>5. ASSUME NEW a \in Addresses, ExpireCode(a) PROVE RowsApart' /\ VerifiedOnce'
  <2>1. \A b \in Addresses : row'[b] # None => row[b] # None /\ row'[b].id = row[b].id
    BY <1>0, <1>5 DEF ExpireCode, Usable, Rows
  <2> QED
    BY <1>5, <2>1, RowsKept DEF ExpireCode, histories
<1>6. ASSUME NEW r \in Requests,
             InsertUser(r) \/ AssignRole(r) \/ Welcome(r) \/ MarkVerified(r)
             \/ GoogleLink(r) \/ GoogleCreate(r) \/ Abandon(r)
      PROVE  RowsApart' /\ VerifiedOnce'
  BY <1>1, <1>6 DEF InsertUser, AssignRole, Welcome, MarkVerified, GoogleLink, GoogleCreate,
                    Abandon, histories
<1>7. ASSUME NEW r, NEW b, NEW x, NEW y,
             Register(r, b, x) \/ GoogleFind(r, b, x) \/ FindCode(r, b, y) \/ Regenerate(r, b)
      PROVE  RowsApart' /\ VerifiedOnce'
  BY <1>1, <1>7 DEF Register, GoogleFind, FindCode, Regenerate, histories
<1>8. ASSUME NEW a, CacheExpires(a) PROVE RowsApart' /\ VerifiedOnce'
  BY <1>1, <1>8 DEF CacheExpires, histories
<1>9. CASE UNCHANGED vars
  BY <1>1, <1>9 DEF vars, histories
<1> QED
  BY <1>2, <1>3, <1>4, <1>5, <1>6, <1>7, <1>8, <1>9, NextSteps DEF Steps

\* Verifications that found the same row are answered 200 at most once, any
\* number of them and of codes sent meanwhile.
THEOREM AnsweredOnce == Spec => []VerifiedOnce
<1>1. Init => AnswerInv
  BY TypeInit DEF Init, AnswerInv, RowsApart, VerifiedOnce
<1>2. AnswerInv => VerifiedOnce
  BY DEF AnswerInv
<1> QED
  BY <1>1, <1>2, AnswerStep, PTL DEF Spec
=============================================================================
