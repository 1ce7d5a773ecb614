---------------------------- MODULE Registration ----------------------------
(***************************************************************************)
(* How an address gets an account and how the account is verified:         *)
(* createUser, regenerateVerificationToken and verifyEmail of              *)
(* controllers/AuthController.ts, with services/AuthService.ts,            *)
(* database/Extensions/Models/UserModel.ts, and the accounts that          *)
(* services/GoogleLoginService.ts creates or links.                        *)
(*                                                                         *)
(* A code is named by the request that drew it: a row of UserVerification  *)
(* holds the code of the request that wrote it last.                       *)
(***************************************************************************)
EXTENDS Naturals

CONSTANTS
    Addresses,      \* e-mail addresses; `email` is unique, so they name accounts
    Requests,
    Passwords,      \* what clients register with
    Unknown,        \* the password drawn for an account created by Google
    GoogleIds,
    Ids,            \* ids of the UserVerification rows alive at one time
    None

ASSUME RegistrationAssumption ==
    /\ Unknown \notin Passwords
    /\ None \notin Addresses \union Requests \union Passwords \union GoogleIds
                    \union Ids \union {Unknown}

VARIABLES
    account,    \* the User row of each address; None is no row
    row,        \* the UserVerification row of each account; None is no row
    stale,      \* a request may carry a copy of the account read before it
                \* was verified (the cache of middlewares/Authenticate.ts)
    welcomed,   \* history: registrations of each address answered 201, 2 for more
    told,       \* history: the password of the last of them
    answered,   \* history: verifications by each row answered 200, 2 for more
    pc,         \* the await each request is at
    req         \* what each request works on

histories == <<welcomed, told, answered>>
vars == <<account, row, stale, histories, pc, req>>

Waits == {"idle", "insert", "role", "code", "mail", "welcome",
          "mark", "drop", "link", "create"}

\* address: the one the request is for, password: the one to register with
\* (None once registration is not what it is about), owner: whose row a
\* verification found, id: that row's, google: the Google id that logs in.
Nothing == [address |-> None, password |-> None, owner |-> None, id |-> None,
            google |-> None]
Accounts == [password : Passwords \union {Unknown}, role : {"default", "User"},
             verified : BOOLEAN, google : GoogleIds \union {None}]
Rows == [id : Ids, code : Requests, mailed : BOOLEAN, expired : BOOLEAN]

ASSUME NoRowIsNone == None \notin Accounts \union Rows

Exists(a) == account[a] # None
\* What the user carried by a request of this account may say of it.
SeenUnverified(a) == Exists(a) /\ (~account[a].verified \/ stale[a])
\* A row whose code has reached its owner and still counts.
Usable(a) == row[a] # None /\ row[a].mailed /\ ~row[a].expired
Linked(g) == \E a \in Addresses : Exists(a) /\ account[a].google = g
OneMore(n) == IF n = 2 THEN 2 ELSE n + 1

Init ==
    /\ account = [a \in Addresses |-> None]
    /\ row = [a \in Addresses |-> None]
    /\ stale = [a \in Addresses |-> FALSE]
    /\ welcomed = [a \in Addresses |-> 0]
    /\ told = [a \in Addresses |-> None]
    /\ answered = [i \in Ids |-> 0]
    /\ pc = [r \in Requests |-> "idle"]
    /\ req = [r \in Requests |-> Nothing]

Start(r, wait, record) ==
    /\ pc[r] = "idle"
    /\ pc' = [pc EXCEPT ![r] = wait]
    /\ req' = [req EXCEPT ![r] = record]

Goto(r, wait) == pc' = [pc EXCEPT ![r] = wait] /\ UNCHANGED req

Finish(r) ==
    /\ pc' = [pc EXCEPT ![r] = "idle"]
    /\ req' = [req EXCEPT ![r] = Nothing]

-----------------------------------------------------------------------------
(* createUser: five statements in a row, no transaction around them.       *)

\* Mutant: the insertion is not awaited.
RegisterMutant(r, a, p) ==
    /\ ~Exists(a)
    /\ Start(r, "role", [Nothing EXCEPT !.address = a, !.password = p])
    /\ UNCHANGED <<account, row, stale, histories>>

\* An address that is taken is refused with 400.
Register(r, a, p) ==
    /\ ~Exists(a)
    /\ Start(r, "insert", [Nothing EXCEPT !.address = a, !.password = p])
    /\ UNCHANGED <<account, row, stale, histories>>

NewAccount(p, role, g) ==
    [password |-> p, role |-> role, verified |-> FALSE, google |-> g]

\* Mutant: the insertion overwrites the account another request made meanwhile.
InsertUserMutant(r) ==
    /\ pc[r] = "insert"
    /\ account' = [account EXCEPT
                    ![req[r].address] = NewAccount(req[r].password, "default", None)]
    /\ Goto(r, "role")
    /\ UNCHANGED <<row, stale, histories>>

\* The address may have been taken since it was looked up: the unique index
\* fails the insertion, and the request with it.
InsertUser(r) ==
    /\ pc[r] = "insert"
    /\ LET a == req[r].address IN
        IF Exists(a) THEN Finish(r) /\ UNCHANGED account
        ELSE /\ account' = [account EXCEPT ![a] = NewAccount(req[r].password, "default", None)]
             /\ Goto(r, "role")
    /\ UNCHANGED <<row, stale, histories>>

AssignRole(r) ==
    /\ pc[r] = "role"
    /\ account' = [account EXCEPT ![req[r].address].role = "User"]
    /\ Goto(r, "code")
    /\ UNCHANGED <<row, stale, histories>>

\* Mutant: the update of a row leaves `expiresAt` as it was.
UpsertCodeMutant(r) ==
    /\ pc[r] = "code"
    /\ LET a == req[r].address IN
        IF row[a] # None
        THEN row' = [row EXCEPT ![a].code = r, ![a].mailed = FALSE] /\ UNCHANGED answered
        ELSE \E i \in Ids :
            /\ \A b \in Addresses : row[b] # None => row[b].id # i
            /\ \A q \in Requests : req[q].id # i
            /\ row' = [row EXCEPT
                    ![a] = [id |-> i, code |-> r, mailed |-> FALSE, expired |-> FALSE]]
            /\ answered' = [answered EXCEPT ![i] = 0]
    /\ Goto(r, "mail")
    /\ UNCHANGED <<account, stale, welcomed, told>>

\* generateVerificationToken: the one row of the account is created, or it
\* keeps its id and gets a new code and a new hour.
UpsertCode(r) ==
    /\ pc[r] = "code"
    /\ LET a == req[r].address
           Row(i) == [id |-> i, code |-> r, mailed |-> FALSE, expired |-> FALSE]
       IN  IF row[a] # None
           THEN row' = [row EXCEPT ![a] = Row(@.id)] /\ UNCHANGED answered
           ELSE \E i \in Ids :
               /\ \A b \in Addresses : row[b] # None => row[b].id # i
               /\ \A q \in Requests : req[q].id # i
               /\ row' = [row EXCEPT ![a] = Row(i)]
               /\ answered' = [answered EXCEPT ![i] = 0]
    /\ Goto(r, "mail")
    /\ UNCHANGED <<account, stale, welcomed, told>>

\* sendVerificationCode.  The mail is of use only if the row still has its code.
MailCode(r) ==
    /\ pc[r] = "mail"
    /\ LET a == req[r].address IN
        row' = IF row[a] # None /\ row[a].code = r THEN [row EXCEPT ![a].mailed = TRUE] ELSE row
    /\ IF req[r].password = None THEN Finish(r) ELSE Goto(r, "welcome")
    /\ UNCHANGED <<account, stale, histories>>

\* RefreshTokenService.login and the answer 201.
Welcome(r) ==
    /\ pc[r] = "welcome"
    /\ welcomed' = [welcomed EXCEPT ![req[r].address] = OneMore(@)]
    /\ told' = [told EXCEPT ![req[r].address] = req[r].password]
    /\ Finish(r)
    /\ UNCHANGED <<account, row, stale, answered>>

-----------------------------------------------------------------------------
(* Verification.                                                           *)

\* regenerateVerificationToken: refused to a user known to be verified.
Regenerate(r, a) ==
    /\ SeenUnverified(a)
    /\ Start(r, "code", [Nothing EXCEPT !.address = a])
    /\ UNCHANGED <<account, row, stale, histories>>

\* verifyEmail: a row is found by its id and has the code presented.  The
\* query names no account.
FindCode(r, a, owner) ==
    /\ SeenUnverified(a)
    /\ Usable(owner)
    /\ Start(r, "mark", [Nothing EXCEPT
            !.address = a, !.owner = owner, !.id = row[owner].id])
    /\ UNCHANGED <<account, row, stale, histories>>

MarkVerified(r) ==
    /\ pc[r] = "mark"
    /\ account' = [account EXCEPT ![req[r].address].verified = TRUE]
    /\ stale' = [stale EXCEPT ![req[r].address] = TRUE]
    /\ Goto(r, "drop")
    /\ UNCHANGED <<row, histories>>

\* Mutant: the deletion does not fail when the row is gone.
DropRowMutant(r) ==
    /\ pc[r] = "drop"
    /\ LET a == req[r].owner IN
        row' = IF row[a] # None /\ row[a].id = req[r].id THEN [row EXCEPT ![a] = None] ELSE row
    /\ answered' = [answered EXCEPT ![req[r].id] = OneMore(@)]
    /\ Finish(r)
    /\ UNCHANGED <<account, stale, welcomed, told>>

\* The row is deleted by its id, whatever code it has by now.  If it is gone
\* the statement fails and the answer is an error.
DropRow(r) ==
    /\ pc[r] = "drop"
    /\ LET a == req[r].owner IN
        IF row[a] # None /\ row[a].id = req[r].id
        THEN /\ row' = [row EXCEPT ![a] = None]
             /\ answered' = [answered EXCEPT ![req[r].id] = OneMore(@)]
        ELSE UNCHANGED <<row, answered>>
    /\ Finish(r)
    /\ UNCHANGED <<account, stale, welcomed, told>>

ExpireCode(a) ==
    /\ Usable(a)
    /\ row' = [row EXCEPT ![a].expired = TRUE]
    /\ UNCHANGED <<account, stale, histories, pc, req>>

\* The copies of the account from before its verification are gone.
CacheExpires(a) ==
    /\ stale[a]
    /\ stale' = [stale EXCEPT ![a] = FALSE]
    /\ UNCHANGED <<account, row, histories, pc, req>>

-----------------------------------------------------------------------------
(* findOrCreateGoogleUser: a read and at most one write, in a transaction  *)
(* that locks nothing before the write.  An account linked already is      *)
(* returned, or refused if it is to another Google id: nothing changes.    *)

GoogleFind(r, a, g) ==
    /\ Exists(a) => account[a].google = None
    /\ Start(r, IF Exists(a) THEN "link" ELSE "create",
             [Nothing EXCEPT !.address = a, !.google = g])
    /\ UNCHANGED <<account, row, stale, histories>>

\* `googleId` is unique: an id that another address has fails the update.
GoogleLink(r) ==
    /\ pc[r] = "link"
    /\ LET a == req[r].address
           g == req[r].google
       IN  IF \E b \in Addresses \ {a} : Exists(b) /\ account[b].google = g
           THEN UNCHANGED <<account, stale>>
           ELSE /\ account' = [account EXCEPT
                        ![a].verified = TRUE, ![a].google = g, ![a].role = "User"]
                /\ stale' = [stale EXCEPT ![a] = TRUE]
    /\ Finish(r)
    /\ UNCHANGED <<row, histories>>

\* Mutant: the creation is an upsert.
GoogleCreateMutant(r) ==
    /\ pc[r] = "create"
    /\ LET a == req[r].address IN
        account' = IF Linked(req[r].google) THEN account
                   ELSE [account EXCEPT ![a] = NewAccount(Unknown, "User", req[r].google)]
    /\ Finish(r)
    /\ UNCHANGED <<row, stale, histories>>

\* The account of an address new to the application is not verified by it.
GoogleCreate(r) ==
    /\ pc[r] = "create"
    /\ LET a == req[r].address IN
        account' = IF Exists(a) \/ Linked(req[r].google) THEN account
                   ELSE [account EXCEPT ![a] = NewAccount(Unknown, "User", req[r].google)]
    /\ Finish(r)
    /\ UNCHANGED <<row, stale, histories>>

\* A statement or the mail fails, or the replica is gone, at any await: what
\* was done stays done.
Abandon(r) ==
    /\ pc[r] # "idle"
    /\ Finish(r)
    /\ UNCHANGED <<account, row, stale, histories>>

-----------------------------------------------------------------------------
RegisterStep(r) == InsertUser(r) \/ AssignRole(r) \/ Welcome(r)
CodeStep(r) == UpsertCode(r) \/ MailCode(r)
VerifyStep(r) == MarkVerified(r) \/ DropRow(r)
GoogleStep(r) == GoogleLink(r) \/ GoogleCreate(r)
AskForCode(a) == \E r \in Requests : Regenerate(r, a)
UseCode(a) == \E r \in Requests : FindCode(r, a, a)
SendCurrent(a) == \E r \in Requests :
    row[a] # None /\ row[a].code = r /\ req[r].address = a /\ MailCode(r)

Next ==
    \/ \E r \in Requests, a \in Addresses, p \in Passwords : Register(r, a, p)
    \/ \E r \in Requests, a \in Addresses, g \in GoogleIds : GoogleFind(r, a, g)
    \/ \E r \in Requests, a, owner \in Addresses : FindCode(r, a, owner)
    \/ \E r \in Requests :
            RegisterStep(r) \/ CodeStep(r) \/ VerifyStep(r) \/ GoogleStep(r) \/ Abandon(r)
    \/ \E a \in Addresses : AskForCode(a) \/ ExpireCode(a) \/ CacheExpires(a)

Spec == Init /\ [][Next]_vars

\* An await settles.  Whoever owns an unverified account asks for a code again
\* and again, and uses the code mailed if it is good again and again; a step
\* that could always be taken again is not abandoned, the mail of a code that
\* still counts does not fail, nor is a code let expire, for ever.
FairSpec ==
    /\ Spec
    /\ \A r \in Requests :
        /\ WF_vars(RegisterStep(r)) /\ WF_vars(GoogleStep(r)) /\ WF_vars(DropRow(r))
        /\ WF_vars(MailCode(r)) /\ SF_vars(UpsertCode(r)) /\ SF_vars(MarkVerified(r))
    /\ \A a \in Addresses :
        SF_vars(AskForCode(a)) /\ SF_vars(SendCurrent(a)) /\ SF_vars(UseCode(a))

-----------------------------------------------------------------------------
(* Properties.                                                             *)

\* Every variable has its type, and a request past the insertion is about an
\* account that is there.
TypeOK ==
    /\ account \in [Addresses -> Accounts \union {None}]
    /\ row \in [Addresses -> Rows \union {None}]
    /\ stale \in [Addresses -> BOOLEAN]
    /\ welcomed \in [Addresses -> 0..2]
    /\ told \in [Addresses -> Passwords \union {None}]
    /\ answered \in [Ids -> 0..2]
    /\ pc \in [Requests -> Waits]
    /\ req \in [Requests -> [
            address : Addresses \union {None}, password : Passwords \union {None},
            owner : Addresses \union {None}, id : Ids \union {None},
            google : GoogleIds \union {None}]]
    /\ \A r \in Requests :
            pc[r] \in Waits \ {"idle", "insert", "create"} => Exists(req[r].address)

\* However many registrations of an address and Google logins run at once, one
\* of them at most is answered 201, and then the account has the password that
\* this client chose and the role 'User'.
Welcomed ==
    \A a \in Addresses :
        /\ welcomed[a] <= 1
        /\ welcomed[a] = 1 => /\ Exists(a)
                              /\ account[a].password = told[a]
                              /\ account[a].role = "User"

\* An account is never undone by what was looked up before it existed or was
\* verified: it keeps its password, its role, its verification, and stays
\* linked to Google.
AccountKept ==
    [][\A a \in Addresses : Exists(a) =>
        /\ Exists(a)'
        /\ account'[a].password = account[a].password
        /\ account[a].role = "User" => account'[a].role = "User"
        /\ account[a].verified => account'[a].verified
        /\ account[a].google # None => account'[a].google # None]_vars

\* However many verifications run at once, and codes are sent meanwhile, a
\* UserVerification row answers 200 to at most one of them, and none while it
\* is there.
VerifiedOnce ==
    /\ \A i \in Ids : answered[i] <= 1
    /\ \A a \in Addresses : row[a] # None => answered[row[a].id] = 0

\* No account is stuck unverified: wherever its registration broke off, and
\* however its codes are overtaken, dropped or expire, an owner who keeps
\* asking for a code and using the one mailed gets it verified.
GetsVerified == \A a \in Addresses : Exists(a) ~> (Exists(a) /\ account[a].verified)
=============================================================================
