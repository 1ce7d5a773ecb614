------------------------------ MODULE Sockets ------------------------------
(***************************************************************************)
(* The WebSocket servers and the rooms: services/Socket.ts (Socket.io) or  *)
(* services/uSocket.ts (uWebSockets.js), whichever SOCKET_DRIVER names,    *)
(* with services/SocketAuthService.ts and controllers/SocketController.ts. *)
(*                                                                         *)
(* One process.  A socket's events are not handled one after the other: a  *)
(* handler that awaits the database leaves the socket to the next event,   *)
(* and to its closing.  A Task is a handler at such an await.  An access   *)
(* token is the user it names; a room token is the pair it is the HMAC of. *)
(*                                                                         *)
(* A room is its name, and join-room takes any name, or a list of names.   *)
(* The tokens of one-to-one rooms have no state and are left out, and so   *)
(* are the rooms of Socket.io itself ('public', and one of each socket).   *)
(***************************************************************************)
EXTENDS Naturals

CONSTANTS
    Sockets, Users, Tasks,
    Rooms,      \* names of rooms; the id of a user names the room of the user
    None

ASSUME SocketsAssumption ==
    /\ None \notin Sockets \union Rooms
    /\ Users \subseteq Rooms

\* Names a group can have: 'group-<uuid>' is the id of no user.
Groups == Rooms \ Users

VARIABLES
    driver,      \* "SocketIO" or "uWebSocket"
    status,      \* of each socket: "new", "open" or "closed"
    cookie,      \* user named by the accessToken cookie of each handshake
    tracked,     \* idSocketMap, or allSockets
    connections, \* userSocketIdMap, or userSocketMap; {} is no entry
    identity,    \* currentUser of each connection, or wsUserMap
    rooms,       \* rooms and topics each socket has joined
    authorized,  \* groupAuthorized; {} is no entry
    members,     \* roomMembers; {} is no entry, and a room not started
    held,        \* room tokens issued, <<user, group>>
    entitled,    \* history: creators of groups, and whom the entitled invited
    told,        \* history: invitations emitted by this process, <<user, room>>
    ever,        \* history: users each connected socket was authenticated as
    pc,          \* the await each handler is at
    task         \* what each handler works on

maps == <<tracked, connections, identity>>
groups == <<authorized, members>>
rights == <<held, entitled>>
locals == <<pc, task>>
vars == <<driver, status, cookie, maps, rooms, groups, rights, told, ever, locals>>

IO == driver = "SocketIO"
\* Events that need an authenticated socket, and all that look a user up.  The
\* relays (offer, answer, ice-candidate) do what a join with a bad token does.
Guarded == {"join-private-room", "join-room", "invite-user"}
Events == Guarded \union {"connect", "identify"}
Handlers == [socket : Sockets \union {None}, user : Users \union {None},
             event : Events \union {None}, room : Rooms \union {None},
             target : Users \union {None}]
Work(s, u, e, g, v) == [socket |-> s, user |-> u, event |-> e, room |-> g, target |-> v]
Nothing == Work(None, None, None, None, None)

Init ==
    /\ driver \in {"SocketIO", "uWebSocket"}
    /\ status = [s \in Sockets |-> "new"]
    /\ cookie = [s \in Sockets |-> None]
    /\ tracked = {}
    /\ connections = [u \in Users |-> {}]
    /\ identity = [s \in Sockets |-> None]
    /\ rooms = [s \in Sockets |-> {}]
    /\ authorized = [g \in Rooms |-> {}]
    /\ members = [g \in Rooms |-> {}]
    /\ held = {}
    /\ entitled = {}
    /\ told = {}
    /\ ever = [s \in Sockets |-> {}]
    /\ pc = [t \in Tasks |-> "idle"]
    /\ task = [t \in Tasks |-> Nothing]

Goto(t, wait) == pc' = [pc EXCEPT ![t] = wait]

Done(t) ==
    /\ Goto(t, "idle")
    /\ task' = [task EXCEPT ![t] = Nothing]

\* getUserFromToken is called for event e of socket s.
LookUp(t, s, u, e, g, v) ==
    /\ pc[t] = "idle"
    /\ Goto(t, "auth")
    /\ task' = [task EXCEPT ![t] = Work(s, u, e, g, v)]

\* A socket.io socket that has disconnected joins no room any more.
Join(s, g) ==
    IF status[s] = "open" THEN [rooms EXCEPT ![s] = @ \union {g}] ELSE rooms

-----------------------------------------------------------------------------
(* Connections.                                                            *)

\* uSocket.cleanupConnection, of each socket of a set.
CleanUp(S) ==
    /\ tracked' = tracked \ S
    /\ connections' = [u \in Users |-> connections[u] \ {s \in S : identity[s] = u}]
    /\ identity' = [s \in Sockets |-> IF s \in S THEN None ELSE identity[s]]

\* uSocket.sendMessage: sending to a socket that is closed throws, and the
\* socket is cleaned up.
Send(S) == CleanUp({s \in S : status[s] = "closed"})

Connect(s, c) ==
    /\ status[s] = "new"
    /\ status' = [status EXCEPT ![s] = "open"]
    /\ cookie' = [cookie EXCEPT ![s] = c]
    /\ tracked' = tracked \union {s}
    /\ IF c = None THEN UNCHANGED locals
       ELSE \E t \in Tasks : LookUp(t, s, c, "connect", None, None)
    /\ UNCHANGED <<driver, connections, identity, rooms, groups, rights, told, ever>>

\* Disconnecting, in Socket.io, leaves currentUser to the handlers in flight.
Disconnect(s) ==
    /\ status[s] = "open"
    /\ status' = [status EXCEPT ![s] = "closed"]
    /\ rooms' = [rooms EXCEPT ![s] = {}]
    /\ ever' = [ever EXCEPT ![s] = {}]
    /\ IF IO THEN /\ tracked' = tracked \ {s}
                  /\ connections' = [u \in Users |-> connections[u] \ {s}]
                  /\ UNCHANGED identity
       ELSE CleanUp({s})
    /\ UNCHANGED <<driver, cookie, groups, rights, told, locals>>

\* Whom emit, emitToAuthenticated and emitToUnauthenticated of uSocket send
\* to, and emitToUser (W is one user) or emitToRole (the users of a role).
Audiences ==
    {tracked, {s \in tracked : identity[s] # None}, {s \in tracked : identity[s] = None}}
    \union {UNION {connections[u] : u \in W} : W \in SUBSET Users}

\* Emitting changes nothing in Socket.io.
Emit(S) ==
    /\ ~IO
    /\ Send(S)
    /\ UNCHANGED <<driver, status, cookie, rooms, groups, rights, told, ever, locals>>

\* The process dies and starts again.  Room tokens stay valid.
Restart ==
    /\ status' = [s \in Sockets |-> IF status[s] = "open" THEN "closed" ELSE status[s]]
    /\ tracked' = {}
    /\ connections' = [u \in Users |-> {}]
    /\ identity' = [s \in Sockets |-> None]
    /\ rooms' = [s \in Sockets |-> {}]
    /\ authorized' = [g \in Rooms |-> {}]
    /\ members' = [g \in Rooms |-> {}]
    /\ told' = {}
    /\ ever' = [s \in Sockets |-> {}]
    /\ pc' = [t \in Tasks |-> "idle"]
    /\ task' = [t \in Tasks |-> Nothing]
    /\ UNCHANGED <<driver, cookie, rights>>

-----------------------------------------------------------------------------
(* Authentication of a socket.                                             *)

Identify(t, s, u) ==
    /\ status[s] = "open"
    /\ LookUp(t, s, u, "identify", None, None)
    /\ UNCHANGED <<driver, status, cookie, maps, rooms, groups, rights, told, ever>>

\* Mutant: the socket is not looked up in idSocketMap.
UntrackedMutant(s, u) ==
    /\ connections' = [connections EXCEPT ![u] = @ \union {s}]
    /\ rooms' = Join(s, u)
    /\ identity' = [identity EXCEPT ![s] = u]
    /\ UNCHANGED tracked

\* Socket.addUserToRoom: "Socket not found" is logged only, and the handler
\* goes on with the user.
AddUserToRoom(s, u) ==
    /\ IF s \in tracked
       THEN /\ connections' = [connections EXCEPT ![u] = @ \union {s}]
            /\ rooms' = Join(s, u)
       ELSE UNCHANGED <<connections, rooms>>
    /\ identity' = [identity EXCEPT ![s] = u]
    /\ UNCHANGED tracked

\* Mutant: the socket stays with the user it was mapped to.
KeepFormerMutant(s, u, e) ==
    /\ connections' = [connections EXCEPT ![u] = @ \union {s}]
    /\ identity' = [identity EXCEPT ![s] = u]
    /\ UNCHANGED <<tracked, rooms>>

\* uSocket.addUserSocket.  The answer to identify finds out that the socket
\* is closed by now; the opening of a socket sends no answer.
AddUserSocket(s, u, e) ==
    /\ LET stays == e # "identify" \/ status[s] # "closed" IN
        /\ connections' = [w \in Users |->
                IF w = u /\ stays THEN connections[w] \union {s}
                ELSE IF w \in {u, identity[s]} THEN connections[w] \ {s}
                ELSE connections[w]]
        /\ identity' = [identity EXCEPT ![s] = IF stays THEN u ELSE None]
    /\ UNCHANGED <<tracked, rooms>>

\* A handler whose socket is authenticated goes on with its event.
GoOn(t) ==
    IF task[t].event \in Guarded THEN Goto(t, "go on") /\ UNCHANGED task ELSE Done(t)

AuthFound(t) ==
    /\ pc[t] = "auth"
    /\ LET s == task[t].socket
           u == task[t].user IN
        /\ IF IO THEN AddUserToRoom(s, u) ELSE AddUserSocket(s, u, task[t].event)
        /\ ever' = IF status[s] = "open" THEN [ever EXCEPT ![s] = @ \union {u}] ELSE ever
    /\ GoOn(t)
    /\ UNCHANGED <<driver, status, cookie, groups, rights, told>>

\* Mutant: requireAuth calls back although nobody is authenticated.
RefusedMutant(t) ==
    /\ pc[t] = "auth"
    /\ GoOn(t)
    /\ UNCHANGED <<driver, status, cookie, maps, rooms, groups, rights, told, ever>>

\* The token is invalid, or its user disabled.  Another handler may have
\* authenticated the socket meanwhile.
AuthRefused(t) ==
    /\ pc[t] = "auth"
    /\ IF identity[task[t].socket] # None THEN GoOn(t) ELSE Done(t)
    /\ IF ~IO /\ task[t].event = "identify" THEN Send({task[t].socket}) ELSE UNCHANGED maps
    /\ UNCHANGED <<driver, status, cookie, rooms, groups, rights, told, ever>>

\* The database fails.  In Socket.io nothing catches the error: the handler
\* ends, and the process may (Restart).
LookUpFails(t) ==
    /\ pc[t] \in {"auth", "target"}
    /\ IF ~IO /\ task[t].event \in {"identify", "invite-user"}
       THEN Send({task[t].socket}) ELSE UNCHANGED maps
    /\ Done(t)
    /\ UNCHANGED <<driver, status, cookie, rooms, groups, rights, told, ever>>

-----------------------------------------------------------------------------
(* Events that need authentication.                                        *)

\* SocketAuthService.verifyToken, of the token of room g that the client has.
VerifyToken(u, g) == <<u, g>> \in held

JoinPrivateRoom(t, s, g) ==
    /\ rooms' = IF VerifyToken(identity[s], g) THEN Join(s, g) ELSE rooms
    /\ Done(t)
    /\ UNCHANGED <<driver, status, cookie, maps, groups, rights, told, ever>>

\* join-room of Socket.io: the first to join starts the room, whatever its
\* name, then only its members join.  Or roomId is a list, which is the key of
\* no room that was started and never becomes one, each list being a new
\* object: the socket enters every room listed, here one at a time.
JoinRoom(t, s, g) ==
    /\ IO
    /\ \/ /\ members[g] = {} \/ identity[s] \in members[g]
          /\ members' = [members EXCEPT ![g] = @ \union {identity[s]}]
          /\ rooms' = Join(s, g)
       \/ /\ members[g] # {} /\ identity[s] \notin members[g]
          /\ UNCHANGED <<members, rooms>>
       \/ UNCHANGED members /\ rooms' = Join(s, g)
    /\ Done(t)
    /\ UNCHANGED <<driver, status, cookie, maps, authorized, rights, told, ever>>

\* Mutant: asks that there is a group, not whose it is.
AnyGroupMutant(u, g) == IF IO THEN members[g] # {} ELSE authorized[g] # {}

\* The two drivers keep different lists of who may invite.
MayInvite(u, g) == IF IO THEN u \in members[g] ELSE u \in authorized[g]

\* Who invites is kept for the history only.
InviteUser(t, s, g, v) ==
    /\ IF MayInvite(identity[s], g)
       THEN /\ Goto(t, "target")
            /\ task' = [task EXCEPT ![t] = Work(s, identity[s], "invite-user", g, v)]
       ELSE Done(t)
    /\ UNCHANGED <<driver, status, cookie, maps, rooms, groups, rights, told, ever>>

Handle(t, s, e, g, v) ==
    \/ e = "join-private-room" /\ JoinPrivateRoom(t, s, g)
    \/ e = "join-room" /\ JoinRoom(t, s, g)
    \/ e = "invite-user" /\ InviteUser(t, s, g, v)

\* requireAuth: only Socket.io falls back on the cookie.
Receive(t, s, e, g, v) ==
    /\ status[s] = "open"
    /\ pc[t] = "idle"
    /\ (v # None) = (e = "invite-user")
    /\ \/ identity[s] # None /\ Handle(t, s, e, g, v)
       \/ /\ identity[s] = None /\ IO /\ cookie[s] # None
          /\ LookUp(t, s, cookie[s], e, g, v)
          /\ UNCHANGED <<driver, status, cookie, maps, rooms, groups, rights, told, ever>>

\* The event goes on as whoever the socket is authenticated as by now.
Resume(t) ==
    /\ pc[t] = "go on"
    /\ Handle(t, task[t].socket, task[t].event, task[t].room, task[t].target)

\* Mutant: the set of a group is made anew.
OverwriteMutant(g, u) ==
    authorized' = IF authorized[g] = {} THEN authorized ELSE [authorized EXCEPT ![g] = {u}]

\* SocketAuthService.authorizeGroupMember.
AuthorizeGroupMember(g, u) ==
    authorized' = IF authorized[g] = {} THEN authorized
                  ELSE [authorized EXCEPT ![g] = @ \union {u}]

\* The invited user exists and is not disabled.
TargetFound(t) ==
    /\ pc[t] = "target"
    /\ LET g == task[t].room
           v == task[t].target IN
        /\ AuthorizeGroupMember(g, v)
        /\ members' = IF IO THEN [members EXCEPT ![g] = @ \union {v}] ELSE members
        /\ told' = told \union {<<v, g>>}
        /\ entitled' = IF <<task[t].user, g>> \in entitled
                       THEN entitled \union {<<v, g>>} ELSE entitled
        /\ IF IO THEN UNCHANGED maps ELSE Send(connections[v])
    /\ Done(t)
    /\ UNCHANGED <<driver, status, cookie, rooms, held, ever>>

TargetMissing(t) ==
    /\ pc[t] = "target"
    /\ Done(t)
    /\ UNCHANGED <<driver, status, cookie, maps, rooms, groups, rights, told, ever>>

-----------------------------------------------------------------------------
(* HTTP.                                                                   *)

\* Nobody has named g yet: it is a new UUID.
Unheard(g) ==
    /\ authorized[g] = {} /\ members[g] = {}
    /\ \A w \in Users : <<w, g>> \notin held
    /\ \A s \in Sockets : g \notin rooms[s]
    /\ \A t \in Tasks : task[t].room # g

CreateGroupRoom(u, g) ==
    /\ Unheard(g)
    /\ authorized' = [authorized EXCEPT ![g] = {u}]
    /\ held' = held \union {<<u, g>>}
    /\ entitled' = entitled \union {<<u, g>>}
    /\ UNCHANGED <<driver, status, cookie, maps, rooms, members, told, ever, locals>>

JoinGroupRoom(u, g) ==
    /\ u \in authorized[g]
    /\ held' = held \union {<<u, g>>}
    /\ UNCHANGED <<driver, status, cookie, maps, rooms, groups, entitled, told, ever, locals>>

-----------------------------------------------------------------------------
Next ==
    \/ \E s \in Sockets : Disconnect(s) \/ \E c \in Users \union {None} : Connect(s, c)
    \/ \E t \in Tasks, s \in Sockets, u \in Users : Identify(t, s, u)
    \/ \E t \in Tasks, s \in Sockets, e \in Guarded, g \in Rooms, v \in Users \union {None} :
            Receive(t, s, e, g, v)
    \/ \E t \in Tasks :
            \/ AuthFound(t) \/ AuthRefused(t) \/ LookUpFails(t) \/ Resume(t)
            \/ TargetFound(t) \/ TargetMissing(t)
    \/ \E S \in Audiences : Emit(S)
    \/ \E u \in Users, g \in Groups : CreateGroupRoom(u, g) \/ JoinGroupRoom(u, g)
    \/ Restart

Spec == Init /\ [][Next]_vars

-----------------------------------------------------------------------------
(* Properties.                                                             *)

\* Every variable has its type.
TypeOK ==
    /\ driver \in {"SocketIO", "uWebSocket"}
    /\ status \in [Sockets -> {"new", "open", "closed"}]
    /\ cookie \in [Sockets -> Users \union {None}]
    /\ tracked \subseteq Sockets
    /\ connections \in [Users -> SUBSET Sockets]
    /\ identity \in [Sockets -> Users \union {None}]
    /\ rooms \in [Sockets -> SUBSET Rooms]
    /\ authorized \in [Rooms -> SUBSET Users]
    /\ members \in [Rooms -> SUBSET Users]
    /\ held \subseteq Users \X Groups /\ entitled \subseteq Users \X Groups
    /\ told \subseteq Users \X Rooms
    /\ ever \in [Sockets -> SUBSET Users]
    /\ pc \in [Tasks -> {"idle", "auth", "go on", "target"}]
    /\ task \in [Tasks -> Handlers]

\* The maps of a driver describe the same connections, whatever identifies,
\* closings, joins and failing sends interleave.  In uSocket each socket is
\* entered under the user it is mapped to and no other.  In Socket.io a
\* connected socket is entered under the users it was authenticated as, its
\* currentUser among them, and is in the room of each, where emitToUser sends
\* to.  (A socket that joined the room by name is in it and not in the maps.)
MapsAgree ==
    \A s \in Sockets, u \in Users :
        IF IO
        THEN /\ s \in connections[u] <=> u \in ever[s]
             /\ s \in tracked /\ identity[s] = u => s \in connections[u]
             /\ s \in connections[u] => u \in rooms[s]
        ELSE s \in connections[u] <=> identity[s] = u

\* A socket that closes while its token is looked up is not entered in the
\* maps afterwards.  In uSocket it is after the lookup of its opening, and
\* stays until something is sent to that user; never after an identify of a
\* connection without a cookie.
NoGhosts ==
    /\ tracked = {s \in Sockets : status[s] = "open"}
    /\ \A u \in Users : \A s \in connections[u] :
            s \in tracked \/ (~IO /\ cookie[s] # None)

\* Whoever is told to be invited is not turned away at the door, although the
\* inviter was checked before the await and the lists change after it:
\* the driver's list has the user, and so has the list that room tokens are
\* issued from.
InvitedMayJoin ==
    \A u \in Users, g \in Rooms :
        <<u, g>> \in told =>
            /\ IO => u \in members[g]
            /\ ~IO \/ authorized[g] # {} => u \in authorized[g]

\* A socket is in a room only by right, although its user may change, and the
\* lists do, while its events wait.  In uSocket a user it was authenticated as
\* holds the room's token, and got it as the creator or by an unbroken chain
\* of invitations that starts with the creator, across restarts.  In Socket.io,
\* where join-room lets in whoever comes first, at least nobody is in a room
\* unauthenticated.
OnlyEntitled ==
    \A s \in Sockets : \A g \in rooms[s] :
        IF IO THEN ever[s] # {}
        ELSE \E u \in ever[s] : <<u, g>> \in held \intersect entitled

\* src/README.md:10: "HMAC-secured private rooms for 1-to-1 and group sessions".
\* Nobody is in the room of a created group but whom its creator, or somebody
\* invited before, invited.  Socket.io's join-room asks for no token.
PrivateRoomsSecured ==
    \A s \in Sockets, g \in Groups :
        g \in rooms[s] /\ (\E w \in Users : <<w, g>> \in entitled) =>
            \E u \in ever[s] : <<u, g>> \in entitled
=============================================================================
