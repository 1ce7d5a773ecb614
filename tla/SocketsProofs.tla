--------------------------- MODULE SocketsProofs ---------------------------
(***************************************************************************)
(* What holds of Sockets for any number of sockets, users, rooms and       *)
(* handlers in flight.                                                     *)
(***************************************************************************)
EXTENDS Sockets, TLAPS

USE SocketsAssumption DEF SocketsAssumption

\* What the steps of a handler have established at its await.
AuthAwaited(k) ==
    /\ k.socket \in Sockets /\ status[k.socket] # "new"
    /\ k.user \in Users
    /\ \/ k.event = "identify"
       \/ k.event = "connect" /\ cookie[k.socket] # None
       \/ IO /\ k.event \in Guarded /\ k.room \in Rooms
    /\ k.event = "invite-user" => k.target \in Users

ResumeAwaited(k) ==
    /\ IO
    /\ k.socket \in Sockets /\ identity[k.socket] \in Users
    /\ k.event \in Guarded /\ k.room \in Rooms
    /\ k.event = "invite-user" => k.target \in Users

TargetAwaited(k) ==
    /\ k.socket \in Sockets
    /\ k.room \in Rooms /\ k.target \in Users
    /\ ~IO => authorized[k.room] # {}

AwaitedBy(t) ==
    /\ pc[t] = "auth" => AuthAwaited(task[t])
    /\ pc[t] = "go on" => ResumeAwaited(task[t])
    /\ pc[t] = "target" => TargetAwaited(task[t])

Awaited == \A t \in Tasks : AwaitedBy(t)

\* A socket that is not connected yet is nobody's; one that is open is
\* only that of a user it was authenticated as.
NewIsBlank == \A s \in Sockets : status[s] = "new" => identity[s] = None
OpenIsEver ==
    \A s \in Sockets : status[s] = "open" /\ identity[s] # None => identity[s] \in ever[s]

TypeInv == TypeOK /\ Awaited
MapsInv == NewIsBlank /\ MapsAgree /\ NoGhosts

-----------------------------------------------------------------------------
(* Steps: the next-state relation with events and their handling apart.    *)

Others == <<driver, status, cookie, maps, rooms, groups, rights, told, ever>>

\* A handler waits for the token of its socket.
Waits(t, s, u, e, g, v) == LookUp(t, s, u, e, g, v) /\ UNCHANGED Others

\* The event is that of an authenticated socket that exists.
Served(t, s, e, g, v) ==
    /\ identity[s] \in Users
    /\ e = "invite-user" => v \in Users
    /\ Handle(t, s, e, g, v)

Steps ==
    \/ \E s \in Sockets : Disconnect(s)
    \/ \E s \in Sockets, c \in Users \union {None} : Connect(s, c)
    \/ \E t \in Tasks, s \in Sockets, u \in Users, e \in Guarded \union {"identify"},
          g \in Rooms \union {None}, v \in Users \union {None} :
            /\ status[s] = "open"
            /\ e # "identify" => IO /\ e \in Guarded /\ g \in Rooms
            /\ e = "invite-user" => v \in Users
            /\ Waits(t, s, u, e, g, v)
    \/ \E t \in Tasks, s \in Sockets, e \in Guarded, g \in Rooms, v \in Users \union {None} :
            Served(t, s, e, g, v)
    \/ \E t \in Tasks : AuthFound(t) \/ AuthRefused(t) \/ LookUpFails(t)
                        \/ TargetFound(t) \/ TargetMissing(t)
    \/ \E S \in Audiences : Emit(S)
    \/ \E u \in Users, g \in Groups : CreateGroupRoom(u, g) \/ JoinGroupRoom(u, g)
    \/ Restart

LEMMA NextSteps == TypeInv /\ Next => Steps
<1> SUFFICES ASSUME TypeInv, Next PROVE Steps
  OBVIOUS
<1> USE DEF TypeInv, TypeOK
<1>1. ASSUME NEW t \in Tasks, NEW s \in Sockets, NEW u \in Users, Identify(t, s, u)
      PROVE  Steps
  <2>1. /\ status[s] = "open"
        /\ Waits(t, s, u, "identify", None, None)
    BY <1>1 DEF Identify, Waits, Others
  <2> QED
    BY <2>1 DEF Steps
<1>2. ASSUME NEW t \in Tasks, NEW s \in Sockets, NEW e \in Guarded, NEW g \in Rooms,
             NEW v \in Users \union {None}, Receive(t, s, e, g, v)
      PROVE  Steps
  <2>1. CASE Handle(t, s, e, g, v) /\ identity[s] # None
    <3>1. Served(t, s, e, g, v)
      BY <1>2, <2>1 DEF Receive, Served
    <3> QED
      BY <3>1 DEF Steps
  <2>2. CASE ~(Handle(t, s, e, g, v) /\ identity[s] # None)
    <3>1. /\ IO /\ cookie[s] \in Users
          /\ status[s] = "open"
          /\ e = "invite-user" => v \in Users
          /\ LookUp(t, s, cookie[s], e, g, v)
          /\ UNCHANGED Others
      BY <1>2, <2>2 DEF Receive, Others
    <3> QED
      BY <3>1 DEF Steps, Waits
  <2> QED
    BY <2>1, <2>2
<1>3. ASSUME NEW t \in Tasks, Resume(t) PROVE Steps
  <2>1. ResumeAwaited(task[t])
    BY <1>3 DEF Resume, Awaited, AwaitedBy
  <2>2. task[t].event \in Guarded /\ task[t].target \in Users \union {None}
    BY <1>3, <2>1 DEF ResumeAwaited, Handlers
  <2>3. Served(t, task[t].socket, task[t].event, task[t].room, task[t].target)
    BY <1>3, <2>1 DEF Resume, Served, ResumeAwaited
  <2> QED
    BY <2>1, <2>2, <2>3 DEF Steps, ResumeAwaited
<1> QED
  BY <1>1, <1>2, <1>3 DEF Next, Steps

\* What a handler works on.
LEMMA WorkTyped ==
    ASSUME NEW s \in Sockets \union {None}, NEW u \in Users \union {None},
           NEW e \in Events \union {None}, NEW g \in Rooms \union {None},
           NEW v \in Users \union {None}
    PROVE  Work(s, u, e, g, v) \in Handlers
BY DEF Work, Handlers

LEMMA NothingTyped == Nothing \in Handlers
BY WorkTyped DEF Nothing

LEMMA TypeInit == Init => TypeInv
BY NothingTyped DEF Init, TypeInv, TypeOK, Awaited, AwaitedBy, Goto

\* Types of the maps, of what a handler may change besides, and of handlers.
MapsTyped ==
    /\ tracked \subseteq Sockets
    /\ connections \in [Users -> SUBSET Sockets]
    /\ identity \in [Sockets -> Users \union {None}]

RoomsTyped ==
    /\ rooms \in [Sockets -> SUBSET Rooms]
    /\ authorized \in [Rooms -> SUBSET Users]
    /\ members \in [Rooms -> SUBSET Users]
    /\ held \subseteq Users \X Groups /\ entitled \subseteq Users \X Groups
    /\ told \subseteq Users \X Rooms
    /\ ever \in [Sockets -> SUBSET Users]

LocalsTyped ==
    /\ pc \in [Tasks -> {"idle", "auth", "go on", "target"}]
    /\ task \in [Tasks -> Handlers]

OthersTyped ==
    /\ driver \in {"SocketIO", "uWebSocket"}
    /\ status \in [Sockets -> {"new", "open", "closed"}]
    /\ cookie \in [Sockets -> Users \union {None}]

LEMMA TypeParts == TypeOK <=> MapsTyped /\ RoomsTyped /\ LocalsTyped /\ OthersTyped
BY DEF TypeOK, MapsTyped, RoomsTyped, LocalsTyped, OthersTyped

LEMMA CleanUpTypes == ASSUME MapsTyped, NEW S, CleanUp(S) PROVE MapsTyped'
BY DEF MapsTyped, CleanUp

LEMMA DoneTypes == ASSUME LocalsTyped, NEW t \in Tasks, Done(t) PROVE LocalsTyped'
BY NothingTyped DEF LocalsTyped, Done, Goto

LEMMA LookUpTypes ==
    ASSUME LocalsTyped, NEW t \in Tasks, NEW s \in Sockets, NEW u \in Users, NEW e \in Events,
           NEW g \in Rooms \union {None}, NEW v \in Users \union {None}, LookUp(t, s, u, e, g, v)
    PROVE  LocalsTyped'
<1>1. Work(s, u, e, g, v) \in Handlers
  BY WorkTyped
<1> QED
  BY <1>1 DEF LocalsTyped, LookUp, Goto

LEMMA GoOnTypes == ASSUME LocalsTyped, NEW t \in Tasks, GoOn(t) PROVE LocalsTyped'
<1>1. CASE Done(t)
  BY <1>1, DoneTypes
<1>2. CASE ~Done(t)
  BY <1>2 DEF GoOn, LocalsTyped, Goto
<1> QED
  BY <1>1, <1>2

LEMMA TypeOKStep == TypeInv /\ [Next]_vars => TypeOK'
<1> SUFFICES ASSUME TypeInv, [Next]_vars
             PROVE  MapsTyped' /\ RoomsTyped' /\ LocalsTyped' /\ OthersTyped'
  BY TypeParts DEF TypeOK, MapsTyped, RoomsTyped, LocalsTyped, OthersTyped
<1>0. MapsTyped /\ RoomsTyped /\ LocalsTyped /\ OthersTyped
  BY TypeParts DEF TypeInv
<1> DEFINE Typed == MapsTyped /\ RoomsTyped /\ LocalsTyped /\ OthersTyped
<1>1. ASSUME NEW s \in Sockets, Disconnect(s) PROVE Typed'
  <2>1. MapsTyped'
    <3>1. CASE IO
      <4>1. /\ tracked' = tracked \ {s}
            /\ connections' = [u \in Users |-> connections[u] \ {s}]
            /\ identity' = identity
        BY <1>1, <3>1 DEF Disconnect
      <4> QED
        BY <1>0, <4>1 DEF MapsTyped
    <3>2. CASE ~IO
      BY <1>0, <1>1, <3>2, CleanUpTypes DEF Disconnect
    <3> QED
      BY <3>1, <3>2
  <2>2. RoomsTyped' /\ LocalsTyped' /\ OthersTyped'
    BY <1>0, <1>1 DEF Disconnect, groups, rights, locals, RoomsTyped, LocalsTyped, OthersTyped
  <2> QED
    BY <2>1, <2>2
<1>2. ASSUME NEW s \in Sockets, NEW c \in Users \union {None}, Connect(s, c) PROVE Typed'
  <2>1. MapsTyped' /\ RoomsTyped' /\ OthersTyped'
    BY <1>0, <1>2 DEF Connect, groups, rights, MapsTyped, RoomsTyped, OthersTyped
  <2>2. LocalsTyped'
    <3>1. CASE c = None
      BY <1>0, <1>2, <3>1 DEF Connect, locals, LocalsTyped
    <3>2. CASE c # None
      <4>1. PICK t \in Tasks : LookUp(t, s, c, "connect", None, None)
        BY <1>2, <3>2 DEF Connect
      <4> QED
        BY <1>0, <3>2, <4>1, LookUpTypes DEF Events
    <3> QED
      BY <3>1, <3>2
  <2> QED
    BY <2>1, <2>2
<1>3. ASSUME NEW t \in Tasks, NEW s \in Sockets, NEW u \in Users,
             NEW e \in Guarded \union {"identify"},
             NEW g \in Rooms \union {None}, NEW v \in Users \union {None},
             Waits(t, s, u, e, g, v)
      PROVE  Typed'
  <2>1. LocalsTyped'
    BY <1>0, <1>3, LookUpTypes DEF Waits, Events
  <2>2. MapsTyped' /\ RoomsTyped' /\ OthersTyped'
    BY <1>0, <1>3 DEF Waits, Others, maps, groups, rights, MapsTyped, RoomsTyped, OthersTyped
  <2> QED
    BY <2>1, <2>2
<1>4. ASSUME NEW t \in Tasks, NEW s \in Sockets, NEW e \in Guarded, NEW g \in Rooms,
             NEW v \in Users \union {None}, Served(t, s, e, g, v)
      PROVE  Typed'
  <2>0. identity[s] \in Users
    BY <1>4 DEF Served
  <2>1. CASE JoinPrivateRoom(t, s, g)
    <3>1. LocalsTyped'
      BY <1>0, <2>1, DoneTypes DEF JoinPrivateRoom
    <3>2. MapsTyped' /\ RoomsTyped' /\ OthersTyped'
      BY <1>0, <2>1 DEF JoinPrivateRoom, Join, maps, groups, rights, MapsTyped, RoomsTyped, OthersTyped
    <3> QED
      BY <3>1, <3>2
  <2>2. CASE JoinRoom(t, s, g)
    <3>1. LocalsTyped'
      BY <1>0, <2>2, DoneTypes DEF JoinRoom
    <3>2. rooms' \in [Sockets -> SUBSET Rooms]
      BY <1>0, <2>2 DEF JoinRoom, Join, RoomsTyped
    <3>3. members' \in [Rooms -> SUBSET Users]
      BY <1>0, <2>0, <2>2 DEF JoinRoom, RoomsTyped
    <3>4. MapsTyped' /\ RoomsTyped' /\ OthersTyped'
      BY <1>0, <2>2, <3>2, <3>3 DEF JoinRoom, maps, rights, MapsTyped, RoomsTyped, OthersTyped
    <3> QED
      BY <3>1, <3>4
  <2>3. CASE e = "invite-user" /\ InviteUser(t, s, g, v)
    <3>1. LocalsTyped'
      <4>1. CASE Done(t)
        BY <1>0, <4>1, DoneTypes
      <4>2. CASE ~Done(t)
        <5>1. Work(s, identity[s], "invite-user", g, v) \in Handlers
          BY <2>0, WorkTyped DEF Events, Guarded
        <5> QED
          BY <1>0, <2>3, <4>2, <5>1 DEF InviteUser, LocalsTyped, Goto
      <4> QED
        BY <4>1, <4>2
    <3>2. MapsTyped' /\ RoomsTyped' /\ OthersTyped'
      BY <1>0, <2>3 DEF InviteUser, maps, groups, rights, MapsTyped, RoomsTyped, OthersTyped
    <3> QED
      BY <3>1, <3>2
  <2> QED
    BY <1>4, <2>1, <2>2, <2>3 DEF Served, Handle
<1>5. ASSUME NEW t \in Tasks, AuthFound(t) PROVE Typed'
  <2> DEFINE s == task[t].socket
             u == task[t].user
  <2>1. s \in Sockets /\ u \in Users
    BY <1>5 DEF AuthFound, TypeInv, Awaited, AwaitedBy, AuthAwaited
  <2>2. LocalsTyped'
    BY <1>0, <1>5, GoOnTypes DEF AuthFound
  <2>3. ever' \in [Sockets -> SUBSET Users]
    BY <1>0, <1>5, <2>1 DEF AuthFound, RoomsTyped
  <2>4. MapsTyped' /\ rooms' \in [Sockets -> SUBSET Rooms]
    <3>1. CASE IO
      <4>1. AddUserToRoom(s, u)
        BY <1>5, <3>1 DEF AuthFound
      <4> HIDE DEF s, u
      <4> QED
        BY <1>0, <2>1, <4>1 DEF AddUserToRoom, Join, MapsTyped, RoomsTyped
    <3>2. CASE ~IO
      <4>1. AddUserSocket(s, u, task[t].event)
        BY <1>5, <3>2 DEF AuthFound
      <4> HIDE DEF s, u
      <4> QED
        BY <1>0, <2>1, <4>1 DEF AddUserSocket, MapsTyped, RoomsTyped
    <3> QED
      BY <3>1, <3>2
  <2> QED
    BY <1>0, <1>5, <2>2, <2>3, <2>4 DEF AuthFound, groups, rights, RoomsTyped, OthersTyped
<1>6. ASSUME NEW t \in Tasks, AuthRefused(t) PROVE Typed'
  <2>1. LocalsTyped'
    BY <1>0, <1>6, GoOnTypes, DoneTypes DEF AuthRefused
  <2>2. MapsTyped'
    <3>1. CASE UNCHANGED maps
      BY <1>0, <3>1 DEF maps, MapsTyped
    <3>2. CASE Send({task[t].socket})
      BY <1>0, <3>2, CleanUpTypes DEF Send
    <3> QED
      BY <1>6, <3>1, <3>2 DEF AuthRefused
  <2> QED
    BY <1>0, <1>6, <2>1, <2>2 DEF AuthRefused, groups, rights, RoomsTyped, OthersTyped
<1>7. ASSUME NEW t \in Tasks, LookUpFails(t) PROVE Typed'
  <2>1. LocalsTyped'
    BY <1>0, <1>7, DoneTypes DEF LookUpFails
  <2>2. MapsTyped'
    <3>1. CASE UNCHANGED maps
      BY <1>0, <3>1 DEF maps, MapsTyped
    <3>2. CASE Send({task[t].socket})
      BY <1>0, <3>2, CleanUpTypes DEF Send
    <3> QED
      BY <1>7, <3>1, <3>2 DEF LookUpFails
  <2> QED
    BY <1>0, <1>7, <2>1, <2>2 DEF LookUpFails, groups, rights, RoomsTyped, OthersTyped
<1>8. ASSUME NEW t \in Tasks, TargetFound(t) PROVE Typed'
  <2> DEFINE g == task[t].room
             v == task[t].target
  <2>1. g \in Rooms /\ v \in Users
    BY <1>8 DEF TargetFound, TypeInv, Awaited, AwaitedBy, TargetAwaited
  <2>2. LocalsTyped'
    BY <1>0, <1>8, DoneTypes DEF TargetFound
  <2>3. MapsTyped'
    <3>1. CASE UNCHANGED maps
      BY <1>0, <3>1 DEF maps, MapsTyped
    <3>2. CASE Send(connections[v])
      BY <1>0, <3>2, CleanUpTypes DEF Send
    <3> QED
      BY <1>8, <3>1, <3>2 DEF TargetFound
  <2>4. /\ AuthorizeGroupMember(g, v)
        /\ members' = IF IO THEN [members EXCEPT ![g] = @ \union {v}] ELSE members
        /\ told' = told \union {<<v, g>>}
        /\ entitled' = IF <<task[t].user, g>> \in entitled
                       THEN entitled \union {<<v, g>>} ELSE entitled
        /\ UNCHANGED <<rooms, held, ever>>
    BY <1>8 DEF TargetFound
  <2>5. RoomsTyped'
    <3> HIDE DEF g, v
    <3>1. entitled' \subseteq Users \X Groups
      BY <1>0, <2>1, <2>4 DEF RoomsTyped
    <3>2. told' \subseteq Users \X Rooms
      BY <1>0, <2>1, <2>4 DEF RoomsTyped
    <3> QED
      BY <1>0, <2>1, <2>4, <3>1, <3>2 DEF RoomsTyped, AuthorizeGroupMember
  <2> QED
    BY <1>0, <1>8, <2>2, <2>3, <2>5 DEF TargetFound, OthersTyped
<1>9. ASSUME NEW t \in Tasks, TargetMissing(t) PROVE Typed'
  <2>1. LocalsTyped'
    BY <1>0, <1>9, DoneTypes DEF TargetMissing
  <2> QED
    BY <1>0, <1>9, <2>1 DEF TargetMissing, maps, groups, rights, MapsTyped, RoomsTyped, OthersTyped
<1>10. ASSUME NEW S \in Audiences, Emit(S) PROVE Typed'
  <2>1. MapsTyped'
    BY <1>0, <1>10, CleanUpTypes DEF Emit, Send
  <2> QED
    BY <1>0, <1>10, <2>1 DEF Emit, groups, rights, locals, RoomsTyped, LocalsTyped, OthersTyped
<1>11. ASSUME NEW u \in Users, NEW g \in Groups, CreateGroupRoom(u, g) PROVE Typed'
  <2>1. held' \subseteq Users \X Groups /\ entitled' \subseteq Users \X Groups
    <3>1. held' = held \union {<<u, g>>} /\ entitled' = entitled \union {<<u, g>>}
      BY <1>11 DEF CreateGroupRoom
    <3> QED
      BY <1>0, <3>1 DEF RoomsTyped
  <2>2. RoomsTyped'
    BY <1>0, <1>11, <2>1 DEF CreateGroupRoom, RoomsTyped
  <2> QED
    BY <1>0, <1>11, <2>2 DEF CreateGroupRoom, maps, locals, MapsTyped, LocalsTyped, OthersTyped
<1>12. ASSUME NEW u \in Users, NEW g \in Groups, JoinGroupRoom(u, g) PROVE Typed'
  <2>1. held' \subseteq Users \X Groups
    <3>1. held' = held \union {<<u, g>>}
      BY <1>12 DEF JoinGroupRoom
    <3> QED
      BY <1>0, <3>1 DEF RoomsTyped
  <2>2. RoomsTyped'
    BY <1>0, <1>12, <2>1 DEF JoinGroupRoom, groups, rights, RoomsTyped
  <2> QED
    BY <1>0, <1>12, <2>2 DEF JoinGroupRoom, maps, groups, rights, locals, MapsTyped, LocalsTyped, OthersTyped
<1>13. CASE Restart
  BY <1>0, <1>13, NothingTyped DEF Restart, rights, MapsTyped, RoomsTyped, LocalsTyped, OthersTyped
<1>14. CASE UNCHANGED vars
  BY <1>0, <1>14 DEF vars, maps, groups, rights, locals, MapsTyped, RoomsTyped, LocalsTyped, OthersTyped
<1> QED
  BY <1>1, <1>2, <1>3, <1>4, <1>5, <1>6, <1>7, <1>8, <1>9, <1>10, <1>11, <1>12, <1>13, <1>14,
     NextSteps DEF Steps

-----------------------------------------------------------------------------
(* What each await knows goes on holding while others run.  A socket that  *)
(* has connected stays so, its cookie is the handshake's, in Socket.io it  *)
(* never stops being authenticated, and a group is never forgotten.        *)

LEMMA Monotone ==
    ASSUME TypeInv, Next, ~Restart
    PROVE  /\ driver' = driver
           /\ \A s \in Sockets : status[s] # "new" => status'[s] # "new" /\ cookie'[s] = cookie[s]
           /\ IO => \A s \in Sockets : identity[s] \in Users => identity'[s] \in Users
           /\ \A g \in Rooms : authorized[g] \subseteq authorized'[g]
           /\ \A g \in Rooms : members[g] \subseteq members'[g]
           /\ held \subseteq held' /\ entitled \subseteq entitled'
<1> DEFINE Kept ==
        /\ driver' = driver
        /\ \A s \in Sockets : status[s] # "new" => status'[s] # "new" /\ cookie'[s] = cookie[s]
        /\ IO => \A s \in Sockets : identity[s] \in Users => identity'[s] \in Users
        /\ \A g \in Rooms : authorized[g] \subseteq authorized'[g]
        /\ \A g \in Rooms : members[g] \subseteq members'[g]
        /\ held \subseteq held' /\ entitled \subseteq entitled'
<1> SUFFICES Kept
  OBVIOUS
<1>0. MapsTyped /\ RoomsTyped /\ OthersTyped
  BY TypeParts DEF TypeInv
<1> USE DEF maps, groups, rights, MapsTyped, RoomsTyped, OthersTyped
<1>1. ASSUME NEW s \in Sockets, Disconnect(s) PROVE Kept
  BY <1>0, <1>1 DEF Disconnect
<1>2. ASSUME NEW s \in Sockets, NEW c \in Users \union {None}, Connect(s, c) PROVE Kept
  BY <1>0, <1>2 DEF Connect
<1>3. ASSUME NEW t \in Tasks, NEW s \in Sockets, NEW u \in Users,
             NEW e \in Guarded \union {"identify"},
             NEW g \in Rooms \union {None}, NEW v \in Users \union {None},
             Waits(t, s, u, e, g, v)
      PROVE  Kept
  BY <1>0, <1>3 DEF Waits, Others
<1>4. ASSUME NEW t \in Tasks, NEW s \in Sockets, NEW e \in Guarded, NEW g \in Rooms,
             NEW v \in Users \union {None}, Served(t, s, e, g, v)
      PROVE  Kept
  BY <1>0, <1>4 DEF Served, Handle, JoinPrivateRoom, JoinRoom, InviteUser
<1>5. ASSUME NEW t \in Tasks, AuthFound(t) PROVE Kept
  <2>1. task[t].user \in Users
    BY <1>5 DEF AuthFound, TypeInv, Awaited, AwaitedBy, AuthAwaited
  <2> QED
    BY <1>0, <1>5, <2>1 DEF AuthFound, AddUserToRoom
<1>6. ASSUME NEW t \in Tasks, AuthRefused(t) PROVE Kept
  BY <1>0, <1>6 DEF AuthRefused
<1>7. ASSUME NEW t \in Tasks, LookUpFails(t) PROVE Kept
  BY <1>0, <1>7 DEF LookUpFails
<1>8. ASSUME NEW t \in Tasks, TargetFound(t) PROVE Kept
  BY <1>0, <1>8 DEF TargetFound, AuthorizeGroupMember
<1>9. ASSUME NEW t \in Tasks, TargetMissing(t) PROVE Kept
  BY <1>0, <1>9 DEF TargetMissing
<1>10. ASSUME NEW S \in Audiences, Emit(S) PROVE Kept
  BY <1>0, <1>10 DEF Emit
<1>11. ASSUME NEW u \in Users, NEW g \in Groups, CreateGroupRoom(u, g) PROVE Kept
  BY <1>0, <1>11 DEF CreateGroupRoom, Unheard
<1>12. ASSUME NEW u \in Users, NEW g \in Groups, JoinGroupRoom(u, g) PROVE Kept
  BY <1>0, <1>12 DEF JoinGroupRoom
<1> QED
  BY <1>1, <1>2, <1>3, <1>4, <1>5, <1>6, <1>7, <1>8, <1>9, <1>10, <1>11, <1>12,
     NextSteps DEF Steps

Unmoved(t) == pc'[t] = pc[t] /\ task'[t] = task[t]

LEMMA AwaitedLasts ==
    ASSUME TypeInv, Next, ~Restart, NEW t \in Tasks, Unmoved(t)
    PROVE  AwaitedBy(t)'
<1>1. AwaitedBy(t)
  BY DEF TypeInv, Awaited
<1> QED
  BY <1>1, Monotone DEF AwaitedBy, AuthAwaited, ResumeAwaited, TargetAwaited, Unmoved, IO

\* A handler that ends awaits nothing, and a step moves no other handler.
LEMMA DoneAwaits == ASSUME LocalsTyped, NEW t \in Tasks, Done(t) PROVE AwaitedBy(t)'
BY DEF LocalsTyped, Done, Goto, AwaitedBy

LEMMA OneMoves ==
    ASSUME TypeInv, Next, ~Restart, NEW t \in Tasks, AwaitedBy(t)',
           \A k \in Tasks \ {t} : Unmoved(k)
    PROVE  Awaited'
BY AwaitedLasts DEF Awaited

LEMMA NoneMoves ==
    ASSUME TypeInv, Next, ~Restart, UNCHANGED locals
    PROVE  Awaited'
BY AwaitedLasts DEF Awaited, Unmoved, locals

LEMMA LookUpMoves ==
    ASSUME LocalsTyped, NEW t \in Tasks, NEW s \in Sockets, NEW u \in Users, NEW e, NEW g, NEW v,
           LookUp(t, s, u, e, g, v)
    PROVE  /\ pc'[t] = "auth" /\ task'[t] = Work(s, u, e, g, v)
           /\ \A k \in Tasks \ {t} : Unmoved(k)
BY DEF LookUp, Goto, LocalsTyped, Unmoved

LEMMA DoneMoves ==
    ASSUME LocalsTyped, NEW t \in Tasks, Done(t)
    PROVE  \A k \in Tasks \ {t} : Unmoved(k)
BY DEF Done, Goto, LocalsTyped, Unmoved

LEMMA AwaitedStep == TypeInv /\ Next => Awaited'
<1> SUFFICES ASSUME TypeInv, Next PROVE Awaited'
  OBVIOUS
<1>0. MapsTyped /\ RoomsTyped /\ LocalsTyped /\ OthersTyped
  BY TypeParts DEF TypeInv
<1>d. ASSUME NEW t \in Tasks, Done(t), ~Restart PROVE Awaited'
  BY <1>0, <1>d, DoneAwaits, DoneMoves, OneMoves
<1>1. CASE Restart
  BY <1>1 DEF Restart, Awaited, AwaitedBy
<1>2. CASE ~Restart /\ UNCHANGED locals
  BY <1>2, NoneMoves
<1>3. ASSUME ~Restart, NEW s \in Sockets, NEW c \in Users \union {None}, Connect(s, c), c # None
      PROVE  Awaited'
  <2>1. PICK t \in Tasks : LookUp(t, s, c, "connect", None, None)
    BY <1>3 DEF Connect
  <2>2. status'[s] = "open" /\ cookie'[s] # None
    BY <1>0, <1>3 DEF Connect, OthersTyped
  <2>3. /\ pc'[t] = "auth" /\ task'[t] = Work(s, c, "connect", None, None)
        /\ \A k \in Tasks \ {t} : Unmoved(k)
    BY <1>0, <1>3, <2>1, LookUpMoves
  <2>4. AwaitedBy(t)'
    BY <1>3, <2>2, <2>3 DEF AwaitedBy, AuthAwaited, Work
  <2> QED
    BY <1>3, <2>3, <2>4, OneMoves
<1>4. ASSUME ~Restart, NEW t \in Tasks, NEW s \in Sockets, NEW u \in Users,
             NEW e \in Guarded \union {"identify"},
             NEW g \in Rooms \union {None}, NEW v \in Users \union {None},
             status[s] = "open",
             e # "identify" => IO /\ e \in Guarded /\ g \in Rooms,
             e = "invite-user" => v \in Users,
             Waits(t, s, u, e, g, v)
      PROVE  Awaited'
  <2>1. /\ pc'[t] = "auth" /\ task'[t] = Work(s, u, e, g, v)
        /\ \A k \in Tasks \ {t} : Unmoved(k)
    BY <1>0, <1>4, LookUpMoves DEF Waits
  <2>2. status'[s] = "open" /\ IO' = IO
    BY <1>4 DEF Waits, Others, IO
  <2>3. AwaitedBy(t)'
    BY <1>4, <2>1, <2>2 DEF AwaitedBy, AuthAwaited, Work
  <2> QED
    BY <1>4, <2>1, <2>3, OneMoves
<1>5. ASSUME ~Restart, NEW t \in Tasks, NEW s \in Sockets, NEW g \in Rooms,
             NEW v \in Users, identity[s] \in Users, InviteUser(t, s, g, v), ~Done(t)
      PROVE  Awaited'
  <2>1. /\ pc'[t] = "target" /\ task'[t] = Work(s, identity[s], "invite-user", g, v)
        /\ \A k \in Tasks \ {t} : Unmoved(k)
    BY <1>0, <1>5 DEF InviteUser, Goto, LocalsTyped, Unmoved
  <2>2. ~IO' => authorized'[g] # {}
    BY <1>5 DEF InviteUser, MayInvite, IO, groups, rights
  <2>3. AwaitedBy(t)'
    BY <1>5, <2>1, <2>2 DEF AwaitedBy, TargetAwaited, Work
  <2> QED
    BY <1>5, <2>1, <2>3, OneMoves
<1>6. ASSUME ~Restart, NEW t \in Tasks, pc[t] = "auth", GoOn(t), ~Done(t),
             IO => identity'[task[t].socket] \in Users
      PROVE  Awaited'
  <2>1. AuthAwaited(task[t])
    BY <1>6 DEF TypeInv, Awaited, AwaitedBy
  <2>2. /\ pc'[t] = "go on" /\ task'[t] = task[t] /\ task[t].event \in Guarded
        /\ \A k \in Tasks \ {t} : Unmoved(k)
    BY <1>0, <1>6 DEF GoOn, Goto, LocalsTyped, Unmoved
  <2>3. IO /\ IO'
    BY <1>6, <2>1, <2>2, Monotone DEF AuthAwaited, Guarded, IO
  <2>4. AwaitedBy(t)'
    BY <1>6, <2>1, <2>2, <2>3 DEF AwaitedBy, AuthAwaited, ResumeAwaited, Guarded
  <2> QED
    BY <1>6, <2>2, <2>4, OneMoves
<1>7. ASSUME ~Restart, NEW t \in Tasks, AuthFound(t) PROVE Awaited'
  <2>1. AuthAwaited(task[t])
    BY <1>7 DEF AuthFound, TypeInv, Awaited, AwaitedBy
  <2>2. IO => identity'[task[t].socket] \in Users
    BY <1>0, <1>7, <2>1 DEF AuthFound, AddUserToRoom, AuthAwaited, MapsTyped
  <2> QED
    BY <1>d, <1>6, <1>7, <2>2 DEF AuthFound
<1>8. ASSUME ~Restart, NEW t \in Tasks, AuthRefused(t) PROVE Awaited'
  <2>1. AuthAwaited(task[t])
    BY <1>8 DEF AuthRefused, TypeInv, Awaited, AwaitedBy
  <2>2. CASE ~Done(t)
    <3>1. GoOn(t) /\ identity[task[t].socket] \in Users
      BY <1>0, <1>8, <2>1, <2>2 DEF AuthRefused, MapsTyped, AuthAwaited
    <3>2. IO => identity'[task[t].socket] \in Users
      BY <1>8, <2>1, <3>1, Monotone DEF AuthAwaited
    <3> QED
      BY <1>6, <1>8, <2>2, <3>1, <3>2 DEF AuthRefused
  <2> QED
    BY <1>d, <1>8, <2>2
<1>9. ASSUME ~Restart, NEW t \in Tasks, NEW s \in Sockets, NEW e \in Guarded, NEW g \in Rooms,
             NEW v \in Users \union {None}, Served(t, s, e, g, v)
      PROVE  Awaited'
  <2>1. CASE Done(t)
    BY <1>9, <1>d, <2>1
  <2>2. CASE ~Done(t)
    <3>1. v \in Users /\ identity[s] \in Users /\ InviteUser(t, s, g, v)
      BY <1>9, <2>2 DEF Served, Handle, JoinPrivateRoom, JoinRoom
    <3> QED
      BY <1>5, <1>9, <2>2, <3>1
  <2> QED
    BY <2>1, <2>2
<1>10. ASSUME NEW t \in Tasks, LookUpFails(t) \/ TargetFound(t) \/ TargetMissing(t) PROVE Done(t)
  BY <1>10 DEF LookUpFails, TargetFound, TargetMissing
<1>11. ASSUME NEW s \in Sockets, Disconnect(s) \/ Connect(s, None) PROVE UNCHANGED locals
  BY <1>11 DEF Disconnect, Connect
<1>12. ASSUME NEW u \in Users, NEW g \in Groups,
              CreateGroupRoom(u, g) \/ JoinGroupRoom(u, g)
       PROVE  UNCHANGED locals
  BY <1>12 DEF CreateGroupRoom, JoinGroupRoom
<1>13. ASSUME NEW S \in Audiences, Emit(S) PROVE UNCHANGED locals
  BY <1>13 DEF Emit
<1>14. CASE ~Restart
  BY <1>d, <1>2, <1>3, <1>4, <1>7, <1>8, <1>9, <1>10, <1>11, <1>12, <1>13, <1>14, NextSteps DEF Steps
<1> QED
  BY <1>1, <1>14

LEMMA TypeStep == TypeInv /\ [Next]_vars => TypeInv'
<1> SUFFICES ASSUME TypeInv, [Next]_vars PROVE Awaited'
  BY TypeOKStep DEF TypeInv
<1>1. CASE Next
  BY <1>1, AwaitedStep
<1>2. CASE UNCHANGED vars
  BY <1>2 DEF vars, maps, groups, rights, locals, TypeInv, Awaited, AwaitedBy, AuthAwaited,
              ResumeAwaited, TargetAwaited, IO
<1> QED
  BY <1>1, <1>2

\* Every variable keeps its type.
THEOREM TypeCorrect == Spec => []TypeOK
<1>1. TypeInv => TypeOK
  BY DEF TypeInv
<1> QED
  BY <1>1, TypeInit, TypeStep, PTL DEF Spec

-----------------------------------------------------------------------------
(* The maps.                                                               *)

LEMMA MapsInit == Init => MapsInv
BY DEF Init, MapsInv, NewIsBlank, MapsAgree, NoGhosts, IO

\* Cleaning up closed sockets.
LEMMA CleanUpMaps ==
    ASSUME TypeInv, MapsInv, ~IO, NEW S, \A s \in S : status[s] = "closed",
           CleanUp(S), UNCHANGED <<driver, status, cookie, rooms>>
    PROVE  MapsInv'
<1> USE DEF TypeInv, TypeOK, MapsInv, CleanUp, IO
<1>1. NewIsBlank'
  BY DEF NewIsBlank
<1>2. MapsAgree'
  <2>1. ASSUME NEW s \in Sockets, NEW u \in Users
        PROVE  s \in connections'[u] <=> identity'[s] = u
    <3>1. s \in connections[u] <=> identity[s] = u
      BY DEF MapsAgree
    <3>2. connections'[u] = connections[u] \ {x \in S : identity[x] = u}
      OBVIOUS
    <3>3. identity'[s] = IF s \in S THEN None ELSE identity[s]
      OBVIOUS
    <3>4. u # None
      OBVIOUS
    <3> QED
      BY <3>1, <3>2, <3>3, <3>4
  <2> QED
    BY <2>1 DEF MapsAgree
<1>3. NoGhosts'
  BY DEF NoGhosts
<1> QED
  BY <1>1, <1>2, <1>3

\* Nothing the invariant is about has changed, but for rooms joined.
LEMMA RoomsMaps ==
    ASSUME TypeInv, MapsInv, UNCHANGED <<driver, status, cookie, maps, ever>>,
           \A s \in Sockets, u \in Users : u \in rooms[s] => u \in rooms'[s]
    PROVE  MapsInv'
BY DEF MapsInv, NewIsBlank, MapsAgree, NoGhosts, IO, maps

\* To join a room is to leave none.
LEMMA JoinMaps ==
    ASSUME TypeInv, NEW s \in Sockets, NEW g \in Rooms, rooms' \in {rooms, Join(s, g)}
    PROVE  \A x \in Sockets, u \in Users : u \in rooms[x] => u \in rooms'[x]
<1>1. CASE rooms' = rooms
  BY <1>1
<1>2. CASE rooms' = [rooms EXCEPT ![s] = @ \union {g}]
  BY <1>2 DEF TypeInv, TypeOK
<1> QED
  BY <1>1, <1>2 DEF Join

LEMMA MapsStep == TypeInv /\ MapsInv /\ Next => MapsInv'
<1> SUFFICES ASSUME TypeInv, MapsInv, Next PROVE MapsInv'
  OBVIOUS
<1>0. MapsTyped /\ RoomsTyped /\ LocalsTyped /\ OthersTyped
  BY TypeParts DEF TypeInv
<1> USE DEF MapsInv
<1>1. ASSUME NEW s \in Sockets, Disconnect(s) PROVE MapsInv'
  <2>1. NewIsBlank'
    BY <1>0, <1>1 DEF Disconnect, CleanUp, NewIsBlank, MapsTyped, OthersTyped
  <2>2. CASE IO
    <3>1. MapsAgree'
      BY <1>0, <1>1, <2>2 DEF Disconnect, MapsAgree, IO, MapsTyped, RoomsTyped
    <3>2. NoGhosts'
      BY <1>0, <1>1, <2>2 DEF Disconnect, NoGhosts, IO, MapsTyped, OthersTyped
    <3> QED
      BY <2>1, <3>1, <3>2
  <2>3. CASE ~IO
    <3>1. CleanUp({s})
      BY <1>1, <2>3 DEF Disconnect
    <3>2. MapsAgree'
      BY <1>0, <1>1, <2>3, <3>1 DEF Disconnect, CleanUp, MapsAgree, IO, MapsTyped
    <3>3. \A u \in Users : s \notin connections'[u]
      BY <1>0, <2>3, <3>1 DEF CleanUp, MapsAgree, MapsTyped
    <3>4. NoGhosts'
      BY <1>0, <1>1, <2>3, <3>1, <3>3 DEF Disconnect, CleanUp, NoGhosts, IO, MapsTyped, OthersTyped
    <3> QED
      BY <2>1, <3>2, <3>4
  <2> QED
    BY <2>2, <2>3
<1>2. ASSUME NEW s \in Sockets, NEW c \in Users \union {None}, Connect(s, c) PROVE MapsInv'
  <2>1. NewIsBlank'
    BY <1>0, <1>2 DEF Connect, NewIsBlank, OthersTyped
  <2>2. MapsAgree'
    BY <1>0, <1>2 DEF Connect, MapsAgree, NewIsBlank, IO, MapsTyped
  <2>3. NoGhosts'
    BY <1>0, <1>2 DEF Connect, NoGhosts, IO, MapsTyped, OthersTyped
  <2> QED
    BY <2>1, <2>2, <2>3
<1>3. ASSUME NEW t \in Tasks, AuthFound(t) PROVE MapsInv'
  <2> DEFINE s == task[t].socket
             u == task[t].user
             e == task[t].event
  <2>1. /\ s \in Sockets /\ u \in Users /\ status[s] # "new"
        /\ ~IO => e = "identify" \/ cookie[s] # None
    BY <1>3 DEF AuthFound, TypeInv, Awaited, AwaitedBy, AuthAwaited, Guarded
  <2>2. UNCHANGED <<driver, status, cookie>>
    BY <1>3 DEF AuthFound
  <2>3. IO => AddUserToRoom(s, u)
    BY <1>3 DEF AuthFound
  <2>4. ~IO => AddUserSocket(s, u, e)
    BY <1>3 DEF AuthFound
  <2> HIDE DEF s, u, e
  <2>5. NewIsBlank'
    BY <1>0, <2>1, <2>2, <2>3, <2>4 DEF AddUserToRoom, AddUserSocket, NewIsBlank, MapsTyped
  <2>6. CASE IO
    <3>1. /\ s \in tracked <=> status[s] = "open"
          /\ ever' = IF s \in tracked THEN [ever EXCEPT ![s] = @ \union {u}] ELSE ever
      BY <1>3, <2>1 DEF NoGhosts, AuthFound, s, u
    <3>2. MapsAgree'
      BY <1>0, <2>1, <2>2, <2>3, <2>6, <3>1
      DEF AddUserToRoom, Join, MapsAgree, IO, MapsTyped, RoomsTyped
    <3>3. NoGhosts'
      BY <1>0, <2>1, <2>2, <2>3, <2>6 DEF AddUserToRoom, NoGhosts, IO, MapsTyped
    <3> QED
      BY <2>5, <3>2, <3>3
  <2>7. CASE ~IO
    <3>1. MapsAgree'
      BY <1>0, <2>1, <2>2, <2>4, <2>7 DEF AddUserSocket, MapsAgree, IO, MapsTyped
    <3>2. NoGhosts'
      BY <1>0, <2>1, <2>2, <2>4, <2>7 DEF AddUserSocket, NoGhosts, IO, MapsTyped, OthersTyped
    <3> QED
      BY <2>5, <3>1, <3>2
  <2> QED
    BY <2>6, <2>7
<1>4. ASSUME NEW S, Send(S), ~IO, UNCHANGED <<driver, status, cookie, rooms, ever>> PROVE MapsInv'
  BY <1>4, CleanUpMaps DEF Send
<1>5. ASSUME NEW s \in Sockets, NEW g \in Rooms, rooms' \in {rooms, Join(s, g)},
             UNCHANGED <<driver, status, cookie, maps, ever>>
      PROVE  MapsInv'
  BY <1>5, JoinMaps, RoomsMaps
<1>6. ASSUME UNCHANGED <<driver, status, cookie, maps, rooms, ever>> PROVE MapsInv'
  BY <1>6, RoomsMaps
<1>7. ASSUME NEW t \in Tasks, AuthRefused(t) \/ LookUpFails(t) PROVE MapsInv'
  BY <1>4, <1>6, <1>7 DEF AuthRefused, LookUpFails
<1>8. ASSUME NEW t \in Tasks, TargetFound(t) PROVE MapsInv'
  BY <1>4, <1>6, <1>8 DEF TargetFound
<1>9. ASSUME NEW S \in Audiences, Emit(S) PROVE MapsInv'
  BY <1>4, <1>9 DEF Emit
<1>10. ASSUME NEW t \in Tasks, NEW s \in Sockets, NEW e \in Guarded, NEW g \in Rooms,
              NEW v \in Users \union {None}, Served(t, s, e, g, v)
       PROVE  MapsInv'
  <2>1. rooms' \in {rooms, Join(s, g)} /\ UNCHANGED <<driver, status, cookie, maps, ever>>
    BY <1>10 DEF Served, Handle, JoinPrivateRoom, JoinRoom, InviteUser
  <2> QED
    BY <1>5, <2>1
<1>11. ASSUME NEW t \in Tasks, NEW s \in Sockets, NEW u \in Users, NEW e, NEW g, NEW v,
              Waits(t, s, u, e, g, v)
       PROVE  MapsInv'
  BY <1>6, <1>11 DEF Waits, Others
<1>12. ASSUME NEW t \in Tasks, TargetMissing(t) PROVE MapsInv'
  BY <1>6, <1>12 DEF TargetMissing
<1>13. ASSUME NEW u \in Users, NEW g \in Groups, CreateGroupRoom(u, g) \/ JoinGroupRoom(u, g)
       PROVE  MapsInv'
  BY <1>6, <1>13 DEF CreateGroupRoom, JoinGroupRoom
<1>14. CASE Restart
  BY <1>0, <1>14 DEF Restart, NewIsBlank, MapsAgree, NoGhosts, IO, OthersTyped
<1> QED
  BY <1>1, <1>2, <1>3, <1>7, <1>8, <1>9, <1>10, <1>11, <1>12, <1>13, <1>14, NextSteps DEF Steps

LEMMA MapsHold == Spec => [](TypeInv /\ MapsInv)
<1>1. TypeInv /\ MapsInv /\ [Next]_vars => TypeInv' /\ MapsInv'
  <2> SUFFICES ASSUME TypeInv, MapsInv, [Next]_vars PROVE MapsInv'
    BY TypeStep
  <2>1. CASE UNCHANGED vars
    BY <2>1, RoomsMaps DEF vars
  <2> QED
    BY <2>1, MapsStep
<1> QED
  BY <1>1, TypeInit, MapsInit, PTL DEF Spec

\* In either driver the maps describe the same connections.
THEOREM MapsConsistent == Spec => []MapsAgree
<1>1. MapsInv => MapsAgree
  BY DEF MapsInv
<1> QED
  BY <1>1, MapsHold, PTL

\* Closed sockets are in the maps only after the lookup of an opening, and
\* only in uSocket.
THEOREM GhostsExplained == Spec => []NoGhosts
<1>1. MapsInv => NoGhosts
  BY DEF MapsInv
<1> QED
  BY <1>1, MapsHold, PTL

-----------------------------------------------------------------------------
(* Who is in a room.                                                       *)

\* In uSocket the list that tokens are issued from, the tokens issued and the
\* invitations on their way go back to the creators of the groups.
RightsEarned ==
    ~IO => /\ \A g \in Rooms : \A u \in authorized[g] : <<u, g>> \in entitled
           /\ held \subseteq entitled
           /\ \A t \in Tasks : pc[t] = "target" => <<task[t].user, task[t].room>> \in entitled

\* A socket that is open is only that of a user it was authenticated as.
EverInv == OpenIsEver /\ OnlyEntitled /\ RightsEarned

LEMMA EverInit == Init => EverInv
BY DEF Init, EverInv, OpenIsEver, OnlyEntitled, RightsEarned

\* Steps that issue nothing and send no invitation on its way.
LEMMA EarnedLasts ==
    ASSUME RightsEarned, UNCHANGED <<driver, authorized, rights>>,
           \A t \in Tasks : pc'[t] = "target" => Unmoved(t)
    PROVE  RightsEarned'
BY DEF RightsEarned, IO, rights, Unmoved

LEMMA DoneInvitesNobody ==
    ASSUME LocalsTyped, NEW t \in Tasks, Done(t)
    PROVE  \A k \in Tasks : pc'[k] = "target" => Unmoved(k)
BY DEF LocalsTyped, Done, Goto, Unmoved

LEMMA GoOnInvitesNobody ==
    ASSUME LocalsTyped, NEW t \in Tasks, GoOn(t)
    PROVE  \A k \in Tasks : pc'[k] = "target" => Unmoved(k)
<1>1. CASE Done(t)
  BY <1>1, DoneInvitesNobody
<1>2. CASE ~Done(t)
  BY <1>2 DEF GoOn, LocalsTyped, Goto, Unmoved
<1> QED
  BY <1>1, <1>2

LEMMA LookUpInvitesNobody ==
    ASSUME LocalsTyped, NEW t \in Tasks, NEW s, NEW u, NEW e, NEW g, NEW v,
           LookUp(t, s, u, e, g, v)
    PROVE  \A k \in Tasks : pc'[k] = "target" => Unmoved(k)
BY DEF LocalsTyped, LookUp, Goto, Unmoved

LEMMA EarnedStep == TypeInv /\ RightsEarned /\ Next => RightsEarned'
<1> SUFFICES ASSUME TypeInv, RightsEarned, Next PROVE RightsEarned'
  OBVIOUS
<1>0. RoomsTyped /\ LocalsTyped /\ OthersTyped
  BY TypeParts DEF TypeInv
<1>1. CASE Restart
  BY <1>1 DEF Restart, RightsEarned, IO, rights
<1>2. ASSUME UNCHANGED locals, UNCHANGED <<driver, authorized, rights>> PROVE RightsEarned'
  BY <1>2, EarnedLasts DEF locals, Unmoved
<1>3. ASSUME NEW s, Disconnect(s) PROVE RightsEarned'
  BY <1>2, <1>3 DEF Disconnect, groups
<1>4. ASSUME NEW s \in Sockets, NEW c \in Users \union {None}, Connect(s, c) PROVE RightsEarned'
  <2>1. CASE UNCHANGED locals
    BY <1>2, <1>4, <2>1 DEF Connect, groups
  <2>2. CASE ~UNCHANGED locals
    <3>1. PICK t \in Tasks : LookUp(t, s, c, "connect", None, None)
      BY <1>4, <2>2 DEF Connect
    <3> QED
      BY <1>0, <1>4, <3>1, LookUpInvitesNobody, EarnedLasts DEF Connect, groups
  <2> QED
    BY <2>1, <2>2
<1>5. ASSUME NEW t \in Tasks, NEW s, NEW u, NEW e, NEW g, NEW v, Waits(t, s, u, e, g, v)
      PROVE  RightsEarned'
  BY <1>0, <1>5, LookUpInvitesNobody, EarnedLasts DEF Waits, Others, groups
<1>6. ASSUME NEW t \in Tasks, NEW s \in Sockets, NEW e \in Guarded, NEW g \in Rooms,
             NEW v \in Users \union {None}, Served(t, s, e, g, v)
      PROVE  RightsEarned'
  <2>1. UNCHANGED <<driver, authorized, rights>>
    BY <1>6 DEF Served, Handle, JoinPrivateRoom, JoinRoom, InviteUser, groups
  <2>2. CASE Done(t)
    BY <1>0, <2>1, <2>2, DoneInvitesNobody, EarnedLasts
  <2>3. CASE ~Done(t)
    <3>1. InviteUser(t, s, g, v) /\ MayInvite(identity[s], g)
      BY <1>6, <2>3 DEF Served, Handle, JoinPrivateRoom, JoinRoom, InviteUser
    <3>2. ~IO => <<identity[s], g>> \in entitled
      BY <3>1 DEF MayInvite, RightsEarned
    <3>3. /\ task'[t] = Work(s, identity[s], "invite-user", g, v)
          /\ \A k \in Tasks \ {t} : Unmoved(k)
      BY <1>0, <2>3, <3>1 DEF InviteUser, Goto, LocalsTyped, Unmoved
    <3>4. task'[t].user = identity[s] /\ task'[t].room = g
      BY <3>3 DEF Work
    <3> QED
      BY <2>1, <3>2, <3>3, <3>4 DEF RightsEarned, IO, rights, Unmoved
  <2> QED
    BY <2>2, <2>3
<1>7. ASSUME NEW t \in Tasks, AuthFound(t) \/ AuthRefused(t) PROVE RightsEarned'
  <2>1. UNCHANGED <<driver, authorized, rights>> /\ (GoOn(t) \/ Done(t))
    BY <1>7 DEF AuthFound, AuthRefused, groups
  <2> QED
    BY <1>0, <2>1, GoOnInvitesNobody, DoneInvitesNobody, EarnedLasts
<1>8. ASSUME NEW t \in Tasks, LookUpFails(t) \/ TargetMissing(t) PROVE RightsEarned'
  <2>1. UNCHANGED <<driver, authorized, rights>> /\ Done(t)
    BY <1>8 DEF LookUpFails, TargetMissing, groups
  <2> QED
    BY <1>0, <2>1, DoneInvitesNobody, EarnedLasts
<1>9. ASSUME NEW t \in Tasks, TargetFound(t) PROVE RightsEarned'
  <2> DEFINE g == task[t].room
             v == task[t].target
  <2>1. SUFFICES ASSUME ~IO' PROVE
            /\ \A h \in Rooms : \A u \in authorized'[h] : <<u, h>> \in entitled'
            /\ held' \subseteq entitled'
            /\ \A k \in Tasks : pc'[k] = "target" => <<task'[k].user, task'[k].room>> \in entitled'
    BY DEF RightsEarned
  <2>2. g \in Rooms /\ v \in Users
    BY <1>9 DEF TargetFound, TypeInv, Awaited, AwaitedBy, TargetAwaited
  <2>3. /\ ~IO /\ UNCHANGED held
        /\ pc[t] = "target" /\ Done(t)
        /\ AuthorizeGroupMember(g, v)
        /\ entitled' = IF <<task[t].user, g>> \in entitled
                       THEN entitled \union {<<v, g>>} ELSE entitled
    BY <1>9, <2>1 DEF TargetFound, IO
  <2>4. entitled' = entitled \union {<<v, g>>}
    BY <2>3 DEF RightsEarned
  <2>5. \A k \in Tasks : pc'[k] = "target" => Unmoved(k)
    BY <1>0, <2>3, DoneInvitesNobody
  <2> HIDE DEF g, v
  <2>6. ASSUME NEW h \in Rooms, NEW u \in authorized'[h] PROVE <<u, h>> \in entitled'
    <3>1. u \in authorized[h] \/ (u = v /\ h = g)
      BY <1>0, <2>2, <2>3, <2>6 DEF AuthorizeGroupMember, RoomsTyped
    <3> QED
      BY <2>3, <2>4, <3>1 DEF RightsEarned
  <2> QED
    BY <2>3, <2>4, <2>5, <2>6 DEF RightsEarned, Unmoved
<1>10. ASSUME NEW S, Emit(S) PROVE RightsEarned'
  BY <1>2, <1>10 DEF Emit, groups
<1>11. ASSUME NEW u \in Users, NEW g \in Groups, CreateGroupRoom(u, g) PROVE RightsEarned'
  BY <1>0, <1>11 DEF CreateGroupRoom, RightsEarned, RoomsTyped, IO, locals, Groups
<1>12. ASSUME NEW u \in Users, NEW g \in Groups, JoinGroupRoom(u, g) PROVE RightsEarned'
  BY <1>0, <1>12 DEF JoinGroupRoom, RightsEarned, RoomsTyped, IO, groups, locals, Groups
<1> QED
  BY <1>1, <1>3, <1>4, <1>5, <1>6, <1>7, <1>8, <1>9, <1>10, <1>11, <1>12, NextSteps DEF Steps

\* What lets a socket be in a room is never taken away.
LetIn(s, g) == IF IO THEN ever[s] # {} ELSE \E u \in ever[s] : <<u, g>> \in held \intersect entitled

LEMMA EntitledLasts ==
    ASSUME TypeInv, OnlyEntitled, Next, ~Restart,
           \A s \in Sockets : \A g \in rooms'[s] :
                (g \in rooms[s] /\ ever[s] \subseteq ever'[s]) \/ LetIn(s, g)'
    PROVE  OnlyEntitled'
<1>1. held \subseteq held' /\ entitled \subseteq entitled' /\ IO' = IO
  BY Monotone DEF IO
<1>2. ASSUME NEW s \in Sockets, NEW g \in rooms'[s] PROVE LetIn(s, g)'
  <2>1. CASE g \in rooms[s] /\ ever[s] \subseteq ever'[s]
    <3>1. LetIn(s, g)
      BY <2>1 DEF OnlyEntitled, LetIn
    <3> QED
      BY <1>1, <2>1, <3>1 DEF LetIn
  <2> QED
    BY <2>1
<1> QED
  BY <1>2 DEF OnlyEntitled, LetIn

\* Steps that authenticate nobody and join no room.
LEMMA QuietSteps ==
    ASSUME TypeInv, EverInv, Next, ~Restart,
           UNCHANGED <<status, rooms, ever>>,
           \A s \in Sockets : identity'[s] \in {None, identity[s]}
    PROVE  OpenIsEver' /\ OnlyEntitled'
<1>1. OpenIsEver'
  BY DEF EverInv, OpenIsEver
<1>2. OnlyEntitled'
  BY EntitledLasts DEF EverInv
<1> QED
  BY <1>1, <1>2

LEMMA EverStep == TypeInv /\ NewIsBlank /\ EverInv /\ Next => EverInv'
<1> SUFFICES ASSUME TypeInv, NewIsBlank, EverInv, Next PROVE OpenIsEver' /\ OnlyEntitled'
  BY EarnedStep DEF EverInv
<1> DEFINE Fine == OpenIsEver /\ OnlyEntitled
<1>0. MapsTyped /\ RoomsTyped /\ LocalsTyped /\ OthersTyped
  BY TypeParts DEF TypeInv
<1>e. OpenIsEver /\ OnlyEntitled /\ RightsEarned
  BY DEF EverInv
<1>1. CASE Restart
  <2>1. OpenIsEver'
    BY <1>0, <1>1 DEF Restart, OpenIsEver, OthersTyped
  <2>2. OnlyEntitled'
    BY <1>1 DEF Restart, OnlyEntitled
  <2> QED
    BY <2>1, <2>2
<1>2. ASSUME ~Restart, NEW s \in Sockets, Disconnect(s) PROVE Fine'
  <2>1. \A x \in Sockets : identity'[x] \in {None, identity[x]}
    BY <1>0, <1>2 DEF Disconnect, CleanUp
  <2>2. \A x \in Sockets : x # s => /\ status'[x] = status[x] /\ rooms'[x] = rooms[x]
                                    /\ ever'[x] = ever[x]
    BY <1>0, <1>2 DEF Disconnect, OthersTyped, RoomsTyped
  <2>3. status'[s] = "closed" /\ rooms'[s] = {}
    BY <1>0, <1>2 DEF Disconnect, OthersTyped, RoomsTyped
  <2>4. OpenIsEver'
    BY <1>e, <2>1, <2>2, <2>3 DEF OpenIsEver
  <2>5. OnlyEntitled'
    BY <1>2, <1>e, <2>2, <2>3, EntitledLasts
  <2> QED
    BY <2>4, <2>5
<1>3. ASSUME ~Restart, NEW s \in Sockets, NEW c \in Users \union {None}, Connect(s, c)
      PROVE  Fine'
  <2>1. OpenIsEver'
    BY <1>0, <1>3, <1>e DEF Connect, OpenIsEver, NewIsBlank, OthersTyped
  <2>2. UNCHANGED <<rooms, ever>>
    BY <1>3 DEF Connect
  <2>3. OnlyEntitled'
    BY <1>3, <1>e, <2>2, EntitledLasts
  <2> QED
    BY <2>1, <2>3
<1>4. ASSUME ~Restart, NEW t \in Tasks, AuthFound(t) PROVE Fine'
  <2> DEFINE s == task[t].socket
             u == task[t].user
             e == task[t].event
  <2>1. s \in Sockets /\ u \in Users
    BY <1>4 DEF AuthFound, TypeInv, Awaited, AwaitedBy, AuthAwaited
  <2>2. /\ UNCHANGED status
        /\ ever' = IF status[s] = "open" THEN [ever EXCEPT ![s] = @ \union {u}] ELSE ever
        /\ IF IO THEN AddUserToRoom(s, u) ELSE AddUserSocket(s, u, e)
    BY <1>4 DEF AuthFound
  <2> HIDE DEF s, u, e
  <2>3. /\ \A x \in Sockets : x # s => identity'[x] = identity[x]
        /\ identity'[s] \in {None, u}
    BY <1>0, <2>1, <2>2 DEF AddUserToRoom, AddUserSocket, MapsTyped
  <2>4. /\ \A x \in Sockets : ever[x] \subseteq ever'[x]
        /\ status[s] = "open" => u \in ever'[s]
    BY <1>0, <2>1, <2>2 DEF RoomsTyped
  <2>5. OpenIsEver'
    BY <1>e, <2>1, <2>2, <2>3, <2>4 DEF OpenIsEver
  <2>6. \A x \in Sockets : \A g \in rooms'[x] : g \in rooms[x] \/ LetIn(x, g)'
    <3>1. CASE rooms' = rooms
      BY <3>1
    <3>2. CASE rooms' # rooms
      <4>1. IO /\ status[s] = "open" /\ rooms' = [rooms EXCEPT ![s] = @ \union {u}]
        BY <2>2, <3>2 DEF AddUserToRoom, AddUserSocket, Join
      <4>2. IO' /\ ever'[s] # {}
        BY <1>4, <2>4, <4>1 DEF AuthFound, IO
      <4> QED
        BY <1>0, <2>1, <4>1, <4>2 DEF RoomsTyped, LetIn
    <3> QED
      BY <3>1, <3>2
  <2>7. OnlyEntitled'
    BY <1>4, <1>e, <2>4, <2>6, EntitledLasts
  <2> QED
    BY <2>5, <2>7
<1>5. ASSUME ~Restart, NEW t \in Tasks, NEW s \in Sockets, NEW e \in Guarded, NEW g \in Rooms,
             NEW v \in Users \union {None}, Served(t, s, e, g, v)
      PROVE  Fine'
  <2>1. UNCHANGED <<status, identity, ever>>
    BY <1>5 DEF Served, Handle, JoinPrivateRoom, JoinRoom, InviteUser, maps
  <2>2. status[s] = "open" => identity[s] \in ever[s]
    <3>1. identity[s] # None
      BY <1>5 DEF Served
    <3> QED
      BY <1>e, <3>1 DEF OpenIsEver
  <2>3. \A x \in Sockets : \A h \in rooms'[x] : h \in rooms[x] \/ LetIn(x, h)'
    <3>1. CASE rooms' = rooms
      BY <3>1
    <3>2. CASE rooms' # rooms
      <4>1. rooms' = [rooms EXCEPT ![s] = @ \union {g}] /\ status[s] = "open"
        BY <1>5, <3>2 DEF Served, Handle, JoinPrivateRoom, JoinRoom, InviteUser, Join
      <4>2. UNCHANGED <<driver, rights, ever>>
        BY <1>5 DEF Served, Handle, JoinPrivateRoom, JoinRoom, InviteUser
      <4>3. ~IO => <<identity[s], g>> \in held
        BY <1>5, <3>2 DEF Served, Handle, JoinPrivateRoom, JoinRoom, InviteUser, VerifyToken
      <4>4. LetIn(s, g)'
        BY <1>e, <2>2, <4>1, <4>2, <4>3 DEF RightsEarned, LetIn, IO, rights
      <4> QED
        BY <1>0, <4>1, <4>4 DEF RoomsTyped
    <3> QED
      BY <3>1, <3>2
  <2>4. OpenIsEver'
    BY <1>e, <2>1 DEF OpenIsEver
  <2>5. OnlyEntitled'
    BY <1>5, <1>e, <2>1, <2>3, <2>2, EntitledLasts
  <2> QED
    BY <2>4, <2>5
<1>6. ASSUME ~Restart, NEW S, Send(S) \/ UNCHANGED maps, UNCHANGED <<status, rooms, ever>>
      PROVE  Fine'
  BY <1>6, QuietSteps DEF Send, CleanUp, maps
<1>7. ASSUME ~Restart, NEW t \in Tasks, AuthRefused(t) \/ LookUpFails(t) PROVE Fine'
  BY <1>6, <1>7 DEF AuthRefused, LookUpFails
<1>8. ASSUME ~Restart, NEW t \in Tasks, TargetFound(t) \/ TargetMissing(t) PROVE Fine'
  BY <1>6, <1>8 DEF TargetFound, TargetMissing
<1>9. ASSUME ~Restart, NEW S \in Audiences, Emit(S) PROVE Fine'
  BY <1>6, <1>9 DEF Emit
<1>10. ASSUME ~Restart, NEW u \in Users, NEW g \in Groups,
              CreateGroupRoom(u, g) \/ JoinGroupRoom(u, g)
       PROVE  Fine'
  BY <1>6, <1>10 DEF CreateGroupRoom, JoinGroupRoom
<1>11. ASSUME ~Restart, NEW t \in Tasks, NEW s \in Sockets, NEW u \in Users, NEW e, NEW g, NEW v,
              Waits(t, s, u, e, g, v)
       PROVE  Fine'
  BY <1>6, <1>11 DEF Waits, Others
<1>12. CASE ~Restart
  BY <1>2, <1>3, <1>4, <1>5, <1>7, <1>8, <1>9, <1>10, <1>11, <1>12, NextSteps DEF Steps
<1> QED
  BY <1>1, <1>12

\* Nobody is in a room but by right: in uSocket by the room's token, earned by
\* a chain of invitations from its creator; in Socket.io at least authenticated.
THEOREM RoomsEarned == Spec => []OnlyEntitled
<1>1. TypeInv /\ MapsInv /\ EverInv /\ [Next]_vars => EverInv'
  <2>1. TypeInv /\ MapsInv /\ EverInv /\ Next => EverInv'
    BY EverStep DEF MapsInv
  <2>2. EverInv /\ UNCHANGED vars => EverInv'
    BY DEF vars, maps, groups, rights, locals, EverInv, OpenIsEver, OnlyEntitled, RightsEarned, IO
  <2> QED
    BY <2>1, <2>2
<1>2. EverInv => OnlyEntitled
  BY DEF EverInv
<1> QED
  BY <1>1, <1>2, MapsHold, EverInit, PTL DEF Spec

-----------------------------------------------------------------------------
(* Invitations.                                                            *)

LEMMA InvitedStep == TypeInv /\ InvitedMayJoin /\ [Next]_vars => InvitedMayJoin'
<1> SUFFICES ASSUME TypeInv, InvitedMayJoin, [Next]_vars PROVE InvitedMayJoin'
  OBVIOUS
<1>0. RoomsTyped
  BY TypeParts DEF TypeInv
<1>1. CASE Restart
  BY <1>1 DEF Restart, InvitedMayJoin
<1>2. CASE UNCHANGED vars
  BY <1>2 DEF vars, groups, rights, InvitedMayJoin, IO
<1>3. ASSUME Next, ~Restart, UNCHANGED <<told, authorized>> PROVE InvitedMayJoin'
  <2>1. driver' = driver /\ \A g \in Rooms : members[g] \subseteq members'[g]
    BY <1>3, Monotone
  <2> QED
    BY <1>3, <2>1 DEF InvitedMayJoin, IO
<1>4. ASSUME Next, ~Restart, NEW t \in Tasks, TargetFound(t) PROVE InvitedMayJoin'
  <2> DEFINE g == task[t].room
             v == task[t].target
  <2>1. g \in Rooms /\ v \in Users /\ (~IO => authorized[g] # {})
    BY <1>4 DEF TargetFound, TypeInv, Awaited, AwaitedBy, TargetAwaited
  <2>2. /\ AuthorizeGroupMember(g, v)
        /\ members' = IF IO THEN [members EXCEPT ![g] = @ \union {v}] ELSE members
        /\ told' = told \union {<<v, g>>}
        /\ driver' = driver
    BY <1>4 DEF TargetFound
  <2> HIDE DEF g, v
  <2>3. ASSUME NEW u \in Users, NEW h \in Rooms, <<u, h>> \in told'
        PROVE  /\ IO => u \in members'[h]
               /\ ~IO \/ authorized'[h] # {} => u \in authorized'[h]
    <3>1. CASE u = v /\ h = g
      BY <1>0, <2>1, <2>2, <3>1 DEF AuthorizeGroupMember, RoomsTyped
    <3>2. CASE <<u, h>> \in told
      <4>1. /\ IO => u \in members[h]
            /\ ~IO \/ authorized[h] # {} => u \in authorized[h]
        BY <3>2 DEF InvitedMayJoin
      <4>2. members[h] \subseteq members'[h]
        BY <1>4, Monotone
      <4>3. authorized[h] \subseteq authorized'[h] /\ (authorized[h] = {} => authorized'[h] = {})
        BY <1>0, <2>1, <2>2 DEF AuthorizeGroupMember, RoomsTyped
      <4> QED
        BY <4>1, <4>2, <4>3
    <3> QED
      BY <2>2, <2>3, <3>1, <3>2
  <2> QED
    BY <2>2, <2>3 DEF InvitedMayJoin, IO
<1>5. ASSUME NEW w \in Users, NEW g \in Groups, CreateGroupRoom(w, g) PROVE InvitedMayJoin'
  <2>1. /\ authorized[g] = {} /\ members[g] = {}
        /\ authorized' = [authorized EXCEPT ![g] = {w}]
        /\ UNCHANGED <<driver, members, told>>
        /\ g \in Rooms
    BY <1>5 DEF CreateGroupRoom, Unheard, Groups
  <2>2. \A u \in Users : <<u, g>> \notin told
    BY <2>1 DEF InvitedMayJoin
  <2> QED
    BY <1>0, <2>1, <2>2 DEF InvitedMayJoin, IO, RoomsTyped
<1>6. ASSUME NEW t \in Tasks, AuthFound(t) \/ AuthRefused(t) \/ LookUpFails(t) \/ TargetMissing(t)
      PROVE  UNCHANGED <<told, authorized>>
  BY <1>6 DEF AuthFound, AuthRefused, LookUpFails, TargetMissing, groups, rights
<1>7. ASSUME NEW t \in Tasks, NEW s \in Sockets, NEW e, NEW g, NEW v, Served(t, s, e, g, v)
      PROVE  UNCHANGED <<told, authorized>>
  BY <1>7 DEF Served, Handle, JoinPrivateRoom, JoinRoom, InviteUser, groups, rights
<1>8. ASSUME NEW t, NEW s, NEW u, NEW e, NEW g, NEW v, Waits(t, s, u, e, g, v)
      PROVE  UNCHANGED <<told, authorized>>
  BY <1>8 DEF Waits, Others, groups, rights
<1>9. ASSUME NEW s, NEW c, Disconnect(s) \/ Connect(s, c) PROVE UNCHANGED <<told, authorized>>
  BY <1>9 DEF Disconnect, Connect, groups, rights
<1>10. ASSUME NEW u, NEW g, JoinGroupRoom(u, g) PROVE UNCHANGED <<told, authorized>>
  BY <1>10 DEF JoinGroupRoom, groups, rights
<1>11. ASSUME NEW S, Emit(S) PROVE UNCHANGED <<told, authorized>>
  BY <1>11 DEF Emit, groups, rights
<1>12. CASE Next /\ ~Restart
  BY <1>3, <1>4, <1>5, <1>6, <1>7, <1>8, <1>9, <1>10, <1>11, <1>12, NextSteps DEF Steps
<1> QED
  BY <1>1, <1>2, <1>12

\* Whoever was told of an invitation is on the list that is asked when they
\* join.
THEOREM InvitationsKept == Spec => []InvitedMayJoin
<1>1. Init => InvitedMayJoin
  BY DEF Init, InvitedMayJoin
<1> QED
  BY <1>1, TypeInit, TypeStep, InvitedStep, PTL DEF Spec
=============================================================================
