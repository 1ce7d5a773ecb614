----------------------------- MODULE MCSockets -----------------------------
(* Sockets for TLC. *)
EXTENDS Sockets, TLC

Symmetric == Permutations(Sockets) \union Permutations(Users) \union Permutations(Tasks)

\* Bound: one room is in use at a time besides the rooms that sockets are in
\* as a user's own.
OneRoom ==
    LET InUse == {g \in Rooms : members[g] # {}}
                 \union ({task[t].room : t \in Tasks} \ {None})
                 \union UNION {rooms[s] \ ever[s] : s \in Sockets}
    IN  \A g, h \in InUse : g = h

\* Bound: while all handlers are in flight they are of one socket, and no other
\* socket has connected yet.
OneSocketBusy ==
    (\A t \in Tasks : pc[t] # "idle") =>
        \E s \in Sockets : /\ \A t \in Tasks : task[t].socket = s
                           /\ \A k \in Sockets : status[k] # "new" => k = s
=============================================================================
