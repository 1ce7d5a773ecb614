SPECIFICATION Spec
CONSTANTS
    Sockets = {s1, s2}
    Users = {u1, u2}
    Tasks = {t1, t2}
    Rooms = {g1, u1, u2}
    None = None
SYMMETRY Symmetric
INVARIANT PrivateRoomsSecured
