SPECIFICATION Spec
CONSTANTS
    Sockets = {s1, s2}
    Rooms = {lobby, watchtower, table}
    Players = {ann, bob}
    Lobby = lobby
    Watchtower = watchtower
    NULL = NULL
    Freed = Freed
    PastEnd <- AnyPastEnd
    Orderly = FALSE
SYMMETRY Symmetry
INVARIANTS TypeOK UsersTracked IdleConnected
