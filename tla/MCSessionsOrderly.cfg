SPECIFICATION Spec
CONSTANTS
    Sockets = {s1, s2, s3}
    Rooms = {lobby, watchtower, table, table2}
    Players = {ann, bob}
    Lobby = lobby
    Watchtower = watchtower
    NULL = NULL
    Freed = Freed
    PastEnd <- AnyPastEnd
    Orderly = TRUE
SYMMETRY Symmetry
INVARIANTS NoFault MembersLinked RoomsHosted
PROPERTIES ImplementsPresence
