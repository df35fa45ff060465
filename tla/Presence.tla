------------------------------ MODULE Presence ------------------------------
(***************************************************************************)
(* What the server promises about who is where, with none of the pointers  *)
(* that implement it.  A connection is offline, in the lobby, or at a      *)
(* place; a place is open while one connection hosts it, and is empty      *)
(* otherwise.  Guests come from the lobby one at a time and stay until     *)
(* they hang up or the host closes the place, which sends all of them back *)
(* to the lobby at once.                                                   *)
(***************************************************************************)
CONSTANTS Conns, Rooms, Lobby, NULL

\* What the proofs need: NULL names nothing.
NullIsNoName == NULL \notin Conns \cup Rooms

VARIABLES
    online,   \* connections that exist
    place,    \* connection -> the room it is in, NULL for the lobby
    host      \* room -> the connection that hosts it, or NULL

vars == <<online, place, host>>

TypeOK ==
    /\ online \subseteq Conns
    /\ place \in [Conns -> Rooms \cup {NULL}]
    /\ host \in [Rooms -> Conns \cup {NULL}]

Init ==
    /\ online = {}
    /\ place = [c \in Conns |-> NULL]
    /\ host = [r \in Rooms |-> NULL]

Connect(c) ==
    /\ c \notin online
    /\ online' = online \cup {c}
    /\ UNCHANGED <<place, host>>

\* A guest joins a place that is open.
Join(c, r) ==
    /\ c \in online
    /\ place[c] = NULL
    /\ host[r] # NULL
    /\ place' = [place EXCEPT ![c] = r]
    /\ UNCHANGED <<online, host>>

\* A host opens a place that is closed.
Open(c, r) ==
    /\ c \in online
    /\ place[c] = NULL
    /\ r # Lobby
    /\ host[r] = NULL
    /\ place' = [place EXCEPT ![c] = r]
    /\ host' = [host EXCEPT ![r] = c]
    /\ UNCHANGED online

\* The host closes the place, staying online or hanging up.
Close(r) ==
    /\ host[r] # NULL
    /\ place' = [c \in Conns |-> IF place[c] = r THEN NULL ELSE place[c]]
    /\ host' = [host EXCEPT ![r] = NULL]
    /\ online' \in {online, online \ {host[r]}}

\* A connection that hosts nothing hangs up.
Leave(c) ==
    /\ c \in online
    /\ \A r \in Rooms : host[r] # c
    /\ online' = online \ {c}
    /\ place' = [place EXCEPT ![c] = NULL]
    /\ UNCHANGED host

\* The server is restarted: everyone is offline.
Restart ==
    /\ online' = {}
    /\ place' = [c \in Conns |-> NULL]
    /\ host' = [r \in Rooms |-> NULL]

Next ==
    \/ \E c \in Conns : Connect(c) \/ Leave(c)
    \/ \E c \in Conns, r \in Rooms : Join(c, r) \/ Open(c, r)
    \/ \E r \in Rooms : Close(r)
    \/ Restart

Spec == Init /\ [][Next]_vars

\* Nobody is left at a place without its host, and a host is at its place:
\* what the bot-disconnect handler and Socket::disconnect have to keep up
\* between them, whichever of host and guests goes first.
Hosted ==
    /\ \A c \in Conns : place[c] # NULL => c \in online /\ host[place[c]] # NULL
    /\ \A r \in Rooms : host[r] # NULL => host[r] \in online /\ place[host[r]] = r
=============================================================================
