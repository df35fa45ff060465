---------------------------- MODULE SessionsProof ----------------------------
(***************************************************************************)
(* Proofs about Sessions, for any number of sockets, rooms and players.    *)
(***************************************************************************)
EXTENDS Sessions, TLAPS

(***************************************************************************)
(* The messages whose handlers only read the links and answer.             *)
(***************************************************************************)
Quiet(s) ==
    \/ \E r \in Rooms : ChatToRoom(s, r)
    \/ \E p \in Players : ChatToPlayer(s, p)
    \/ Announce(s) \/ Alert(s) \/ BotSend(s)
    \/ GetDetails(s) \/ SetDetails(s) \/ SetAvatar(s)
    \/ Online(s) \/ Query(s) \/ Answer(s) \/ Quit(s)
    \/ CancelEvent(s) \/ StartEvent(s) \/ Register(s)

\* They leave every link as it is, and the thread on the same Socket or in an
\* undefined state.
LEMMA QuietStep ==
    ASSUME NEW s \in Sockets, Quiet(s)
    PROVE  /\ mode = "reading" /\ cur = s
           /\ UNCHANGED <<links, cur>>
           /\ mode' \in {"reading", "dropping", "undefined"}
<1> USE DEF Checked, Undefined, Drop, Continue, Reply, Handling
<1>1. CASE \E r \in Rooms : ChatToRoom(s, r)
  BY <1>1 DEF ChatToRoom
<1>2. CASE \E p \in Players : ChatToPlayer(s, p)
  BY <1>2 DEF ChatToPlayer
<1>3. CASE Announce(s)
  BY <1>3 DEF Announce
<1>4. CASE Alert(s)
  BY <1>4 DEF Alert
<1>5. CASE BotSend(s)
  BY <1>5 DEF BotSend
<1>6. CASE GetDetails(s) \/ SetDetails(s) \/ SetAvatar(s)
  BY <1>6 DEF GetDetails, SetDetails, SetAvatar
<1>7. CASE Online(s)
  BY <1>7 DEF Online
<1>8. CASE Query(s) \/ Answer(s) \/ Quit(s)
  BY <1>8 DEF Query, Answer, Quit
<1>9. CASE CancelEvent(s) \/ StartEvent(s) \/ Register(s)
  BY <1>9 DEF CancelEvent, StartEvent, Register, Query
<1>10. QED
  BY <1>1, <1>2, <1>3, <1>4, <1>5, <1>6, <1>7, <1>8, <1>9 DEF Quiet

(***************************************************************************)
(* The helpers on room pointers keep their type.                           *)
(***************************************************************************)
LEMMA PointerTypes ==
    ASSUME NEW f \in [Sockets -> Rooms \cup {NULL, Freed}], NEW r \in Rooms,
           mem \in [Rooms -> SUBSET Sockets]
    PROVE  /\ dangle(f, r) \in [Sockets -> Rooms \cup {NULL, Freed}]
           /\ disconnect_members(f, r) \in [Sockets -> Rooms \cup {NULL, Freed}]
           /\ remove_bot(f, r) \in [Sockets -> Rooms \cup {NULL, Freed}]
  BY DEF dangle, disconnect_members, remove_bot

\* Disconnecting a Socket keeps the types; it leaves no Login, no UserMap
\* entry and no object behind for that Socket, and touches no other Socket's.
LEMMA DisconnectTypes ==
    ASSUME TypeOK, UsersTracked, NEW s \in alive,
           DisconnectBot(s) \/ DisconnectPlayer(s)
    PROVE  /\ alive' = alive \ {s}
           /\ conned' = conned \ {s}
           /\ log' = [log EXCEPT ![s] = NULL]
           /\ users' = [users EXCEPT ![s] = NULL]
           /\ rm' \in [Sockets -> Rooms \cup {NULL, Freed}]
           /\ rooms' \subseteq Rooms
           /\ mem' \in [Rooms -> SUBSET Sockets]
           /\ bot' \in [Rooms -> Sockets \cup {NULL}]
           /\ watcher' \in Sockets \cup {NULL}
<1> USE DEF TypeOK
<1>1. users' = [users EXCEPT ![s] = NULL]
  BY Pointers DEF DisconnectBot, DisconnectPlayer, removed, UsersTracked
<1>2. CASE DisconnectBot(s)
  <2>1. rm[s] \in Rooms
    BY <1>2 DEF DisconnectBot, isBot, InRoom
  <2>2. disconnect_members(rm, rm[s]) \in [Sockets -> Rooms \cup {NULL, Freed}]
    BY <2>1, PointerTypes
  <2>3. rm' \in [Sockets -> Rooms \cup {NULL, Freed}]
    BY <1>2, <2>1, <2>2, PointerTypes DEF DisconnectBot, CloseRoom
  <2>4. QED
    BY <1>1, <1>2, <2>1, <2>3 DEF DisconnectBot, CloseRoom, Delete
<1>3. CASE DisconnectPlayer(s) /\ InRoom(s)
  <2>1. rm[s] \in Rooms /\ LeaveRoom(s, rm[s])
    BY <1>3 DEF DisconnectPlayer, InRoom
  <2>2. dangle(rm, rm[s]) \in [Sockets -> Rooms \cup {NULL, Freed}]
    BY <2>1, PointerTypes
  <2>3. QED
    BY <1>1, <1>3, <2>1, <2>2 DEF DisconnectPlayer, LeaveRoom, Delete
<1>4. CASE DisconnectPlayer(s) /\ ~InRoom(s)
  BY <1>1, <1>4 DEF DisconnectPlayer, Delete
<1>5. QED
  BY <1>2, <1>3, <1>4

\* The same for hosting a room.
LEMMA AddBotTypes ==
    ASSUME TypeOK, NEW s \in Sockets, NEW r \in Rooms, AddBot(s, r)
    PROVE  /\ rm' \in [Sockets -> Rooms \cup {NULL, Freed}]
           /\ rooms' \subseteq Rooms
           /\ bot' \in [Rooms -> Sockets \cup {NULL}]
  BY DEF TypeOK, AddBot, addRoom

(***************************************************************************)
(* Whatever the clients do: types, the UserMap, and idle connections.      *)
(***************************************************************************)

\* A successful login keeps the types and adds the entry with the Login.
LEMMA LoginTracks ==
    ASSUME TrackInv, NEW s \in Sockets, NEW p \in Players, NEW r \in Rooms,
           Login(s, p, r)
    PROVE  TrackInv'
<1> USE Pointers DEF TrackInv, TypeOK, Login, Handling, links
<1>1. CASE Undefined
  BY <1>1 DEF Undefined, Modes, UsersTracked, IdleConnected, CurAlive
<1>2. CASE ~Undefined
  <2>1. s = cur /\ s \in alive /\ cur' = cur
    BY <1>2 DEF CurAlive
  <2>2. mode' \in {"reading", "dropping"}
    BY <1>2 DEF Reply
  <2>3. log' = [log EXCEPT ![s] = p] /\ UserMapAdd(s, p)
    BY <1>2
  <2>4. mem' \in [Rooms -> SUBSET Sockets] /\ rm' \in [Sockets -> Rooms \cup {NULL, Freed}]
    BY <1>2 DEF MoveTo, Enter
  <2>5. TypeOK'
    BY <1>2, <2>1, <2>2, <2>3, <2>4 DEF Modes, UserMapAdd
  <2>6. UsersTracked'
    BY <1>2, <2>1, <2>3 DEF UsersTracked, UserMapAdd
  <2>7. IdleConnected' /\ CurAlive'
    BY <1>2, <2>1, <2>2 DEF IdleConnected, CurAlive
  <2>8. QED
    BY <2>5, <2>6, <2>7
<1>3. QED
  BY <1>1, <1>2

\* A disconnect, in process or in the destructor.
LEMMA DisconnectTracks ==
    ASSUME TrackInv, NEW s \in Sockets, Disconnect(s) \/ StopUser(s)
    PROVE  TrackInv'
<1> USE DEF TrackInv
<1>1. CASE Undefined
  BY <1>1 DEF Undefined, links, TypeOK, Modes, UsersTracked, IdleConnected, CurAlive
<1>2. CASE ~Undefined
  <2>1. s \in alive /\ (DisconnectBot(s) \/ DisconnectPlayer(s))
    BY <1>2 DEF Disconnect, StopUser
  <2>2. /\ alive' = alive \ {s} /\ conned' = conned \ {s}
        /\ log' = [log EXCEPT ![s] = NULL] /\ users' = [users EXCEPT ![s] = NULL]
    BY <2>1, DisconnectTypes
  <2>3. UsersTracked'
    BY <2>2 DEF UsersTracked, TypeOK
  <2>4. CASE Disconnect(s)
    <3>1. mode' = "waiting" /\ cur' = NULL /\ alive \ {s} \subseteq conned
      BY <1>2, <2>4 DEF Disconnect, CurAlive
    <3>2. TypeOK'
      BY <2>1, <2>2, <3>1, DisconnectTypes DEF TypeOK, Modes
    <3>3. IdleConnected' /\ CurAlive'
      BY <2>2, <3>1 DEF IdleConnected, CurAlive
    <3>4. QED
      BY <2>3, <3>2, <3>3
  <2>5. CASE StopUser(s)
    <3>1. mode' = "stopping" /\ cur' = cur
      BY <1>2, <2>5 DEF StopUser
    <3>2. TypeOK'
      BY <2>1, <2>2, <3>1, DisconnectTypes DEF TypeOK, Modes
    <3>3. IdleConnected' /\ CurAlive'
      BY <3>1 DEF IdleConnected, CurAlive
    <3>4. QED
      BY <2>3, <3>2, <3>3
  <2>6. QED
    BY <2>4, <2>5
<1>3. QED
  BY <1>1, <1>2

\* Every step of the specification keeps the part of the invariant that holds
\* whatever clients do: UserMap entries follow Logins, waiting Sockets are connected.
LEMMA TrackStep == TrackInv /\ [Next]_vars => TrackInv'
<1> SUFFICES ASSUME TrackInv, [Next]_vars
             PROVE  TrackInv'
  OBVIOUS
<1> USE Pointers, RoomNames DEF TrackInv, links
<1>1. ASSUME NEW s \in Sockets, Accept(s)
      PROVE  TrackInv'
  BY <1>1 DEF Accept, TypeOK, UsersTracked, IdleConnected, CurAlive
<1>2. ASSUME NEW s \in Sockets, Wakeup(s)
      PROVE  TrackInv'
  BY <1>2 DEF Wakeup, TypeOK, Modes, UsersTracked, IdleConnected, CurAlive
<1>3. ASSUME NEW s \in Sockets, Eof(s)
      PROVE  TrackInv'
  BY <1>3 DEF Eof, Handling, TypeOK, UsersTracked, IdleConnected, CurAlive
<1>4. ASSUME NEW s \in Sockets, Drained(s)
      PROVE  TrackInv'
  BY <1>4 DEF Drained, Drop, Handling, TypeOK, Modes, UsersTracked, IdleConnected, CurAlive
<1>5. ASSUME NEW s \in Sockets, Disconnect(s) \/ StopUser(s)
      PROVE  TrackInv'
  BY <1>5, DisconnectTracks
<1>6. ASSUME NEW s \in Sockets, Message(s)
      PROVE  TrackInv'
  <2>1. ASSUME NEW p \in Players, NEW r \in Rooms, Login(s, p, r)
        PROVE  TrackInv'
    BY <2>1, LoginTracks
  <2>2. ASSUME NEW r \in Rooms, BotLogin(s, r)
        PROVE  TrackInv'
    <3>1. CASE Undefined
      BY <3>1 DEF Undefined, TypeOK, Modes, UsersTracked, IdleConnected, CurAlive
    <3>2. CASE AddBot(s, r)
      BY <2>2, <3>2, AddBotTypes
         DEF BotLogin, Undefined, Handling, Reply, TypeOK, Modes, UsersTracked, IdleConnected, CurAlive
    <3>3. QED
      BY <2>2, <3>1, <3>2 DEF BotLogin
  <2>3. CASE RegisterWatcher(s)
    BY <2>3, AddBotTypes
       DEF RegisterWatcher, Handling, Reply, TypeOK, Modes, UsersTracked, IdleConnected, CurAlive
  <2>4. CASE BotDisconnect(s)
    <3>1. CASE UNCHANGED <<links, cur>>
      BY <2>4, <3>1 DEF BotDisconnect, Undefined, Drop, Continue, Handling, TypeOK, Modes,
                        UsersTracked, IdleConnected, CurAlive
    <3>2. CASE isBot(s) /\ CloseRoom(s) /\ Continue
               /\ UNCHANGED <<alive, conned, log, users, watcher, cur>>
      <4>1. rm[s] \in Rooms
        BY <3>2 DEF isBot, InRoom
      <4>2. disconnect_members(rm, rm[s]) \in [Sockets -> Rooms \cup {NULL, Freed}]
        BY <4>1, PointerTypes DEF TypeOK
      <4>3. rm' \in [Sockets -> Rooms \cup {NULL, Freed}]
        BY <3>2, <4>1, <4>2, PointerTypes DEF CloseRoom, TypeOK
      <4>4. QED
        BY <2>4, <3>2, <4>1, <4>3 DEF BotDisconnect, CloseRoom, Continue, Handling, TypeOK, Modes,
                                 UsersTracked, IdleConnected, CurAlive
    <3>3. QED
      BY <2>4, <3>1, <3>2 DEF BotDisconnect, Undefined
  <2>5. CASE Quiet(s)
    BY <2>5, QuietStep DEF TypeOK, Modes, UsersTracked, IdleConnected, CurAlive
  <2>6. QED
    BY <1>6, <2>1, <2>2, <2>3, <2>4, <2>5 DEF Message, Quiet
<1>7. CASE Tick
  BY <1>7 DEF Tick, vars, Undefined, TypeOK, Modes, UsersTracked, IdleConnected, CurAlive
<1>8. CASE Signal
  BY <1>8 DEF Signal, TypeOK, Modes, UsersTracked, IdleConnected, CurAlive
<1>9. CASE Exit \/ Abort \/ Respawn
  BY <1>9 DEF Exit, Abort, Respawn, Restarted, TypeOK, Modes, UsersTracked, IdleConnected, CurAlive
<1>10. CASE UNCHANGED vars
  BY <1>10 DEF vars, TypeOK, UsersTracked, IdleConnected, CurAlive
<1>11. QED
  BY <1>1, <1>2, <1>3, <1>4, <1>5, <1>6, <1>7, <1>8, <1>9, <1>10 DEF Next

\* That part of the invariant holds in every reachable state.
LEMMA TrackAlways == Spec => []TrackInv
<1>1. Init => TrackInv
  BY Pointers, RoomNames DEF Init, TrackInv, TypeOK, Modes, UsersTracked, IdleConnected, CurAlive
<1>2. QED
  BY <1>1, TrackStep, PTL DEF Spec

\* The state of the server has the shape the code gives it.
THEOREM TypeCorrect == Spec => []TypeOK
  BY TrackAlways, PTL DEF TrackInv

\* However clients log in, host, leave and drop, the UserMap lists exactly the
\* allocated Sockets that have a Login: nothing that walks it meets a deleted
\* Socket.
THEOREM UserMapTracks == Spec => []UsersTracked
  BY TrackAlways, PTL DEF TrackInv

\* Pool::flush has nothing to find: no Socket that hung up is left waiting.
THEOREM IdleAreConnected == Spec => []IdleConnected
  BY TrackAlways, PTL DEF TrackInv


(***************************************************************************)
(* With orderly clients: no step uses a deleted object.  The links agree   *)
(* (Linked), so every pointer a handler follows leads to an allocated one; *)
(* and the steps that delete one keep the links in agreement.              *)
(***************************************************************************)
LEMMA LinkedIsSafe ==
    ASSUME TrackInv, Linked
    PROVE  /\ \A s \in Sockets : rm[s] # Freed
           /\ \A r \in Rooms : BroadcastSafe(r) /\ AnnounceSafe(r)
           /\ AllUsersSafe
           /\ WatcherSafe
           /\ Lobby \in rooms
<1> USE Pointers, RoomNames DEF TrackInv, TypeOK, Linked
<1>1. ASSUME NEW s \in Sockets PROVE rm[s] # Freed
  <2>1. CASE s \in alive /\ rm[s] # NULL
    BY <2>1 DEF MembersLinked
  <2>2. CASE s \notin alive \/ rm[s] = NULL
    BY <2>2 DEF DeletedHoldNothing
  <2>3. QED
    BY <2>1, <2>2
<1>2. \A r \in Rooms : BroadcastSafe(r) /\ AnnounceSafe(r)
  BY DEF MembersLinked, BroadcastSafe, AnnounceSafe
<1>3. AllUsersSafe
  BY DEF UsersTracked, AllUsersSafe, sockets
<1>4. WatcherSafe
  BY <1>1 DEF WatcherIsBot, MembersLinked, WatcherSafe
<1>5. QED
  BY <1>1, <1>2, <1>3, <1>4 DEF RoomsHosted

\* A room closes without leaving a pointer to it: whoever points to it is a
\* member, sent to the lobby, or the bot, which is s.
LEMMA CloseRoomClean ==
    ASSUME TrackInv, Linked, NEW s \in Sockets, isBot(s), CloseRoom(s)
    PROVE  /\ rm[s] \in Rooms \ {Lobby} /\ bot[rm[s]] = s /\ s \in alive
           /\ rm' = [t \in Sockets |-> IF rm[t] = rm[s] THEN NULL ELSE rm[t]]
           /\ mem' = [mem EXCEPT ![rm[s]] = {}]
           /\ bot' = [bot EXCEPT ![rm[s]] = NULL]
           /\ rooms' = rooms \ {rm[s]}
<1> USE Pointers, RoomNames DEF TrackInv, TypeOK, Linked
<1>1. rm[s] \in Rooms \ {Lobby} /\ bot[rm[s]] = s /\ s \in alive
  BY DEF isBot, InRoom, MembersLinked, RoomsHosted
<1>2. \A t \in Sockets : rm[t] = rm[s] <=> t \in mem[rm[s]] \cup {s}
  BY <1>1 DEF MembersLinked, DeletedHoldNothing
<1>3. rm' = [t \in Sockets |-> IF rm[t] = rm[s] THEN NULL ELSE rm[t]]
  BY <1>1, <1>2 DEF CloseRoom, remove_bot, disconnect_members, dangle
<1>4. QED
  BY <1>1, <1>3 DEF CloseRoom

\* A player leaves its room without emptying it of its bot: the room stays.
LEMMA LeaveRoomClean ==
    ASSUME TrackInv, Linked, NEW s \in alive, ~isBot(s), InRoom(s), LeaveRoom(s, rm[s])
    PROVE  /\ s \in mem[rm[s]]
           /\ mem' = [mem EXCEPT ![rm[s]] = @ \ {s}]
           /\ rm' = [rm EXCEPT ![s] = NULL]
           /\ rooms' = rooms /\ bot' = bot
<1> USE Pointers DEF TrackInv, TypeOK, Linked
<1>1. rm[s] \in Rooms /\ s \in mem[rm[s]] /\ bot[rm[s]] # NULL
  BY DEF isBot, InRoom, MembersLinked, RoomsHosted
<1>2. isMember(rm[s], s) = {TRUE} /\ ~isEmpty(mem[rm[s]] \ {s}, rm[s])
  BY <1>1 DEF isMember, isEmpty
<1>3. QED
  BY <1>1, <1>2 DEF LeaveRoom

\* Closing a room keeps the links in agreement, whether or not the Socket of
\* the bot is deleted with it, if the watcher is unregistered when it is s.
LEMMA CloseRoomLinks ==
    ASSUME TrackInv, Linked, NEW s \in Sockets, isBot(s), CloseRoom(s),
           alive' \in {alive, alive \ {s}},
           watcher' = IF watcher = s THEN NULL ELSE watcher
    PROVE  Linked'
<1> USE Pointers, RoomNames DEF TrackInv, TypeOK
<1> DEFINE r == rm[s]
<1>1. /\ r \in Rooms \ {Lobby} /\ bot[r] = s /\ s \in alive
      /\ rm' = [t \in Sockets |-> IF rm[t] = r THEN NULL ELSE rm[t]]
      /\ mem' = [mem EXCEPT ![r] = {}] /\ bot' = [bot EXCEPT ![r] = NULL]
      /\ rooms' = rooms \ {r}
  BY CloseRoomClean
<1> HIDE DEF r
<1>2. \A q \in Rooms \ {r} : bot[q] # s /\ s \notin mem[q]
  BY <1>1 DEF Linked, MembersLinked, r
<1>3. MembersLinked'
  <2>1. ASSUME NEW q \in Rooms, NEW t \in mem'[q]
        PROVE  t \in alive' /\ rm'[t] = q /\ bot'[q] # t
    BY <1>1, <1>2, <2>1 DEF Linked, MembersLinked
  <2>2. ASSUME NEW q \in Rooms, bot'[q] # NULL
        PROVE  bot'[q] \in alive' /\ rm'[bot'[q]] = q
    BY <1>1, <1>2, <2>2 DEF Linked, MembersLinked
  <2>3. ASSUME NEW t \in alive', rm'[t] # NULL
        PROVE  rm'[t] \in rooms' /\ (t \in mem'[rm'[t]] \/ bot'[rm'[t]] = t)
    BY <1>1, <2>3 DEF Linked, MembersLinked
  <2>4. QED
    BY <2>1, <2>2, <2>3 DEF MembersLinked
<1>4. RoomsHosted'
  BY <1>1 DEF Linked, RoomsHosted
<1>5. WatcherIsBot'
  BY <1>1 DEF Linked, WatcherIsBot
<1>6. DeletedHoldNothing'
  BY <1>1 DEF Linked, DeletedHoldNothing, r
<1>7. QED
  BY <1>3, <1>4, <1>5, <1>6 DEF Linked


\* So does a player that is deleted.
LEMMA DisconnectLinks ==
    ASSUME TrackInv, Linked, NEW s \in alive, DisconnectBot(s) \/ DisconnectPlayer(s)
    PROVE  Linked'
<1> USE Pointers, RoomNames DEF TrackInv, TypeOK
<1>1. CASE DisconnectBot(s)
  BY <1>1, CloseRoomLinks DEF DisconnectBot, Delete
<1>2. CASE DisconnectPlayer(s) /\ InRoom(s)
  <2>1. /\ s \in mem[rm[s]] /\ rm[s] \in Rooms
        /\ mem' = [mem EXCEPT ![rm[s]] = @ \ {s}]
        /\ rm' = [rm EXCEPT ![s] = NULL]
        /\ rooms' = rooms /\ bot' = bot
        /\ alive' = alive \ {s} /\ watcher' = watcher
    BY <1>2, LeaveRoomClean DEF DisconnectPlayer, InRoom, Delete
  <2>2. MembersLinked'
    BY <2>1 DEF Linked, MembersLinked
  <2>3. RoomsHosted'
    BY <2>1 DEF Linked, RoomsHosted
  <2>4. WatcherIsBot' /\ DeletedHoldNothing'
    BY <2>1 DEF Linked, WatcherIsBot, DeletedHoldNothing
  <2>5. QED
    BY <2>2, <2>3, <2>4 DEF Linked
<1>3. CASE DisconnectPlayer(s) /\ ~InRoom(s)
  <2>1. rm[s] = NULL
    BY <1>3, LinkedIsSafe DEF InRoom
  <2>2. /\ UNCHANGED <<rm, mem, bot, rooms, watcher>>
        /\ alive' = alive \ {s}
    BY <1>3 DEF DisconnectPlayer, Delete
  <2>3. \A r \in Rooms : bot[r] # s /\ s \notin mem[r]
    BY <2>1 DEF Linked, MembersLinked
  <2>4. QED
    BY <2>1, <2>2, <2>3
       DEF Linked, MembersLinked, RoomsHosted, WatcherIsBot, DeletedHoldNothing
<1>4. QED
  BY <1>1, <1>2, <1>3

\* A bot that comes from the lobby takes a room that does not exist.
LEMMA AddBotLinks ==
    ASSUME TrackInv, Linked, NEW s \in alive, rm[s] = NULL,
           NEW r \in Rooms \ rooms, AddBot(s, r),
           UNCHANGED <<alive, mem>>,
           watcher' = IF r = Watchtower THEN s ELSE watcher
    PROVE  Linked'
<1> USE Pointers, RoomNames DEF TrackInv, TypeOK
<1>1. bot[r] = NULL /\ mem[r] = {} /\ r # Lobby
  BY DEF Linked, RoomsHosted
<1>2. \A q \in Rooms : bot[q] # s /\ s \notin mem[q]
  BY DEF Linked, MembersLinked
<1>3. MembersLinked'
  BY <1>1, <1>2 DEF AddBot, addRoom, Linked, MembersLinked
<1>4. RoomsHosted'
  BY <1>1 DEF AddBot, addRoom, Linked, RoomsHosted
<1>5. WatcherIsBot' /\ DeletedHoldNothing'
  BY <1>1 DEF AddBot, addRoom, Linked, WatcherIsBot, DeletedHoldNothing
<1>6. QED
  BY <1>3, <1>4, <1>5 DEF Linked

\* A player that comes from the lobby joins a room that exists.
LEMMA LoginLinks ==
    ASSUME Orderly, TrackInv, Linked, NEW s \in Sockets, NEW p \in Players, NEW r \in Rooms,
           Login(s, p, r)
    PROVE  Linked' /\ mode' # "undefined"
<1> USE Pointers, RoomNames DEF TrackInv, TypeOK
<1>1. rm[s] = NULL /\ s \in alive
  BY DEF Login, FromLobby, Handling, CurAlive
<1>2. r \in rooms => AnnounceSafe(r)
  BY LinkedIsSafe
<1>3. MoveTo(s, r) /\ UNCHANGED <<alive, rooms, bot, watcher>> /\ Reply(s)
  BY <1>2 DEF Login, MayMisname
<1>4. CASE r \in rooms \ {Lobby} /\ Enter(s, r) /\ ~UNCHANGED <<mem, rm>>
  <2>1. mem' = [mem EXCEPT ![r] = @ \cup {s}] /\ rm' = [rm EXCEPT ![s] = r]
    BY <1>4 DEF Enter
  <2>2. \A q \in Rooms : bot[q] # s /\ s \notin mem[q]
    BY <1>1 DEF Linked, MembersLinked
  <2>3. bot[r] # NULL
    BY <1>4 DEF Linked, RoomsHosted
  <2>4. MembersLinked'
    BY <1>1, <1>3, <1>4, <2>1, <2>2 DEF Linked, MembersLinked
  <2>5. RoomsHosted' /\ WatcherIsBot' /\ DeletedHoldNothing'
    BY <1>1, <1>3, <2>1, <2>3 DEF Linked, RoomsHosted, WatcherIsBot, DeletedHoldNothing
  <2>6. QED
    BY <1>3, <2>4, <2>5 DEF Linked, Reply
<1>5. CASE mem' = mem /\ rm' = rm
  BY <1>3, <1>5 DEF Reply, Linked, MembersLinked, RoomsHosted, WatcherIsBot, DeletedHoldNothing
<1>6. CASE mem' = mem /\ rm' = [rm EXCEPT ![s] = NULL]
  <2>1. rm' = rm
    BY <1>1, <1>6
  <2>2. QED
    BY <1>5, <1>6, <2>1
<1>7. QED
  BY <1>3, <1>4, <1>5, <1>6 DEF MoveTo


\* With the links in agreement none of the handlers that only read them
\* reads a deleted object; a bot without a Login asks for no profile, and
\* nobody asks who is online while several are.
LEMMA QuietIsSafe ==
    ASSUME Orderly, TrackInv, Linked, NEW s \in Sockets, Quiet(s)
    PROVE  mode' # "undefined"
<1> USE Pointers, RoomNames DEF Checked, Drop, Continue, Reply
<1>1. /\ rm[s] # Freed /\ AllUsersSafe
      /\ rm[s] \in Rooms \cup {NULL, Freed}
      /\ \A r \in Rooms : BroadcastSafe(r) /\ AnnounceSafe(r)
  BY LinkedIsSafe DEF TrackInv, TypeOK
<1>2. CASE \E r \in Rooms : ChatToRoom(s, r)
  BY <1>1, <1>2 DEF ChatToRoom
<1>3. CASE \E p \in Players : ChatToPlayer(s, p)
  BY <1>1, <1>3 DEF ChatToPlayer, getLogin, AllUsersSafe, sockets
<1>4. CASE Announce(s)
  BY <1>1, <1>4 DEF Announce, Announces, room, InRoom
<1>5. CASE Alert(s)
  BY <1>1, <1>5 DEF Alert
<1>6. CASE BotSend(s)
  BY <1>1, <1>6 DEF BotSend, room, AnnounceSafe
<1>7. CASE GetDetails(s) \/ SetDetails(s) \/ SetAvatar(s)
  BY <1>1, <1>7 DEF GetDetails, SetDetails, SetAvatar, MayReadLogin, MayOmitName, LoginCheck
<1>8. CASE Online(s)
  BY <1>1, <1>8 DEF Online, MayAskOnline
<1>9. CASE Query(s) \/ Answer(s) \/ Quit(s)
  BY <1>1, <1>9 DEF Query, Answer, Quit
<1>10. CASE CancelEvent(s) \/ StartEvent(s) \/ Register(s)
  BY <1>1, <1>10 DEF CancelEvent, StartEvent, Register, Query, MayMisname
<1>11. QED
  BY <1>2, <1>3, <1>4, <1>5, <1>6, <1>7, <1>8, <1>9, <1>10 DEF Quiet

\* What leaves the links alone leaves them in agreement.
LEMMA SameLinks == Linked /\ UNCHANGED <<alive, rm, rooms, mem, bot, watcher>> => Linked'
  BY DEF Linked, MembersLinked, RoomsHosted, WatcherIsBot, DeletedHoldNothing

\* With orderly clients every step keeps the two sides of each link in agreement
\* and faults nowhere, given what holds whatever clients do.
LEMMA LinkStep == Orderly /\ TrackInv /\ LinkInv /\ [Next]_vars => LinkInv'
<1> SUFFICES ASSUME Orderly, TrackInv, LinkInv, [Next]_vars
             PROVE  LinkInv'
  OBVIOUS
<1> USE Pointers, RoomNames DEF LinkInv, NoFault
<1>1. ASSUME NEW s \in Sockets, Accept(s)
      PROVE  LinkInv'
  <2>1. rm' = rm
    BY <1>1 DEF Accept, Linked, DeletedHoldNothing, TrackInv, TypeOK
  <2>2. QED
    BY <1>1, <2>1 DEF Accept, Linked, MembersLinked, RoomsHosted, WatcherIsBot, DeletedHoldNothing
<1>2. ASSUME NEW s \in Sockets, Wakeup(s) \/ Eof(s) \/ Drained(s)
      PROVE  LinkInv'
  BY <1>2, SameLinks DEF Wakeup, Eof, Drained, Drop, links
<1>3. ASSUME NEW s \in Sockets, Disconnect(s) \/ StopUser(s)
      PROVE  LinkInv'
  <2>1. s \in alive
    BY <1>3 DEF sockets, Disconnect, StopUser, TrackInv, UsersTracked, CurAlive
  <2>2. ~DisconnectFaults(s)
    BY <2>1, LinkedIsSafe DEF DisconnectFaults, isBot, InRoom
  <2>3. DisconnectBot(s) \/ DisconnectPlayer(s)
    BY <1>3, <2>2 DEF Disconnect, StopUser
  <2>4. mode' # "undefined"
    BY <1>3, <2>2 DEF Disconnect, StopUser
  <2>5. QED
    BY <2>1, <2>3, <2>4, DisconnectLinks
<1>4. ASSUME NEW s \in Sockets, Message(s)
      PROVE  LinkInv'
  <2>1. ASSUME NEW p \in Players, NEW r \in Rooms, Login(s, p, r)
        PROVE  LinkInv'
    BY <2>1, LoginLinks
  <2>2. ASSUME NEW r \in Rooms, BotLogin(s, r)
        PROVE  LinkInv'
    <3>1. s \in alive /\ rm[s] = NULL /\ r \notin rooms \cup {Lobby, Watchtower}
      BY <2>2 DEF BotLogin, MayHost, Handling, TrackInv, CurAlive
    <3>2. /\ AddBot(s, r) /\ Reply(s) /\ UNCHANGED <<alive, mem>>
          /\ watcher' = watcher /\ r # Watchtower /\ r \in Rooms \ rooms
      BY <2>2, <3>1 DEF BotLogin
    <3>3. Linked'
      BY <3>1, <3>2, AddBotLinks
    <3>4. QED
      BY <3>2, <3>3 DEF Reply
  <2>3. CASE RegisterWatcher(s)
    <3>1. s \in alive /\ rm[s] = NULL /\ Watchtower \in Rooms \ rooms
      BY <2>3 DEF RegisterWatcher, MayWatch, Handling, TrackInv, CurAlive
    <3>2. AddBot(s, Watchtower) /\ Reply(s) /\ UNCHANGED <<alive, mem>> /\ watcher' = s
      BY <2>3 DEF RegisterWatcher
    <3>3. QED
      BY <3>1, <3>2, AddBotLinks DEF Reply
  <2>4. CASE BotDisconnect(s)
    <3>1. rm[s] # Freed /\ (isBot(s) => BroadcastSafe(rm[s])) /\ s # watcher
      BY <2>4, LinkedIsSafe DEF BotDisconnect, MayClose, isBot, InRoom
    <3>2. CASE isBot(s)
      <4>1. CloseRoom(s) /\ Continue /\ UNCHANGED <<alive, watcher>>
        BY <2>4, <3>1, <3>2 DEF BotDisconnect
      <4>2. QED
        <5>1. watcher' = IF watcher = s THEN NULL ELSE watcher
          BY <3>1, <4>1
        <5>2. Linked'
          BY <3>2, <4>1, <5>1, CloseRoomLinks
        <5>3. QED
          BY <4>1, <5>2 DEF Continue
    <3>3. CASE ~isBot(s)
      BY <2>4, <3>1, <3>3, SameLinks DEF BotDisconnect, Drop, links
    <3>4. QED
      BY <3>2, <3>3
  <2>5. CASE Quiet(s)
    BY <2>5, QuietStep, QuietIsSafe, SameLinks DEF links
  <2>6. QED
    BY <1>4, <2>1, <2>2, <2>3, <2>4, <2>5 DEF Message, Quiet
<1>5. CASE Tick
  BY <1>5, LinkedIsSafe, SameLinks DEF Tick, vars
<1>6. CASE Signal
  BY <1>6, SameLinks DEF Signal, links
<1>7. CASE Exit \/ Abort \/ Respawn
  BY <1>7 DEF Exit, Abort, Respawn, Restarted, Linked, MembersLinked, RoomsHosted, WatcherIsBot, DeletedHoldNothing
<1>8. CASE UNCHANGED vars
  BY <1>8, SameLinks DEF vars
<1>9. QED
  BY <1>1, <1>2, <1>3, <1>4, <1>5, <1>6, <1>7, <1>8 DEF Next

\* With orderly clients both parts of the invariant hold in every reachable state.
LEMMA LinkAlways == Orderly => (Spec => [](TrackInv /\ LinkInv))
<1> SUFFICES ASSUME Orderly
             PROVE  Spec => [](TrackInv /\ LinkInv)
  OBVIOUS
<1>1. Init => LinkInv
  BY Pointers, RoomNames
     DEF Init, LinkInv, NoFault, Linked, MembersLinked, RoomsHosted, WatcherIsBot, DeletedHoldNothing
<1>2. TrackInv /\ LinkInv /\ [Next]_vars => LinkInv'
  BY LinkStep
<1>3. QED
  BY <1>1, <1>2, TrackAlways, PTL DEF Spec

\* With orderly clients, no interleaving of logins, logouts, hosted rooms, the
\* timer and the shutdown makes a handler use a deleted Socket or Room.
THEOREM NeverFaults == Orderly => (Spec => []NoFault)
  BY LinkAlways, PTL DEF LinkInv

\* The member lists, the bots and the room pointers agree with each other.
THEOREM MembersAreLinked == Orderly => (Spec => []MembersLinked)
<1>1. LinkInv => MembersLinked
  BY DEF LinkInv, Linked
<1>2. QED
  BY <1>1, LinkAlways, PTL

\* A room other than the lobby exists exactly while it has a bot.
THEOREM RoomsAreHosted == Orderly => (Spec => []RoomsHosted)
<1>1. LinkInv => RoomsHosted
  BY DEF LinkInv, Linked
<1>2. QED
  BY <1>1, LinkAlways, PTL

\* The watcher pointer is never stale.
THEOREM WatcherIsTheBot == Orderly => (Spec => []WatcherIsBot)
<1>1. LinkInv => WatcherIsBot
  BY DEF LinkInv, Linked
<1>2. QED
  BY <1>1, LinkAlways, PTL


(***************************************************************************)
(* Sessions implements Presence: each step is a step of Presence on the    *)
(* Socket objects, their room pointers and the bots, or leaves them alone. *)
(***************************************************************************)
LEMMA CloseIsClose ==
    ASSUME TrackInv, Linked, NEW s \in Sockets, isBot(s), CloseRoom(s),
           alive' \in {alive, alive \ {s}}
    PROVE  P!Next
<1>1. P!Close(rm[s])
  BY CloseRoomClean, Pointers DEF P!Close
<1>2. rm[s] \in Rooms
  BY DEF isBot, InRoom
<1>3. QED
  BY <1>1, <1>2 DEF P!Next

\* A Socket disconnected as a player is, to Presence, a connection that leaves.
LEMMA LeaveIsLeave ==
    ASSUME TrackInv, Linked, NEW s \in alive, DisconnectPlayer(s)
    PROVE  P!Next
<1> USE Pointers DEF TrackInv, TypeOK
<1>1. s \in Sockets /\ \A r \in Rooms : bot[r] # s
  BY DEF DisconnectPlayer, isBot, InRoom, Linked, MembersLinked
<1>2. alive' = alive \ {s}
  BY DEF DisconnectPlayer, Delete
<1>3. bot' = bot /\ rm' = [rm EXCEPT ![s] = NULL]
  <2>1. CASE InRoom(s)
    BY <2>1, LeaveRoomClean DEF DisconnectPlayer
  <2>2. CASE ~InRoom(s)
    <3>1. rm[s] = NULL
      BY <2>2, LinkedIsSafe DEF InRoom
    <3>2. QED
      BY <2>2, <3>1 DEF DisconnectPlayer
  <2>3. QED
    BY <2>1, <2>2
<1>4. P!Leave(s)
  BY <1>1, <1>2, <1>3 DEF P!Leave
<1>5. QED
  BY <1>1, <1>4 DEF P!Next

\* Room::add_bot on a room that does not exist yet is, to Presence, a room opened.
LEMMA OpenIsOpen ==
    ASSUME TrackInv, Linked, NEW s \in alive, rm[s] = NULL,
           NEW r \in Rooms \ rooms, AddBot(s, r), UNCHANGED alive
    PROVE  P!Next
<1>1. r # Lobby /\ bot[r] = NULL /\ s \in Sockets
  BY DEF Linked, RoomsHosted, TrackInv, TypeOK
<1>2. P!Open(s, r)
  BY <1>1 DEF AddBot, addRoom, P!Open
<1>3. QED
  BY <1>1, <1>2 DEF P!Next

\* A login that moves the Socket is, to Presence, a connection that joins a room.
LEMMA LoginIsJoin ==
    ASSUME Orderly, TrackInv, Linked, NEW s \in Sockets, NEW p \in Players, NEW r \in Rooms,
           Login(s, p, r)
    PROVE  P!Next \/ UNCHANGED P!vars
<1> USE Pointers DEF TrackInv, TypeOK
<1>1. rm[s] = NULL /\ s \in alive
  BY DEF Login, FromLobby, Handling, CurAlive
<1>2. MoveTo(s, r) /\ UNCHANGED <<alive, rooms, bot>>
  BY LinkedIsSafe DEF Login, MayMisname
<1>3. CASE rm' = rm
  BY <1>2, <1>3 DEF P!vars
<1>4. CASE r \in rooms \ {Lobby} /\ rm' = [rm EXCEPT ![s] = r]
  <2>1. bot[r] # NULL
    BY <1>4 DEF Linked, RoomsHosted
  <2>2. P!Join(s, r)
    BY <1>1, <1>2, <1>4, <2>1 DEF P!Join
  <2>3. QED
    BY <2>2 DEF P!Next
<1>5. QED
  BY <1>1, <1>2, <1>3, <1>4 DEF MoveTo, Enter

\* Every step of Sessions is a step of Presence or leaves its variables alone.
LEMMA PresenceStep ==
    Orderly /\ TrackInv /\ LinkInv /\ [Next]_vars => [P!Next]_P!vars
<1> SUFFICES ASSUME Orderly, TrackInv, LinkInv, [Next]_vars
             PROVE  P!Next \/ UNCHANGED P!vars
  OBVIOUS
<1> USE Pointers DEF LinkInv, NoFault
<1>0. LinkInv' /\ mode' # "undefined"
  BY LinkStep
<1>1. ASSUME NEW s \in Sockets, Accept(s)
      PROVE  P!Next
  <2>1. rm' = rm
    BY <1>1 DEF Accept, Linked, DeletedHoldNothing, TrackInv, TypeOK
  <2>2. P!Connect(s)
    BY <1>1, <2>1 DEF Accept, P!Connect
  <2>3. QED
    BY <2>2 DEF P!Next
<1>2. ASSUME NEW s \in Sockets, Disconnect(s) \/ StopUser(s)
      PROVE  P!Next
  <2>1. s \in alive /\ (DisconnectBot(s) \/ DisconnectPlayer(s))
    BY <1>0, <1>2 DEF Disconnect, StopUser, Undefined
  <2>2. CASE DisconnectBot(s)
    BY <2>1, <2>2, CloseIsClose DEF DisconnectBot, Delete
  <2>3. CASE DisconnectPlayer(s)
    BY <2>1, <2>3, LeaveIsLeave
  <2>4. QED
    BY <2>1, <2>2, <2>3
<1>3. ASSUME NEW s \in Sockets, Message(s)
      PROVE  P!Next \/ UNCHANGED P!vars
  <2>1. ASSUME NEW p \in Players, NEW r \in Rooms, Login(s, p, r)
        PROVE  P!Next \/ UNCHANGED P!vars
    BY <2>1, LoginIsJoin
  <2>2. ASSUME NEW r \in Rooms, BotLogin(s, r)
        PROVE  P!Next
    <3>1. s \in alive /\ rm[s] = NULL /\ r \in Rooms \ rooms
      BY <2>2 DEF BotLogin, MayHost, Handling, TrackInv, CurAlive
    <3>2. AddBot(s, r) /\ UNCHANGED alive
      BY <2>2, <1>0 DEF BotLogin, Undefined
    <3>3. QED
      BY <3>1, <3>2, OpenIsOpen
  <2>3. ASSUME RegisterWatcher(s)
        PROVE  P!Next
    <3>1. s \in alive /\ rm[s] = NULL /\ Watchtower \in Rooms \ rooms
      BY <2>3, RoomNames DEF RegisterWatcher, MayWatch, Handling, TrackInv, CurAlive
    <3>2. QED
      BY <2>3, <3>1, OpenIsOpen DEF RegisterWatcher
  <2>4. CASE BotDisconnect(s)
    <3>1. CASE isBot(s) /\ CloseRoom(s) /\ UNCHANGED alive
      BY <3>1, CloseIsClose
    <3>2. CASE UNCHANGED links
      BY <3>2 DEF links, P!vars
    <3>3. QED
      BY <2>4, <3>1, <3>2 DEF BotDisconnect, Undefined
  <2>5. CASE Quiet(s)
    BY <2>5, QuietStep DEF links, P!vars
  <2>6. QED
    BY <1>3, <2>1, <2>2, <2>3, <2>4, <2>5 DEF Message, Quiet
<1>4. CASE Exit \/ Abort \/ Respawn
  <2>1. P!Restart
    BY <1>4 DEF Exit, Abort, Respawn, Restarted, P!Restart
  <2>2. QED
    BY <2>1 DEF P!Next
<1>5. CASE Tick \/ Signal \/ UNCHANGED vars
  BY <1>5 DEF Tick, Undefined, Signal, links, vars, P!vars
<1>6. ASSUME NEW s \in Sockets, Wakeup(s) \/ Eof(s) \/ Drained(s)
      PROVE  UNCHANGED P!vars
  BY <1>6 DEF Wakeup, Eof, Drained, links, P!vars
<1>7. QED
  BY <1>1, <1>2, <1>3, <1>4, <1>5, <1>6 DEF Next

\* The whole pointer structure does what Presence promises: every behaviour of
\* the server with orderly clients is a behaviour of Presence.
THEOREM PresenceIsImplemented == Orderly => (Spec => ImplementsPresence)
<1> SUFFICES ASSUME Orderly
             PROVE  Spec => P!Spec
  BY DEF ImplementsPresence
<1>1. Init => P!Init
  BY DEF Init, P!Init
<1>2. TrackInv /\ LinkInv /\ [Next]_vars => [P!Next]_P!vars
  BY PresenceStep
<1>3. QED
  BY <1>1, <1>2, LinkAlways, PTL DEF Spec, P!Spec

(***************************************************************************)
(* What Presence guarantees, and so Sessions does.                         *)
(***************************************************************************)
PresenceInv == P!TypeOK /\ P!Hosted

\* Every step of Presence keeps its invariant.
LEMMA PresenceKeeps ==
  ASSUME P!NullIsNoName, PresenceInv, [P!Next]_P!vars
  PROVE  PresenceInv'
<1> USE DEF P!NullIsNoName, PresenceInv, P!TypeOK, P!Hosted
<1>1. ASSUME NEW c \in Sockets, P!Connect(c) \/ P!Leave(c)
      PROVE  PresenceInv'
  BY <1>1 DEF P!Connect, P!Leave
<1>2. ASSUME NEW c \in Sockets, NEW r \in Rooms, P!Join(c, r)
      PROVE  PresenceInv'
  BY <1>2 DEF P!Join
<1>3. ASSUME NEW c \in Sockets, NEW r \in Rooms, P!Open(c, r)
      PROVE  PresenceInv'
  BY <1>3 DEF P!Open
<1>4. ASSUME NEW r \in Rooms, P!Close(r)
      PROVE  PresenceInv'
  BY <1>4 DEF P!Close
<1>5. CASE P!Restart
  BY <1>5 DEF P!Restart
<1>6. CASE UNCHANGED P!vars
  BY <1>6 DEF P!vars
<1>7. QED
  BY <1>1, <1>2, <1>3, <1>4, <1>5, <1>6 DEF P!Next

\* What Presence promises whatever the connections and rooms are: nobody is at
\* a place whose host is gone.
THEOREM AlwaysHosted == P!NullIsNoName => (P!Spec => []P!Hosted)
<1> SUFFICES ASSUME P!NullIsNoName
             PROVE  P!Spec => []P!Hosted
  OBVIOUS
<1>1. P!Init => PresenceInv
  BY DEF P!NullIsNoName, P!Init, PresenceInv, P!TypeOK, P!Hosted
<1>2. PresenceInv => P!Hosted
  BY DEF PresenceInv
<1>3. PresenceInv /\ [P!Next]_P!vars => PresenceInv'
  BY PresenceKeeps
<1>4. QED
  BY <1>1, <1>2, <1>3, PTL DEF P!Spec

\* With orderly clients it holds of the Socket objects and their pointers: a
\* Socket that points to a room exists, and so does the bot of that room,
\* whichever of bot and members the server disconnects first.
THEOREM NobodyIsLeft == Orderly => (Spec => []P!Hosted)
<1> SUFFICES ASSUME Orderly
             PROVE  Spec => []P!Hosted
  OBVIOUS
<1>1. P!NullIsNoName
  BY Pointers DEF P!NullIsNoName
<1>2. Spec => P!Spec
  BY PresenceIsImplemented DEF ImplementsPresence
<1>3. P!Spec => []P!Hosted
  BY <1>1, AlwaysHosted
<1>4. QED
  BY <1>2, <1>3
=============================================================================
