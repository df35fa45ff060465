------------------------------ MODULE Sessions ------------------------------
(***************************************************************************)
(* The in-memory session state of the server: the Socket objects, the      *)
(* Login each one holds, the chat rooms with their members and their bot,  *)
(* the UserMap and the watcher, and every message handler that links or    *)
(* unlinks them.                                                           *)
(*                                                                         *)
(* All these links are raw pointers kept in several places at once: a      *)
(* Socket names its Room, the Room lists the Socket, the UserMap lists a   *)
(* Login that names the Socket, the Server names the watcher.  A Socket is *)
(* deleted in one place (Socket::finalize), a Room in one other            *)
(* (Server::removeRoom), and nothing but the discipline of the handlers    *)
(* keeps the remaining links from dangling.  A step that would read a      *)
(* deleted object, or a NULL Login, takes the process to mode "undefined". *)
(*                                                                         *)
(* The server has one thread, so a handler is one step.  A Socket is the   *)
(* address of its object: an address is reused once its object is deleted. *)
(* A message arrives here decoded, and any message may follow any other.   *)
(*                                                                         *)
(* The database answers every query.  A player can log in to the process   *)
(* it registered with; see Login for the others.                           *)
(***************************************************************************)
CONSTANTS
    Sockets,      \* addresses a Socket object may have
    Rooms,        \* room names, the two reserved ones included
    Players,      \* players that registered with this process
    Lobby,        \* the name "lobby"
    Watchtower,   \* the name "watchtower"
    NULL,         \* the null pointer
    Freed,        \* a pointer to a Room that was deleted
    PastEnd,      \* what Room::isMember may read past the end of its list
    Orderly       \* TRUE: clients keep to the conduct stated below

ASSUME RoomNames == {Lobby, Watchtower} \subseteq Rooms /\ Lobby # Watchtower

ASSUME Pointers == /\ NULL \notin Sockets \cup Rooms \cup Players
                   /\ Freed \notin Rooms \cup {NULL}

ASSUME PastEndOutcomes == FALSE \in PastEnd /\ PastEnd \subseteq BOOLEAN

ASSUME Conduct == Orderly \in BOOLEAN

VARIABLES
    alive,     \* Socket objects that are allocated
    conned,    \* those whose conned flag is set
    log,       \* Socket -> player of the Login it points to, or NULL
    rm,        \* Socket -> the Room it points to, NULL or Freed
    rooms,     \* names the rooms map (and instance->lobby) holds a Room for
    mem,       \* Room -> its member list
    bot,       \* Room -> its bot, or NULL
    users,     \* UserMap: Socket -> player of its entry, or NULL for none
    watcher,   \* the registered watcher, or NULL
    cur,       \* the Socket serve() is processing, or NULL
    mode       \* where the single thread is

links == <<alive, conned, log, rm, rooms, mem, bot, users, watcher>>
vars  == <<alive, conned, log, rm, rooms, mem, bot, users, watcher, cur, mode>>

Modes == {"waiting",     \* in Pool::wait, no Socket being processed
          "reading",     \* in Server::process(cur), between two messages
          "dropping",    \* process returned false: cur->disconnect() is next
          "stopping",    \* in Server::~Server
          "exited",      \* the process is gone
          "undefined"}   \* a deleted object was used: anything may follow

TypeOK ==
    /\ alive \subseteq Sockets
    /\ conned \subseteq alive
    /\ log \in [Sockets -> Players \cup {NULL}]
    /\ rm \in [Sockets -> Rooms \cup {NULL, Freed}]
    /\ rooms \subseteq Rooms
    /\ mem \in [Rooms -> SUBSET Sockets]
    /\ bot \in [Rooms -> Sockets \cup {NULL}]
    /\ users \in [Sockets -> Players \cup {NULL}]
    /\ watcher \in Sockets \cup {NULL}
    /\ cur \in Sockets \cup {NULL}
    /\ mode \in Modes

Init ==
    /\ alive = {}
    /\ conned = {}
    /\ log = [s \in Sockets |-> NULL]
    /\ rm = [s \in Sockets |-> NULL]
    /\ rooms = {Lobby}
    /\ mem = [r \in Rooms |-> {}]
    /\ bot = [r \in Rooms |-> NULL]
    /\ users = [s \in Sockets |-> NULL]
    /\ watcher = NULL
    /\ cur = NULL
    /\ mode = "waiting"

\* A new process has its own memory.
Restarted ==
    /\ alive' = {}
    /\ conned' = {}
    /\ log' = [s \in Sockets |-> NULL]
    /\ rm' = [s \in Sockets |-> NULL]
    /\ rooms' = {Lobby}
    /\ mem' = [r \in Rooms |-> {}]
    /\ bot' = [r \in Rooms |-> NULL]
    /\ users' = [s \in Sockets |-> NULL]
    /\ watcher' = NULL


-----------------------------------------------------------------------------
(* Pointers followed by the handlers.                                      *)

InRoom(s) == rm[s] \in Rooms

isBot(s) == InRoom(s) /\ bot[rm[s]] = s

\* c->room(): a socket that points to no room is in the lobby.
room(s) == IF rm[s] = NULL THEN Lobby ELSE rm[s]

\* LOGIN_CHECK: a bot passes without a Login.
LoginCheck(s) == isBot(s) \/ log[s] # NULL

\* std::find yields the end iterator for a socket that is not in the list,
\* and isMember dereferences it all the same.
isMember(r, s) == IF s \in mem[r] THEN {TRUE} ELSE PastEnd

\* Mutant: a room with a bot and no member counts as empty.
isEmpty_NoBot(members, r) == members = {}

isEmpty(members, r) == members = {} /\ bot[r] = NULL

\* Room::broadcast reads every member; Room::announce reads the bot as well.
BroadcastSafe(r) == mem[r] \subseteq alive
AnnounceSafe(r)  == BroadcastSafe(r) /\ bot[r] \in alive \cup {NULL}

\* UserMap: the Sockets of all entries, and those of the entries of a player.
sockets == {s \in Sockets : users[s] # NULL}
getLogin(p) == {s \in Sockets : users[s] = p}

\* Server::broadcast reads the Socket of every UserMap entry.
AllUsersSafe == sockets \subseteq alive

\* Writing to the watcher follows its room pointer.
WatcherSafe == watcher # NULL => watcher \in alive /\ rm[watcher] # Freed

Undefined == mode' = "undefined" /\ UNCHANGED <<links, cur>>

(* How a handler ends: return true, return false, or return c->send(m),    *)
(* which is true exactly while the conned flag is set, Socket::out never   *)
(* reporting an error.                                                     *)
Continue == mode' = "reading"
Drop     == mode' = "dropping"
Reply(s) == mode' = IF s \in conned THEN "reading" ELSE "dropping"

Handling(s) == mode = "reading" /\ cur = s

-----------------------------------------------------------------------------
(* Operations of Room, UserMap and Server on the links.                    *)

\* A pointer to a Room that removeRoom deletes is left as it is.
dangle(f, r) == [s \in Sockets |-> IF f[s] = r THEN Freed ELSE f[s]]

\* Mutant: the list is cleared, the members keep their pointer.
disconnect_members_Clear(f, r) == f

\* Room::disconnect_members puts every member back in the lobby.
disconnect_members(f, r) ==
    [s \in Sockets |-> IF s \in mem[r] THEN NULL ELSE f[s]]

\* remove_bot resets the pointer of the bot and removes the Room.
remove_bot(f, r) == dangle([f EXCEPT ![bot[r]] = NULL], r)

\* Mutant: the entry is removed only for a Socket that is in no room.
removed_InLobby(s) == IF rm[s] = NULL THEN [users EXCEPT ![s] = NULL] ELSE users

\* Socket::disconnect removes the UserMap entry of a Socket with a Login.
removed(s) == IF log[s] # NULL THEN [users EXCEPT ![s] = NULL] ELSE users

\* The disconnect handler of a player that is in a room speaks to the room.
Announces(s) == log[s] # NULL /\ room(s) # Lobby

\* The bot-disconnect handler closes the room s is the bot of.
CloseRoom(s) ==
    LET r == rm[s] IN
    /\ mem' = [mem EXCEPT ![r] = {}]
    /\ bot' = [bot EXCEPT ![r] = NULL]
    /\ rm' = remove_bot(disconnect_members(rm, r), r)
    /\ rooms' = rooms \ {r}

\* Mutant: the Socket is deleted without Room::remove.
LeaveRoom_Deleted(s, r) == UNCHANGED <<mem, bot, rooms>> /\ rm' = [rm EXCEPT ![s] = NULL]

\* Room::remove for a player that is in room r, followed by the delete.
LeaveRoom(s, r) ==
    \E found \in isMember(r, s) :
        LET left == IF found THEN mem[r] \ {s} ELSE mem[r]
            gone == found /\ isEmpty(left, r)
        IN  /\ mem' = [mem EXCEPT ![r] = left]
            /\ rm' = [(IF gone THEN dangle(rm, r) ELSE rm) EXCEPT ![s] = NULL]
            /\ rooms' = IF gone THEN rooms \ {r} ELSE rooms
            /\ bot' = bot

\* Mutant: the destructor leaves the descriptor in the set of connected ones.
Delete_KeepConned(s) ==
    /\ alive' = alive \ {s}
    /\ conned' = conned
    /\ log' = [log EXCEPT ![s] = NULL]

Delete(s) ==
    /\ alive' = alive \ {s}
    /\ conned' = conned \ {s}
    /\ log' = [log EXCEPT ![s] = NULL]

\* Socket::disconnect as a bot: bot-disconnect, then the watcher pointer.
DisconnectBot(s) ==
    /\ isBot(s)
    /\ BroadcastSafe(rm[s])
    /\ CloseRoom(s)
    /\ watcher' = IF watcher = s THEN NULL ELSE watcher
    /\ users' = removed(s)
    /\ Delete(s)

\* Socket::disconnect as a player: the disconnect handler announces, then
\* finalize takes the Socket out of its room.
DisconnectPlayer(s) ==
    /\ ~isBot(s)
    /\ rm[s] # Freed
    /\ Announces(s) => AnnounceSafe(rm[s])
    /\ IF InRoom(s) THEN LeaveRoom(s, rm[s])
                    ELSE UNCHANGED <<rm, mem, bot, rooms>>
    /\ users' = removed(s)
    /\ Delete(s)
    /\ UNCHANGED watcher

\* The disconnect reads a deleted object.
DisconnectFaults(s) ==
    \/ s \notin alive
    \/ rm[s] = Freed
    \/ isBot(s) /\ ~BroadcastSafe(rm[s])
    \/ ~isBot(s) /\ InRoom(s) /\ Announces(s) /\ ~AnnounceSafe(rm[s])

-----------------------------------------------------------------------------
(* The event loop around one Socket.                                       *)

\* Socket::open accepts a connection: the constructor sets every field.
Accept(s) ==
    /\ mode = "waiting"
    /\ s \notin alive
    /\ alive' = alive \cup {s}
    /\ conned' = conned \cup {s}
    /\ log' = [log EXCEPT ![s] = NULL]
    /\ rm' = [rm EXCEPT ![s] = NULL]
    /\ UNCHANGED <<rooms, mem, bot, users, watcher, cur, mode>>

\* Pool::wait reports s, and Server::process starts on it.
Wakeup(s) ==
    /\ mode = "waiting"
    /\ s \in alive
    /\ cur' = s
    /\ mode' = "reading"
    /\ UNCHANGED links

\* Socket::in meets the end of the stream, before the messages it has
\* already buffered are handled.
Eof(s) ==
    /\ Handling(s)
    /\ s \in conned
    /\ conned' = conned \ {s}
    /\ UNCHANGED <<alive, log, rm, rooms, mem, bot, users, watcher, cur, mode>>

\* Mutant: process returns true whatever connected() says.
Drained_True(s) ==
    /\ Handling(s)
    /\ mode' = "waiting"
    /\ cur' = NULL
    /\ UNCHANGED links

\* Nothing left to read: process returns connected().
Drained(s) ==
    /\ Handling(s)
    /\ IF s \in conned THEN mode' = "waiting" /\ cur' = NULL
                       ELSE Drop /\ UNCHANGED cur
    /\ UNCHANGED links

\* process returned false: the Socket is disconnected and deleted.
Disconnect(s) ==
    /\ mode = "dropping"
    /\ cur = s
    /\ \/ DisconnectFaults(s) /\ Undefined
       \/ /\ s \in alive
          /\ DisconnectBot(s) \/ DisconnectPlayer(s)
          /\ cur' = NULL
          /\ mode' = "waiting"

-----------------------------------------------------------------------------
(* What orderly clients do.  A player enters a room from the lobby and     *)
(* leaves it by hanging up; a bot hosts one room, nobody else's and not a  *)
(* reserved one; the watcher is a bot of the watchtower, and leaves it by  *)
(* hanging up; a bot that has no Login sends no message about its player;  *)
(* nobody asks who is online while two players are; a player gives a first *)
(* and a last name when it registers and when it changes them; players,    *)
(* names and events in a message are ones the process can load or store    *)
(* (MayMisname is for the others).                                         *)
FromLobby(s) == Orderly => rm[s] = NULL
MayHost(s, r) == Orderly => rm[s] = NULL /\ r \notin rooms \cup {Lobby, Watchtower}
MayWatch(s) == Orderly => rm[s] = NULL /\ Watchtower \notin rooms
MayClose(s) == Orderly => s # watcher

SeveralUsers == \E s, t \in sockets : s # t

MayAskOnline == Orderly => ~SeveralUsers

MayOmitName == ~Orderly

MayMisname == ~Orderly

-----------------------------------------------------------------------------
(* The message handlers, for a message on Socket s.                        *)

\* Room::add
Enter(s, r) ==
    \E found \in isMember(r, s) :
        IF found THEN UNCHANGED <<mem, rm>>
        ELSE /\ mem' = [mem EXCEPT ![r] = @ \cup {s}]
             /\ rm' = [rm EXCEPT ![s] = r]

\* Mutant: a room that is asked for and does not exist is entered anyway.
MoveTo_Any(s, r) ==
    IF r = Lobby THEN rm' = [rm EXCEPT ![s] = NULL] /\ UNCHANGED mem ELSE Enter(s, r)

\* The lobby has no member list: the pointer is reset, and that is all.  If
\* room r does not exist the player stays where it was (status 3).
MoveTo(s, r) ==
    \/ r = Lobby /\ rm' = [rm EXCEPT ![s] = NULL] /\ UNCHANGED mem
    \/ r \in rooms \ {Lobby} /\ Enter(s, r)
    \/ r \notin rooms \cup {Lobby} /\ UNCHANGED <<mem, rm>>

\* UserMap::add refuses a Socket that has an entry.
UserMapAdd(s, p) ==
    users' = IF users[s] = NULL THEN [users EXCEPT ![s] = p] ELSE users

\* login with a good password, as player p, for room r.  Of a player that
\* registered with an earlier process Cache::find makes no object: it yields
\* NULL, and keeps a pointer to a Player that is deleted.
Login(s, p, r) ==
    /\ Handling(s)
    /\ FromLobby(s)
    /\ \/ MayMisname /\ Undefined
       \/ r \in rooms \ {Lobby} /\ ~AnnounceSafe(r) /\ Undefined
       \/ /\ r \in rooms \ {Lobby} => AnnounceSafe(r)
          /\ log' = [log EXCEPT ![s] = p]
          /\ UserMapAdd(s, p)
          /\ MoveTo(s, r)
          /\ Reply(s)
          /\ UNCHANGED <<alive, conned, rooms, bot, watcher, cur>>

\* A Room is created if there is none of that name.
addRoom(r) == rooms \cup {r}

\* Room::add_bot, on the Room addRoom returns.
AddBot(s, r) ==
    /\ rooms' = addRoom(r)
    /\ bot' = [bot EXCEPT ![r] = s]
    /\ rm' = [rm EXCEPT ![s] = r]

\* bot-login.  instance->lobby still points to a lobby that was removed.
BotLogin(s, r) ==
    /\ Handling(s)
    /\ MayHost(s, r)
    /\ \/ r = Lobby /\ Lobby \notin rooms /\ Undefined
       \/ /\ r = Lobby => Lobby \in rooms
          /\ AddBot(s, r)
          /\ Reply(s)
          /\ UNCHANGED <<alive, conned, log, mem, users, watcher, cur>>

\* register-watcher
RegisterWatcher(s) ==
    /\ Handling(s)
    /\ MayWatch(s)
    /\ AddBot(s, Watchtower)
    /\ watcher' = s
    /\ Reply(s)
    /\ UNCHANGED <<alive, conned, log, mem, users, cur>>

\* bot-disconnect as a message: the bot stays connected, in the lobby.
BotDisconnect(s) ==
    /\ Handling(s)
    /\ MayClose(s)
    /\ \/ rm[s] = Freed /\ Undefined
       \/ isBot(s) /\ ~BroadcastSafe(rm[s]) /\ Undefined
       \/ rm[s] # Freed /\ ~isBot(s) /\ Drop /\ UNCHANGED <<links, cur>>
       \/ /\ isBot(s) /\ BroadcastSafe(rm[s])
          /\ CloseRoom(s)
          /\ Continue
          /\ UNCHANGED <<alive, conned, log, users, watcher, cur>>

\* disconnect as a message only announces.
Announce(s) ==
    /\ Handling(s)
    /\ \/ Announces(s) /\ rm[s] = Freed /\ Undefined
       \/ Announces(s) /\ InRoom(s) /\ ~AnnounceSafe(rm[s]) /\ Undefined
       \/ /\ Announces(s) => InRoom(s) /\ AnnounceSafe(rm[s])
          /\ Continue
          /\ UNCHANGED <<links, cur>>

\* A handler that begins with LOGIN_CHECK: the check follows the room
\* pointer, then the handler uses objects that may be gone, or does its work.
Checked(s, usable, end) ==
    /\ Handling(s)
    /\ \/ rm[s] = Freed /\ Undefined
       \/ rm[s] # Freed /\ LoginCheck(s) /\ ~usable /\ Undefined
       \/ rm[s] # Freed /\ LoginCheck(s) /\ usable /\ end /\ UNCHANGED <<links, cur>>
       \/ rm[s] # Freed /\ ~LoginCheck(s) /\ Drop /\ UNCHANGED <<links, cur>>

\* chat to a room, or to a player who need not be online.
ChatToRoom(s, r) ==
    IF r = Lobby THEN Checked(s, TRUE, Drop)
                 ELSE Checked(s, BroadcastSafe(r), Reply(s))

ChatToPlayer(s, p) ==
    Checked(s, getLogin(p) \subseteq alive, Reply(s))

\* alert goes to every user, without a reply.
Alert(s) == Checked(s, AllUsersSafe, Continue)

\* bot-send goes to the bot of the room s is in, without a reply.
BotSend(s) ==
    IF room(s) \in {Lobby, Freed}
    THEN Checked(s, TRUE, Drop)
    ELSE Checked(s, bot[rm[s]] \in alive \cup {NULL}, Continue)

\* getdetails and setavatar read the Login of a bot too, which passes
\* LOGIN_CHECK without one.  A player may have no details.
MayReadLogin(s) == Orderly => (isBot(s) => log[s] # NULL)

\* getdetails splits the name, which is what register or setdetails made of
\* two fields, and reads a second part also when there is none.
GetDetails(s) ==
    /\ MayReadLogin(s)
    /\ \/ Checked(s, log[s] # NULL, Reply(s) \/ Drop)
       \/ MayOmitName /\ Checked(s, FALSE, Reply(s))

SetAvatar(s) == MayReadLogin(s) /\ Checked(s, log[s] # NULL, Reply(s))

\* setdetails checks the Login once more.
SetDetails(s) == Checked(s, TRUE, Drop \/ (log[s] # NULL /\ Reply(s)))

\* online: UserMap::users adds the id of the second and of every further
\* player to the address of a string literal, and reads from there.
Online(s) ==
    /\ MayAskOnline
    /\ \/ Checked(s, TRUE, Reply(s))
       \/ SeveralUsers /\ Checked(s, FALSE, Reply(s))

\* who, getavatar, pending, new-event: LOGIN_CHECK, then a reply that reads
\* nothing else that could be gone.
Query(s) == Checked(s, TRUE, Reply(s))

\* cancel-event: Object::load reads the result of its query also when no
\* event has the id, and there is none.
CancelEvent(s) == Query(s) \/ (MayMisname /\ Checked(s, FALSE, Reply(s)))

\* start-event as a message, with the same lookup: for a bot only.
StartEvent(s) ==
    /\ Handling(s)
    /\ \/ rm[s] = Freed /\ Undefined
       \/ rm[s] # Freed /\ ~isBot(s) /\ Drop /\ UNCHANGED <<links, cur>>
       \/ isBot(s) /\ Reply(s) /\ UNCHANGED <<links, cur>>
       \/ isBot(s) /\ MayMisname /\ Undefined

\* register: the result of a query that failed is read all the same.
Register(s) ==
    /\ Handling(s)
    /\ \/ Reply(s) /\ UNCHANGED <<links, cur>>
       \/ MayMisname /\ Undefined

\* ping, time, a refused login, a message with a field missing: a reply and no
\* check.  pong: neither.
Answer(s) == Handling(s) /\ (Reply(s) \/ Continue) /\ UNCHANGED <<links, cur>>

\* quit, or a message no module is registered for.
Quit(s) == Handling(s) /\ Drop /\ UNCHANGED <<links, cur>>

-----------------------------------------------------------------------------
(* The timer, the end of the process and its successor.                    *)

\* The pong: flush finds no Socket whose conned flag is down (IdleConnected),
\* pong goes to every user, and an event that is due, if any, goes to the
\* watcher, whose isBot() follows its room pointer.
Tick ==
    /\ mode = "waiting"
    /\ \/ ~AllUsersSafe /\ Undefined
       \/ ~WatcherSafe /\ Undefined
       \/ AllUsersSafe /\ UNCHANGED vars

\* quithandler: a termination signal between two handlers.
Signal ==
    /\ mode \in {"waiting", "reading", "dropping"}
    /\ mode' = "stopping"
    /\ cur' = NULL
    /\ UNCHANGED links

\* Server::~Server disconnects the users one by one,
StopUser(s) ==
    /\ mode = "stopping"
    /\ s \in sockets
    /\ \/ DisconnectFaults(s) /\ Undefined
       \/ /\ s \in alive
          /\ DisconnectBot(s) \/ DisconnectPlayer(s)
          /\ UNCHANGED <<cur, mode>>

\* deletes the rooms, and the process exits; its connections go with it.
Exit ==
    /\ mode = "stopping"
    /\ \A s \in Sockets : users[s] = NULL
    /\ Restarted
    /\ mode' = "exited"
    /\ UNCHANGED cur

\* DBPool::grab without a free handle, in a handler or in the timer's work,
\* ends the process where it stands.
Abort ==
    /\ mode \in {"waiting", "reading"}
    /\ Restarted
    /\ mode' = "exited"
    /\ UNCHANGED cur

\* The supervisor forks a new server, after an exit or a crash.
Respawn ==
    /\ mode \in {"exited", "undefined"}
    /\ Restarted
    /\ cur' = NULL
    /\ mode' = "waiting"

Message(s) ==
    \/ \E p \in Players, r \in Rooms : Login(s, p, r)
    \/ \E r \in Rooms : BotLogin(s, r) \/ ChatToRoom(s, r)
    \/ \E p \in Players : ChatToPlayer(s, p)
    \/ RegisterWatcher(s)
    \/ BotDisconnect(s)
    \/ Announce(s)
    \/ Alert(s)
    \/ BotSend(s)
    \/ GetDetails(s) \/ SetDetails(s)
    \/ SetAvatar(s)
    \/ Online(s)
    \/ Query(s)
    \/ CancelEvent(s) \/ StartEvent(s)
    \/ Register(s)
    \/ Answer(s)
    \/ Quit(s)

Next ==
    \/ \E s \in Sockets :
          \/ Accept(s)
          \/ Wakeup(s)
          \/ Eof(s)
          \/ Message(s)
          \/ Drained(s)
          \/ Disconnect(s)
          \/ StopUser(s)
    \/ Tick
    \/ Signal
    \/ Exit
    \/ Abort
    \/ Respawn

Spec == Init /\ [][Next]_vars

-----------------------------------------------------------------------------
(* Properties.                                                             *)

\* Whatever the clients do, the UserMap has an entry for a Socket exactly
\* while that Socket is allocated and points to a Login: UserMap::remove in
\* Socket::disconnect leaves no entry behind for a deleted Socket, so that
\* Server::broadcast and the destructor only reach allocated ones.
UsersTracked ==
    \A s \in Sockets : users[s] # NULL <=> s \in alive /\ log[s] # NULL

\* Whatever the clients do, every Socket the server waits on is connected:
\* one whose peer is gone, or whose reply was lost, never gets back to
\* Pool::wait, so Pool::flush at the pong has nothing to find.
IdleConnected == mode = "waiting" => alive \subseteq conned

\* With orderly clients no handler ever uses a deleted Socket or Room, or a
\* Login that is not there.
NoFault == mode # "undefined"

\* The two sides of the link between a Room and its Sockets agree, and only
\* allocated objects take part in it.
MembersLinked ==
    /\ \A r \in Rooms : \A s \in mem[r] : s \in alive /\ rm[s] = r /\ bot[r] # s
    /\ \A r \in Rooms : bot[r] # NULL => bot[r] \in alive /\ rm[bot[r]] = r
    /\ \A s \in alive : rm[s] # NULL =>
          /\ rm[s] \in rooms
          /\ s \in mem[rm[s]] \/ bot[rm[s]] = s

\* A room other than the lobby exists exactly as long as it has a bot, and
\* the lobby, which the server never closes, has neither bot nor members.
RoomsHosted ==
    /\ rooms = {Lobby} \cup {r \in Rooms : bot[r] # NULL}
    /\ bot[Lobby] = NULL
    /\ \A r \in Rooms : mem[r] # {} => bot[r] # NULL

\* The watcher the timer writes to is the bot of the watchtower: it is
\* unregistered in the very step that deletes its Socket.
WatcherIsBot == watcher # NULL => bot[Watchtower] = watcher

\* With orderly clients the pointers do what Presence promises: the Socket
\* objects are the connections, their room pointers the places, the bots the
\* hosts.
P == INSTANCE Presence WITH Conns <- Sockets, online <- alive, place <- rm, host <- bot

ImplementsPresence == P!Spec

\* What makes the properties above inductive.  While a Socket is processed
\* it is the only one that may have hung up; a deleted Socket holds nothing.
CurAlive ==
    /\ mode \in {"reading", "dropping"} => cur \in alive /\ alive \ {cur} \subseteq conned
    /\ mode = "exited" => alive = {}

DeletedHoldNothing == \A s \in Sockets \ alive : rm[s] = NULL

TrackInv == TypeOK /\ UsersTracked /\ IdleConnected /\ CurAlive

Linked == MembersLinked /\ RoomsHosted /\ WatcherIsBot /\ DeletedHoldNothing

LinkInv == NoFault /\ Linked

-----------------------------------------------------------------------------
(* What comments of the code say and the code does not do.                 *)

\* room.h: "A room object tracks all of the sockets currently connected to a
\* chat room."  login for the lobby resets the pointer of the Socket and
\* leaves it in the list of the room it was in; when it hangs up then, it is
\* deleted and still there.
RoomsTrackConnected == \A r \in Rooms : mem[r] \subseteq alive
=============================================================================
