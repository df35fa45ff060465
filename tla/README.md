# ConnServer: a TLA+ verification project

ConnServer is a chat and game-lobby server: players log in over TCP, sit in the
lobby or in a room, and talk to the other members; a *bot* (a program on a
connection of its own) hosts each room; a *watcher* bot is told when scheduled
events are due. One process serves everybody with one thread; a parent process
forks it again when it dies.

This directory holds specifications of the server, their TLC configurations, and
TLAPS proofs. Every definition is read from the source; `PROJECT.json` maps each
one to its lines.

    tlc -config MCSessionsOrderly.cfg MCSessions     # any run, from this directory
    tlapm SessionsProof.tla                          # the proofs

## 1. The system

| Component | Source | State it keeps | Operations |
|---|---|---|---|
| Supervisor | `main.cc` | three flags set by signals, the child's pid | fork, wait, refork, end |
| Event loop | `server.cc` (`serve`, `process`) | pong and reload flags, the alarm | wait, accept, read, drop, tick |
| Pool | `pool.cc` | watched descriptors, their count, the ready list | add, remove, wait, flush |
| Socket | `socket.cc` | descriptor, `conned`, its `Login*`, its `Room*` | open, in, out, read_msg, disconnect, finalize |
| Room | `room.cc` | member list, bot | add, remove, add_bot, remove_bot, broadcast, announce |
| UserMap | `user_map.cc` | list of `Login*` | add, remove, find, sockets, users |
| Server | `server.cc` | rooms by name, the lobby, the watcher, the event list | addRoom, removeRoom, broadcast, imessage, startEvents, the destructor |
| Message handlers | `modules/*.cc` | none | login, register, chat, alert, online, who, bot-login, bot-send, bot-disconnect, disconnect, register-watcher, new-event, ... |
| Message | `message.cc` | a key/value map | parse, build, check |
| DBPool, Database | `database.cc` | free handles; `begun` in each | grab, release, begin, query, commit, rollback |
| Cache, Object | `cache.cc`, `object.cc` | objects by id, the next id | find, next, save, load |
| Data classes | `event.cc`, `details.cc`, `cs.cc`, `player.cc`, `login.cc` | fields; a row of text in the database | init, tos |
| Registry | `module.cc`, `dir.cc` | message name -> handler, libraries tried | load, check, associate, find |
| Installed libraries | `modules/Makefile`, `modules/build.sh` | files named after source and version | install, clean_install |
| dbtool | `dbtool/dbtool.cc` | a Cache of its own | add, find |
| Others | `s2s.cc`, `modules/pymod.cc`, `interp.cc`, `env.cc`, scripts | | see section 9 |

How they interact. `serve` waits in the Pool, accepts on the listener's report,
and hands any other reported Socket to `process`, which reads messages and calls
the handler the Registry has for each. A handler that returns false, or the end
of the stream, makes `serve` call `Socket::disconnect`, which itself calls the
`bot-disconnect` or the `disconnect` handler, takes the Socket out of the UserMap
and its Room, and deletes it. Every ten seconds an alarm sets a flag; the loop
then flushes the Pool, sends `pong` to every user, and sends due events to the
watcher. All links between these objects are raw pointers. Several servers, and
`dbtool`, may share one database; each hands out object ids from the range of the
cache id it is given. A SIGHUP makes a server load the libraries it has not tried
yet, which are installed while it runs.

What is hard here:

- *stale pointers*: a Socket is named by its Room, the UserMap, the Pool, the
  batch being served and possibly the watcher, and is deleted in one place; a Room
  is named by its members, its bot, the map of rooms and `instance->lobby`;
- *orders of messages nobody tests*: a second login, a room that closes while
  members talk, a bot that takes over a room, a hangup behind buffered messages;
- *edge-triggered reports*: what is not read when it is reported is not reported
  again;
- *one thread for all*: it reads a connection until nothing is left, so a client that
  sends faster than it reads, or stops inside a message, keeps it from the others;
- *signals*: flags set in a handler and read much later, waits that are resumed;
- *partial failure*: database handles and transactions on the error paths, writes
  that take a part or nothing, libraries found half copied;
- *other processes*: two Caches with one id, rows saved by whoever has the object;
- *restarts*: what was only in memory is gone, what was in the database is not.

What makes each part correct:

- *sessions*: no handler uses a deleted object; both ends of every link agree; a
  room lives exactly as long as its bot, and empties into the lobby when it closes;
- *event loop and Pool*: no report of input is lost, no batch holds a deleted Socket,
  the count is right, the timer survives, and nobody starves but behind a client that
  the thread never gets to the end of;
- *supervisor*: a dead server is replaced, none outlives a parent that ended on
  request, a request is not forgotten;
- *storage*: every handle comes back, with no transaction another handler might
  take for its own; ids are handed out once; what was refused is never stored, what
  was registered is; the list of events has what was accepted and nothing cancelled;
- *framing and output*: messages are handled in order, whole, and one at a time,
  however their bytes arrive; a peer that keeps up gets each message once and
  whole, one that does not read does not keep the server;
- *objects and records*: processes with ids of their own never meet; what was saved
  loads again, as it was;
- *registry*: a reload only goes forward, the newest library serves, no Module is
  deleted while something points to it.

## 2. The modules

| Module | Models | Built on |
|---|---|---|
| `Sessions` | Socket, Login, Room, UserMap, watcher, and all message handlers, as a state machine on pointers | instantiates `Presence` |
| `Presence` | what the server promises about who is where, without pointers | |
| `EventLoop` | `serve`, `process`, Pool, accept, and the kernel and clients around them | |
| `Supervisor` | `main()`: the parent, its signals, its child | |
| `Registry` | the libraries of one server over installs and reloads | |
| `Upgrade` | the two together: the child that `main()` forks is the process that loads | extends `Supervisor`, instantiates `Registry` |
| `Storage` | DBPool, transactions, the Cache and its ids, the event list, under the handlers that use them, in one process | |
| `Objects` | the same rows and ids under several processes, `dbtool` among them | |
| `Records` | one object of a data class and its text in the database, over saves and loads | |
| `Framing` | `Socket::in`, `read_msg`, `Message::parse` on the bytes of one connection | |
| `Output` | `Socket::out` and the calls through it, against slow, stopped and gone peers | |
| `SessionsProof`, `EventLoopProof`, `UpgradeProof`, `StorageProof`, `ObjectsProof`, `OutputProof`, `FramingProof`, `RecordsProof` | theorems | the modules of these names |
| `MCSessions`, `MCEventLoop`, `MCUpgrade`, `MCStorage`, `MCObjects`, `MCRecords`, `MCFraming`, `MCOutput` | small instances for TLC | |

The modules meet at their edges. `Sessions` takes from `EventLoop` that a Socket
in `process` is watched and not yet deleted (`BatchWatched`), and gives it that a
flush at the pong finds nothing (`IdleConnected`). `Supervisor`'s child is the
process `Sessions` restarts in `Respawn`, `Storage` in `Boot` and `Registry` in
`Start`. `Storage`'s `out` (no handle left) is `Abort` in `Sessions`. `EventLoop`
counts messages and half messages; `Framing` says what is in them. That a send never
fails, which `Sessions` takes for its replies, is `AlwaysSent` in `Output`, proved.
Every process of `Objects` is one of `Storage` with two handles; that the events of
its list can be loaded is what `Storage` takes for granted in `Boot`, and
`EventsLoad` in `Objects` with `RecordOK` in `Records` say so.

*The interface of the handlers.* `Sessions` and `Storage` take a handler at
`Module::process(Socket*, Message&)`, with a Message that has the fields the handler
reads. `Framing` shows that such a Message does not come off the wire as
`Message::build` prints it: `Socket::in` turns every newline into a terminator, so each
line is parsed by itself, and a handler called from `Server::process` has the one field
`msg`. Handlers that need no other field (`online`, `who`, `bot-disconnect`,
`disconnect`, `register-watcher`, `ping`) are reached that way, those behind
`LOGIN_CHECK` by a bot such as the watcher; `start-event` is also called by
`startEvents`, with a Message built in memory. What `Sessions` and `Storage` establish
holds for any handler call with any fields, so for these too; it is stated for the
handlers as they are written, which is what they will do when the framing delivers their
fields. Events can also be put in the database by hand: `loadEvents` takes all it finds.

### Sessions

State and code: `alive` is the set of allocated Socket objects, by address, and
an address is reused after its object is deleted; `conned`, `log`, `rm` are the
fields of a Socket (`log` as the player of the Login it points to); `mem` and
`bot` the fields of a Room, by room name; `rooms` the names for which `rooms[]`
holds a Room; `users` the UserMap; `watcher` the Server's field; `cur` and `mode`
say which Socket `serve` is processing and where it is.

A pointer to a Room that was deleted has the value `Freed`: following it is
undefined, and so is reading a Socket that is not in `alive`, or a NULL Login. A
step that would do so goes to mode `"undefined"`, from which only a new process
follows. `Room::isMember` compares the searched pointer with `*end()` when it is
not in the list; `PastEnd` holds the outcomes of that comparison (`FALSE` is what
the libstdc++ of the time yields with an empty or short list; `MCSessionsAny.cfg`
and `MCSessionsOrderly.cfg` allow both).

One handler is one step: the server has one thread, and a handler runs to its end
without waiting for anything but writes. A message is decoded: each action is a
message kind with the fields its control depends on. All handlers are taken as
registered. Every reply ends the same way, `return c->send(m)`, which is true
exactly while `conned` is set, since the error branch of `Socket::out` compares a
`size_t` with 0 and is never taken.

Accounts: `Players` is the set of players that registered with this process, whose
objects are in its Cache; a login refused by the database or the password is the
action `Answer`. A player of an earlier process is another matter: `Player::tos`
writes what `Object::parse` does not read, so `Cache::find` yields NULL and keeps a
dangling pointer. That, and a message that names an event that does not exist, is
`MayMisname`. `Abort` is `DBPool::grab` without a free handle.

*Orderly conduct.* `Sessions` has two readings, by the constant `Orderly`. With
`FALSE` every message may follow every other. Then pointers do dangle (section 7),
and the runs establish what holds all the same. With `TRUE` clients keep to what
the game's clients and bots do: a player enters a room from the lobby and leaves
it by hanging up; a bot hosts one room, not a reserved one and not one that
exists; the watcher is a bot of the watchtower and leaves by hanging up; a bot
with no Login asks nothing about its player; nobody asks for `online` while two
users are; a player gives a first and a last name when it registers and when it
changes them (`getdetails` reads the second part of a split that may have one);
messages name players and events the process has. The operators `FromLobby`,
`MayHost`, `MayWatch`, `MayClose`, `MayAskOnline`, `MayReadLogin`, `MayOmitName` and
`MayMisname` state this, one guard each, so that a reader sees what the server
relies on and does not check. Interleavings, hangups at any point and restarts stay
unrestricted.

### Presence

The promise: a connection is offline, in the lobby, or at a place; a place is
open while one connection hosts it; when its host closes it, or hangs up, all its
guests are in the lobby in the same step. `Sessions` implements it under the
mapping `Conns <- Sockets, online <- alive, place <- rm, host <- bot`.

### EventLoop

The thread is a program counter `pc`: the top of the loop, the wait, the batch of
reported descriptors, reading one connection, dropping it. The kernel's queue of
connections, the bytes of each connection (counted in whole messages, plus "the
beginning of a message is behind them") and epoll's ready list are variables of their
own, changed by arrivals, sends and hangups at any time. `Spin` is the read loop behind
an unfinished message: it turns without waiting, and calls the handler of the last
message again (`stale`). A connection number is a descriptor and is used again after it
is closed. `Open` takes one connection off the queue; `OpenFails` is the `accept` that
returns an error, after which the connection is still queued. In the code `Socket::in`
reads all there is before a message is handled, in the model messages arrive while
others are handled; either way the thread stays on a connection as long as something is
left. Three variables are chosen in `Init` and never change: `epoll`, the build
(edge-triggered reports, or kqueue's); `maxfds`, the Pool's limit; `whole`, whether
clients may pause inside a message.

### Supervisor

`parent` is the position in `main()`, `child` the state of the process `cpid`
names. `signal()` installs restarting handlers in both builds, so `waitpid`
returns only when the child is dead: `WaitReturns` needs `child = "dead"`.
Operators signal the parent alone (the `CS` script) or, from a terminal, parent
and child together: `Term` and `Int` do either.

### Registry and Upgrade

`files` is the module directory, a name being a source file of `modules/` and a
version; `Remove`, `Install`, `Copy` and `Installed` are `make clean_install` and
`make install` file by file, and a file can be found half copied, or gone by the time
it is opened. `mods` is the map from messages to Modules, one message standing for
all those of a library, `libraries` the list `check` looks at, `alive` what has been
allocated, `timer` the static pointer of `startEvents`. `load` runs over the names
in the order of `Directory::files`, a map of strings: `Before` compares two versions
digit by digit, so 10 comes before 9.

In `Upgrade` the child of `Supervisor` loads when it boots, before it serves, and
again when a SIGHUP of its own reaches it; it may die between any two libraries, and
everything but the directory dies with it. A SIGHUP to the parent reaches no server
(`Check`).

### Storage

`free` is `free_dbs`, a sequence whose last element goes next; `begun` and `tx` are a
handle's flag and the rows its open transaction on the server has inserted; `db` the
rows committed; `counter` and `next` the `next_guid` in the database and in memory;
`cached` and `events` the Cache's and the Server's containers. A handler with a
single commit is one step. `new-event` and `register` allocate ids, each in a
transaction of its own on a second handle while the handler's own is open: they are
a step per allocation (`Alloc`), and the process may die between any two. The
variables from `made` to `lost` are history: what clients were told and what became
of the handles. They constrain no step.

`new-event` returns its handle with the transaction open, and the next handler gets
exactly that one; `setdetails` never begins, so its commit does something only on
such a handle; `start-event` does not return its handle. All three are in the model
as they are in the code, and the properties say what holds in their presence.

A signal may end the process inside a handler, at any point between two of its
steps: `Shutdown` then saves the list of events and the Cache on a free handle, as
`~Server` does.

Nothing sets the `time` of an Event, so what `addEvents` and `startEvents` compare
with it is a free choice every time. The database refuses a message's text where the
handler looks (`MaySayNo`) and otherwise does what it is asked.

### Objects

Each process has a Cache read when it starts (`counter` has the `next_guid` in the
row of each cache id, `next` the one in its memory), the objects of its `obj_id_map`
by class, its list of events, and the rows of its open transaction. The processes
get their cache ids in `Init`, two of them possibly the same, and any of them may be
a `dbtool`. An insertion waits while another transaction has inserted the same id
(`Waits`) and fails if that one commits (`Taken`). `Stop` writes back the `next_guid`
the process has, also if it never allocated anything. The order of the steps is
the code's: the counter is saved before the row is inserted, the row is committed
by the handler, `saveEvents` saves every event of the list over whatever row has its
id. `Stop`, what a SIGTERM leads to, comes between two handlers here; inside one, it is
`Shutdown` in `Storage`.

### Records

The only module in which text matters: it is a sequence of tokens, a token being the
name of a field or class, or one character. `tos` and `init` of each class are operators
of their own; fields that are alike have one representative. The conversions are the
code's arithmetic: `int_of_string` has no sign and wraps, an id is printed unsigned and
read signed; `Half` numbers are negative, which is 2^31 for the ints of a class and 2^63
for its ids (no class has both). The `time` of an Event is a `time_t`, which may be
wider: nothing sets it, so a new object has any of `Times` there, and `tos` passes it to
a function that takes an int, so the row has what is left of it modulo 2 * `Half`
(`Wrap` in `Event_tos`); what is loaded from there is an int. A loop over a string is a
function on the positions in it, so that it can be proved about. `Write` is a handler
that sets a field and saves, `SaveAgain` a save of what is there (`saveEvents`,
`dbtool`), `End` and `Load` the next process.

### Output

`written` is the `size_t` of `Socket::out`, of `Width` values: `Fail` adds the wrapped
-1 to it. `used` is what the kernel holds for each peer; a write takes from one byte
to all there is room for, or fails. Peers read, stop reading or leave at any time.
`todo` is the rest of a broadcast's list; `log` has what became of each call: how far
it got, whether bytes were written twice, whether a write failed, and what its caller
was told. The terminator's write is not looked at, in the code or here, so its loss
counts as a failed write. The kernel delivers what it took in order, so what arrives
is determined by the positions written.

### Framing

The client's messages are sequences of lines, printed as `build` and `out` print them;
of a line the model has its first byte, the rest, and the newline, which is what it
takes for a read to end inside a line and for the one byte `read_msg` drops. `coming` is
the byte that arrives next, at any pace, and `after` the one behind it; `unread` is what
has arrived and has not been read; `s` and `m` are the buffer and the Message of
`Server::process`. That a message names its handler in one line at most is because a
Message is a map (`Printed`). A message counts as handled when the line that names its
handler has reached it; its other lines are not in the Message the handler gets, which
section 2 says under *The interface of the handlers*. A `Turn` is one round of its loop.
`parse` has `find_key` and `find_value`, whose errors leave the Message as it was, and
the handler is then called with it again. `calls` lists the Messages handlers got.

## 3. Runs

| Run | Module, cfg | Shows |
|---|---|---|
| `sessions_orderly` | `MCSessions`, `MCSessionsOrderly.cfg` | no fault, both ends of each link agree, a room lives as long as its bot, `Presence` is implemented, with orderly clients |
| `sessions_any` | `MCSessionsAny.cfg` | UserMap and wait set are right whatever is sent |
| `rooms_track` | `MCSessionsRooms.cfg` | a Socket stays in the list of a room it left (section 7) |
| `eventloop` | `MCEventLoop`, `MCEventLoop.cfg` | counts, batches and reports, with split messages; while clients leave the thread time, pongs, reads and hangups are served in both builds and with kqueue every connection is accepted |
| `upgrade` | `MCUpgrade`, `MCUpgrade.cfg` | reforks, no orphan, requests honoured once the child dies; reloads go forward, the timer's Module stays, a library found half copied is opened by a later server |
| `storage` | `MCStorage`, `MCStorage.cfg` | ids, handles, transactions and the event list over handlers, crashes, signals and restarts |
| `storage_handles` | `MCStorageNeverOut.cfg` | a process that ends for want of a handle (section 7) |
| `storage_pending` | `MCStoragePendingLoaded.cfg` | an accepted event the next process does not have (section 7) |
| `objects` | `MCObjects`, `MCObjects.cfg` | processes with cache ids of their own never meet; with the same one, what survives |
| `records` | `MCRecords`, `MCRecords.cfg` | what is saved loads, and stays what it was, for every class |
| `framing` | `MCFraming`, `MCFraming.cfg` | order, no mixture, and the bound on what is lost, however reads are split |
| `output` | `MCOutput`, `MCOutput.cfg` | no byte skipped, a message whole and once for who keeps up, no peer holds the thread |

Where `PoolOK`, `UpgradeOK`, `ListOK`, `RowsOK`, `RecordOK` or `FramingOK` is checked,
it is the module's `TypeOK` together with one invariant, named in its definition.
Two properties of the sessions follow from the ones listed: that a closing room
empties into the lobby, and that no one else's message takes a member out, are what
`ImplementsPresence` says of the pointers and `MembersLinked` carries over to the
lists. `WatcherIsBot`, like the types and `AlwaysSent` of `Output`, is proved.

What holds when two processes have the *same* cache id is less than one would like,
and is stated as such: a registered player keeps its row (`OneOwner`), since the
database refuses the second insertion, and stored events load (`EventsLoad`). Ids are
handed out twice, insertions fail, and a row can be saved with the text of another
object of its class. `Separate` and `RowsOK` are about processes with ids of their own.

Every property of a passing run has a mutant in `PROJECT.json`: an operator in the
module, next to the one it stands in for, with a bug a programmer could make
there. Putting it in makes TLC find the property violated.

## 4. Bounds

- `sessions_orderly`: 3 sockets, 2 players, 2 rooms beside the lobby and the
  watchtower. Three sockets are a bot, a member, and one more that joins, hosts the
  second room or watches; two rooms let a handler touch the wrong one.
- `sessions_any`: 2 sockets, 3 rooms, 2 players (a million and a half states; three
  sockets are beyond a short run). Two suffice for a Socket and what another one's
  handler does to it.
- `eventloop`: 2 connections, and a Pool of 1 to 3 descriptors
  with the listener, so that it refuses every connection, one of the two, or none;
  backlog 2, so that one report can stand for two connections. `MaxMsgs`, 2, bounds what
  a connection has sent and no handler has had, so that one message can be behind
  another; how many it sends in all is not bounded, nor how often it connects again.
- `upgrade`: one library, the timer's (libraries do not share messages), in versions
  9 to 11, the number of digits changing between the first two, and two versions of
  two digits for `NewestServed`. `Supervisor` is finite without bounds.
- `storage`: 4 handles (`DB_CONNS` is 20), so that three events can be started
  before the handlers that need two find too few; 4 ids, which is two registrations,
  or one and a `new-event` of two dates; at most 2 dates. Ids are the only unbounded
  counter: a handler does not start if its ids would pass `MaxId`. The two violation
  runs have 3 handles and 3 ids.
- `objects`: 2 processes and 2 cache ids, so that they may share one or not, each of
  them a server or a `dbtool`; 2 ids in a range, one to collide on and one after it.
- `records`: strings with every character that means something to the format, `%`
  and plain ones; integers of one and two digits, negative, and the largest of five
  bits (`Half` 16), whose arithmetic wraps as that of 32 and 64 bits does; times that
  fit in them, and times that do not, cut down to a positive number, a negative one
  and 0.
- `output`: 2 connections, messages of 1 to 3 bytes, room for 2 in the kernel, so that
  a message does not fit and one that does may leave no room for its terminator; a
  `size_t` of 8 values, of which a message never uses more than 4; 2 calls of `out`,
  the second starting with what the first left in the kernel.
- `framing`: 2 messages of 1 to 3 lines out of 7 kinds (`SmallMessages`): the line
  with the handler first and last, lines that are no field on either side of it, a
  message without a handler. What one message leaves behind in the buffer can meet
  only the next.

Deadlock is checked except in `framing`, where the connection ends, `upgrade`, where
the parent does, and `output`, where no more messages come.

## 5. Fairness

`EventLoop`: weak fairness of the thread as a whole - it is one thread and is
never blocked for good, its waits having a timeout - and of the alarm, which the
kernel delivers once it is armed. Under this fairness alone nobody but the client at
hand is sure to be served: `Socket::in` reads until nothing is left (`socket.cc:58`) and
`process` calls it again (`server.cc:96`), so a client that never stops sending keeps the
thread, and one that stops inside a message does too (`Spin`). The code has no defence
there, and the hazard list says so. The liveness properties are therefore stated for
`Considerate` clients, which is two premises: `whole`, no client pauses inside a
message, and `Yields`, a client that the thread never leaves stops sending some time.
Nothing else is assumed of clients. They may all send forever, as long as the thread gets
to the end of what each has sent now and then, or never send at all. Each premise is
needed: without either of them TLC refutes the three properties. `KqueueAccepts` has one
more, that `accept` does not fail again and again.

`Upgrade`: weak fairness of the parent, which is scheduled. Of the server nothing is
assumed: that it dies, or comes up, is a premise of the properties that need it
(`HonouredOnceChildDies`, `OpenedAfterRestart`).

`Output`: weak fairness of the thread. Nothing is assumed of peers. `OutReturns` is
about a peer that has stopped reading or is gone; against one that reads a byte
whenever the loop has gone back one, `out` may turn forever, so nothing is promised
there.

The other modules have safety properties only.

## 6. Proofs

For any sets of sockets, rooms and players (`SessionsProof`), any
connections, backlog and limit of the Pool (`EventLoopProof`), any libraries, in
versions of up to three digits (`UpgradeProof`), any number of handles, ids and dates
(`StorageProof`), any number of processes, cache ids and ids in a range
(`ObjectsProof`), any clients, length of messages, buffers and width of `size_t`
(`OutputProof`), any conversation (`FramingProof`), and any texts and numbers in an
object's fields (`RecordsProof`). Every invariant a passing run checks is a theorem.

*Whatever clients send.* `TrackInv == TypeOK /\ UsersTracked /\ IdleConnected /\
CurAlive` is inductive (`TrackStep`). `UsersTracked` and `IdleConnected` are not
so by themselves: that `Disconnect` removes the entry of the Socket it deletes
needs to know that the Socket is allocated, and that a wait begins with connected
Sockets needs to know that only the one being processed may have hung up; both are
`CurAlive`. From it: `TypeCorrect`, `UserMapTracks`, `IdleAreConnected`.

*With orderly clients.* `LinkInv == NoFault /\ Linked`, where `Linked` joins
`MembersLinked`, `RoomsHosted`, `WatcherIsBot` and `DeletedHoldNothing`, is
inductive given `TrackInv` (`LinkStep`). No conjunct is inductive alone: a room can
be deleted without leaving a stale pointer because its members and its bot are the
only Sockets pointing to it (`MembersLinked`), a Room that loses its last member
stays because it has a bot (`RoomsHosted`), a step faults nowhere because the
objects it follows are linked (`LinkedIsSafe`). The lemmas `CloseRoomClean` and
`LeaveRoomClean` say what the two ways out of a room do to the pointers. From it:
`NeverFaults`, `MembersAreLinked`, `RoomsAreHosted`, `WatcherIsTheBot`.

*Refinement.* `PresenceIsImplemented`: initial states map to initial states, and
`PresenceStep` maps each action to the action of `Presence` it is, or to a
stutter, one lemma per kind (`CloseIsClose`, `LeaveIsLeave`, `OpenIsOpen`,
`LoginIsJoin`). `AlwaysHosted` says what `Presence` is good for - nobody is at a place
without its host, and a host is at its place - and `NobodyIsLeft` what that means for
the pointers, through the refinement.

*Event loop.* `IInv` of `EventLoopProof`. `PoolCounts`, `BatchWatched` and
`NoInputLost` need where the loop is and what it holds then (`LoopOK`: no batch is
left when it waits, and it has a connection at hand exactly while it reads or drops
one), and that what is accepted was queued, once, and not watched (`QueueOK`).
`AcceptHasWork` needs more than it says: a report of the listener that waits in the
kernel, beside one in the batch, must have a queued connection of its own
(`ListenerOK`), because the first `Open` takes only one. From it: `PoolIsRight`,
`BatchIsWatched`, `InputIsNotLost`, `AcceptNeverSpins`.

*Upgrade.* `PartsAreImplemented`: the composition implements `Supervisor`'s `Spec`
and `Registry`'s, each step of it being a step or a stutter of either (`PartsStep`);
the death of the child is `Registry`'s crash. What is inductive has a half for each.
`SupervisorInv`: the parent forks, looks at its flags and ends only when its child is
reaped; so `UpgradeIsOrderly`. `RegistryInv` is about time: nothing has a version
above the one being installed (`VersionsOK`), so what came after the directory was
read is newer than what was read (`LaterIsNewer`), and of what is still to be tried
each is newer than the handler there was, and than what was tried before it with as
many digits, which is what the order of strings is good for (`InOrder`). The Modules
in the map and the timer's are allocated because nothing is deleted while the process
lives (`HandlersOK`). From it: `ReloadsGoForward`, `NewestIsServed`, `TimerStaysValid`.

*Storage.* Four layers, each inductive given the ones before it. `PoolInv`: the
types the rest needs, `HandlesKept`, and `Opened`, which says of the one handle that
may have a transaction open that it exists; a nested call finds its handle clean
because `Opened` puts the open one on the handler's own. From it: `HandlesAreKept`,
`OnlyTopIsOpen`. `Fresh`: `IdsFresh`, and that a living process and the database
agree on the counter, without which the next id might not be new. From it:
`IdsAreFresh`. `DataInv`: what is in any transaction was handed out (`Known`), what
was refused is in none (`Clean`), and what `register` has written so far is in its
own (`Registering`). A later handler's commit cannot store what was refused because
a new id is never a refused one (`Fresh`). From it: `RefusedIsGone`,
`RegisteredIsStored`. `ListInv`: `PendingListed`, and that a handler at work has no
id that is over, which again is `Fresh`: what `new-event` puts in the list was not
cancelled before. What `addEvents` and `removeEvent` do to a list of any length is an
induction over it (`Flattened`, `AddedOne`, `AddedAll`, `Removed`); it rests on two
lemmas, that a set of numbers that is closed under the next one has them all (`UpTo`,
from the library's `WFMin`) and that a recursive function has a value (`Recursive`).
From it: `ListStaysRight`, which is `ListOK` with its `TypeOK`.

*Objects.* `IInv` of `ObjectsProof` is inductive as a whole. Whether or not cache
ids are shared, what an open transaction has inserted is not stored, and no other
has it (`InsertionsOK`): a second insertion waits, and fails. So a commit adds rows
where there were none, and what was there keeps its class (`CommitKeeps`); that is
`OwnersKeepTheirRows` and `EventsCanBeLoaded`. With cache ids of their own
(`ApartInv`) the counter in the database is the `next_guid` of the one process that
has the range, and above every id stored (`RangesOK`), and what a process lists is an
event or its own and not stored yet (`ListsOK`): so `saveEvents` writes over no
one else's row. From it: `ProcessesAreSeparate`, `RowsStayRight`.

*Output.* `NoGap` says that inside the loop `written` is at most what the kernel has
taken: a write moves both, a failure takes one off `written`, or, at 0, leaves the
loop, because the largest `size_t` is not below the length (`Sizes`). That is where
the assumption that a message is shorter than the address space is used. A call that
has not failed has `written = high` and has repeated nothing; it leaves the loop only
at the end of the message, which is `KeptUpIsWhole`. `AlwaysSent` follows from the
loop's own condition: what `send` compares is the negation of it.

*Framing.* `IInv` of `FramingProof` says that what has arrived and is in no message
yet, `Buffer` with `coming` behind it, is a piece of the stream (`WireOK`): messages
come in order, between bytes of two lines there is a terminator, and what is in front
of a byte of a line is the line's or was thrown away. It stays one when a byte arrives
(`WireGrows`) and when `read_msg` cuts a message off (`WireCut`). So the text up to the
first terminator has bytes of one line (`OneLine`), `parse` finds the field of that
line or none (`ParseIs`), and a handler gets no mixture. Order needs that no call is
for a message behind what is in the buffer (`CallsOK`), and that the Message which is
handled again was the last one handled (`LastCalled`). That nothing else is lost is
`NotLost`: of each line that names a handler the end is still to be found (`Ahead`), or
it was handled, or has lost its first byte; when all is read there is no end left to
find. From it: `MessagesAreNotMixed`, `MessagesAreInOrder`, `NothingElseIsLost`.

*Records.* That a string comes back is a fact about `escape_tick`, `split` and `parse`
on top of each other; `RecordInv` turns it into one about any number of rounds. It says
that the row is the text of some object that *prints* like the one that was set last
(`RowOf`, `Same`), which may differ from it - a string may have lost what is behind its
`':'`, a quote may be `%27` by now - and, after a load, that the object has what is kept
(`Kept`). Neither suffices alone: a second save starts from the object that was loaded,
so its row is not the one the handler wrote, and only because escaping and cutting at
the first `':'` commute (`FirstOfEscaped`) and do nothing the second time (`EscapedOnce`,
`KeptOnce`) is it the same text. The rest are the conversions, for strings of any
length: `EscapedConcat` (each string is escaped for itself), `PartsOfBoth` (a text is
cut where it was joined), `KeyAndValue` and `ParseIs` (of distinct keys each gets what
is in its own line up to the next `':'`), and for numbers of any width `DigitsComeBack`
and `NumberShown` (what was printed without a sign and is read with wrapping is equal
modulo what the machine can count, so it is the same number). A `Player` is refused
because no newline ends its first line, and what is behind the first `':'` is the class
and the name of a field (`PlayerLost`). The lemmas on loops rest on `OnSequences`, a set
that has the empty sequence and with each sequence those one longer, and `RunExists`, that
a loop has a run. From it: `RecordsLoad`, `TextsStay`, `NumbersStay`.

Assumptions: the `ASSUME`s of the modules - the reserved names of rooms differ,
pointers, descriptors and processes are not NULL, `isMember` may answer FALSE past the
end, the Pool has room for the listener, there is at least one handle, the timer has
a library and versions have at most three digits, a client's message has a line at
least and its key `msg` once, a message is shorter than the address space, a string a
client puts in a field has no newline (`Socket::in` ends a message at each one) - and,
where stated, `Orderly`; `AlwaysHosted` assumes that NULL is the name of no connection
(`NullIsNoName`).

Only model-checked: the liveness properties - `PongsGoOn`, `InputServed` and
`KqueueAccepts` of the event loop, `ReforkIfDies`, `HonouredOnceChildDies` and
`OpenedAfterRestart` of `Upgrade`, `OutReturns` of `Output` - since the proof system does
not handle fairness. The library's induction theorems cannot be used, their parameter
being an operator; induction here goes through sets, of numbers (`UpTo`, `Below`,
`LeastNatural`) or of sequences (`OnSequences`), and so reaches the recursive functions
of `Storage` and `Records` one at a time.

## 7. Where the code and its comments differ

- `room.h:7`: "tracks all of the sockets currently connected to a chat room". A
  second login, for the lobby, leaves the Socket in the list of its old room, also
  after it is deleted (`rooms_track`).
- `database.cc:231`: the pool "doles them out locking any thread that attempts to
  grab a handle when they're all allocated". `grab` calls `exit(1)` instead, and
  `start-event` loses a handle each time (`storage_handles`).
- `server.cc:31`: "Load the pending events from the server." Events that were
  accepted may never have been committed (`storage_pending`).

The comments that are too general to be refuted are not listed. What is behind them:
with epoll one connection is accepted per report of the listener, and a second one
waits for the next client (`KqueueAccepts` holds for kqueue only); each line of a
message of several lines is handled as a message of its own (`Framing`); a send that
failed is never reported as one (`AlwaysSent`); a HUP to the parent, `main.cc:90`,
reaches no server (`Check` of `Supervisor`), where one to the server itself does.

What the comments of `main.cc` say of TERM, QUIT and INT is checked in the form the
code supports, once the child is dead (`HonouredOnceChildDies`).

## 8. Plan

Done: all modules of section 2 and the proofs of section 6. Left, the most important
first:

1. That `Objects` with one process implements the ids of `Storage`.
2. A termination signal inside a handler of `Sessions`, for the handlers that change
   links in more than one place.

## 9. Not modelled, and why

- A termination signal *inside* a handler that changes links (`server.cc:313`):
  `Sessions` and `Objects` take it between two handlers; `Storage` between any two of
  the steps it splits a handler into, not inside one.
- What replies contain: wording and layout.
- `s2s.cc`: no object of the class is ever created.
- `modules/pymod.cc`, `interp.cc`: argument conversion for embedded Python.
- `administrators.cc`: made and read by `dbtool` only; `login.cc`'s text is never
  saved.
- How the database reads a backslash in a literal: an old PostgreSQL takes it for an
  escape, and `Object::save` does not double it.
- Cache ids whose ranges overlap without being equal: `src/CS` hands out multiples of
  2^48, and nothing in `cache.cc` checks that.
- A database that stops answering, or a connection to it that breaks.
- `env.cc` (getenv), and of `util.cc` what only replies use.
- `cstool`, `bot.py`: clients, which the models leave free; `CS`, `dbinit.sh`: start
  scripts.
- Descriptors a process runs out of (`dir.cc:17` loses one per reload).
- `modules/.svn`: a version-control copy of older modules.
