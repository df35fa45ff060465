------------------------------ MODULE Storage ------------------------------
(***************************************************************************)
(* What the server keeps in its database, and by which calls: the pool of  *)
(* database handles, the transaction open on each, the allocation of       *)
(* object ids, and the list of pending events, under every handler that    *)
(* grabs a handle, and over crashes and restarts of the process.           *)
(*                                                                         *)
(* A handler takes the last free handle, and what it calls takes the one   *)
(* below.  Handlers with one commit are one step; the two that allocate    *)
(* ids, each in a transaction of its own, are a step for each, and the     *)
(* process may die between them.                                           *)
(*                                                                         *)
(* The database keeps what is committed and serves every query; a query    *)
(* fails only for what it says.                                            *)
(***************************************************************************)
EXTENDS Naturals, FiniteSets, SequencesExt

CONSTANTS
    DB_CONNS,   \* handles in the pool
    MaxId,      \* bound: the ids handed out
    MaxDates    \* bound: the dates of one new-event message

ASSUME Bounds ==
    /\ DB_CONNS \in Nat \ {0}
    /\ MaxId \in Nat
    /\ MaxDates \in Nat \ {0}

VARIABLES
    pc,       \* where the process is
    free,     \* free_dbs: the free handles, the next one to go last
    begun,    \* handle -> its begun flag
    tx,       \* handle -> rows its open transaction has inserted
    db,       \* rows committed
    counter,  \* the next_guid committed in the row of the Cache; 0: no such row
    next,     \* the next_guid in memory
    cached,   \* ids of the objects in obj_id_map
    events,   \* the Server's list of pending events, by id
    held,     \* the handle of the handler between two of its steps, or 0
    want,     \* objects that handler still has to allocate
    mine      \* ids it has allocated

\* What clients were told, and what became of the handles.
VARIABLES
    made,        \* ids handed out, ever
    answered,    \* events accepted, ever
    accepted,    \* events accepted by this process
    over,        \* events started, dropped or cancelled, ever
    cancelled,   \* events cancelled in this process
    refused,     \* objects of a handler that answered with an error
    registered,  \* players whose registration was accepted
    lost         \* handles no handler will ever get again

memory  == <<begun, tx, next, cached, events, held, want, mine>>
history == <<made, answered, accepted, over, cancelled, refused, registered, lost>>
vars    == <<pc, free, db, counter, memory, history>>

Handles == 1..DB_CONNS
Ids     == 1..MaxId
Types   == {"Event", "Player", "Details", "Login"}
Row(t, i) == [type |-> t, id |-> i]
Rows    == {Row(t, i) : t \in Types, i \in Ids}

Working == {"new-event", "register"}   \* between two steps of that handler
Up      == {"loaded", "idle"} \cup Working
Down    == {"down", "out"}             \* "out": grab found no handle

TypeOK ==
    /\ pc \in Up \cup Down
    /\ free \in Seq(Handles)
    /\ begun \in [Handles -> BOOLEAN]
    /\ tx \in [Handles -> SUBSET Rows]
    /\ db \subseteq Rows
    /\ counter \in 0..MaxId + 1
    /\ next \in 1..MaxId + 1
    /\ cached \subseteq Ids
    /\ events \in Seq(Ids)
    /\ held \in Handles \cup {0}
    /\ want \in Nat
    /\ mine \in Seq(Ids)
    /\ made \subseteq Ids
    /\ answered \subseteq Ids
    /\ accepted \subseteq answered
    /\ over \subseteq Ids
    /\ cancelled \subseteq over
    /\ refused \subseteq Ids
    /\ registered \subseteq Ids
    /\ lost \subseteq Handles

NoTx == /\ begun = [h \in Handles |-> FALSE]
        /\ tx = [h \in Handles |-> {}]

Init ==
    /\ pc = "down"
    /\ free = <<>>
    /\ NoTx
    /\ db = {}
    /\ counter = 0
    /\ next = 1
    /\ cached = {}
    /\ events = <<>>
    /\ held = 0
    /\ want = 0
    /\ mine = <<>>
    /\ made = {}
    /\ answered = {}
    /\ accepted = {}
    /\ over = {}
    /\ cancelled = {}
    /\ refused = {}
    /\ registered = {}
    /\ lost = {}

-----------------------------------------------------------------------------
(* Handles and transactions.                                               *)

Top    == Last(free)
Second == Last(Front(free))

Idle(n) == pc = "idle" /\ Len(free) >= n

\* Mutant: the COMMIT of a transaction the database has given up.
Commit_Lost(h, rows) ==
    /\ tx' = [tx EXCEPT ![h] = {}]
    /\ begun' = [begun EXCEPT ![h] = FALSE]
    /\ UNCHANGED db

\* begin, the insertion of some rows, and commit on handle h.  BEGIN in an
\* open transaction is a warning: what that one has inserted is committed too.
Commit(h, rows) ==
    /\ db' = db \cup tx[h] \cup rows
    /\ tx' = [tx EXCEPT ![h] = {}]
    /\ begun' = [begun EXCEPT ![h] = FALSE]

\* Mutant: the transaction stays as it is.
Rollback_None(h) == UNCHANGED <<tx, begun, db>>

\* begin and rollback: what an open transaction has inserted goes too.
Rollback(h) ==
    /\ tx' = [tx EXCEPT ![h] = {}]
    /\ begun' = [begun EXCEPT ![h] = FALSE]
    /\ UNCHANGED db

\* Mutant: the path forgets the handle.
release_None(h) == free

release(h) == Append(free, h)

\* The end of a handler that held a handle.
Released ==
    /\ free' = release(held)
    /\ held' = 0
    /\ want' = 0
    /\ mine' = <<>>
    /\ pc' = "idle"

-----------------------------------------------------------------------------
(* The list of pending events.                                             *)

\* addEvents puts e in front of every listed event whose time is after the
\* date of e, and goes on; if there is none, at the end.  Nothing sets the
\* time of an event: any event may count as later.
addEvent(list, e, later) ==
    IF ToSet(list) \cap later = {} THEN Append(list, e)
    ELSE FlattenSeq([k \in DOMAIN list |->
            IF list[k] \in later THEN <<e, list[k]>> ELSE <<list[k]>>])

\* addEvents for the ids es in turn, with one such set for each of them.
addEvents(list, es, laters) ==
    LET added[k \in 0..Len(es)] ==
            IF k = 0 THEN list ELSE addEvent(added[k - 1], es[k], laters[k])
    IN  added[Len(es)]

\* Mutant: only the first copy is removed.
removeEvent_First(list, e) == RemoveFirst(list, e)

\* All copies of e are removed.
removeEvent(list, e) ==
    FlattenSeq([k \in DOMAIN list |-> IF list[k] = e THEN <<>> ELSE <<list[k]>>])

-----------------------------------------------------------------------------
(* The Cache.                                                              *)

\* Cache::find of an object in memory; any other has to be loaded.
Found(i) == i \in cached

\* Cache::create: the next_guid a process starts with.  The first one makes
\* the row of the Cache.
create == IF counter = 0 THEN 1 ELSE counter

\* Mutant: the new next_guid is saved when the server stops.
saved_Late(n) == counter

\* What Cache::next leaves in the database: it saves the Cache.
saved(n) == n

\* And what Cache::fini leaves there.
fini == next

-----------------------------------------------------------------------------
(* new-event and register.                                                 *)

\* The handler grabs its handle and begins.
Start(handler, n) ==
    /\ Idle(2)
    /\ next + n - 1 <= MaxId
    /\ pc' = handler
    /\ held' = Top
    /\ free' = Front(free)
    /\ begun' = [begun EXCEPT ![Top] = TRUE]
    /\ want' = n
    /\ UNCHANGED <<tx, db, counter, next, cached, events, mine, history>>

NewEvent == \E n \in 1..MaxDates : Start("new-event", n)

Register == Start("register", 2)

\* The handler has objects left to allocate.
More == want > 0

\* alloc: Cache::next on a second handle, a transaction of its own; then the
\* row, in the transaction of the handler.
Alloc ==
    /\ pc \in Working
    /\ More
    /\ LET type == IF pc = "new-event" THEN "Event"
                   ELSE IF mine = <<>> THEN "Player" ELSE "Details"
       IN tx' = [tx EXCEPT ![Top] = {}, ![held] = @ \cup {Row(type, next)}]
    /\ db' = db \cup tx[Top]
    /\ begun' = [begun EXCEPT ![Top] = FALSE]
    /\ next' = next + 1
    /\ counter' = saved(next + 1)
    /\ made' = made \cup {next}
    /\ cached' = cached \cup {next}
    /\ mine' = Append(mine, next)
    /\ want' = want - 1
    /\ UNCHANGED <<pc, free, events, held, answered, accepted, over, cancelled,
                   refused, registered, lost>>

\* The database refuses the text of the message: when the first event is
\* saved, or when the player, its details or its login are.
MaySayNo ==
    \/ pc = "new-event" /\ Len(mine) = 1
    \/ pc = "register" /\ want = 0

Refuse ==
    /\ MaySayNo
    /\ Rollback(held)
    /\ Released
    /\ refused' = refused \cup ToSet(mine)
    /\ UNCHANGED <<counter, next, cached, events, made, answered, accepted, over,
                   cancelled, registered, lost>>

\* Mutant: saveEvents does not commit.
saveEvents_Open(h) ==
    /\ begun' = [begun EXCEPT ![h] = TRUE]
    /\ UNCHANGED <<tx, db>>

\* saveEvents, on handle h: the rows it updates are there or not.
saveEvents(h) == Commit(h, {})

\* new-event ends: the list, saveEvents on the second handle, and the first
\* one goes back with its transaction open.
FinishEvent ==
    /\ pc = "new-event"
    /\ want = 0
    /\ \E laters \in [DOMAIN mine -> SUBSET (ToSet(events) \cup ToSet(mine))] :
          events' = addEvents(events, mine, laters)
    /\ saveEvents(Top)
    /\ Released
    /\ answered' = answered \cup ToSet(mine)
    /\ accepted' = accepted \cup ToSet(mine)
    /\ UNCHANGED <<counter, next, cached, made, over, cancelled, refused,
                   registered, lost>>

\* register ends: the row of the login, and a commit.
FinishRegister ==
    /\ pc = "register"
    /\ want = 0
    /\ Commit(held, {Row("Login", mine[1])})
    /\ Released
    /\ registered' = registered \cup {mine[1]}
    /\ UNCHANGED <<counter, next, cached, events, made, answered, accepted, over,
                   cancelled, refused, lost>>

-----------------------------------------------------------------------------
(* Handlers with one transaction on the last free handle.                  *)

Elsewhere == UNCHANGED <<pc, free, counter, next, cached, held, want, mine, made,
                         answered, accepted, refused, registered>>

\* login with a wrong name or password, register with a name that is taken.
LoginRefused ==
    /\ Idle(1)
    /\ Rollback(Top)
    /\ Elsewhere
    /\ UNCHANGED <<events, over, cancelled, lost>>

\* login, and setavatar: of a player that is in the Cache, or, to a room that
\* does not exist, of one that Cache::find could not load.
Login ==
    /\ Idle(1)
    /\ registered # {}
    /\ (\A p \in registered : ~Found(p)) => Len(free) >= 2
    /\ Commit(Top, {})
    /\ Elsewhere
    /\ UNCHANGED <<events, over, cancelled, lost>>

\* setdetails does not begin: query and commit do nothing unless the handle
\* came back with a transaction open.
SetDetails ==
    /\ Idle(1)
    /\ \E p \in registered : Found(p)
    /\ IF begun[Top] THEN Commit(Top, {}) ELSE UNCHANGED <<tx, begun, db>>
    /\ Elsewhere
    /\ UNCHANGED <<events, over, cancelled, lost>>

\* start-event, for an object in the Cache: the handle is not released.
StartEvent ==
    /\ Commit(Top, {})
    /\ free' = Front(free)
    /\ lost' = lost \cup {Top}
    /\ UNCHANGED <<pc, counter, next, cached, held, want, mine, made, answered,
                   accepted, cancelled, refused, registered>>

\* startEvents takes the first event of the list and starts it,
StartDue ==
    /\ Idle(1)
    /\ events # <<>>
    /\ StartEvent
    /\ events' = Tail(events)
    /\ over' = over \cup {Head(events)}

\* or drops it as stale.
DropStale ==
    /\ pc = "idle"
    /\ events # <<>>
    /\ events' = Tail(events)
    /\ over' = over \cup {Head(events)}
    /\ Elsewhere
    /\ UNCHANGED <<tx, begun, db, cancelled, lost>>

\* start-event as the message of a bot.
StartAgain ==
    /\ Idle(1)
    /\ \E i \in Ids : Found(i)
    /\ StartEvent
    /\ UNCHANGED <<events, over>>

\* cancel-event: a commit of nothing, with saveEvents on the second handle.
CancelEvent(e) ==
    /\ Idle(2)
    /\ Found(e)
    /\ events' = removeEvent(events, e)
    /\ db' = db \cup tx[Top] \cup tx[Second]
    /\ tx' = [tx EXCEPT ![Top] = {}, ![Second] = {}]
    /\ begun' = [begun EXCEPT ![Top] = FALSE, ![Second] = FALSE]
    /\ over' = over \cup {e}
    /\ cancelled' = cancelled \cup {e}
    /\ Elsewhere
    /\ UNCHANGED lost

-----------------------------------------------------------------------------
(* The end of the process, and the next one.                               *)

Gone(end) ==
    /\ pc' = end
    /\ free' = <<>>
    /\ begun' = [h \in Handles |-> FALSE]
    /\ tx' = [h \in Handles |-> {}]
    /\ cached' = {}
    /\ events' = <<>>
    /\ held' = 0
    /\ want' = 0
    /\ mine' = <<>>
    /\ accepted' = {}
    /\ cancelled' = {}
    /\ lost' = {}
    /\ UNCHANGED <<next, made, answered, over, refused, registered>>

\* A signal stops the server, between two handlers or inside one: quithandler
\* runs Server::~Server there and then, which saves the events and the Cache on
\* the last free handle.  What the handler has begun is rolled back.
Shutdown ==
    /\ pc \in Up /\ Len(free) >= 1
    /\ db' = db \cup tx[Top]
    /\ counter' = fini
    /\ Gone("down")

\* The process dies: killed, or of a NULL it read, as when a message names an
\* event or a login a player that Object::load does not load.
Crash ==
    /\ pc \in Up
    /\ Gone("down")
    /\ UNCHANGED <<db, counter>>

\* A handler, the timer or the destructor finds no free handle: exit(1).
OutOfHandles ==
    /\ pc = "idle"
    /\ Len(free) < 2
    /\ Gone("out")
    /\ UNCHANGED <<db, counter>>

Stored == {i \in Ids : Row("Event", i) \in db}

\* The Pool has all its handles, the Cache its next_guid, and Server::init
\* loads every event in the database, in the order the query yields.
Boot ==
    /\ pc \in Down
    /\ pc' = "loaded"
    /\ free' = [h \in Handles |-> h]
    /\ next' = create
    /\ counter' = next'
    /\ cached' = Stored
    /\ events' \in {s \in [1..Cardinality(Stored) -> Stored] : ToSet(s) = Stored}
    /\ UNCHANGED <<begun, tx, db, held, want, mine, history>>

Serve ==
    /\ pc = "loaded"
    /\ pc' = "idle"
    /\ UNCHANGED <<free, db, counter, memory, history>>

Next ==
    \/ Boot \/ Serve \/ Shutdown \/ Crash \/ OutOfHandles
    \/ NewEvent \/ Register \/ Alloc \/ Refuse \/ FinishEvent \/ FinishRegister
    \/ LoginRefused \/ Login \/ SetDetails
    \/ StartDue \/ DropStale \/ StartAgain
    \/ \E e \in Ids : CancelEvent(e)

Spec == Init /\ [][Next]_vars

-----------------------------------------------------------------------------
(* Properties.                                                             *)

\* An id is handed out once, whenever the process dies: the counter a new
\* process reads is above every id handed out before.
IdsFresh == \A i \in made : i < counter

\* No path of a handler but start-event's loses or duplicates a handle: each
\* is free, held by the one handler at work, or lost to start-event.
HandlesKept ==
    pc \in Up =>
        /\ IsInjective(free)
        /\ ToSet(free) = Handles \ (lost \cup {held})
        /\ held \notin lost

\* Between two handlers a transaction may be open, but only on the handle the
\* next one gets: nested calls always find a handle without one.
OpenOnTop ==
    \A h \in Handles : begun[h] \/ tx[h] # {} =>
        h = IF held # 0 THEN held ELSE Top

\* What a client was told was refused never gets to the database, whatever
\* other handlers commit.
RefusedGone == \A r \in db : r.id \notin refused

\* A registration that was accepted is in the database, all of it, for good.
RegisteredStored ==
    \A p \in registered :
        /\ {Row("Player", p), Row("Login", p)} \subseteq db
        /\ Row("Details", p + 1) \in db

\* While the process lives an event it accepted stays in the list until it is
\* started, dropped or cancelled, and a cancelled one is not in it, however
\* many copies addEvents has put there.
PendingListed ==
    /\ accepted \ over \subseteq ToSet(events)
    /\ cancelled \cap ToSet(events) = {}

\* The list is right, and every variable has its type.
ListOK == TypeOK /\ PendingListed

-----------------------------------------------------------------------------
(* What comments of the code say and the code does not do.                 *)

\* server.cc: "Load the pending events from the server."
PendingLoaded == pc = "loaded" => ToSet(events) = answered \ over

\* database.cc: the pool doles handles out "locking any thread that attempts
\* to grab a handle when they're all allocated".
NeverOut == pc # "out"
=============================================================================
