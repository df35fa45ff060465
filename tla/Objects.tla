------------------------------- MODULE Objects -------------------------------
(***************************************************************************)
(* Several processes on one database ("there are multiple frontends"):     *)
(* servers, and dbtool run beside them.  Each has a Cache of its own, read *)
(* when it starts from the row of the cache id it was given and saved with *)
(* every id it hands out; two processes may have been given the same one.  *)
(*                                                                         *)
(* The table has one row for an id, with the type it was made for and the  *)
(* text that was saved last, which names the class of the object it was    *)
(* saved from.  An insertion waits for another transaction that has        *)
(* inserted the same id, and fails if it commits.                          *)
(*                                                                         *)
(* A process here is one of Storage with one handle for its handlers and   *)
(* one for what they call.  A dbtool does what a server does when it       *)
(* registers, with the type it is told, and when it stops; it has no list. *)
(***************************************************************************)
EXTENDS Naturals, FiniteSets

CONSTANTS
    Procs,     \* the processes
    Spaces,    \* cache ids: each is the base of a range of 2^48 object ids
    NULL,
    MaxId      \* bound: ids handed out of one range

ASSUME Nobody == NULL \notin Procs
ASSUME Bound == MaxId \in Nat

Types == {"Event", "Player"}
Ids   == Spaces \X (1..MaxId)

VARIABLES
    space,     \* process -> its cache id; never changes
    tools,     \* the processes that are dbtools; never changes
    counter,   \* cache id -> the next_guid in the row of that Cache; 0: no row
    rows,      \* id -> its row
    pc,        \* process -> where it is
    next,      \* process -> the next_guid in its memory
    id,        \* process -> the id its handler has allocated
    want,      \* process -> the type it is for
    tx,        \* process -> rows inserted in its open transaction, by id
    cache,     \* process -> the classes of the objects in its obj_id_map
    list       \* process -> its pending events

\* What clients were told.
VARIABLES
    registered,  \* ids of players whose registration was accepted, and by whom
    turned       \* processes that had an id refused, or to wait for one

proc    == <<pc, next, id, want, tx, cache, list>>
history == <<registered, turned>>
given   == <<space, tools>>
vars    == <<given, counter, rows, proc, history>>

NoRow == [type |-> "none", text |-> "none", by |-> NULL]
Row   == [type : Types, text : Types, by : Procs]

TypeOK ==
    /\ space \in [Procs -> Spaces]
    /\ tools \subseteq Procs
    /\ counter \in [Spaces -> 0..MaxId + 1]
    /\ rows \in [Ids -> Row \cup {NoRow}]
    /\ pc \in [Procs -> {"down", "creating", "up", "alloc", "insert", "taken"}]
    /\ next \in [Procs -> 1..MaxId + 1]
    /\ id \in [Procs -> Ids \cup {NULL}]
    /\ want \in [Procs -> Types]
    /\ tx \in [Procs -> SUBSET (Ids \X Types)]
    /\ cache \in [Procs -> [Ids -> Types \cup {"none"}]]
    /\ list \in [Procs -> SUBSET Ids]
    /\ registered \subseteq Ids \X Procs
    /\ turned \subseteq Procs

Init ==
    /\ space \in [Procs -> Spaces]
    /\ tools \in SUBSET Procs
    /\ counter = [s \in Spaces |-> 0]
    /\ rows = [i \in Ids |-> NoRow]
    /\ pc = [p \in Procs |-> "down"]
    /\ next = [p \in Procs |-> 1]
    /\ id = [p \in Procs |-> NULL]
    /\ want = [p \in Procs |-> "Event"]
    /\ tx = [p \in Procs |-> {}]
    /\ cache = [p \in Procs |-> [i \in Ids |-> "none"]]
    /\ list = [p \in Procs |-> {}]
    /\ registered = {}
    /\ turned = {}

Stored == {i \in Ids : rows[i] # NoRow}

-----------------------------------------------------------------------------
(* The functions of database.sql.                                          *)

\* Another process has inserted i and not committed.
Locked(p, i) == \E q \in Procs \ {p} : \E t \in Types : <<i, t>> \in tx[q]

\* Mutant: new_object replaces a row that is there.
taken_Never(i) == FALSE

\* The primary key.
taken(i) == i \in Stored

\* The rows of p's open transaction.
Inserted(p) ==
    [i \in Ids |-> IF \E t \in Types : <<i, t>> \in tx[p]
                   THEN LET t == CHOOSE t \in Types : <<i, t>> \in tx[p]
                        IN [type |-> t, text |-> t, by |-> p]
                   ELSE rows[i]]

\* save_object for every event in S: the text changes, whatever the type.
saveEvents(table, S) ==
    [i \in Ids |-> IF i \in S /\ table[i] # NoRow
                   THEN [table[i] EXCEPT !.text = "Event"] ELSE table[i]]

-----------------------------------------------------------------------------
(* A process starts, and stops.                                            *)

\* loadEvents: every row made for an event, whoever made it.
loadEvents(p) ==
    IF p \in tools THEN {} ELSE {i \in Stored : rows[i].type = "Event"}

Load(p) ==
    /\ list' = [list EXCEPT ![p] = loadEvents(p)]
    /\ cache' = [cache EXCEPT ![p] =
                    [i \in Ids |-> IF i \in loadEvents(p) THEN "Event" ELSE "none"]]

\* Cache::create finds the row of the Cache,
Boot(p) ==
    /\ pc[p] = "down"
    /\ counter[space[p]] # 0
    /\ pc' = [pc EXCEPT ![p] = "up"]
    /\ next' = [next EXCEPT ![p] = counter[space[p]]]
    /\ Load(p)
    /\ UNCHANGED <<given, counter, rows, id, want, tx, history>>

\* or does not, and makes one,
Create(p) ==
    /\ pc[p] = "down"
    /\ counter[space[p]] = 0
    /\ pc' = [pc EXCEPT ![p] = "creating"]
    /\ UNCHANGED <<given, counter, rows, next, id, want, tx, cache, list, history>>

Created(p) ==
    /\ pc[p] = "creating"
    /\ counter[space[p]] = 0
    /\ counter' = [counter EXCEPT ![space[p]] = 1]
    /\ next' = [next EXCEPT ![p] = 1]
    /\ pc' = [pc EXCEPT ![p] = "up"]
    /\ Load(p)
    /\ UNCHANGED <<given, rows, id, want, tx, history>>

\* unless another process has done so in the meantime: exit(1).
NotCreated(p) ==
    /\ pc[p] = "creating"
    /\ counter[space[p]] # 0
    /\ pc' = [pc EXCEPT ![p] = "down"]
    /\ UNCHANGED <<given, counter, rows, next, id, want, tx, cache, list, history>>

Gone(p) ==
    /\ pc' = [pc EXCEPT ![p] = "down"]
    /\ id' = [id EXCEPT ![p] = NULL]
    /\ tx' = [tx EXCEPT ![p] = {}]
    /\ cache' = [cache EXCEPT ![p] = [i \in Ids |-> "none"]]
    /\ list' = [list EXCEPT ![p] = {}]
    /\ UNCHANGED <<given, next, want, history>>

Crash(p) ==
    /\ pc[p] \notin {"down", "creating"}
    /\ Gone(p)
    /\ UNCHANGED <<counter, rows>>

\* saveEvents, and then Cache::fini saves the next_guid this process has,
\* whatever another one has saved since: dbtool does so after a mere find.
Stop(p) ==
    /\ pc[p] = "up"
    /\ rows' = saveEvents(Inserted(p), list[p])
    /\ counter' = [counter EXCEPT ![space[p]] = next[p]]
    /\ Gone(p)

-----------------------------------------------------------------------------
(* The handlers.                                                           *)

\* Mutant: next_guid starts at 1 in every range.
NewId_Base(p) == <<CHOOSE s \in Spaces : TRUE, next[p]>>

NewId(p) == <<space[p], next[p]>>

\* Mutant: the Cache is saved when the process stops.
saved_Late(p) == counter

saved(p) == [counter EXCEPT ![space[p]] = next[p] + 1]

\* new-event and register: Cache::next, a transaction of its own.
Alloc(p, type) ==
    /\ pc[p] = "up"
    /\ next[p] <= MaxId
    /\ p \in tools => type = "Player"
    /\ id' = [id EXCEPT ![p] = NewId(p)]
    /\ want' = [want EXCEPT ![p] = type]
    /\ next' = [next EXCEPT ![p] = @ + 1]
    /\ counter' = saved(p)
    /\ pc' = [pc EXCEPT ![p] = "alloc"]
    /\ UNCHANGED <<given, rows, tx, cache, list, history>>

\* new_object, in the transaction of the handler: the server waits,
Waits(p) ==
    /\ pc[p] = "alloc"
    /\ Locked(p, id[p])
    /\ turned' = turned \cup {p}
    /\ UNCHANGED <<given, counter, rows, proc, registered>>

\* the id is taken: create returns 0, which the Cache does not keep,
Taken(p) ==
    /\ pc[p] = "alloc"
    /\ ~Locked(p, id[p])
    /\ taken(id[p])
    /\ turned' = turned \cup {p}
    /\ pc' = [pc EXCEPT ![p] = "taken"]
    /\ UNCHANGED <<given, counter, rows, next, id, want, tx, cache, list, registered>>

\* or the object is there.
Insert(p) ==
    /\ pc[p] = "alloc"
    /\ ~Locked(p, id[p])
    /\ ~taken(id[p])
    /\ tx' = [tx EXCEPT ![p] = @ \cup {<<id[p], want[p]>>}]
    /\ cache' = [cache EXCEPT ![p][id[p]] = want[p]]
    /\ pc' = [pc EXCEPT ![p] = "insert"]
    /\ UNCHANGED <<given, counter, rows, next, id, want, list, history>>

\* The object is not saved, the insertion having failed or its text being
\* refused: rollback.  So does a login that is refused.
Refuse(p) ==
    /\ pc[p] \in {"taken", "insert", "up"}
    /\ tx' = [tx EXCEPT ![p] = {}]
    /\ id' = [id EXCEPT ![p] = NULL]
    /\ pc' = [pc EXCEPT ![p] = "up"]
    /\ UNCHANGED <<given, counter, rows, next, want, cache, list, history>>

\* new-event lists the event and saves the list, on a second handle; its own
\* transaction stays open.
FinishEvent(p) ==
    /\ pc[p] = "insert"
    /\ want[p] = "Event"
    /\ list' = [list EXCEPT ![p] = @ \cup {id[p]}]
    /\ rows' = saveEvents(rows, list'[p])
    /\ id' = [id EXCEPT ![p] = NULL]
    /\ pc' = [pc EXCEPT ![p] = "up"]
    /\ UNCHANGED <<given, counter, next, want, tx, cache, history>>

\* register commits.
FinishRegister(p) ==
    /\ pc[p] = "insert"
    /\ want[p] = "Player"
    /\ rows' = Inserted(p)
    /\ tx' = [tx EXCEPT ![p] = {}]
    /\ registered' = registered \cup {<<id[p], p>>}
    /\ id' = [id EXCEPT ![p] = NULL]
    /\ pc' = [pc EXCEPT ![p] = "up"]
    /\ UNCHANGED <<given, counter, next, want, cache, list, turned>>

\* setavatar of a player registered here, and login: save_object, commit.
SetAvatar(p, i) ==
    /\ pc[p] = "up" /\ p \notin tools
    /\ cache[p][i] = "Player" /\ <<i, p>> \in registered
    /\ rows' = [Inserted(p) EXCEPT ![i].text = "Player"]
    /\ tx' = [tx EXCEPT ![p] = {}]
    /\ UNCHANGED <<given, counter, pc, next, id, want, cache, list, history>>

\* cancel-event of an event in the list: commit, and saveEvents.
CancelEvent(p, i) ==
    /\ pc[p] = "up"
    /\ i \in list[p]
    /\ list' = [list EXCEPT ![p] = @ \ {i}]
    /\ rows' = saveEvents(Inserted(p), list'[p])
    /\ tx' = [tx EXCEPT ![p] = {}]
    /\ UNCHANGED <<given, counter, pc, next, id, want, cache, history>>

Next ==
    \E p \in Procs :
        \/ Boot(p) \/ Create(p) \/ Created(p) \/ NotCreated(p) \/ Crash(p) \/ Stop(p)
        \/ \E t \in Types : Alloc(p, t)
        \/ Waits(p) \/ Taken(p) \/ Insert(p) \/ Refuse(p)
        \/ FinishEvent(p) \/ FinishRegister(p)
        \/ \E i \in Ids : SetAvatar(p, i) \/ CancelEvent(p, i)

Spec == Init /\ [][Next]_vars

-----------------------------------------------------------------------------
(* Properties.                                                             *)

Shared == \E p, q \in Procs : p # q /\ space[p] = space[q]

\* A player that was registered keeps its row, whatever the other processes
\* do, also those with the same cache id.
OneOwner ==
    \A r \in registered : rows[r[1]].type = "Player" /\ rows[r[1]].by = r[2]

\* Processes with cache ids of their own never get in each other's way: none
\* has an id refused or waits for one, however often they die and start.
Separate == turned # {} => Shared

\* And none of them saves an object over another's.
Intact == ~Shared => \A i \in Stored : rows[i].text = rows[i].type

\* No row is overwritten, and every variable has its type.
RowsOK == TypeOK /\ Intact

\* Every event that is stored can be loaded, by every process, also by those
\* with the same cache id: loadEvents puts no NULL into the list.
EventsLoad == \A i \in Stored : rows[i].type = "Event" => rows[i].text = "Event"
=============================================================================
